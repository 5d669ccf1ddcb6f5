------------------------------- MODULE Requests -------------------------------
(***************************************************************************)
(* JSON-RPC calls over the pipes of a child process: the broker of process *)
(* extensions (crates/gestalt-runtime/src/process_extension.rs), with a    *)
(* task that writes and one that reads, and the stdio transport of MCP     *)
(* (crates/gestalt-runtime/src/mcp/transport/stdio.rs), one task for both. *)
(***************************************************************************)
EXTENDS Naturals, Sequences, FiniteSets

CONSTANTS
  Calls,        \* calls; each has a fresh request id
  NoWrite,      \* the writer has no request in hand
  MaxPending,   \* max_pending_requests
  MaxErrors,    \* max_protocol_errors
  MaxMisdeeds   \* bound: malformed or unasked messages of the process

ASSUME RequestsAssumption ==
  /\ MaxPending \in Nat \ {0} /\ MaxErrors \in Nat \ {0} /\ MaxMisdeeds \in Nat
  /\ NoWrite \notin Calls

Brokers == {"extension", "mcp"}

VARIABLES
  broker,     \* whose pipes these are
  calls,      \* what each caller knows
  channel,    \* the channel of the writer
  writing,    \* the request that is pending and not written yet
  pending,    \* pending_requests
  requests,   \* what the process has read and not answered
  stdout,     \* lines of the process: an answer to a call, well-formed or not
  child,      \* "running", or "gone"
  reader,     \* "reading", "draining", "killing" or "done"
  errors,     \* protocol_errors
  misdeeds    \* ghost: lines that were no answer to a request

requestVars == <<broker, calls, channel, writing, pending, requests, stdout, child,
                 reader, errors, misdeeds>>

RequestsInit ==
  /\ broker \in Brokers
  /\ calls = [c \in Calls |-> "idle"]
  /\ channel = <<>> /\ writing = NoWrite /\ pending = {} /\ requests = {}
  /\ stdout = <<>> /\ child = "running" /\ reader = "reading"
  /\ errors = 0 /\ misdeeds = 0

\* Callers that do not wait any more are not told.
Told(told, answer) ==
  calls' = [c \in Calls |-> IF c \in told /\ calls[c] = "waiting" THEN answer ELSE calls[c]]

Call(c) ==
  /\ calls[c] = "idle"
  /\ calls' = [calls EXCEPT ![c] = "waiting"]
  /\ channel' = Append(channel, c)
  /\ UNCHANGED <<broker, writing, pending, requests, stdout, child, reader, errors, misdeeds>>

\* The caller of an extension takes its request back, that of MCP leaves it.
Timeout(c) ==
  /\ calls[c] = "waiting"
  /\ calls' = [calls EXCEPT ![c] = "timed_out"]
  /\ pending' = IF broker = "extension" THEN pending \ {c} ELSE pending
  /\ UNCHANGED <<broker, channel, writing, requests, stdout, child, reader, errors, misdeeds>>

-----------------------------------------------------------------------------
(* The writer.  A request is pending before it is written. *)

\* A bug: the writer does not wait for the lock.
PendingLate(c) == pending

PendingWith(c) == pending \cup {c}

\* The MCP task gives up the line it was reading when a request comes first.
LineLost ==
  \/ UNCHANGED stdout
  \/ broker = "mcp" /\ stdout # <<>> /\ stdout' = Tail(stdout)

TakeRequest ==
  LET c == Head(channel) IN
  /\ channel # <<>> /\ writing = NoWrite
  /\ broker = "mcp" => reader = "reading"
  /\ channel' = Tail(channel)
  /\ IF broker = "extension" /\ Cardinality(pending) >= MaxPending
     THEN Told({c}, "error") /\ UNCHANGED <<writing, pending, stdout>>
     ELSE /\ writing' = c
          /\ pending' = PendingWith(c)
          /\ LineLost
          /\ UNCHANGED calls
  /\ UNCHANGED <<broker, requests, child, reader, errors, misdeeds>>

Write ==
  /\ writing # NoWrite /\ child = "running"
  /\ requests' = requests \cup {writing}
  /\ writing' = NoWrite
  /\ UNCHANGED <<broker, calls, channel, pending, stdout, child, reader, errors, misdeeds>>

WriteFails ==
  /\ writing # NoWrite /\ child = "gone"
  /\ writing' = NoWrite
  /\ pending' = pending \ {writing}
  /\ IF writing \in pending THEN Told({writing}, "error") ELSE UNCHANGED calls
  /\ UNCHANGED <<broker, channel, requests, stdout, child, reader, errors, misdeeds>>

-----------------------------------------------------------------------------
(* The process. *)

Reply(c) ==
  /\ child = "running" /\ c \in requests
  /\ requests' = requests \ {c}
  /\ stdout' = Append(stdout, [call |-> c, valid |-> TRUE])
  /\ UNCHANGED <<broker, calls, channel, writing, pending, child, reader, errors, misdeeds>>

\* A line that is no valid answer, with the id of a call or without.
Misbehave(c) ==
  /\ child = "running" /\ misdeeds < MaxMisdeeds
  /\ misdeeds' = misdeeds + 1
  /\ stdout' = Append(stdout, [call |-> c, valid |-> FALSE])
  /\ UNCHANGED <<broker, calls, channel, writing, pending, requests, child, reader, errors>>

\* It ends, or shutdown ends it.
Exit ==
  /\ child = "running"
  /\ child' = "gone"
  /\ UNCHANGED <<broker, calls, channel, writing, pending, requests, stdout, reader, errors,
                 misdeeds>>

-----------------------------------------------------------------------------
(* The reader. *)

\* A late answer finds no request and counts as a protocol error.
ReadLine ==
  LET line == Head(stdout)
      failed == ~line.valid \/ line.call \notin pending
      total == IF broker = "extension" /\ failed THEN errors + 1 ELSE errors
  IN /\ reader = "reading" /\ stdout # <<>>
     /\ broker = "mcp" => writing = NoWrite
     /\ stdout' = Tail(stdout)
     /\ errors' = total
     /\ reader' = IF total >= MaxErrors THEN "draining" ELSE reader
     /\ IF line.call \in pending /\ (line.valid \/ broker = "extension")
        THEN /\ pending' = pending \ {line.call}
             /\ Told({line.call}, IF line.valid THEN "ok" ELSE "error")
        ELSE UNCHANGED <<pending, calls>>
     /\ UNCHANGED <<broker, channel, writing, requests, child, misdeeds>>

EndOfFile ==
  /\ reader = "reading" /\ stdout = <<>> /\ child = "gone"
  /\ reader' = "draining"
  /\ UNCHANGED <<broker, calls, channel, writing, pending, requests, stdout, child, errors,
                 misdeeds>>

\* Everyone who waits for an answer is told; the writer of an extension goes on.
DrainPending ==
  /\ reader = "draining"
  /\ pending' = {} /\ Told(pending, "error")
  /\ reader' = "killing"
  /\ UNCHANGED <<broker, channel, writing, requests, stdout, child, errors, misdeeds>>

Kill ==
  /\ reader = "killing"
  /\ reader' = "done" /\ child' = "gone"
  /\ UNCHANGED <<broker, calls, channel, writing, pending, requests, stdout, errors, misdeeds>>

RequestsNext ==
  \/ \E c \in Calls : Call(c) \/ Timeout(c) \/ Reply(c) \/ Misbehave(c)
  \/ TakeRequest \/ Write \/ WriteFails
  \/ Exit \/ ReadLine \/ EndOfFile \/ DrainPending \/ Kill

RequestsSpec == RequestsInit /\ [][RequestsNext]_requestVars

-----------------------------------------------------------------------------
(* Properties. *)

TimedOut == {c \in Calls : calls[c] = "timed_out"}

\* A process extension that answers every request once, and writes nothing else, is
\* charged with no more protocol errors than calls have timed out: its answers are
\* expected from before the request is written, whatever the tasks do in between.
ErrorsAreEarned == misdeeds = 0 => errors <= Cardinality(TimedOut)
=============================================================================
