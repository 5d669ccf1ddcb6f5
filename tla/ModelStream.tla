----------------------------- MODULE ModelStream -----------------------------
(***************************************************************************)
(* One answer of a model, from the events on the wire to the turn that the *)
(* agent commits: the three adapters (providers/anthropic.rs,              *)
(* openai/chat_completions.rs, openai/responses.rs) name the call an input *)
(* fragment belongs to, TurnAccumulator (gestalt-core/src/turn.rs) joins   *)
(* the fragments, and run_turn proposes and commits the calls.             *)
(*                                                                         *)
(* The provider is external: it begins calls with distinct ids, sends the  *)
(* fragments of one call in order, those of several interleaved, and may   *)
(* cut the message at its output limit.  Text and thinking are left out:   *)
(* they are appended as they arrive.                                       *)
(***************************************************************************)
EXTENDS Subsequences

CONSTANTS CallNames,      \* ids a provider may give to calls
          MaxFragments,   \* bound: fragments of one input
          MaxStreamCalls  \* bound: calls of one message

ASSUME ModelStreamAssumption == MaxFragments \in Nat /\ MaxStreamCalls \in Nat

Formats == {"anthropic", "chat", "responses"}

VARIABLES
  format,     \* the adapter
  message,    \* what the provider has begun: [id, size, sent] per call
  messageEnd, \* "open", "whole", or "cut" at the output limit
  callOfKey,  \* adapter: wire index or item id -> call id
  inputs,     \* pending_tool_calls: call id -> fragments
  callOrder,  \* tool_call_order
  proposals,  \* ToolCallProposed events, in order
  stopReason,
  answer,     \* "streaming", "committed" or "failed"
  turnCalls   \* tool_calls of the committed turn

streamVars == <<format, message, messageEnd, callOfKey, inputs, callOrder, proposals,
                stopReason, answer, turnCalls>>

\* The wire key of a call is its place in the message.
Fragments(b) == [k \in 1..message[b].size |-> <<b, k>>]

\* Some whole JSON object: only all fragments of one call make one.
Parses(input) == input # <<>> /\ \E b \in DOMAIN message : input = Fragments(b)

Proposal(id, input) == [id |-> id, input |-> input]

StreamInit ==
  /\ format \in Formats
  /\ message = <<>> /\ messageEnd = "open"
  /\ callOfKey = <<>> /\ inputs = <<>>
  /\ callOrder = <<>> /\ proposals = <<>>
  /\ stopReason = "EndTurn" /\ answer = "streaming" /\ turnCalls = <<>>

(***************************************************************************)
(* TurnAccumulator::push: records the fragment, and proposes the call as   *)
(* soon as its input parses.                                               *)
(***************************************************************************)
Accumulate(id, fragment) ==
  LET known == IF id \in DOMAIN inputs THEN inputs[id] ELSE <<>>
      input == known \o fragment IN
  /\ inputs' = [i \in DOMAIN inputs \cup {id} |-> IF i = id THEN input ELSE inputs[i]]
  /\ callOrder' = IF id \in DOMAIN inputs THEN callOrder ELSE Append(callOrder, id)
  /\ proposals' = IF Parses(input) /\ \A p \in DOMAIN proposals : proposals[p].id # id
                    THEN Append(proposals, Proposal(id, input)) ELSE proposals

\* Mutant: the fragment is given to the call that began last.
NewestCall(b) == callOfKey[Len(message)]

\* The call that the adapter gives a fragment to.
CallOf(b) == callOfKey[b]

(***************************************************************************)
(* content_block_start, the first chunk of a tool call, output_item.added. *)
(* The Responses adapter only stores the call, and its provider sends at   *)
(* least one fragment for every call.                                      *)
(***************************************************************************)
CallBegins(id, size) ==
  /\ answer = "streaming" /\ messageEnd = "open"
  /\ Len(message) < MaxStreamCalls
  /\ \A b \in DOMAIN message : message[b].id # id
  /\ format = "responses" => size > 0
  /\ message' = Append(message, [id |-> id, size |-> size, sent |-> 0])
  /\ callOfKey' = Append(callOfKey, id)
  /\ IF format = "responses" THEN UNCHANGED <<inputs, callOrder, proposals>> ELSE Accumulate(id, <<>>)
  /\ UNCHANGED <<format, messageEnd, stopReason, answer, turnCalls>>

\* input_json_delta, a later chunk, function_call_arguments.delta.
FragmentArrives(b) ==
  /\ answer = "streaming" /\ messageEnd = "open"
  /\ message[b].sent < message[b].size
  /\ message' = [message EXCEPT ![b].sent = @ + 1]
  /\ Accumulate(CallOf(b), <<<<b, message[b].sent + 1>>>>)
  /\ UNCHANGED <<format, messageEnd, callOfKey, stopReason, answer, turnCalls>>

(***************************************************************************)
(* The last events of a message.  Anthropic's message_delta names the      *)
(* limit and its message_stop then says EndTurn; run_turn keeps the last.  *)
(***************************************************************************)
MessageEnds(how) ==
  /\ answer = "streaming" /\ messageEnd = "open"
  /\ how = "whole" => \A b \in DOMAIN message : message[b].sent = message[b].size
  /\ messageEnd' = how
  /\ stopReason' = IF how = "cut" /\ format # "anthropic" THEN "MaxOutput"
                   ELSE IF format = "chat" /\ message # <<>> THEN "ToolUse" ELSE "EndTurn"
  /\ UNCHANGED <<format, message, callOfKey, inputs, callOrder, proposals, answer, turnCalls>>

\* A transport error, an error event, a chunk that is late, or a cancelled run.
StreamFails ==
  /\ answer = "streaming"
  /\ answer' = "failed"
  /\ UNCHANGED <<format, message, messageEnd, callOfKey, inputs, callOrder, proposals,
                 stopReason, turnCalls>>

\* TurnAccumulator::finish takes an empty input as {} and refuses one that does not parse.
Acceptable(input) == input = <<>> \/ Parses(input)

\* The stream is over: finish, commit the message, propose what was not proposed yet.
TurnFinishes ==
  /\ answer = "streaming" /\ messageEnd # "open"
  /\ IF \A id \in DOMAIN inputs : Acceptable(inputs[id])
       THEN LET calls == [n \in DOMAIN callOrder |-> Proposal(callOrder[n], inputs[callOrder[n]])]
                late(c) == \A p \in DOMAIN proposals : proposals[p].id # c.id IN
            /\ answer' = "committed"
            /\ turnCalls' = calls
            /\ proposals' = proposals \o Subsequence(calls, {n \in DOMAIN calls : late(calls[n])})
       ELSE answer' = "failed" /\ UNCHANGED <<turnCalls, proposals>>
  /\ UNCHANGED <<format, message, messageEnd, callOfKey, inputs, callOrder, stopReason>>

StreamNext ==
  \/ \E id \in CallNames, size \in 0..MaxFragments : CallBegins(id, size)
  \/ \E b \in DOMAIN message : FragmentArrives(b)
  \/ \E how \in {"whole", "cut"} : MessageEnds(how)
  \/ StreamFails
  \/ TurnFinishes

ModelStreamSpec == StreamInit /\ [][StreamNext]_streamVars

(***************************************************************************)
(* The calls the agent acts on are the calls the model made, although      *)
(* their fragments interleave and the adapters see them under other names: *)
(* a committed turn holds every call of a whole message, once and with     *)
(* exactly its input; of a message cut at the output limit it never holds  *)
(* a partial input; and a call is proposed once, with the input committed. *)
(* (A call cut before its first fragment is committed with the input {}.)  *)
(***************************************************************************)
CallsAreTheModels ==
  LET made == {Proposal(message[b].id, Fragments(b)) : b \in DOMAIN message}
      empty == {Proposal(message[b].id, <<>>) : b \in DOMAIN message}
      Elements(s) == {s[n] : n \in DOMAIN s} IN
  /\ answer = "committed" =>
       /\ Cardinality(Elements(turnCalls)) = Len(turnCalls)
       /\ messageEnd = "whole" => Elements(turnCalls) = made
       /\ messageEnd = "cut" => Elements(turnCalls) \subseteq made \cup empty
       /\ Elements(proposals) = Elements(turnCalls)
  /\ answer = "streaming" => Elements(proposals) \subseteq made
  /\ \A p, q \in DOMAIN proposals : proposals[p].id = proposals[q].id => p = q
=============================================================================
