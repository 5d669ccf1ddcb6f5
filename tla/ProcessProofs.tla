----------------------------- MODULE ProcessProofs -----------------------------
(***************************************************************************)
(* Proofs about extensions, their processes, the resolution of models that *)
(* a configuration asks for, and the memory of a workspace: Requests for   *)
(* every number of calls and every limit, Extensions for every number of   *)
(* components, versions, runs, generations and launches, Activation for    *)
(* every configuration and whatever becomes of the manifests,              *)
(* ModelResolution for whatever two files say, however long their variants *)
(* inherit, Memory for every file, proposal and budget.                    *)
(***************************************************************************)
EXTENDS Requests, Extensions, Activation, ModelResolution, Memory, TLAPS,
        SequenceTheorems, FiniteSetTheorems, WellFoundedInduction

-----------------------------------------------------------------------------
(* Requests: the inductive invariant. *)

Answers == {"idle", "waiting", "ok", "error", "timed_out"}
Line == [call : Calls, valid : BOOLEAN]

RequestsType ==
  /\ broker \in Brokers
  /\ calls \in [Calls -> Answers]
  /\ channel \in Seq(Calls)
  /\ writing \in Calls \cup {NoWrite}
  /\ pending \subseteq Calls /\ requests \subseteq Calls
  /\ stdout \in Seq(Line)
  /\ errors \in Nat /\ misdeeds \in Nat

\* Where a request is, from the call to the reader.
Queued == {channel[i] : i \in DOMAIN channel}
Answered == {stdout[i].call : i \in DOMAIN stdout}
Sent(c) == c = writing \/ c \in requests \/ c \in Answered
InTransit(c) == c \in Queued \/ Sent(c)

CallsOnce(s) == \A i, j \in DOMAIN s : s[i] = s[j] => i = j
LinesOnce(s) == \A i, j \in DOMAIN s : s[i].call = s[j].call => i = j

\* A request is in one place, once.
InOnePlace ==
  /\ CallsOnce(channel) /\ LinesOnce(stdout)
  /\ \A c \in Calls :
       /\ c \in Queued => ~Sent(c)
       /\ c = writing => c \notin requests /\ c \notin Answered
       /\ c \in requests => c \notin Answered

\* While the reader reads, a request that is on its way is pending or was given up.
Expected ==
  /\ \A i \in DOMAIN stdout : stdout[i].valid
  /\ \A c \in Calls : InTransit(c) => calls[c] # "idle"
  /\ reader = "reading" =>
       \A c \in Calls : Sent(c) => c \in pending \/ calls[c] = "timed_out"

WellBehaved == broker = "extension" /\ misdeeds = 0

\* The calls that an error may be charged to: given up, and gone from the pipes.
Chargeable == {c \in TimedOut : ~InTransit(c)}

RequestsInv ==
  /\ RequestsType
  /\ IsFiniteSet(TimedOut)
  /\ broker = "mcp" => errors = 0
  /\ WellBehaved => InOnePlace /\ Expected /\ errors <= Cardinality(Chargeable)

-----------------------------------------------------------------------------
(* Lemmas about the pipes. *)

\* What Append and Tail leave of a sequence.
LEMMA AppendElements ==
  ASSUME NEW S, NEW s \in Seq(S), NEW e \in S
  PROVE  /\ Append(s, e) \in Seq(S)
         /\ \A i \in DOMAIN Append(s, e) :
              \/ i \in DOMAIN s /\ Append(s, e)[i] = s[i]
              \/ i = Len(s) + 1 /\ i \notin DOMAIN s /\ Append(s, e)[i] = e
BY AppendProperties, LenProperties

LEMMA TailElements ==
  ASSUME NEW S, NEW s \in Seq(S), s # <<>>
  PROVE  /\ Tail(s) \in Seq(S) /\ Head(s) = s[1] /\ 1 \in DOMAIN s /\ Head(s) \in S
         /\ \A i \in DOMAIN Tail(s) :
              i \in Nat /\ i + 1 \in DOMAIN s /\ i + 1 # 1 /\ Tail(s)[i] = s[i + 1]
         /\ \A i \in DOMAIN s : i \in Nat /\ (i # 1 => i - 1 \in DOMAIN Tail(s))
<1>1. Tail(s) \in Seq(S) /\ Head(s) = s[1] /\ Head(s) \in S /\ Len(Tail(s)) = Len(s) - 1
  BY HeadTailProperties, LenProperties
<1>2. \A i \in 1..Len(s) - 1 : Tail(s)[i] = s[i + 1]
  BY LenProperties
<1>3. Len(s) \in Nat /\ Len(s) # 0
  BY LenProperties, EmptySeq
<1> QED
  BY <1>1, <1>2, <1>3, LenProperties

\* What is given up and gone stays so unless it is called again, which nobody does.
LEMMA ChargesGrow ==
  ASSUME IsFiniteSet(TimedOut)', Chargeable \subseteq Chargeable', errors \in Nat,
         errors <= Cardinality(Chargeable), IsFiniteSet(TimedOut)
  PROVE  errors <= Cardinality(Chargeable')
<1>1. IsFiniteSet(Chargeable')
  <2>1. Chargeable' \subseteq TimedOut'
    BY DEF Chargeable
  <2> QED
    BY <2>1, FS_Subset
<1>2. Cardinality(Chargeable) <= Cardinality(Chargeable')
  BY <1>1, FS_Subset
<1>3. Cardinality(Chargeable) \in Nat /\ Cardinality(Chargeable') \in Nat
  <2>1. IsFiniteSet(Chargeable)
    BY FS_Subset DEF Chargeable
  <2> QED
    BY <1>1, <2>1, FS_CardinalityType
<1> QED
  BY <1>2, <1>3

-----------------------------------------------------------------------------
(* Requests: every step keeps the invariant. *)

LEMMA RequestsTyped ==
  ASSUME RequestsType, [RequestsNext]_requestVars
  PROVE  RequestsType'
<1> USE DEF RequestsType
<1>1. ASSUME UNCHANGED requestVars PROVE RequestsType'
  BY <1>1 DEF requestVars
<1>2. ASSUME NEW c \in Calls, Call(c) PROVE RequestsType'
  BY <1>2, AppendElements DEF Call, Answers
<1>3. ASSUME NEW c \in Calls, Timeout(c) PROVE RequestsType'
  BY <1>3 DEF Timeout, Answers
<1>4. ASSUME NEW c \in Calls, Reply(c) PROVE RequestsType'
  <2>1. [call |-> c, valid |-> TRUE] \in Line
    BY DEF Line
  <2> QED
    BY <1>4, <2>1, AppendElements DEF Reply
<1>5. ASSUME NEW c \in Calls, Misbehave(c) PROVE RequestsType'
  <2>1. [call |-> c, valid |-> FALSE] \in Line
    BY DEF Line
  <2> QED
    BY <1>5, <2>1, AppendElements DEF Misbehave
<1>6. ASSUME TakeRequest PROVE RequestsType'
  <2>1. Head(channel) \in Calls /\ Tail(channel) \in Seq(Calls)
    BY <1>6, TailElements DEF TakeRequest
  <2>2. calls' \in [Calls -> Answers]
    BY <1>6 DEF TakeRequest, Told, Answers
  <2>3. stdout' \in Seq(Line)
    BY <1>6, TailElements DEF TakeRequest, LineLost
  <2> QED
    BY <1>6, <2>1, <2>2, <2>3 DEF TakeRequest, PendingWith
<1>7. ASSUME Write PROVE RequestsType'
  BY <1>7 DEF Write
<1>8. ASSUME WriteFails PROVE RequestsType'
  BY <1>8 DEF WriteFails, Told, Answers
<1>9. ASSUME Exit PROVE RequestsType'
  BY <1>9 DEF Exit
<1>10. ASSUME ReadLine PROVE RequestsType'
  <2>1. Tail(stdout) \in Seq(Line)
    BY <1>10, TailElements DEF ReadLine
  <2>2. calls' \in [Calls -> Answers]
    BY <1>10 DEF ReadLine, Told, Answers
  <2> QED
    BY <1>10, <2>1, <2>2 DEF ReadLine
<1>11. ASSUME EndOfFile PROVE RequestsType'
  BY <1>11 DEF EndOfFile
<1>12. ASSUME DrainPending PROVE RequestsType'
  BY <1>12 DEF DrainPending, Told, Answers
<1>13. ASSUME Kill PROVE RequestsType'
  BY <1>13 DEF Kill
<1> QED
  BY <1>1, <1>2, <1>3, <1>4, <1>5, <1>6, <1>7, <1>8, <1>9, <1>10, <1>11, <1>12, <1>13
     DEF RequestsNext

\* A call that was given up stays given up, and one step gives up one.
LEMMA GivenUp ==
  ASSUME RequestsType, [RequestsNext]_requestVars, IsFiniteSet(TimedOut)
  PROVE  /\ TimedOut \subseteq TimedOut'
         /\ \A c \in Calls : calls[c] # "idle" => calls'[c] # "idle"
         /\ IsFiniteSet(TimedOut)'
<1> USE DEF RequestsType
<1>1. ASSUME NEW c \in Calls, Timeout(c)
      PROVE  /\ TimedOut \subseteq TimedOut' /\ TimedOut' = TimedOut \cup {c}
             /\ \A d \in Calls : calls[d] # "idle" => calls'[d] # "idle"
  BY <1>1 DEF Timeout, TimedOut
<1>2. CASE \A c \in Calls : ~Timeout(c)
  <2>1. ASSUME NEW c \in Calls
        PROVE  /\ calls[c] = "timed_out" <=> calls'[c] = "timed_out"
               /\ calls[c] # "idle" => calls'[c] # "idle"
    <3>1. CASE UNCHANGED calls
      BY <3>1
    <3>2. CASE \E d \in Calls : Call(d)
      BY <3>2 DEF Call
    <3>3. CASE \E told \in SUBSET Calls, a \in {"ok", "error"} : Told(told, a)
      BY <3>3 DEF Told
    <3>4. ASSUME TakeRequest
          PROVE UNCHANGED calls \/ \E told \in SUBSET Calls, a \in {"ok", "error"} : Told(told, a)
      <4>1. Head(channel) \in Calls
        BY <3>4, TailElements DEF TakeRequest
      <4> QED
        BY <3>4, <4>1 DEF TakeRequest
    <3>5. ASSUME ReadLine
          PROVE UNCHANGED calls \/ \E told \in SUBSET Calls, a \in {"ok", "error"} : Told(told, a)
      <4>1. Head(stdout).call \in Calls
        <5>1. Head(stdout) \in Line
          BY <3>5, TailElements DEF ReadLine
        <5> QED
          BY <5>1 DEF Line
      <4>2. \/ UNCHANGED calls
            \/ Told({Head(stdout).call}, "ok")
            \/ Told({Head(stdout).call}, "error")
        BY <3>5 DEF ReadLine
      <4> QED
        BY <4>1, <4>2
    <3>6. ASSUME WriteFails
          PROVE UNCHANGED calls \/ \E told \in SUBSET Calls, a \in {"ok", "error"} : Told(told, a)
      BY <3>6 DEF WriteFails
    <3>7. ASSUME DrainPending
          PROVE UNCHANGED calls \/ \E told \in SUBSET Calls, a \in {"ok", "error"} : Told(told, a)
      BY <3>7 DEF DrainPending
    <3>8. UNCHANGED calls \/ (\E d \in Calls : Call(d)) \/ TakeRequest \/ ReadLine \/ WriteFails
          \/ DrainPending
      BY <1>2 DEF RequestsNext, requestVars, Reply, Misbehave, Write, Exit, EndOfFile, Kill
    <3> QED
      BY <3>1, <3>2, <3>3, <3>4, <3>5, <3>6, <3>7, <3>8
  <2>2. TimedOut' = TimedOut
    BY <2>1 DEF TimedOut
  <2> QED
    BY <2>1, <2>2
<1>3. \A c \in Calls : IsFiniteSet(TimedOut \cup {c})
  BY FS_AddElement
<1> QED
  BY <1>1, <1>2, <1>3

\* Calls that go into a pipe and out of it.
LEMMA CallsAppended ==
  ASSUME channel \in Seq(Calls), NEW c \in Calls, CallsOnce(channel), c \notin Queued,
         channel' = Append(channel, c)
  PROVE  CallsOnce(channel') /\ Queued' = Queued \cup {c}
BY AppendElements, AppendProperties, LenProperties DEF CallsOnce, Queued

LEMMA CallsTaken ==
  ASSUME NEW s \in Seq(Calls), s # <<>>, CallsOnce(s)
  PROVE  /\ CallsOnce(Tail(s))
         /\ \A i \in DOMAIN Tail(s) : Tail(s)[i] # Head(s) /\ \E j \in DOMAIN s : Tail(s)[i] = s[j]
         /\ \A j \in DOMAIN s : s[j] # Head(s) => \E i \in DOMAIN Tail(s) : Tail(s)[i] = s[j]
         /\ \E j \in DOMAIN s : s[j] = Head(s)
BY TailElements DEF CallsOnce

LEMMA LinesAppended ==
  ASSUME stdout \in Seq(Line), NEW line \in Line, LinesOnce(stdout), line.call \notin Answered,
         stdout' = Append(stdout, line)
  PROVE  /\ LinesOnce(stdout') /\ Answered' = Answered \cup {line.call}
         /\ \A i \in DOMAIN stdout' : stdout'[i] = line \/ \E j \in DOMAIN stdout : stdout'[i] = stdout[j]
BY AppendElements, AppendProperties, LenProperties DEF LinesOnce, Answered

LEMMA LinesTaken ==
  ASSUME NEW s \in Seq(Line), s # <<>>, LinesOnce(s)
  PROVE  /\ LinesOnce(Tail(s))
         /\ \A i \in DOMAIN Tail(s) :
              Tail(s)[i].call # Head(s).call /\ \E j \in DOMAIN s : Tail(s)[i] = s[j]
         /\ \A j \in DOMAIN s : s[j].call # Head(s).call => \E i \in DOMAIN Tail(s) : Tail(s)[i] = s[j]
         /\ \E j \in DOMAIN s : s[j] = Head(s)
<1>1. /\ Head(s) = s[1] /\ 1 \in DOMAIN s
      /\ \A i \in DOMAIN Tail(s) : i \in Nat /\ i + 1 \in DOMAIN s /\ i + 1 # 1 /\ Tail(s)[i] = s[i + 1]
      /\ \A i \in DOMAIN s : i \in Nat /\ (i # 1 => i - 1 \in DOMAIN Tail(s))
  BY TailElements
<1>2. LinesOnce(Tail(s))
  <2> SUFFICES ASSUME NEW i \in DOMAIN Tail(s), NEW j \in DOMAIN Tail(s), Tail(s)[i].call = Tail(s)[j].call
               PROVE  i = j
    BY DEF LinesOnce
  <2>1. i + 1 = j + 1
    BY <1>1 DEF LinesOnce
  <2> QED
    BY <1>1, <2>1
<1>3. ASSUME NEW i \in DOMAIN Tail(s)
      PROVE  Tail(s)[i].call # Head(s).call /\ \E j \in DOMAIN s : Tail(s)[i] = s[j]
  BY <1>1 DEF LinesOnce
<1>4. ASSUME NEW j \in DOMAIN s, s[j].call # Head(s).call
      PROVE  \E i \in DOMAIN Tail(s) : Tail(s)[i] = s[j]
  <2>1. j - 1 \in DOMAIN Tail(s) /\ (j - 1) + 1 = j
    BY <1>1, <1>4
  <2> QED
    BY <1>1, <2>1
<1> QED
  BY <1>1, <1>2, <1>3, <1>4

\* A well-behaved process and the tasks hand each request on.
LEMMA RequestsHandedOn ==
  ASSUME RequestsType, RequestsType', WellBehaved, WellBehaved', InOnePlace, Expected, RequestsNext
  PROVE  /\ InOnePlace' /\ Expected'
         /\ \A c \in Calls : InTransit(c)' => InTransit(c) \/ calls[c] = "idle"
<1> DEFINE Kept == /\ InOnePlace' /\ Expected'
                   /\ \A c \in Calls : InTransit(c)' => InTransit(c) \/ calls[c] = "idle"
<1>0. \A c \in Calls : calls'[c] \in Answers /\ calls[c] \in Answers /\ c # NoWrite
  BY RequestsAssumption DEF RequestsType
<1>1. ASSUME NEW c \in Calls, Call(c) PROVE Kept
  <2>1. /\ calls[c] = "idle" /\ calls' = [calls EXCEPT ![c] = "waiting"]
        /\ channel' = Append(channel, c)
        /\ UNCHANGED <<writing, pending, requests, stdout, reader>>
    BY <1>1 DEF Call
  <2>2. ~InTransit(c)
    BY <2>1 DEF Expected
  <2>3. CallsOnce(channel') /\ Queued' = Queued \cup {c}
    BY <2>1, <2>2, CallsAppended DEF InTransit, InOnePlace, RequestsType
  <2>4. \A d \in Calls : calls'[d] = IF d = c THEN "waiting" ELSE calls[d]
    BY <2>1 DEF RequestsType
  <2>5. Answered' = Answered /\ \A d \in Calls : Sent(d)' <=> Sent(d)
    BY <2>1 DEF Answered, Sent
  <2>6. InOnePlace'
    BY <2>1, <2>2, <2>3, <2>5 DEF InOnePlace, InTransit, Sent
  <2> QED
    BY <2>1, <2>2, <2>3, <2>4, <2>5, <2>6 DEF Expected, InTransit
<1>2. ASSUME NEW c \in Calls, Timeout(c) PROVE Kept
  <2>1. /\ calls' = [calls EXCEPT ![c] = "timed_out"]
        /\ pending' = pending \ {c}
        /\ UNCHANGED <<writing, channel, requests, stdout, reader>>
    BY <1>2 DEF Timeout, WellBehaved
  <2>2. Queued' = Queued /\ Answered' = Answered
    BY <2>1 DEF Queued, Answered
  <2>3. \A d \in Calls : (Sent(d)' <=> Sent(d)) /\ (InTransit(d)' <=> InTransit(d))
    BY <2>1, <2>2 DEF Sent, InTransit
  <2>4. \A d \in Calls : calls'[d] = IF d = c THEN "timed_out" ELSE calls[d]
    BY <2>1 DEF RequestsType
  <2>5. InOnePlace'
    BY <2>1, <2>2, <2>3 DEF InOnePlace
  <2> QED
    BY <2>1, <2>2, <2>3, <2>4, <2>5 DEF Expected
<1>3. ASSUME NEW c \in Calls, Reply(c) PROVE Kept
  <2> PICK line : line = [call |-> c, valid |-> TRUE]
    OBVIOUS
  <2>1. /\ c \in requests /\ requests' = requests \ {c}
        /\ stdout' = Append(stdout, line)
        /\ UNCHANGED <<calls, writing, channel, pending, reader>>
    BY <1>3 DEF Reply
  <2>2. line \in Line /\ line.call = c /\ line.valid
    BY DEF Line
  <2>3. c \notin Answered
    BY <2>1 DEF InOnePlace
  <2>5. /\ LinesOnce(stdout') /\ Answered' = Answered \cup {line.call}
        /\ \A i \in DOMAIN stdout' : stdout'[i] = line \/ \E j \in DOMAIN stdout : stdout'[i] = stdout[j]
    BY <2>1, <2>2, <2>3, LinesAppended DEF InOnePlace, RequestsType
  <2>6. Queued' = Queued /\ Answered' = Answered \cup {c}
    BY <2>1, <2>2, <2>5 DEF Queued
  <2>7. \A d \in Calls : (Sent(d)' <=> Sent(d)) /\ (InTransit(d)' <=> InTransit(d))
    BY <2>1, <2>6 DEF Sent, InTransit
  <2>8. InOnePlace'
    BY <2>1, <2>3, <2>5, <2>6, <2>7 DEF InOnePlace
  <2>9. \A i \in DOMAIN stdout' : stdout'[i].valid
    BY <2>2, <2>5 DEF Expected
  <2> QED
    BY <2>1, <2>7, <2>8, <2>9 DEF Expected
<1>4. ASSUME NEW c \in Calls, Misbehave(c) PROVE Kept
  BY <1>4 DEF Misbehave, WellBehaved, RequestsType
<1>5. ASSUME TakeRequest PROVE Kept
  <2> PICK c : c = Head(channel)
    OBVIOUS
  <2>1. /\ channel # <<>> /\ writing = NoWrite /\ channel' = Tail(channel)
        /\ UNCHANGED <<requests, stdout, reader>>
        /\ \/ Told({c}, "error") /\ UNCHANGED <<writing, pending>>
           \/ writing' = c /\ pending' = pending \cup {c} /\ UNCHANGED calls
    BY <1>5 DEF TakeRequest, WellBehaved, LineLost, PendingWith
  <2>2. /\ CallsOnce(channel') /\ c \in Calls
        /\ \A i \in DOMAIN channel' : channel'[i] # c /\ \E j \in DOMAIN channel : channel'[i] = channel[j]
        /\ \A j \in DOMAIN channel : channel[j] # c => \E i \in DOMAIN channel' : channel'[i] = channel[j]
        /\ \E j \in DOMAIN channel : channel[j] = c
    BY <2>1, CallsTaken, TailElements DEF InOnePlace, RequestsType
  <2>3. Queued' = Queued \ {c} /\ c \in Queued /\ Answered' = Answered
    BY <2>1, <2>2 DEF Queued, Answered
  <2>4. ~Sent(c)
    BY <2>2, <2>3 DEF InOnePlace
  <2>5. CASE Told({c}, "error") /\ UNCHANGED <<writing, pending>>
    <3>1. \A d \in Calls : (Sent(d)' <=> Sent(d)) /\ (InTransit(d)' => InTransit(d))
      BY <2>1, <2>3, <2>5 DEF Sent, InTransit
    <3>2. \A d \in Calls : calls'[d] = calls[d] \/ (d = c /\ calls'[d] = "error")
      BY <2>5 DEF Told
    <3>3. InOnePlace'
      BY <2>1, <2>2, <2>3, <2>5, <3>1 DEF InOnePlace
    <3> QED
      BY <2>1, <2>4, <2>5, <3>1, <3>2, <3>3 DEF Expected
  <2>6. CASE writing' = c /\ pending' = pending \cup {c} /\ UNCHANGED calls
    <3>1. \A d \in Calls : (Sent(d)' <=> Sent(d) \/ d = c) /\ (InTransit(d)' => InTransit(d))
      BY <1>0, <2>1, <2>3, <2>6 DEF Sent, InTransit
    <3>2. InOnePlace'
      BY <2>1, <2>2, <2>3, <2>4, <2>6, <3>1 DEF InOnePlace, Sent
    <3> QED
      BY <2>1, <2>6, <3>1, <3>2 DEF Expected
  <2> QED
    BY <2>1, <2>5, <2>6
<1>6. ASSUME Write \/ WriteFails PROVE Kept
  <2>1. /\ writing # NoWrite /\ writing' = NoWrite
        /\ UNCHANGED <<channel, stdout, reader>>
        /\ \/ requests' = requests \cup {writing} /\ UNCHANGED <<calls, pending>>
           \/ /\ requests' = requests /\ pending' = pending \ {writing}
              /\ Told({writing}, "error") \/ UNCHANGED calls
    BY <1>6 DEF Write, WriteFails
  <2>2. Queued' = Queued /\ Answered' = Answered
    BY <2>1 DEF Queued, Answered
  <2>3. writing \in Calls /\ writing \notin requests /\ writing \notin Answered
    BY <2>1 DEF InOnePlace, RequestsType
  <2>4. \A d \in Calls : (Sent(d)' => Sent(d)) /\ (InTransit(d)' => InTransit(d))
    BY <1>0, <2>1, <2>2 DEF Sent, InTransit
  <2>5. InOnePlace'
    BY <1>0, <2>1, <2>2, <2>3, <2>4 DEF InOnePlace
  <2>6. \A d \in Calls : calls'[d] = calls[d] \/ (d = writing /\ ~Sent(d)' /\ calls'[d] = "error")
    BY <1>0, <2>1, <2>2, <2>3 DEF Told, Sent
  <2>7. \A d \in Calls : Sent(d)' => (d \in pending => d \in pending')
    BY <1>0, <2>1, <2>2, <2>3 DEF Sent
  <2> QED
    BY <2>1, <2>4, <2>5, <2>6, <2>7 DEF Expected
<1>7. ASSUME ReadLine PROVE Kept
  <2> PICK line : line = Head(stdout)
    OBVIOUS
  <2>1. /\ stdout # <<>> /\ stdout' = Tail(stdout) /\ reader = "reading"
        /\ UNCHANGED <<channel, writing, requests>>
        /\ \/ pending' = pending /\ UNCHANGED calls
           \/ pending' = pending \ {line.call} /\ (Told({line.call}, "ok") \/ Told({line.call}, "error"))
    BY <1>7 DEF ReadLine
  <2>2. /\ LinesOnce(stdout') /\ line \in Line
        /\ \A i \in DOMAIN stdout' : stdout'[i].call # line.call /\ \E j \in DOMAIN stdout : stdout'[i] = stdout[j]
        /\ \A j \in DOMAIN stdout : stdout[j].call # line.call => \E i \in DOMAIN stdout' : stdout'[i] = stdout[j]
        /\ \E j \in DOMAIN stdout : stdout[j] = line
    BY <2>1, LinesTaken, TailElements DEF InOnePlace, RequestsType
  <2>3. Queued' = Queued /\ Answered' = Answered \ {line.call} /\ line.call \in Answered
    BY <2>1, <2>2 DEF Queued, Answered
  <2>4. line.call \in Calls
    BY <2>2 DEF Line
  <2>5. line.call # writing /\ line.call \notin requests
    BY <2>3, <2>4 DEF InOnePlace
  <2>6. \A d \in Calls : Sent(d)' <=> Sent(d) /\ d # line.call
    BY <2>1, <2>3, <2>5 DEF Sent
  <2>7. \A d \in Calls : InTransit(d)' => InTransit(d)
    BY <2>3, <2>6 DEF InTransit
  <2>8. InOnePlace'
    BY <2>1, <2>2, <2>3, <2>6 DEF InOnePlace
  <2>9. \A d \in Calls : calls'[d] = calls[d] \/ (d = line.call /\ calls'[d] \in {"ok", "error"})
    BY <2>1 DEF Told
  <2>10. \A i \in DOMAIN stdout' : stdout'[i].valid
    BY <2>2 DEF Expected
  <2>11. \A d \in Calls : Sent(d)' => d \in pending' \/ calls'[d] = "timed_out"
    BY <2>1, <2>6, <2>9 DEF Expected
  <2>12. \A d \in Calls : InTransit(d)' => calls'[d] # "idle"
    BY <2>7, <2>9 DEF Expected
  <2> QED
    BY <2>7, <2>8, <2>10, <2>11, <2>12 DEF Expected
<1>8. ASSUME Exit \/ EndOfFile \/ DrainPending \/ Kill PROVE Kept
  <2>1. /\ UNCHANGED <<channel, writing, requests, stdout>>
        /\ \/ UNCHANGED <<calls, pending, reader>>
           \/ reader' # "reading" /\ (UNCHANGED calls \/ Told(pending, "error"))
    BY <1>8 DEF Exit, EndOfFile, DrainPending, Kill
  <2>2. Queued' = Queued /\ Answered' = Answered
    BY <2>1 DEF Queued, Answered
  <2>3. \A d \in Calls : (Sent(d)' <=> Sent(d)) /\ (InTransit(d)' <=> InTransit(d))
    BY <2>1, <2>2 DEF Sent, InTransit
  <2>4. InOnePlace'
    BY <2>1, <2>2, <2>3 DEF InOnePlace
  <2>5. \A d \in Calls : calls'[d] = calls[d] \/ calls'[d] = "error"
    BY <2>1 DEF Told
  <2> QED
    BY <2>1, <2>3, <2>4, <2>5 DEF Expected
<1> QED
  BY <1>1, <1>2, <1>3, <1>4, <1>5, <1>6, <1>7, <1>8 DEF RequestsNext

\* A step charges at most one error, to a call whose answer came too late.
LEMMA ErrorsCharged ==
  ASSUME RequestsType, RequestsType', WellBehaved, WellBehaved', InOnePlace, Expected, RequestsNext,
         IsFiniteSet(TimedOut), IsFiniteSet(TimedOut)', TimedOut \subseteq TimedOut',
         \A c \in Calls : InTransit(c)' => InTransit(c) \/ calls[c] = "idle",
         errors <= Cardinality(Chargeable)
  PROVE  errors' <= Cardinality(Chargeable')
<1>0. Chargeable \subseteq Chargeable'
  BY DEF Chargeable, TimedOut
<1>1. CASE errors' = errors
  BY <1>0, <1>1, ChargesGrow DEF RequestsType
<1>2. CASE errors' # errors
  <2> PICK line : line = Head(stdout)
    OBVIOUS
  <2>1. ReadLine
    BY <1>2 DEF RequestsNext, Call, Timeout, Reply, Misbehave, TakeRequest, Write, WriteFails,
                Exit, EndOfFile, DrainPending, Kill
  <2>2. /\ reader = "reading" /\ stdout # <<>> /\ stdout' = Tail(stdout) /\ errors' = errors + 1
        /\ ~line.valid \/ line.call \notin pending
        /\ UNCHANGED <<channel, writing, requests>>
    BY <1>2, <2>1 DEF ReadLine
  <2>3. /\ line \in Line
        /\ \A i \in DOMAIN stdout' : stdout'[i].call # line.call
        /\ \E j \in DOMAIN stdout : stdout[j] = line
    BY <2>2, LinesTaken, TailElements DEF InOnePlace, RequestsType
  <2> PICK c : c = line.call
    OBVIOUS
  <2>4. c \in Calls /\ c \in Answered
    BY <2>3 DEF Line, Answered
  <2>5. calls[c] = "timed_out"
    BY <2>2, <2>3, <2>4 DEF Expected, Sent
  <2>6. InTransit(c)
    BY <2>4 DEF InTransit, Sent
  <2>7. c \notin Queued /\ c # writing /\ c \notin requests /\ c \notin Answered'
    BY <2>3, <2>4 DEF InOnePlace, Sent, Answered
  <2>8. ~InTransit(c)'
    <3>1. Queued' = Queued
      BY <2>2 DEF Queued
    <3> QED
      BY <2>2, <2>7, <3>1 DEF InTransit, Sent
  <2>9. c \in Chargeable' /\ c \notin Chargeable
    BY <2>4, <2>5, <2>6, <2>8 DEF Chargeable, TimedOut
  <2>10. IsFiniteSet(Chargeable) /\ IsFiniteSet(Chargeable')
    <3>1. Chargeable \subseteq TimedOut /\ Chargeable' \subseteq TimedOut'
      BY DEF Chargeable
    <3> QED
      BY <3>1, FS_Subset
  <2>11. Cardinality(Chargeable \cup {c}) <= Cardinality(Chargeable')
    <3>1. Chargeable \cup {c} \subseteq Chargeable'
      BY <1>0, <2>9
    <3> QED
      BY <2>10, <3>1, FS_Subset
  <2>12. Cardinality(Chargeable \cup {c}) = Cardinality(Chargeable) + 1
    BY <2>9, <2>10, FS_AddElement
  <2>13. Cardinality(Chargeable) \in Nat /\ Cardinality(Chargeable') \in Nat
    BY <2>10, FS_CardinalityType
  <2> QED
    BY <2>2, <2>11, <2>12, <2>13 DEF RequestsType
<1> QED
  BY <1>1, <1>2

LEMMA RequestsStep ==
  ASSUME RequestsInv, [RequestsNext]_requestVars
  PROVE  RequestsInv'
<1>1. RequestsType /\ RequestsType' /\ IsFiniteSet(TimedOut)
  BY RequestsTyped DEF RequestsInv
<1>2. /\ TimedOut \subseteq TimedOut' /\ IsFiniteSet(TimedOut)'
  BY <1>1, GivenUp
<1>3. CASE UNCHANGED requestVars
  <2>1. /\ Queued' = Queued /\ Answered' = Answered /\ TimedOut' = TimedOut
        /\ InOnePlace' = InOnePlace /\ Expected' = Expected /\ Chargeable' = Chargeable
    BY <1>3 DEF requestVars, Queued, Answered, TimedOut, InOnePlace, Expected, Chargeable, InTransit, Sent
  <2> QED
    BY <1>1, <1>2, <1>3, <2>1 DEF RequestsInv, WellBehaved, requestVars
<1>4. CASE RequestsNext
  <2>1. broker' = broker /\ misdeeds' \in {misdeeds, misdeeds + 1}
    BY <1>4 DEF RequestsNext, Call, Timeout, Reply, Misbehave, TakeRequest, Write, WriteFails,
                Exit, ReadLine, EndOfFile, DrainPending, Kill
  <2>2. broker = "mcp" => errors' = errors
    BY <1>4 DEF RequestsNext, Call, Timeout, Reply, Misbehave, TakeRequest, Write, WriteFails,
                Exit, ReadLine, EndOfFile, DrainPending, Kill
  <2>3. WellBehaved' => WellBehaved
    BY <1>1, <2>1 DEF WellBehaved, RequestsType
  <2>4. ASSUME WellBehaved'
        PROVE  InOnePlace' /\ Expected' /\ errors' <= Cardinality(Chargeable')
    BY <1>1, <1>2, <1>4, <2>3, <2>4, RequestsHandedOn, ErrorsCharged DEF RequestsInv
  <2> QED
    BY <1>1, <1>2, <2>1, <2>2, <2>4 DEF RequestsInv
<1> QED
  BY <1>3, <1>4

\* A process extension that answers every request once and writes nothing else is charged
\* with no more protocol errors than calls were given up, for any number of calls and any
\* limits: an answer that comes in time always finds its request.
THEOREM AnswersAreExpected == RequestsSpec => []ErrorsAreEarned
<1>1. RequestsInit => RequestsInv
  <2> SUFFICES ASSUME RequestsInit PROVE RequestsInv
    OBVIOUS
  <2>1. TimedOut = {} /\ Chargeable = {}
    BY DEF RequestsInit, TimedOut, Chargeable
  <2>2. RequestsType
    BY EmptySeq DEF RequestsInit, RequestsType, Answers
  <2>3. Queued = {} /\ Answered = {}
    BY EmptySeq DEF RequestsInit, Queued, Answered
  <2>4. InOnePlace /\ Expected
    BY <2>3, EmptySeq, RequestsAssumption
       DEF RequestsInit, InOnePlace, Expected, InTransit, Sent, CallsOnce, LinesOnce
  <2>5. errors <= Cardinality({}) /\ IsFiniteSet({})
    BY FS_EmptySet DEF RequestsInit
  <2> QED
    BY <2>1, <2>2, <2>4, <2>5 DEF RequestsInv, RequestsInit
<1>2. RequestsInv => ErrorsAreEarned
  <2> SUFFICES ASSUME RequestsInv, misdeeds = 0 PROVE errors <= Cardinality(TimedOut)
    BY DEF ErrorsAreEarned
  <2>1. Chargeable \subseteq TimedOut /\ IsFiniteSet(TimedOut) /\ IsFiniteSet(Chargeable)
    BY FS_Subset DEF RequestsInv, Chargeable
  <2>2. /\ Cardinality(Chargeable) <= Cardinality(TimedOut)
        /\ Cardinality(Chargeable) \in Nat /\ Cardinality(TimedOut) \in Nat
    BY <2>1, FS_Subset, FS_CardinalityType
  <2>3. errors = 0 \/ errors <= Cardinality(Chargeable)
    BY DEF RequestsInv, RequestsType, WellBehaved, Brokers
  <2> QED
    BY <2>2, <2>3 DEF RequestsInv, RequestsType
<1>3. RequestsInv /\ [RequestsNext]_requestVars => RequestsInv'
  BY RequestsStep
<1> QED
  BY <1>1, <1>2, <1>3, PTL DEF RequestsSpec

-----------------------------------------------------------------------------
(* Extensions: the inductive invariant. *)

Generation == [comps : Composition, procs : SUBSET Nat]
Process == [key : ReuseKey, state : ProcessState]
Reload == [pc : {"idle", "activating", "published", "retiring"}, comps : Composition,
           todo : SUBSET Components, force : BOOLEAN, dry : BOOLEAN,
           started : SUBSET Nat, reused : SUBSET Nat]
Leaser == [pc : {"idle", "read", "leased"}, gen : Nat, timely : BOOLEAN]

ExtensionsType ==
  /\ snapshots \in Seq(Generation) /\ snapshots # <<>>
  /\ processes \in Seq(Process)
  /\ instances \in [ReuseKey -> Nat]
  /\ leases \in [1..MaxGenerations -> Nat]
  /\ draining \subseteq [proc : Nat, over : BOOLEAN]
  /\ reload \in Reload
  /\ leasers \in [Leasers -> Leaser]

\* Processes are spoken of after their launch.
Launched == 1..Len(processes)

KnownProcesses ==
  /\ \A g \in DOMAIN snapshots : snapshots[g].procs \subseteq Launched
  /\ \A k \in ReuseKey : instances[k] # 0 => instances[k] \in Launched
  /\ launched \subseteq Launched /\ stopping \subseteq Launched /\ own \subseteq Launched
  /\ \A d \in draining : d.proc \in Launched
  /\ reload.started \subseteq Launched /\ reload.reused \subseteq Launched
  /\ \A c \in reload.todo : reload.comps[c] # Absent

\* The leases of a generation are those that its runs hold.
Holders(g) == {r \in Leasers : leasers[r].pc = "leased" /\ leasers[r].gen = g}

LeasesCounted ==
  /\ \A g \in 1..MaxGenerations : IsFiniteSet(Holders(g)) /\ leases[g] = Cardinality(Holders(g))
  /\ \A r \in Leasers : leasers[r].pc # "idle" => leasers[r].gen \in 1..ActiveGeneration
  /\ ActiveGeneration <= MaxGenerations
  /\ reload.pc = "activating" => ActiveGeneration < MaxGenerations
  /\ reload.pc \in {"published", "retiring"} => ActiveGeneration > 1
  /\ \A g \in retired : g \in 1..ActiveGeneration - 1

\* A generation that nobody has leased in time, and nobody will.
Over(g) ==
  /\ g < ActiveGeneration
  /\ \A r \in Leasers : leasers[r].pc = "leased" /\ leasers[r].timely => leasers[r].gen # g

\* What the candidate under way has.
Started == IF reload.pc = "activating" THEN reload.started ELSE {}
Reused == IF reload.pc = "activating" THEN reload.reused ELSE {}

\* A process of one candidate is in no other generation; it is callable until this one
\* is over, and who drains or stops it has found that.
OwnInv ==
  /\ \A p \in own, g, h \in DOMAIN snapshots :
       p \in snapshots[g].procs /\ p \in snapshots[h].procs => g = h
  /\ \A p \in own, g \in DOMAIN snapshots : p \in snapshots[g].procs =>
       p \notin stopping /\ p \notin Started /\ (processes[p].state = "Ready" \/ Over(g))
  /\ \A p \in own \cap Started : processes[p].state = "Ready" /\ p \notin stopping
  /\ own \cap Reused = {}
  /\ \A d \in draining : \E g \in DOMAIN snapshots :
       d.proc \in snapshots[g].procs /\ (d.proc \in own => Over(g))

ExtensionsInv == ExtensionsType /\ KnownProcesses /\ LeasesCounted /\ OwnInv

-----------------------------------------------------------------------------
(* Extensions: types. *)

LEMMA ExtensionsFields ==
  ASSUME ExtensionsType
  PROVE  /\ ActiveGeneration \in Nat \ {0} /\ ActiveGeneration \in DOMAIN snapshots
         /\ DOMAIN snapshots = 1..ActiveGeneration
         /\ \A g \in DOMAIN snapshots :
              snapshots[g].comps \in Composition /\ snapshots[g].procs \subseteq Nat
         /\ Len(processes) \in Nat /\ DOMAIN processes = Launched
         /\ \A p \in Launched : processes[p].key \in ReuseKey /\ processes[p].state \in ProcessState
         /\ reload.comps \in Composition /\ reload.todo \subseteq Components
         /\ reload.started \subseteq Nat /\ reload.reused \subseteq Nat
         /\ \A r \in Leasers : leasers[r].gen \in Nat /\ leasers[r].timely \in BOOLEAN
         /\ \A d \in draining : d.proc \in Nat
<1>1. \A g \in DOMAIN snapshots : snapshots[g] \in Generation
  BY ElementOfSeq, LenProperties DEF ExtensionsType
<1>2. \A p \in Launched : processes[p] \in Process
  BY ElementOfSeq, LenProperties DEF ExtensionsType, Launched
<1>3. ActiveGeneration \in Nat \ {0}
  BY EmptySeq DEF ExtensionsType, ActiveGeneration
<1>4. DOMAIN snapshots = 1..ActiveGeneration
  BY LenProperties DEF ExtensionsType, ActiveGeneration
<1>5. Len(processes) \in Nat /\ DOMAIN processes = Launched
  BY LenProperties DEF ExtensionsType, Launched
<1>6. \A r \in Leasers : leasers[r] \in Leaser
  BY DEF ExtensionsType
<1> QED
  BY <1>1, <1>2, <1>3, <1>4, <1>5, <1>6
     DEF ExtensionsType, Generation, Process, Reload, Leaser, ActiveGeneration

LEMMA BecomesType ==
  ASSUME ExtensionsType, NEW p \in Launched, NEW state \in ProcessState, Becomes(p, state)
  PROVE  /\ processes' \in Seq(Process) /\ Len(processes') = Len(processes)
         /\ processes'[p].state = state
         /\ \A q \in Launched : q # p => processes'[q] = processes[q]
         /\ \A q \in Launched : processes'[q].key = processes[q].key
<1> PICK process : process = [processes[p] EXCEPT !.state = state]
  OBVIOUS
<1>1. processes[p] \in Process
  BY ElementOfSeq, LenProperties DEF ExtensionsType, Launched
<1>2. process \in Process /\ process.state = state /\ process.key = processes[p].key
  BY <1>1 DEF Process
<1>3. processes' = [processes EXCEPT ![p] = process]
  BY DEF Becomes
<1> QED
  BY <1>2, <1>3, ExceptSeq DEF ExtensionsType, Launched

LEMMA LaunchType ==
  ASSUME ExtensionsType, NEW k \in ReuseKey, Launch(k)
  PROVE  /\ processes' \in Seq(Process) /\ Len(processes') = Len(processes) + 1
         /\ processes'[Len(processes) + 1].state = "Ready"
         /\ \A q \in Launched : processes'[q] = processes[q]
<1> PICK process : process = [key |-> k, state |-> "Ready"]
  OBVIOUS
<1>1. process \in Process /\ process.state = "Ready"
  BY DEF Process, ProcessState
<1>2. processes' = Append(processes, process)
  BY DEF Launch
<1> QED
  BY <1>1, <1>2, AppendProperties DEF ExtensionsType, Launched

\* The reuse key of a component that is configured.
LEMMA KeyType ==
  ASSUME ExtensionsType, KnownProcesses, NEW c \in reload.todo
  PROVE  Key(c) \in ReuseKey
<1>1. c \in Components /\ reload.comps[c] \in Versions \cup {Absent} /\ reload.comps[c] # Absent
  BY ExtensionsFields DEF Composition, KnownProcesses
<1> QED
  BY <1>1 DEF Key, ReuseKey

\* Steps that change the reload alone, and what it makes of one component.
LEMMA ReloadTyped ==
  ASSUME ExtensionsType, KnownProcesses, reload' \in Reload,
         UNCHANGED <<snapshots, processes, instances, leases, draining, leasers>>,
         launched' \subseteq Launched, stopping' \subseteq Launched, own' \subseteq Launched,
         reload'.started \subseteq Launched, reload'.reused \subseteq Launched,
         \A c \in reload'.todo : reload'.comps[c] # Absent
  PROVE  ExtensionsType' /\ KnownProcesses'
BY DEF ExtensionsType, KnownProcesses, Launched

LEMMA ReloadFields ==
  ASSUME reload \in Reload
  PROVE  /\ reload.pc \in {"idle", "activating", "published", "retiring"} /\ reload.comps \in Composition
         /\ reload.todo \subseteq Components /\ reload.force \in BOOLEAN /\ reload.dry \in BOOLEAN
         /\ reload.started \subseteq Nat /\ reload.reused \subseteq Nat
BY DEF Reload

LEMMA NoReloadType == NoReload \in Reload /\ NoReload.started = {} /\ NoReload.reused = {} /\ NoReload.todo = {}
                      /\ NoReload.pc = "idle"
BY DEF NoReload, Reload, Empty, Composition

\* What a drain is told to drain is known.
LEMMA UnusedLaunched ==
  ASSUME ExtensionsType, KnownProcesses, NEW g \in DOMAIN snapshots, NEW h \in DOMAIN snapshots
  PROVE  /\ Unused(g, h) \subseteq Launched /\ Unused(g, h) \subseteq snapshots[g].procs
         /\ Drain(Unused(g, h)) =>
              /\ draining' \subseteq [proc : Nat, over : BOOLEAN]
              /\ \A d \in draining' : d \in draining \/ d.proc \in Unused(g, h)
<1>1. Unused(g, h) \subseteq Launched /\ Unused(g, h) \subseteq snapshots[g].procs
  BY DEF Unused, KnownProcesses
<1>2. Launched \subseteq Nat
  BY DEF Launched
<1> HIDE DEF Unused
<1>3. ASSUME Drain(Unused(g, h)), NEW d \in draining', d \notin draining
      PROVE  d \in [proc : Nat, over : BOOLEAN] /\ d.proc \in Unused(g, h)
  <2>1. PICK p \in Unused(g, h) : d = [proc |-> p, over |-> FALSE]
    BY <1>3 DEF Drain
  <2> QED
    BY <1>1, <1>2, <2>1
<1> QED
  BY <1>1, <1>3 DEF ExtensionsType

LEMMA ExtensionsTyped ==
  ASSUME ExtensionsType, KnownProcesses, LeasesCounted, [ExtensionsNext]_extensionVars
  PROVE  ExtensionsType' /\ KnownProcesses'
<1> DEFINE Typed == ExtensionsType' /\ KnownProcesses'
<1>0. reload \in Reload
  BY DEF ExtensionsType
<1>1. ASSUME UNCHANGED extensionVars PROVE Typed
  BY <1>1 DEF extensionVars, ExtensionsType, KnownProcesses, Launched
<1>2. ASSUME NEW comps \in Configured, NEW force \in BOOLEAN, NEW dry \in BOOLEAN,
             ReloadBegins(comps, force, dry)
      PROVE  Typed
  <2>1. comps \in Composition
    BY ExtensionsAssumption
  <2>2. /\ reload' \in Reload /\ reload'.started = {} /\ reload'.reused = {}
        /\ \A c \in reload'.todo : reload'.comps[c] # Absent
    BY <1>2, <2>1 DEF ReloadBegins, NoReload, Reload
  <2> QED
    BY <1>2, <2>2, ReloadTyped DEF ReloadBegins, KnownProcesses
<1>3. ASSUME NEW c \in reload.todo, Reuse(c) PROVE Typed
  <2>1. PICK p \in Reusable(c) :
          /\ reload' = [reload EXCEPT !.todo = @ \ {c}, !.reused = @ \cup {p}]
          /\ own' = own \ {p}
    BY <1>3 DEF Reuse, Held
  <2>2. p \in Launched /\ p \in Nat
    BY <2>1, ExtensionsFields DEF Reusable, KnownProcesses, Launched
  <2>3. /\ reload' \in Reload /\ reload'.started = reload.started
        /\ reload'.reused = reload.reused \cup {p} /\ reload'.todo \subseteq reload.todo
        /\ reload'.comps = reload.comps
    BY <1>0, <2>1, <2>2 DEF Reload
  <2> QED
    BY <1>3, <2>1, <2>2, <2>3, ReloadTyped DEF Reuse, KnownProcesses
<1>4. ASSUME NEW c \in reload.todo, ReloadFinds(c) PROVE Typed
  <2> PICK p : p = instances[Key(c)]
    OBVIOUS
  <2>1. /\ reload' = [reload EXCEPT !.todo = @ \ {c}, !.started = @ \cup {p}]
        /\ own' = own \ {p} /\ p # 0
    BY <1>4 DEF ReloadFinds, Held, Existing
  <2>2. p \in Launched /\ p \in Nat
    BY <2>1, KeyType DEF KnownProcesses, Launched
  <2>3. /\ reload' \in Reload /\ reload'.started = reload.started \cup {p}
        /\ reload'.reused = reload.reused /\ reload'.todo \subseteq reload.todo
        /\ reload'.comps = reload.comps
    BY <1>0, <2>1, <2>2 DEF Reload
  <2> QED
    BY <1>4, <2>1, <2>2, <2>3, ReloadTyped DEF ReloadFinds, KnownProcesses
<1>5. ASSUME NEW c \in reload.todo, ReloadLaunches(c) PROVE Typed
  <2> PICK p : p = Len(processes) + 1
    OBVIOUS
  <2>1. /\ Launch(Key(c)) /\ own' = own \cup {p} /\ launched' = launched \cup {p}
        /\ reload' = [reload EXCEPT !.todo = @ \ {c}, !.started = @ \cup {p}]
        /\ UNCHANGED <<snapshots, instances, leases, retired, draining, stopping, leasers>>
    BY <1>5 DEF ReloadLaunches
  <2>2. processes' \in Seq(Process) /\ Len(processes') = p /\ Launched' = Launched \cup {p}
    BY <2>1, KeyType, LaunchType, ExtensionsFields DEF Launched
  <2>3. p \in Nat
    BY ExtensionsFields
  <2>4. /\ reload' \in Reload /\ reload'.started = reload.started \cup {p}
        /\ reload'.reused = reload.reused /\ reload'.todo \subseteq reload.todo
        /\ reload'.comps = reload.comps
    BY <1>0, <2>1, <2>3 DEF Reload
  <2> QED
    BY <2>1, <2>2, <2>4 DEF ExtensionsType, KnownProcesses
<1>6. ASSUME NEW c \in reload.todo, OptionalFails(c) PROVE Typed
  <2>1. /\ reload' \in Reload /\ reload'.started = reload.started
        /\ reload'.reused = reload.reused /\ reload'.todo \subseteq reload.todo
        /\ reload'.comps = reload.comps
    BY <1>0, <1>6 DEF Reload, OptionalFails
  <2> QED
    BY <1>6, <2>1, ReloadTyped DEF OptionalFails, KnownProcesses
<1>7. ASSUME Dropped PROVE Typed
  BY <1>7, NoReloadType, ReloadTyped DEF Dropped, KnownProcesses
<1>8. ASSUME Publish PROVE Typed
  <2> PICK generation : generation = [comps |-> reload.comps, procs |-> reload.started \cup reload.reused]
    OBVIOUS
  <2>1. /\ snapshots' = Append(snapshots, generation)
        /\ reload' = [reload EXCEPT !.pc = "published"]
        /\ UNCHANGED <<processes, instances, launched, leases, draining, stopping, leasers, own>>
    BY <1>8 DEF Publish
  <2>2. generation \in Generation /\ generation.procs \subseteq Launched
    BY <1>0, ReloadFields DEF Generation, KnownProcesses
  <2>3. /\ reload' \in Reload /\ reload'.started = reload.started /\ reload'.reused = reload.reused
        /\ reload'.todo = reload.todo /\ reload'.comps = reload.comps
    BY <1>0, <2>1 DEF Reload
  <2>4. /\ snapshots' \in Seq(Generation) /\ snapshots' # <<>>
        /\ \A g \in DOMAIN snapshots' : snapshots'[g].procs \subseteq Launched
    BY <2>1, <2>2, AppendElements, AppendProperties DEF ExtensionsType, KnownProcesses
  <2> QED
    BY <2>1, <2>3, <2>4 DEF ExtensionsType, KnownProcesses, Launched
<1>9. ASSUME TestLeases PROVE Typed
  <2>1. /\ reload' \in Reload /\ reload'.started \subseteq Launched /\ reload'.reused \subseteq Launched
        /\ \A c \in reload'.todo : reload'.comps[c] # Absent
    BY <1>0, <1>9, NoReloadType DEF TestLeases, Reload, KnownProcesses
  <2>2. /\ draining' \subseteq [proc : Nat, over : BOOLEAN]
        /\ \A d \in draining' : d.proc \in Launched
    <3>1. ActiveGeneration - 1 \in DOMAIN snapshots /\ ActiveGeneration \in DOMAIN snapshots
      BY <1>9, ExtensionsFields DEF TestLeases, LeasesCounted
    <3>2. UNCHANGED draining \/ Drain(Unused(ActiveGeneration - 1, ActiveGeneration))
      BY <1>9 DEF TestLeases
    <3> QED
      BY <3>1, <3>2, UnusedLaunched DEF ExtensionsType, KnownProcesses
  <2> QED
    BY <1>9, <2>1, <2>2 DEF TestLeases, ExtensionsType, KnownProcesses, Launched
<1>10. ASSUME Retire PROVE Typed
  BY <1>10, NoReloadType, ReloadTyped DEF Retire, KnownProcesses
<1>11. ASSUME NEW r \in Leasers, ReadSnapshot(r) \/ CountLease(r) PROVE Typed
  <2>1. leasers' \in [Leasers -> Leaser]
    <3>1. leasers[r] \in Leaser /\ ActiveGeneration \in Nat
      BY ExtensionsFields DEF ExtensionsType
    <3>2. CASE ReadSnapshot(r)
      BY <3>1, <3>2 DEF ReadSnapshot, ExtensionsType, Leaser
    <3>3. CASE CountLease(r)
      BY <3>1, <3>3 DEF CountLease, ExtensionsType, Leaser
    <3> QED
      BY <1>11, <3>2, <3>3
  <2>2. leases' \in [1..MaxGenerations -> Nat]
    BY <1>11 DEF ReadSnapshot, CountLease, ExtensionsType
  <2> QED
    BY <1>11, <2>1, <2>2 DEF ReadSnapshot, CountLease, ExtensionsType, KnownProcesses, Launched
<1>12. ASSUME NEW r \in Leasers, NEW c \in Components, Relaunch(r, c) PROVE Typed
  <2> PICK p : p = Len(processes) + 1
    OBVIOUS
  <2>1. PICK k \in ReuseKey :
          /\ Launch(k) /\ launched' = launched \cup {p}
          /\ UNCHANGED <<snapshots, instances, leases, retired, draining, stopping, reload, leasers, own>>
    BY <1>12 DEF Relaunch
  <2>2. processes' \in Seq(Process) /\ Launched' = Launched \cup {p}
    BY <2>1, LaunchType, ExtensionsFields DEF Launched
  <2> QED
    BY <2>1, <2>2 DEF ExtensionsType, KnownProcesses
<1>13. ASSUME NEW p \in launched, Insert(p) PROVE Typed
  <2>1. p \in Launched /\ p \in Nat
    BY DEF KnownProcesses, Launched
  <2>2. /\ instances' \in [ReuseKey -> Nat]
        /\ \A k \in ReuseKey : instances'[k] = instances[k] \/ instances'[k] = p
    BY <1>13, <2>1 DEF Insert, ExtensionsType
  <2> QED
    BY <1>13, <2>1, <2>2 DEF Insert, ExtensionsType, KnownProcesses, Launched
<1>14. ASSUME NEW r \in Leasers, Release(r) PROVE Typed
  <2>1. leasers' \in [Leasers -> Leaser]
    BY <1>14 DEF Release, NoLease, Leaser, ExtensionsType
  <2>2. /\ draining' \subseteq [proc : Nat, over : BOOLEAN]
        /\ \A d \in draining' : d.proc \in Launched
    <3>1. leasers[r].gen \in DOMAIN snapshots /\ ActiveGeneration \in DOMAIN snapshots
      BY <1>14, ExtensionsFields DEF Release, LeasesCounted
    <3>2. UNCHANGED draining \/ Drain(Unused(leasers[r].gen, ActiveGeneration))
      BY <1>14 DEF Release
    <3> QED
      BY <3>1, <3>2, UnusedLaunched DEF ExtensionsType, KnownProcesses
  <2>3. leases' \in [1..MaxGenerations -> Nat]
    <3> PICK g : g = leasers[r].gen
      OBVIOUS
    <3>1. g \in 1..MaxGenerations /\ r \in Holders(g)
      BY <1>14, ExtensionsFields, ExtensionsAssumption DEF Release, LeasesCounted, Holders
    <3>2. leases[g] = Cardinality(Holders(g)) /\ IsFiniteSet(Holders(g))
      BY <3>1 DEF LeasesCounted
    <3>3. leases[g] \in Nat /\ leases[g] # 0
      BY <3>1, <3>2, FS_EmptySet, FS_CardinalityType
    <3>4. leases' = [leases EXCEPT ![g] = @ - 1]
      BY <1>14 DEF Release
    <3> QED
      BY <3>1, <3>3, <3>4 DEF ExtensionsType
  <2> QED
    BY <1>14, <2>1, <2>2, <2>3 DEF Release, ExtensionsType, KnownProcesses, Launched
<1>15. ASSUME NEW d \in draining, StartDrain(d) \/ StopDrained(d) PROVE Typed
  <2>1. d.proc \in Launched
    BY DEF KnownProcesses
  <2>2. Becomes(d.proc, "Draining") \/ Becomes(d.proc, "Stopped")
    BY <1>15 DEF StartDrain, StopDrained
  <2>3. processes' \in Seq(Process) /\ Launched' = Launched
    BY <2>1, <2>2, BecomesType DEF ProcessState, Launched
  <2> PICK e : e = [d EXCEPT !.over = TRUE]
    OBVIOUS
  <2>4. e \in [proc : Nat, over : BOOLEAN] /\ e.proc = d.proc
    BY DEF ExtensionsType
  <2>5. draining' \subseteq draining \cup {e}
    BY <1>15 DEF StartDrain, StopDrained
  <2> QED
    BY <1>15, <2>1, <2>3, <2>4, <2>5 DEF StartDrain, StopDrained, ExtensionsType, KnownProcesses
<1>16. ASSUME NEW d \in draining, ForgetDrained(d) PROVE Typed
  <2>1. /\ instances' \in [ReuseKey -> Nat]
        /\ \A k \in ReuseKey : instances'[k] = instances[k] \/ instances'[k] = 0
    BY <1>16 DEF ForgetDrained, ExtensionsType
  <2> QED
    BY <1>16, <2>1 DEF ForgetDrained, ExtensionsType, KnownProcesses, Launched
<1>17. ASSUME NEW p \in stopping, StopStarted(p) PROVE Typed
  <2>1. p \in Launched
    BY DEF KnownProcesses
  <2>2. Becomes(p, "Stopping") \/ Becomes(p, "Stopped")
    BY <1>17 DEF StopStarted
  <2>3. processes' \in Seq(Process) /\ Launched' = Launched
    BY <2>1, <2>2, BecomesType DEF ProcessState, Launched
  <2> QED
    BY <1>17, <2>3 DEF StopStarted, ExtensionsType, KnownProcesses
<1> QED
  BY <1>1, <1>2, <1>3, <1>4, <1>5, <1>6, <1>7, <1>8, <1>9, <1>10, <1>11, <1>12, <1>13, <1>14,
     <1>15, <1>16, <1>17 DEF ExtensionsNext, RequiredFails, DryRunEnds

-----------------------------------------------------------------------------
(* Extensions: leases are counted, and a generation that is over stays over. *)

LEMMA LeasesStep ==
  ASSUME ExtensionsType, KnownProcesses, LeasesCounted, [ExtensionsNext]_extensionVars
  PROVE  LeasesCounted'
<1>0. /\ ActiveGeneration \in Nat \ {0} /\ MaxGenerations \in Nat
      /\ \A g \in 1..MaxGenerations : leases[g] = Cardinality(Holders(g)) /\ IsFiniteSet(Holders(g))
  BY ExtensionsFields, ExtensionsAssumption DEF LeasesCounted
\* Neither leases nor generations change.
<1>1. ASSUME UNCHANGED <<snapshots, leases, leasers, retired>>,
             reload'.pc = reload.pc \/ reload'.pc = "idle"
             \/ (reload'.pc = "activating" /\ ActiveGeneration < MaxGenerations)
             \/ (reload'.pc = "retiring" /\ reload.pc = "published")
      PROVE  LeasesCounted'
  <2>1. ActiveGeneration' = ActiveGeneration /\ \A g \in 1..MaxGenerations : Holders(g)' = Holders(g)
    BY <1>1 DEF ActiveGeneration, Holders
  <2> QED
    BY <1>1, <2>1 DEF LeasesCounted
<1>2. ASSUME UNCHANGED extensionVars PROVE LeasesCounted'
  BY <1>1, <1>2 DEF extensionVars
<1>3. ASSUME NEW comps \in Configured, NEW force \in BOOLEAN, NEW dry \in BOOLEAN,
             ReloadBegins(comps, force, dry)
      PROVE  LeasesCounted'
  <2>1. reload'.pc = "activating"
    BY <1>3 DEF ReloadBegins, NoReload
  <2> QED
    BY <1>1, <1>3, <2>1 DEF ReloadBegins
<1>4. ASSUME NEW c \in reload.todo, Reuse(c) \/ ReloadFinds(c) \/ ReloadLaunches(c) \/ OptionalFails(c)
      PROVE  LeasesCounted'
  <2>1. reload'.pc = reload.pc
    BY <1>4 DEF Reuse, ReloadFinds, ReloadLaunches, OptionalFails, ExtensionsType, Reload
  <2> QED
    BY <1>1, <1>4, <2>1 DEF Reuse, ReloadFinds, ReloadLaunches, OptionalFails
<1>5. ASSUME Dropped PROVE LeasesCounted'
  BY <1>1, <1>5, NoReloadType DEF Dropped
<1>6. ASSUME Publish PROVE LeasesCounted'
  <2>1. /\ reload.pc = "activating" /\ reload'.pc = "published"
        /\ UNCHANGED <<leases, leasers, retired>>
    BY <1>6 DEF Publish, Activating, ExtensionsType, Reload
  <2>2. ActiveGeneration' = ActiveGeneration + 1
    <3>1. [comps |-> reload.comps, procs |-> reload.started \cup reload.reused] \in Generation
      BY DEF ExtensionsType, Reload, Generation
    <3> QED
      BY <1>6, <3>1, AppendProperties DEF Publish, ActiveGeneration, ExtensionsType
  <2>3. \A g \in 1..MaxGenerations : Holders(g)' = Holders(g)
    BY <2>1 DEF Holders
  <2> QED
    BY <1>0, <2>1, <2>2, <2>3, ExtensionsFields DEF LeasesCounted
<1>7. ASSUME TestLeases PROVE LeasesCounted'
  <2>1. reload'.pc = "idle" \/ (reload'.pc = "retiring" /\ reload.pc = "published")
    BY <1>7, NoReloadType DEF TestLeases, ExtensionsType, Reload
  <2> QED
    BY <1>1, <1>7, <2>1 DEF TestLeases
<1>8. ASSUME Retire PROVE LeasesCounted'
  <2>1. /\ ActiveGeneration' = ActiveGeneration /\ \A g \in 1..MaxGenerations : Holders(g)' = Holders(g)
        /\ UNCHANGED <<leases, leasers>> /\ reload'.pc = "idle"
        /\ retired' = retired \cup {ActiveGeneration - 1} /\ ActiveGeneration > 1
    BY <1>8, NoReloadType DEF Retire, ActiveGeneration, Holders, LeasesCounted
  <2>2. \A g \in retired' : g \in 1..ActiveGeneration - 1
    BY <1>0, <2>1 DEF LeasesCounted
  <2> QED
    BY <2>1, <2>2 DEF LeasesCounted
<1>9. ASSUME NEW r \in Leasers, ReadSnapshot(r) PROVE LeasesCounted'
  <2>1. /\ ActiveGeneration' = ActiveGeneration /\ UNCHANGED <<leases, retired, reload>>
        /\ leasers[r].pc = "idle"
        /\ \A q \in Leasers : leasers'[q] =
             IF q = r THEN [pc |-> "read", gen |-> ActiveGeneration, timely |-> FALSE] ELSE leasers[q]
    BY <1>9 DEF ReadSnapshot, ActiveGeneration, ExtensionsType
  <2>2. \A g \in 1..MaxGenerations : Holders(g)' = Holders(g)
    BY <2>1 DEF Holders
  <2>3. \A q \in Leasers : leasers'[q].pc # "idle" => leasers'[q].gen \in 1..ActiveGeneration
    BY <1>0, <2>1 DEF LeasesCounted
  <2> QED
    BY <2>1, <2>2, <2>3 DEF LeasesCounted
<1>10. ASSUME NEW r \in Leasers, CountLease(r) PROVE LeasesCounted'
  <2> PICK h : h = leasers[r].gen
    OBVIOUS
  <2>1. /\ ActiveGeneration' = ActiveGeneration /\ UNCHANGED <<retired, reload>>
        /\ leasers[r].pc = "read" /\ leases' = [leases EXCEPT ![h] = @ + 1]
        /\ \A q \in Leasers : q # r => leasers'[q] = leasers[q]
        /\ leasers'[r].pc = "leased" /\ leasers'[r].gen = h
    BY <1>10 DEF CountLease, ActiveGeneration, ExtensionsType, Leaser
  <2>2. h \in 1..ActiveGeneration /\ h \in 1..MaxGenerations
    BY <1>0, <2>1 DEF LeasesCounted
  <2>3. /\ Holders(h)' = Holders(h) \cup {r} /\ r \notin Holders(h)
        /\ \A g \in 1..MaxGenerations : g # h => Holders(g)' = Holders(g)
    BY <2>1, <2>2 DEF Holders
  <2>4. IsFiniteSet(Holders(h)') /\ Cardinality(Holders(h)') = Cardinality(Holders(h)) + 1
    BY <1>0, <2>2, <2>3, FS_AddElement
  <2>5. \A g \in 1..MaxGenerations : leases'[g] = IF g = h THEN leases[g] + 1 ELSE leases[g]
    BY <2>1 DEF ExtensionsType
  <2>6. \A g \in 1..MaxGenerations : IsFiniteSet(Holders(g)') /\ leases'[g] = Cardinality(Holders(g)')
    BY <1>0, <2>3, <2>4, <2>5
  <2>7. \A q \in Leasers : leasers'[q].pc # "idle" => leasers'[q].gen \in 1..ActiveGeneration
    BY <2>1, <2>2 DEF LeasesCounted
  <2> QED
    BY <2>1, <2>6, <2>7 DEF LeasesCounted
<1>11. ASSUME NEW r \in Leasers, Release(r) PROVE LeasesCounted'
  <2> PICK h : h = leasers[r].gen
    OBVIOUS
  <2>1. /\ ActiveGeneration' = ActiveGeneration /\ UNCHANGED reload /\ retired' \subseteq retired
        /\ leasers[r].pc = "leased" /\ leases' = [leases EXCEPT ![h] = @ - 1]
        /\ \A q \in Leasers : q # r => leasers'[q] = leasers[q]
        /\ leasers'[r].pc = "idle"
    BY <1>11 DEF Release, ActiveGeneration, ExtensionsType, Leaser, NoLease
  <2>2. h \in 1..ActiveGeneration /\ h \in 1..MaxGenerations
    BY <1>0, <2>1 DEF LeasesCounted
  <2>3. /\ Holders(h)' = Holders(h) \ {r} /\ r \in Holders(h)
        /\ \A g \in 1..MaxGenerations : g # h => Holders(g)' = Holders(g)
    BY <2>1, <2>2 DEF Holders
  <2>4. IsFiniteSet(Holders(h)') /\ Cardinality(Holders(h)') = Cardinality(Holders(h)) - 1
    BY <1>0, <2>2, <2>3, FS_RemoveElement
  <2>5. \A g \in 1..MaxGenerations : leases'[g] = IF g = h THEN leases[g] - 1 ELSE leases[g]
    BY <2>1 DEF ExtensionsType
  <2>6. \A g \in 1..MaxGenerations : IsFiniteSet(Holders(g)') /\ leases'[g] = Cardinality(Holders(g)')
    BY <1>0, <2>3, <2>4, <2>5
  <2>7. \A q \in Leasers : leasers'[q].pc # "idle" => leasers'[q].gen \in 1..ActiveGeneration
    BY <2>1 DEF LeasesCounted
  <2> QED
    BY <2>1, <2>6, <2>7 DEF LeasesCounted
<1>12. ASSUME NEW r \in Leasers, NEW c \in Components, Relaunch(r, c) PROVE LeasesCounted'
  BY <1>1, <1>12 DEF Relaunch
<1>13. ASSUME NEW p \in launched, Insert(p) PROVE LeasesCounted'
  BY <1>1, <1>13 DEF Insert
<1>14. ASSUME NEW d \in draining, StartDrain(d) \/ StopDrained(d) \/ ForgetDrained(d) PROVE LeasesCounted'
  BY <1>1, <1>14 DEF StartDrain, StopDrained, ForgetDrained
<1>15. ASSUME NEW p \in stopping, StopStarted(p) PROVE LeasesCounted'
  BY <1>1, <1>15 DEF StopStarted
<1> QED
  BY <1>2, <1>3, <1>4, <1>5, <1>6, <1>7, <1>8, <1>9, <1>10, <1>11, <1>12, <1>13, <1>14, <1>15
     DEF ExtensionsNext, RequiredFails, DryRunEnds

\* Leases are only counted as timely for the active generation.
LEMMA OverStays ==
  ASSUME ExtensionsType, ActiveGeneration' \in Nat, ActiveGeneration' >= ActiveGeneration,
         NEW g \in DOMAIN snapshots, Over(g),
         \A r \in Leasers : leasers'[r].pc = "leased" /\ leasers'[r].timely =>
           leasers'[r] = leasers[r] \/ leasers'[r].gen = ActiveGeneration
  PROVE  Over(g)'
<1>1. g \in Nat /\ ActiveGeneration \in Nat /\ g < ActiveGeneration
  BY ExtensionsFields DEF Over
<1>2. g < ActiveGeneration'
  BY <1>1
<1> QED
  BY <1>1, <1>2 DEF Over

-----------------------------------------------------------------------------
(* Extensions: what one candidate launched. *)

\* Steps that leave generations, states, drains and stops alone, and add to a candidate
\* nothing that is its own.
LEMMA OwnKept ==
  ASSUME ExtensionsType, OwnInv, UNCHANGED <<snapshots, processes, draining, stopping>>,
         own' \subseteq own, own' \cap Started' \subseteq Started, own' \cap Reused' \subseteq Reused,
         \A g \in DOMAIN snapshots : Over(g) => Over(g)'
  PROVE  OwnInv'
<1>1. \A p \in own', g \in DOMAIN snapshots : p \in snapshots[g].procs =>
        p \notin stopping /\ p \notin Started' /\ (processes[p].state = "Ready" \/ Over(g)')
  BY DEF OwnInv
<1>2. \A d \in draining : \E g \in DOMAIN snapshots :
        d.proc \in snapshots[g].procs /\ (d.proc \in own' => Over(g)')
  BY DEF OwnInv
<1> QED
  BY <1>1, <1>2 DEF OwnInv

LEMMA OwnStep ==
  ASSUME ExtensionsInv, ExtensionsType', KnownProcesses', LeasesCounted', [ExtensionsNext]_extensionVars
  PROVE  OwnInv'
<1>0. /\ ExtensionsType /\ KnownProcesses /\ LeasesCounted /\ OwnInv
      /\ ActiveGeneration \in Nat \ {0} /\ ActiveGeneration' \in Nat \ {0}
      /\ \A g \in DOMAIN snapshots : snapshots[g].procs \subseteq Launched
      /\ DOMAIN snapshots = 1..ActiveGeneration
  <2>1. ExtensionsType /\ KnownProcesses /\ LeasesCounted /\ OwnInv
    BY DEF ExtensionsInv
  <2>2. ActiveGeneration' \in Nat \ {0}
    BY EmptySeq DEF ExtensionsType, ActiveGeneration
  <2>3. \A g \in DOMAIN snapshots : snapshots[g].procs \subseteq Launched
    BY <2>1 DEF KnownProcesses
  <2> QED
    BY <2>1, <2>2, <2>3, ExtensionsFields
\* A step that neither counts a lease nor publishes: what is over stays over.
<1>1. ASSUME UNCHANGED <<snapshots, leasers>>, NEW g \in DOMAIN snapshots, Over(g)
      PROVE  Over(g)'
  BY <1>1 DEF Over, ActiveGeneration
<1>2. ASSUME UNCHANGED extensionVars PROVE OwnInv'
  <2>1. Started' = Started /\ Reused' = Reused
    BY <1>2 DEF extensionVars, Started, Reused
  <2> QED
    BY <1>0, <1>1, <1>2, <2>1, OwnKept DEF extensionVars
<1>3. ASSUME NEW comps \in Configured, NEW force \in BOOLEAN, NEW dry \in BOOLEAN,
             ReloadBegins(comps, force, dry)
      PROVE  OwnInv'
  <2>1. Started' = {} /\ Reused' = {}
    BY <1>3 DEF ReloadBegins, Started, Reused, NoReload
  <2> QED
    BY <1>0, <1>1, <1>3, <2>1, OwnKept DEF ReloadBegins
<1>4. ASSUME NEW c \in reload.todo, Activating, Reuse(c) \/ ReloadFinds(c) \/ OptionalFails(c)
      PROVE  OwnInv'
  <2>0. reload \in Reload
    BY <1>0 DEF ExtensionsType
  <2>1. own' \subseteq own /\ own' \cap Started' \subseteq Started /\ own' \cap Reused' \subseteq Reused
    <3>1. CASE Reuse(c)
      <4>1. PICK p : /\ own' = own \ {p}
                     /\ reload' = [reload EXCEPT !.todo = @ \ {c}, !.reused = @ \cup {p}]
        BY <3>1 DEF Reuse, Held
      <4>2. Started' = Started /\ Reused' = Reused \cup {p}
        BY <1>4, <2>0, <4>1 DEF Started, Reused, Activating, Reload
      <4> QED
        BY <4>1, <4>2
    <3>2. CASE ReloadFinds(c)
      <4>1. PICK p : /\ own' = own \ {p}
                     /\ reload' = [reload EXCEPT !.todo = @ \ {c}, !.started = @ \cup {p}]
        BY <3>2 DEF ReloadFinds, Held
      <4>2. Started' = Started \cup {p} /\ Reused' = Reused
        BY <1>4, <2>0, <4>1 DEF Started, Reused, Activating, Reload
      <4> QED
        BY <4>1, <4>2
    <3>3. CASE OptionalFails(c)
      BY <1>4, <2>0, <3>3 DEF OptionalFails, Started, Reused, Activating, Reload
    <3> QED
      BY <1>4, <3>1, <3>2, <3>3
  <2> QED
    BY <1>0, <1>1, <1>4, <2>1, OwnKept DEF Reuse, ReloadFinds, OptionalFails
<1>5. ASSUME NEW c \in reload.todo, Activating, ReloadLaunches(c) PROVE OwnInv'
  <2> PICK p : p = Len(processes) + 1
    OBVIOUS
  <2>1. /\ Launch(Key(c)) /\ own' = own \cup {p} /\ UNCHANGED <<snapshots, draining, stopping, leasers>>
        /\ Started' = Started \cup {p} /\ Reused' = Reused
    BY <1>0, <1>5 DEF ReloadLaunches, Started, Reused, Activating, ExtensionsType, Reload
  <2>2. /\ \A q \in Launched : processes'[q] = processes[q]
        /\ processes'[p].state = "Ready" /\ p \notin Launched
    BY <1>0, <2>1, KeyType, LaunchType, ExtensionsFields DEF Launched
  <2>3. /\ own \subseteq Launched /\ stopping \subseteq Launched /\ Started \subseteq Launched
        /\ Reused \subseteq Launched /\ \A d \in draining : d.proc \in Launched
    BY <1>0 DEF KnownProcesses, Started, Reused
  <2>4. \A q \in own', g \in DOMAIN snapshots : q \in snapshots[g].procs => q \in own /\ q # p
    BY <1>0, <2>1, <2>2
  <2>5. \A q \in own', g \in DOMAIN snapshots : q \in snapshots[g].procs =>
          q \notin stopping /\ q \notin Started' /\ (processes'[q].state = "Ready" \/ Over(g)')
    BY <1>0, <1>1, <2>1, <2>2, <2>3, <2>4 DEF OwnInv
  <2>6. \A q \in own' \cap Started' : processes'[q].state = "Ready" /\ q \notin stopping
    BY <1>0, <2>1, <2>2, <2>3 DEF OwnInv
  <2>7. own' \cap Reused' = {}
    BY <1>0, <2>1, <2>2, <2>3 DEF OwnInv
  <2>8. \A d \in draining : \E g \in DOMAIN snapshots :
          d.proc \in snapshots[g].procs /\ (d.proc \in own' => Over(g)')
    BY <1>0, <1>1, <2>1, <2>2, <2>3 DEF OwnInv
  <2> QED
    BY <1>0, <2>1, <2>4, <2>5, <2>6, <2>7, <2>8 DEF OwnInv
<1>6. ASSUME Activating, Dropped PROVE OwnInv'
  <2>1. /\ stopping' = stopping \cup Started /\ Started' = {} /\ Reused' = {}
        /\ UNCHANGED <<snapshots, processes, draining, leasers, own>>
    BY <1>6, NoReloadType DEF Activating, Dropped, Started, Reused
  <2>2. \A p \in own, g \in DOMAIN snapshots : p \in snapshots[g].procs =>
          p \notin stopping' /\ (processes[p].state = "Ready" \/ Over(g)')
    BY <1>0, <1>1, <2>1 DEF OwnInv
  <2>3. \A d \in draining : \E g \in DOMAIN snapshots :
          d.proc \in snapshots[g].procs /\ (d.proc \in own => Over(g)')
    BY <1>0, <1>1, <2>1 DEF OwnInv
  <2> QED
    BY <1>0, <2>1, <2>2, <2>3 DEF OwnInv
<1>7. ASSUME Publish PROVE OwnInv'
  <2> PICK n : n = ActiveGeneration
    OBVIOUS
  <2>1. /\ UNCHANGED <<processes, draining, stopping, leasers, own>>
        /\ Started' = {} /\ Reused' = {}
    BY <1>0, <1>7 DEF Publish, Started, Reused, ExtensionsType, Reload
  <2>2. /\ DOMAIN snapshots' = 1..(n + 1) /\ ActiveGeneration' = n + 1 /\ n \in Nat
        /\ \A g \in 1..n : snapshots'[g] = snapshots[g]
        /\ snapshots'[n + 1].procs = Started \cup Reused
    <3> PICK generation : generation = [comps |-> reload.comps, procs |-> reload.started \cup reload.reused]
      OBVIOUS
    <3>1. generation \in Generation /\ generation.procs = Started \cup Reused
      BY <1>0, <1>7 DEF Publish, Activating, Started, Reused, ExtensionsType, Reload, Generation
    <3>2. snapshots' = Append(snapshots, generation)
      BY <1>7 DEF Publish
    <3> QED
      BY <1>0, <3>1, <3>2, AppendProperties, LenProperties DEF ExtensionsType, ActiveGeneration
  <2>3. ASSUME NEW g \in 1..n, Over(g) PROVE Over(g)'
    BY <2>1, <2>2, <2>3 DEF Over
  <2>4. \A p \in own, g \in 1..n : p \in snapshots'[g].procs => p \notin snapshots'[n + 1].procs
    BY <1>0, <2>2 DEF OwnInv
  <2>5. \A p \in own, g \in DOMAIN snapshots' : p \in snapshots'[g].procs =>
          p \notin stopping /\ (processes[p].state = "Ready" \/ Over(g)')
    <3> SUFFICES ASSUME NEW p \in own, NEW g \in 1..(n + 1), p \in snapshots'[g].procs
                 PROVE  p \notin stopping /\ (processes[p].state = "Ready" \/ Over(g)')
      BY <2>2
    <3>1. CASE g = n + 1
      BY <1>0, <2>2, <3>1 DEF OwnInv
    <3>2. CASE g \in 1..n
      BY <1>0, <2>2, <2>3, <3>2 DEF OwnInv
    <3> QED
      BY <2>2, <3>1, <3>2
  <2>6. \A p \in own, g, h \in DOMAIN snapshots' :
          p \in snapshots'[g].procs /\ p \in snapshots'[h].procs => g = h
    <3> SUFFICES ASSUME NEW p \in own, NEW g \in 1..(n + 1), NEW h \in 1..(n + 1),
                        p \in snapshots'[g].procs, p \in snapshots'[h].procs
                 PROVE  g = h
      BY <2>2
    <3>1. CASE g \in 1..n /\ h \in 1..n
      BY <1>0, <2>2, <3>1 DEF OwnInv
    <3>2. CASE g = n + 1 \/ h = n + 1
      BY <2>2, <2>4, <3>2
    <3> QED
      BY <2>2, <3>1, <3>2
  <2>7. \A d \in draining : \E g \in DOMAIN snapshots' :
          d.proc \in snapshots'[g].procs /\ (d.proc \in own => Over(g)')
    <3> TAKE d \in draining
    <3>1. PICK g \in 1..n : d.proc \in snapshots[g].procs /\ (d.proc \in own => Over(g))
      BY <1>0 DEF OwnInv
    <3>2. g \in DOMAIN snapshots' /\ snapshots'[g] = snapshots[g]
      BY <2>2, <3>1
    <3> QED
      BY <2>3, <3>1, <3>2
  <2> QED
    BY <2>1, <2>5, <2>6, <2>7 DEF OwnInv
\* A generation is drained when nobody leases it and another one is active.
<1>8. ASSUME NEW g \in DOMAIN snapshots, g < ActiveGeneration, NEW procs \in SUBSET snapshots[g].procs,
             Over(g)', UNCHANGED <<snapshots, processes, stopping, own>>,
             Started' = Started, Reused' = Reused,
             UNCHANGED draining \/ Drain(procs),
             \A h \in DOMAIN snapshots : Over(h) => Over(h)'
      PROVE  OwnInv'
  <2>1. \A d \in draining' : d \in draining \/ d.proc \in procs
    BY <1>8 DEF Drain
  <2>2. \A d \in draining' : \E h \in DOMAIN snapshots :
          d.proc \in snapshots[h].procs /\ (d.proc \in own => Over(h)')
    BY <1>0, <1>8, <2>1 DEF OwnInv
  <2>3. \A p \in own, h \in DOMAIN snapshots : p \in snapshots[h].procs =>
          p \notin stopping /\ p \notin Started /\ (processes[p].state = "Ready" \/ Over(h)')
    BY <1>0, <1>8 DEF OwnInv
  <2> QED
    BY <1>0, <1>8, <2>2, <2>3 DEF OwnInv
<1>9. ASSUME TestLeases PROVE OwnInv'
  <2> PICK g : g = ActiveGeneration - 1
    OBVIOUS
  <2>1. /\ reload.pc = "published" /\ g \in DOMAIN snapshots /\ g < ActiveGeneration /\ g \in 1..MaxGenerations
    BY <1>0, <1>9, ExtensionsAssumption DEF TestLeases, LeasesCounted
  <2>2. Started = {} /\ Reused = {} /\ Started' = {} /\ Reused' = {}
    BY <1>0, <1>9, <2>1, NoReloadType DEF TestLeases, Started, Reused, ExtensionsType, Reload
  <2>3. CASE HasLeases(g)
    <3>1. UNCHANGED <<snapshots, processes, draining, stopping, own, leasers>>
      BY <1>9, <2>3 DEF TestLeases
    <3> QED
      BY <1>0, <1>1, <2>2, <3>1, OwnKept
  <2>4. CASE ~HasLeases(g)
    <3>1. /\ UNCHANGED <<snapshots, processes, stopping, own, leasers>>
          /\ Drain(Unused(g, ActiveGeneration))
      BY <1>9, <2>4 DEF TestLeases
    <3>2. Holders(g) = {}
      BY <1>0, <2>1, <2>4, FS_EmptySet, FS_CardinalityType DEF HasLeases, LeasesCounted
    <3>3. Over(g)
      BY <2>1, <3>2 DEF Over, Holders
    <3>4. Unused(g, ActiveGeneration) \subseteq snapshots[g].procs
      BY DEF Unused
    <3> QED
      BY <1>1, <1>8, <2>1, <2>2, <3>1, <3>3, <3>4
  <2> QED
    BY <2>3, <2>4
<1>10. ASSUME Retire PROVE OwnInv'
  <2>1. Started' = {} /\ Reused' = {}
    BY <1>10, NoReloadType DEF Retire, Started, Reused
  <2> QED
    BY <1>0, <1>1, <1>10, <2>1, OwnKept DEF Retire
<1>11. ASSUME NEW r \in Leasers, ReadSnapshot(r) \/ CountLease(r) PROVE OwnInv'
  <2>1. /\ UNCHANGED <<snapshots, processes, draining, stopping, own, reload>>
        /\ \A q \in Leasers : leasers'[q].pc = "leased" /\ leasers'[q].timely =>
             leasers'[q] = leasers[q] \/ leasers'[q].gen = ActiveGeneration
    BY <1>0, <1>11 DEF ReadSnapshot, CountLease, ExtensionsType, Leaser
  <2>2. Started' = Started /\ Reused' = Reused /\ ActiveGeneration' = ActiveGeneration
    BY <2>1 DEF Started, Reused, ActiveGeneration
  <2>3. \A g \in DOMAIN snapshots : Over(g) => Over(g)'
    BY <1>0, <2>1, <2>2, OverStays
  <2> QED
    BY <1>0, <2>1, <2>2, <2>3, OwnKept
<1>12. ASSUME NEW r \in Leasers, NEW c \in Components, Relaunch(r, c) PROVE OwnInv'
  <2>1. PICK k \in ReuseKey :
          Launch(k) /\ UNCHANGED <<snapshots, draining, stopping, reload, leasers, own>>
    BY <1>12 DEF Relaunch
  <2>2. \A q \in Launched : processes'[q] = processes[q]
    BY <1>0, <2>1, LaunchType
  <2>3. Started' = Started /\ Reused' = Reused /\ own \subseteq Launched
    BY <1>0, <2>1 DEF Started, Reused, KnownProcesses
  <2>4. \A p \in own, g \in DOMAIN snapshots : p \in snapshots[g].procs =>
          p \notin stopping /\ p \notin Started /\ (processes'[p].state = "Ready" \/ Over(g)')
    BY <1>0, <1>1, <2>1, <2>2, <2>3 DEF OwnInv
  <2>5. \A d \in draining : \E g \in DOMAIN snapshots :
          d.proc \in snapshots[g].procs /\ (d.proc \in own => Over(g)')
    BY <1>0, <1>1, <2>1 DEF OwnInv
  <2>6. \A p \in own \cap Started : processes'[p].state = "Ready" /\ p \notin stopping
    BY <1>0, <2>2, <2>3 DEF OwnInv
  <2> QED
    BY <1>0, <2>1, <2>3, <2>4, <2>5, <2>6 DEF OwnInv
<1>13. ASSUME NEW p \in launched, Insert(p) PROVE OwnInv'
  <2>1. Started' = Started /\ Reused' = Reused
    BY <1>13 DEF Insert, Started, Reused
  <2> QED
    BY <1>0, <1>1, <1>13, <2>1, OwnKept DEF Insert
<1>14. ASSUME NEW r \in Leasers, Release(r) PROVE OwnInv'
  <2> PICK g : g = leasers[r].gen
    OBVIOUS
  <2>1. /\ UNCHANGED <<snapshots, processes, stopping, own, reload>>
        /\ leasers[r].pc = "leased"
        /\ \A q \in Leasers : q # r => leasers'[q] = leasers[q]
        /\ leasers'[r].pc = "idle"
        /\ \/ UNCHANGED draining
           \/ leases[g] = 1 /\ g \in retired /\ Drain(Unused(g, ActiveGeneration))
    BY <1>0, <1>14 DEF Release, NoLease, ExtensionsType, Leaser
  <2>2. Started' = Started /\ Reused' = Reused /\ ActiveGeneration' = ActiveGeneration
    BY <2>1 DEF Started, Reused, ActiveGeneration
  <2>3. \A h \in DOMAIN snapshots : Over(h) => Over(h)'
    BY <2>1, <2>2 DEF Over
  <2>4. CASE UNCHANGED draining
    BY <1>0, <2>1, <2>2, <2>3, <2>4, OwnKept
  <2>5. CASE leases[g] = 1 /\ g \in retired /\ Drain(Unused(g, ActiveGeneration))
    <3>1. g \in DOMAIN snapshots /\ g < ActiveGeneration /\ g \in 1..MaxGenerations
      BY <1>0, <2>5, ExtensionsAssumption DEF LeasesCounted
    <3>2. PICK q : Holders(g) = {q}
      BY <1>0, <2>5, <3>1, FS_Singleton DEF LeasesCounted
    <3>3. q = r
      BY <2>1, <3>2 DEF Holders
    <3>4. Over(g)'
      BY <2>1, <2>2, <3>1, <3>2, <3>3 DEF Over, Holders
    <3>5. Unused(g, ActiveGeneration) \subseteq snapshots[g].procs
      BY DEF Unused
    <3> QED
      BY <1>8, <2>1, <2>2, <2>3, <2>5, <3>1, <3>4, <3>5
  <2> QED
    BY <2>1, <2>4, <2>5
\* A process changes its state that is drained or stopped.
<1>15. ASSUME NEW p \in Launched, NEW state \in ProcessState, Becomes(p, state),
              UNCHANGED <<snapshots, leasers, own, reload>>, stopping' \subseteq stopping,
              \A d \in draining' : d \in draining \/ \E e \in draining : d.proc = e.proc,
              p \in stopping \/ \E d \in draining : d.proc = p
       PROVE  OwnInv'
  <2>1. \A q \in Launched : q # p => processes'[q] = processes[q]
    BY <1>0, <1>15, BecomesType
  <2>2. Started' = Started /\ Reused' = Reused /\ own \subseteq Launched
    BY <1>0, <1>15 DEF Started, Reused, KnownProcesses
  <2>3. \A g \in DOMAIN snapshots : p \in own /\ p \in snapshots[g].procs => Over(g)'
    BY <1>0, <1>1, <1>15 DEF OwnInv
  <2>4. p \in own => p \notin Started
    BY <1>0, <1>15 DEF OwnInv
  <2>5. \A q \in own, g \in DOMAIN snapshots : q \in snapshots[g].procs =>
          q \notin stopping /\ q \notin Started /\ (processes'[q].state = "Ready" \/ Over(g)')
    BY <1>0, <1>1, <1>15, <2>1, <2>2, <2>3 DEF OwnInv
  <2>6. \A q \in own \cap Started : processes'[q].state = "Ready" /\ q \notin stopping
    BY <1>0, <2>1, <2>2, <2>4 DEF OwnInv
  <2>7. \A d \in draining' : \E g \in DOMAIN snapshots :
          d.proc \in snapshots[g].procs /\ (d.proc \in own => Over(g)')
    BY <1>0, <1>1, <1>15 DEF OwnInv
  <2> QED
    BY <1>0, <1>15, <2>2, <2>5, <2>6, <2>7 DEF OwnInv
<1>16. ASSUME NEW d \in draining, StartDrain(d) \/ StopDrained(d) PROVE OwnInv'
  <2>1. /\ d.proc \in Launched
        /\ Becomes(d.proc, "Draining") \/ Becomes(d.proc, "Stopped")
        /\ UNCHANGED <<snapshots, leasers, own, reload, stopping>>
    BY <1>0, <1>16 DEF StartDrain, StopDrained, KnownProcesses
  <2>2. \A e \in draining' : e \in draining \/ e.proc = d.proc
    BY <1>0, <1>16 DEF StartDrain, StopDrained, ExtensionsType
  <2> QED
    BY <1>15, <2>1, <2>2 DEF ProcessState
<1>17. ASSUME NEW d \in draining, ForgetDrained(d) PROVE OwnInv'
  <2>1. /\ UNCHANGED <<snapshots, processes, stopping, leasers, own, reload>> /\ draining' \subseteq draining
    BY <1>17 DEF ForgetDrained
  <2>2. Started' = Started /\ Reused' = Reused
    BY <2>1 DEF Started, Reused
  <2>3. \A p \in own, g \in DOMAIN snapshots : p \in snapshots[g].procs =>
          p \notin stopping /\ p \notin Started /\ (processes[p].state = "Ready" \/ Over(g)')
    BY <1>0, <1>1, <2>1 DEF OwnInv
  <2>4. \A e \in draining' : \E g \in DOMAIN snapshots :
          e.proc \in snapshots[g].procs /\ (e.proc \in own => Over(g)')
    BY <1>0, <1>1, <2>1 DEF OwnInv
  <2> QED
    BY <1>0, <2>1, <2>2, <2>3, <2>4 DEF OwnInv
<1>18. ASSUME NEW p \in stopping, StopStarted(p) PROVE OwnInv'
  <2>1. /\ p \in Launched
        /\ Becomes(p, "Stopping") \/ Becomes(p, "Stopped")
        /\ UNCHANGED <<snapshots, leasers, own, reload, draining>> /\ stopping' \subseteq stopping
    BY <1>0, <1>18 DEF StopStarted, KnownProcesses
  <2> QED
    BY <1>15, <2>1 DEF ProcessState
<1> QED
  BY <1>2, <1>3, <1>4, <1>5, <1>6, <1>7, <1>9, <1>10, <1>11, <1>12, <1>13, <1>14, <1>16, <1>17, <1>18
     DEF ExtensionsNext, RequiredFails, DryRunEnds

\* A run that leased the active generation finds the processes that were launched for this
\* generation alone callable until it releases the lease, for any number of components,
\* runs, reloads, failures, dry runs and drains: leases are counted, so that a generation
\* is drained only when it is over, and what a dropped candidate stops no generation has.
THEOREM LeasedProcessesStay == ExtensionsSpec => []LeasedStaysCallable
<1>1. ExtensionsInit => ExtensionsInv
  <2> SUFFICES ASSUME ExtensionsInit PROVE ExtensionsInv
    OBVIOUS
  <2> PICK first : first = [comps |-> Empty, procs |-> {}]
    OBVIOUS
  <2>1. first \in Generation /\ first.procs = {}
    BY DEF Generation, Empty, Composition
  <2>2. snapshots = <<first>> /\ snapshots \in Seq(Generation) /\ ActiveGeneration = 1
        /\ DOMAIN snapshots = {1} /\ snapshots[1] = first /\ snapshots # <<>>
    BY <2>1 DEF ExtensionsInit, ActiveGeneration
  <2>3. processes \in Seq(Process) /\ Len(processes) = 0 /\ Launched = {}
    BY EmptySeq DEF ExtensionsInit, Launched
  <2>4. ExtensionsType
    BY <2>2, <2>3, NoReloadType DEF ExtensionsInit, ExtensionsType, NoLease, Leaser
  <2>5. KnownProcesses
    BY <2>1, <2>2, <2>3, NoReloadType DEF ExtensionsInit, KnownProcesses
  <2>6. \A g \in 1..MaxGenerations : Holders(g) = {} /\ leases[g] = 0
    <3>1. \A r \in Leasers : leasers[r].pc = "idle"
      BY DEF ExtensionsInit, NoLease
    <3>2. \A g \in 1..MaxGenerations : leases[g] = 0
      BY DEF ExtensionsInit
    <3> QED
      BY <3>1, <3>2 DEF Holders
  <2>7. LeasesCounted
    <3>1. /\ retired = {} /\ reload.pc = "idle" /\ \A r \in Leasers : leasers[r].pc = "idle"
      BY NoReloadType DEF ExtensionsInit, NoLease
    <3>2. ActiveGeneration <= MaxGenerations
      BY <2>2, ExtensionsAssumption
    <3>3. \A g \in 1..MaxGenerations : IsFiniteSet(Holders(g)) /\ leases[g] = Cardinality(Holders(g))
      BY <2>6, FS_EmptySet
    <3> QED
      BY <3>1, <3>2, <3>3 DEF LeasesCounted
  <2>8. OwnInv
    BY <2>2, NoReloadType DEF ExtensionsInit, OwnInv, Reused
  <2> QED
    BY <2>4, <2>5, <2>7, <2>8 DEF ExtensionsInv
<1>2. ExtensionsInv => LeasedStaysCallable
  <2> SUFFICES ASSUME ExtensionsInv, NEW r \in Leasers, leasers[r].pc = "leased", leasers[r].timely,
                      NEW p \in snapshots[leasers[r].gen].procs, p \in own
               PROVE  processes[p].state = "Ready"
    BY DEF LeasedStaysCallable
  <2>1. leasers[r].gen \in DOMAIN snapshots /\ ~Over(leasers[r].gen)
    BY ExtensionsFields DEF ExtensionsInv, LeasesCounted, Over
  <2> QED
    BY <2>1 DEF ExtensionsInv, OwnInv
<1>3. ExtensionsInv /\ [ExtensionsNext]_extensionVars => ExtensionsInv'
  BY ExtensionsTyped, LeasesStep, OwnStep DEF ExtensionsInv
<1> QED
  BY <1>1, <1>2, <1>3, PTL DEF ExtensionsSpec

-----------------------------------------------------------------------------
(* Activation: places of a set in their order. *)

\* Ranks are numbers, and they follow the order of the places.
LEMMA RankType ==
  ASSUME NEW I \in SUBSET Nat, IsFiniteSet(I), NEW i \in I
  PROVE  RankIn(I, i) \in 1..Cardinality(I)
<1> DEFINE below == {j \in I : j <= i}
<1>1. IsFiniteSet(below) /\ Cardinality(below) <= Cardinality(I)
  BY FS_Subset
<1>2. Cardinality(below) \in Nat /\ Cardinality(I) \in Nat
  BY <1>1, FS_CardinalityType
<1>3. i \in below
  OBVIOUS
<1>4. Cardinality(below) # 0
  BY <1>1, <1>3, FS_EmptySet
<1> QED
  BY <1>1, <1>2, <1>4 DEF RankIn

LEMMA RankGrows ==
  ASSUME NEW I \in SUBSET Nat, IsFiniteSet(I), NEW i \in I, NEW j \in I, i < j
  PROVE  RankIn(I, i) < RankIn(I, j)
<1> DEFINE small == {k \in I : k <= i}
           large == {k \in I : k <= j}
<1>1. IsFiniteSet(large)
  <2>1. large \in SUBSET I
    OBVIOUS
  <2> QED
    BY <2>1, FS_Subset
<1>2. small \in SUBSET large
  <2>1. ASSUME NEW k \in I, k <= i PROVE k <= j
    <3>1. k \in Nat /\ i \in Nat /\ j \in Nat
      OBVIOUS
    <3> QED
      BY <2>1, <3>1
  <2> QED
    BY <2>1
<1>3. j \in large /\ j \notin small
  OBVIOUS
<1>4. /\ Cardinality(small) <= Cardinality(large)
      /\ Cardinality(large) = Cardinality(small) => large = small
  BY <1>1, <1>2, FS_Subset
<1>5. RankIn(I, i) = Cardinality(small) /\ RankIn(I, j) = Cardinality(large)
  BY DEF RankIn
<1>6. RankIn(I, i) \in Nat /\ RankIn(I, j) \in Nat
  BY RankType
<1>7. RankIn(I, i) <= RankIn(I, j) /\ RankIn(I, i) # RankIn(I, j)
  BY <1>3, <1>4, <1>5
<1> QED
  BY <1>6, <1>7

\* Every rank has its place.
LEMMA PlacesAreRanked ==
  ASSUME NEW I \in SUBSET Nat, IsFiniteSet(I)
  PROVE  /\ Cardinality(I) \in Nat
         /\ \A k \in 1..Cardinality(I) : NthOf(I, k) \in I /\ RankIn(I, NthOf(I, k)) = k
         /\ \A i \in I : NthOf(I, RankIn(I, i)) = i
         /\ \A k, l \in 1..Cardinality(I) : k < l => NthOf(I, k) < NthOf(I, l)
<1> DEFINE n == Cardinality(I)
           f == [i \in I |-> RankIn(I, i)]
<1>1. n \in Nat
  BY FS_CardinalityType
<1>2. \A i \in I : RankIn(I, i) \in 1..n
  BY RankType
<1>3. \A i, j \in I : RankIn(I, i) = RankIn(I, j) => i = j
  <2> SUFFICES ASSUME NEW i \in I, NEW j \in I, RankIn(I, i) = RankIn(I, j), i # j
               PROVE  FALSE
    OBVIOUS
  <2>1. i < j \/ j < i
    OBVIOUS
  <2>2. RankIn(I, i) \in Nat
    BY <1>2
  <2>3. CASE i < j
    BY <2>2, <2>3, RankGrows
  <2>4. CASE j < i
    BY <2>2, <2>4, RankGrows
  <2> QED
    BY <2>1, <2>3, <2>4
<1>4. f \in Injection(I, 1..n)
  BY <1>2, <1>3, Zenon DEF Injection, IsInjective
<1>5. IsFiniteSet(1..n) /\ Cardinality(1..n) = n
  BY <1>1, FS_Interval
<1>6. f \in Surjection(I, 1..n)
  BY <1>4, <1>5, FS_Injection
<1>7. \A k \in 1..n : \E i \in I : RankIn(I, i) = k
  BY <1>6 DEF Surjection
<1>8. \A k \in 1..n : NthOf(I, k) \in I /\ RankIn(I, NthOf(I, k)) = k
  BY <1>7 DEF NthOf
<1>9. \A i \in I : NthOf(I, RankIn(I, i)) = i
  BY <1>2, <1>3, <1>8
<1>10. ASSUME NEW k \in 1..n, NEW l \in 1..n, k < l
       PROVE  NthOf(I, k) < NthOf(I, l)
  <2> DEFINE a == NthOf(I, k)
             b == NthOf(I, l)
  <2>1. a \in I /\ b \in I /\ RankIn(I, a) = k /\ RankIn(I, b) = l
    BY <1>8
  <2> HIDE DEF a, b
  <2>2. a # b /\ a \in Nat /\ b \in Nat
    BY <1>10, <2>1
  <2>3. b < a => l < k
    BY <2>1, RankGrows
  <2>4. a < b \/ b < a
    BY <2>1, <2>2
  <2>5. a < b
    BY <1>10, <2>3, <2>4
  <2> QED
    BY <2>5 DEF a, b
<1> QED
  BY <1>1, <1>8, <1>9, <1>10

\* A set of places that is not empty has a last and a first one.
LEMMA LastPlace ==
  ASSUME NEW I \in SUBSET Nat, IsFiniteSet(I), I # {}
  PROVE  Max(I) \in I /\ Min(I) \in I
<1> DEFINE n == Cardinality(I)
<1>1. n \in Nat /\ n # 0
  BY FS_CardinalityType, FS_EmptySet
<1>2. 1 \in 1..n /\ n \in 1..n
  BY <1>1
<1>3. \A i \in I : RankIn(I, i) \in 1..n
  BY RankType
<1>4. PICK last \in I : RankIn(I, last) = n
  BY <1>2, PlacesAreRanked
<1>5. PICK first \in I : RankIn(I, first) = 1
  BY <1>2, PlacesAreRanked
<1> HIDE DEF n
<1>6. ASSUME NEW i \in I PROVE last >= i
  <2>1. last < i => RankIn(I, last) < RankIn(I, i)
    BY RankGrows
  <2>2. ~(last < i)
    BY <1>1, <1>3, <1>4, <2>1
  <2>3. last \in Nat /\ i \in Nat
    OBVIOUS
  <2> QED  BY <2>2, <2>3
<1>7. ASSUME NEW i \in I PROVE first <= i
  <2>1. i < first => RankIn(I, i) < RankIn(I, first)
    BY RankGrows
  <2>2. ~(i < first)
    BY <1>1, <1>3, <1>5, <2>1
  <2>3. first \in Nat /\ i \in Nat
    OBVIOUS
  <2> QED  BY <2>2, <2>3
<1>8. Max(I) \in I
  BY <1>6 DEF Max
<1>9. Min(I) \in I
  BY <1>7 DEF Min
<1> QED  BY <1>8, <1>9

-----------------------------------------------------------------------------
(* Activation: lists of packages. *)

PackageStates ==
  [package : {PackageOf[m] : m \in Manifests}, manifest : Manifests, instance : Nat,
   trusted : BOOLEAN, parts : SUBSET Parts]

\* A package is listed once for an instance.
PackageList(ps) ==
  /\ ps \in Seq(PackageStates)
  /\ \A m, n \in DOMAIN ps :
       ps[m].package = ps[n].package /\ ps[m].instance = ps[n].instance => m = n

Eligible(p) == host = "runtime" => p.package \notin settings.disabled
Granted(p) == p.manifest \in settings.trusted \/ (settings.allow /\ Asked(p.package))
Placed(p) ==
  AnyConfigured =>
    /\ p.instance \in ConfiguredInstances /\ Enabled(p.instance)
    /\ settings.instances[p.instance].package = p.package
    /\ p.parts \cap settings.instances[p.instance].off = {}

SoundList(ps) ==
  PackageList(ps) /\ \A n \in DOMAIN ps : Eligible(ps[n]) /\ Granted(ps[n]) /\ Placed(ps[n])

\* Every element of a list is one of another, but for its instance, trust and parts.
DrawnFrom(qs, ps) ==
  \A n \in DOMAIN qs : \E k \in DOMAIN ps :
    qs[n].package = ps[k].package /\ qs[n].manifest = ps[k].manifest

\* A process is one of a package of the list.
Serves(x, ps) ==
  \E n \in DOMAIN ps :
    /\ x.package = ps[n].package /\ x.instance = ps[n].instance
    /\ x.manifest = ps[n].manifest /\ x.part \in ps[n].parts

SoundGeneration(g) ==
  /\ SoundList(g.packages)
  /\ \A x \in g.processes : Serves(x, g.packages)
  /\ g.capabilities \subseteq g.clients

\* The pins come from the configuration, before the first activation.
ActivationInv ==
  /\ settings \in Settings
  /\ host \in {"runtime", "host"}
  /\ pins # NotConfigured => pins \subseteq settings.trusted
  /\ active.number > 0 => pins \subseteq settings.trusted
  /\ SoundGeneration(active)

\* Discovery lists the first manifest of each package.
LEMMA FoundType ==
  ASSUME NEW places \in SUBSET PlaceIndexes
  PROVE  PackageList(Found(places))
<1> DEFINE Counts(n) ==
             /\ n \in places /\ onDisk[n] \in Manifests
             /\ \A e \in places : e < n /\ onDisk[e] \in Manifests =>
                  PackageOf[onDisk[e]] # PackageOf[onDisk[n]]
           Template(n) ==
             [package |-> PackageOf[onDisk[n]], manifest |-> onDisk[n],
              instance |-> 0, trusted |-> FALSE, parts |-> PartsOf[onDisk[n]]]
           counted == {n \in PlaceIndexes : Counts(n)}
           k == Cardinality(counted)
           f == [i \in 1..k |-> Template(NthOf(counted, i))]
<1>1. Found(places) = f
  BY DEF Found
<1>2. counted \in SUBSET Nat /\ IsFiniteSet(counted)
  <2>1. IsFiniteSet(PlaceIndexes) /\ PlaceIndexes \in SUBSET Nat
    BY PlacesAssumption, FS_Interval DEF PlaceIndexes
  <2>2. counted \in SUBSET PlaceIndexes
    OBVIOUS
  <2> QED  BY <2>1, <2>2, FS_Subset
<1>3. ASSUME NEW n \in counted PROVE Template(n) \in PackageStates
  <2>1. onDisk[n] \in Manifests
    BY <1>3
  <2>2. PartsOf[onDisk[n]] \in SUBSET Parts
    BY <2>1 DEF Parts
  <2> QED  BY <2>1, <2>2 DEF PackageStates
<1>4. ASSUME NEW m \in counted, NEW n \in counted, m < n
      PROVE  Template(m).package # Template(n).package
  BY <1>4
<1> HIDE DEF counted
<1>5. /\ k \in Nat
      /\ \A i \in 1..k : NthOf(counted, i) \in counted
      /\ \A i, j \in 1..k : i < j => NthOf(counted, i) < NthOf(counted, j)
  BY <1>2, PlacesAreRanked
<1> HIDE DEF Template, k
<1>6. f \in Seq(PackageStates)
  <2>1. f \in [1..k -> PackageStates]
    BY <1>3, <1>5
  <2> QED  BY <1>5, <2>1, SeqDef
<1>7. ASSUME NEW m \in 1..k, NEW n \in 1..k, f[m].package = f[n].package PROVE m = n
  <2>1. m < n => f[m].package # f[n].package
    BY <1>4, <1>5
  <2>2. n < m => f[m].package # f[n].package
    BY <1>4, <1>5
  <2> QED  BY <1>7, <2>1, <2>2
<1>8. PackageList(f)
  BY <1>6, <1>7 DEF PackageList
<1> QED  BY <1>1, <1>8

\* Trust changes nothing but the trust, and follows the pins.
LEMMA TrustKeeps ==
  ASSUME NEW ps, PackageList(ps), NEW trusted
  PROVE  /\ PackageList(ApplyTrust(ps, trusted)) /\ DrawnFrom(ApplyTrust(ps, trusted), ps)
         /\ \A n \in DOMAIN ApplyTrust(ps, trusted) :
              ApplyTrust(ps, trusted)[n].trusted => ApplyTrust(ps, trusted)[n].manifest \in trusted
<1> DEFINE qs == ApplyTrust(ps, trusted)
<1>1. ps \in Seq(PackageStates) /\ DOMAIN qs = DOMAIN ps
  BY DEF PackageList, ApplyTrust
<1>2. ASSUME NEW n \in DOMAIN ps
      PROVE  /\ qs[n] \in PackageStates
             /\ qs[n].package = ps[n].package /\ qs[n].manifest = ps[n].manifest
             /\ qs[n].instance = ps[n].instance
             /\ qs[n].trusted => qs[n].manifest \in trusted
  <2> DEFINE p == ps[n]
             matched == \E pin \in trusted : MatchesPin(pin, p)
  <2>1. p \in PackageStates
    BY <1>1
  <2>2. qs[n] = [p EXCEPT !.trusted = matched]
    BY DEF ApplyTrust
  <2>3. matched => p.manifest \in trusted
    BY DEF MatchesPin
  <2>4. matched \in BOOLEAN
    OBVIOUS
  <2> HIDE DEF p, matched, qs
  <2> QED  BY <2>1, <2>2, <2>3, <2>4 DEF PackageStates, p
<1>3. qs \in Seq(PackageStates)
  <2>1. DOMAIN ps = 1..Len(ps) /\ Len(ps) \in Nat
    BY <1>1
  <2>2. qs = [i \in 1..Len(ps) |-> qs[i]]
    BY <2>1 DEF ApplyTrust
  <2> HIDE DEF qs
  <2>3. qs \in [1..Len(ps) -> PackageStates]
    BY <1>2, <2>1, <2>2
  <2> QED  BY <2>1, <2>3, SeqDef
<1> HIDE DEF qs
<1>4. PackageList(qs)
  BY <1>1, <1>2, <1>3 DEF PackageList
<1>5. DrawnFrom(qs, ps)
  BY <1>1, <1>2 DEF DrawnFrom
<1> QED  BY <1>1, <1>2, <1>4, <1>5 DEF qs

\* A part of a list is a list of some of its elements.
LEMMA PartOfList ==
  ASSUME NEW ps, PackageList(ps), NEW I \in SUBSET DOMAIN ps
  PROVE  /\ PackageList(Subsequence(ps, I))
         /\ \A n \in DOMAIN Subsequence(ps, I) : \E i \in I : Subsequence(ps, I)[n] = ps[i]
<1> DEFINE k == Cardinality(I)
           qs == [n \in 1..k |-> ps[NthOf(I, n)]]
<1>1. ps \in Seq(PackageStates)
  BY DEF PackageList
<1>2. IsFiniteSet(I) /\ I \in SUBSET Nat
  <2>1. DOMAIN ps = 1..Len(ps) /\ Len(ps) \in Nat
    BY <1>1
  <2>2. IsFiniteSet(1..Len(ps)) /\ 1..Len(ps) \in SUBSET Nat
    BY <2>1, FS_Interval
  <2> QED  BY <2>1, <2>2, FS_Subset
<1>3. /\ k \in Nat
      /\ \A i \in 1..k : NthOf(I, i) \in I
      /\ \A i, j \in 1..k : i < j => NthOf(I, i) < NthOf(I, j)
  BY <1>2, PlacesAreRanked
<1> HIDE DEF k
<1>4. \A i \in I : ps[i] \in PackageStates
  BY <1>1
<1>5. qs \in Seq(PackageStates)
  <2>1. qs \in [1..k -> PackageStates]
    BY <1>3, <1>4
  <2> QED  BY <1>3, <2>1, SeqDef
<1>6. ASSUME NEW m \in 1..k, NEW n \in 1..k, qs[m].package = qs[n].package,
             qs[m].instance = qs[n].instance
      PROVE  m = n
  <2> DEFINE a == NthOf(I, m)
             b == NthOf(I, n)
  <2>1. a \in I /\ b \in I /\ qs[m] = ps[a] /\ qs[n] = ps[b]
    BY <1>3
  <2>2. (m < n => a < b) /\ (n < m => b < a) /\ a \in Nat /\ b \in Nat
    BY <1>2, <1>3
  <2> HIDE DEF a, b, qs
  <2>3. a = b
    BY <1>6, <2>1 DEF PackageList
  <2> QED  BY <2>2, <2>3
<1>7. PackageList(qs)
  BY <1>5, <1>6 DEF PackageList
<1>8. \A n \in DOMAIN qs : \E i \in I : qs[n] = ps[i]
  BY <1>3
<1>9. Subsequence(ps, I) = qs
  BY DEF Subsequence, k
<1> QED  BY <1>7, <1>8, <1>9

\* What is admitted is trusted or asked for; what is not disabled may run.
LEMMA AdmittedType ==
  ASSUME NEW ps, PackageList(ps)
  PROVE  /\ PackageList(Admitted(ps)) /\ DrawnFrom(Admitted(ps), ps)
         /\ \A n \in DOMAIN Admitted(ps) : \E i \in DOMAIN ps :
              Admitted(ps)[n] = ps[i] /\ Admits(ps[i])
<1> DEFINE I == {n \in DOMAIN ps : Admits(ps[n])}
<1>1. I \in SUBSET DOMAIN ps /\ Admitted(ps) = Subsequence(ps, I)
  BY DEF Admitted
<1>2. \A i \in I : i \in DOMAIN ps /\ Admits(ps[i])
  OBVIOUS
<1> HIDE DEF I
<1>3. /\ PackageList(Subsequence(ps, I))
      /\ \A n \in DOMAIN Subsequence(ps, I) : \E i \in I : Subsequence(ps, I)[n] = ps[i]
  BY <1>1, PartOfList
<1> QED  BY <1>1, <1>2, <1>3 DEF DrawnFrom

LEMMA NotDisabledType ==
  ASSUME NEW ps, PackageList(ps)
  PROVE  /\ PackageList(NotDisabled(ps))
         /\ \A n \in DOMAIN NotDisabled(ps) : NotDisabled(ps)[n].package \notin settings.disabled
<1> DEFINE I == {n \in DOMAIN ps : ps[n].package \notin settings.disabled}
<1>1. I \in SUBSET DOMAIN ps /\ NotDisabled(ps) = Subsequence(ps, I)
  BY DEF NotDisabled
<1>2. \A i \in I : ps[i].package \notin settings.disabled
  OBVIOUS
<1> HIDE DEF I
<1>3. /\ PackageList(Subsequence(ps, I))
      /\ \A n \in DOMAIN Subsequence(ps, I) : \E i \in I : Subsequence(ps, I)[n] = ps[i]
  BY <1>1, PartOfList
<1> QED  BY <1>1, <1>2, <1>3

\* An instance is of the package that it is configured for, without what is off.
LEMMA InstanceType ==
  ASSUME settings \in Settings, NEW p \in PackageStates, NEW i \in ConfiguredInstances,
         p.package = settings.instances[i].package, Enabled(i)
  PROVE  LET q == Instantiate(p, i) IN
         /\ q \in PackageStates /\ q.package = p.package /\ q.manifest = p.manifest
         /\ q.instance = i /\ Placed(q)
<1> DEFINE off == settings.instances[i].off
           q == Instantiate(p, i)
<1>1. q = [p EXCEPT !.instance = i, !.parts = p.parts \ off]
  BY DEF Instantiate, PackageStates
<1>2. i \in Nat
  BY SettingsAssumption DEF ConfiguredInstances
<1>3. p.parts \ off \in SUBSET Parts
  BY DEF PackageStates
<1> HIDE DEF off
<1>4. /\ q \in PackageStates /\ q.package = p.package /\ q.manifest = p.manifest
      /\ q.instance = i /\ q.parts = p.parts \ off
  BY <1>1, <1>2, <1>3 DEF PackageStates
<1> HIDE DEF q
<1>5. Placed(q)
  BY <1>4 DEF Placed, off
<1> QED  BY <1>4, <1>5 DEF q

\* The templates of an instance are elements of the list; the last and the first are among them.
LEMMA TemplateType ==
  ASSUME NEW ps, PackageList(ps), NEW i, Templates(ps, i) # {}
  PROVE  /\ Max(Templates(ps, i)) \in Templates(ps, i)
         /\ Min(Templates(ps, i)) \in Templates(ps, i)
         /\ \A n \in Templates(ps, i) :
              /\ n \in DOMAIN ps /\ ps[n] \in PackageStates
              /\ ps[n].package = settings.instances[i].package
<1> DEFINE T == Templates(ps, i)
<1>1. ps \in Seq(PackageStates)
  BY DEF PackageList
<1>2. DOMAIN ps = 1..Len(ps) /\ Len(ps) \in Nat
  BY <1>1
<1>3. IsFiniteSet(1..Len(ps)) /\ 1..Len(ps) \in SUBSET Nat
  BY <1>2, FS_Interval
<1>4. T \in SUBSET (1..Len(ps))
  BY <1>2 DEF Templates
<1>5. T \in SUBSET Nat /\ IsFiniteSet(T)
  BY <1>3, <1>4, FS_Subset
<1>6. \A n \in T : n \in DOMAIN ps /\ ps[n] \in PackageStates
                     /\ ps[n].package = settings.instances[i].package
  BY <1>1 DEF Templates
<1> HIDE DEF T
<1>7. T # {}
  BY DEF T
<1>8. Max(T) \in T /\ Min(T) \in T
  BY <1>5, <1>7, LastPlace
<1> QED  BY <1>6, <1>8 DEF T

LEMMA DrawnTwice ==
  ASSUME NEW ps, NEW qs, NEW rs, DrawnFrom(rs, qs), DrawnFrom(qs, ps)
  PROVE  DrawnFrom(rs, ps)
<1> SUFFICES ASSUME NEW n \in DOMAIN rs
             PROVE  \E k \in DOMAIN ps :
                      rs[n].package = ps[k].package /\ rs[n].manifest = ps[k].manifest
  BY DEF DrawnFrom
<1>1. PICK m \in DOMAIN qs : rs[n].package = qs[m].package /\ rs[n].manifest = qs[m].manifest
  BY DEF DrawnFrom
<1>2. PICK k \in DOMAIN ps : qs[m].package = ps[k].package /\ qs[m].manifest = ps[k].manifest
  BY DEF DrawnFrom
<1> QED  BY <1>1, <1>2

\* Resolution gives an instance for each that is enabled, drawn from the packages.
LEMMA ResolveType ==
  ASSUME settings \in Settings, NEW ps, PackageList(ps), Resolvable(ps)
  PROVE  /\ PackageList(Resolve(ps)) /\ DrawnFrom(Resolve(ps), ps)
         /\ \A n \in DOMAIN Resolve(ps) : Placed(Resolve(ps)[n])
<1>1. CASE ~AnyConfigured
  <2>1. Resolve(ps) = ps
    BY <1>1 DEF Resolve
  <2> QED  BY <1>1, <2>1 DEF DrawnFrom, Placed
<1>2. CASE AnyConfigured
  <2> DEFINE k == Cardinality(Wanted)
             qs == [n \in 1..k |-> Instance(ps, NthOf(Wanted, n))]
  <2>1. Resolve(ps) = qs
    BY <1>2 DEF Resolve
  <2>2. Wanted \in SUBSET Nat /\ IsFiniteSet(Wanted)
    <3>1. settings.instances \in Seq(Configurations)
      BY SettingsAssumption
    <3>2. ConfiguredInstances = 1..Len(settings.instances) /\ Len(settings.instances) \in Nat
      BY <3>1 DEF ConfiguredInstances
    <3>3. IsFiniteSet(ConfiguredInstances) /\ ConfiguredInstances \in SUBSET Nat
      BY <3>2, FS_Interval
    <3>4. Wanted \in SUBSET ConfiguredInstances
      BY DEF Wanted
    <3> QED  BY <3>3, <3>4, FS_Subset
  <2>3. /\ k \in Nat
        /\ \A n \in 1..k : NthOf(Wanted, n) \in Wanted
        /\ \A m, n \in 1..k : m < n => NthOf(Wanted, m) < NthOf(Wanted, n)
    BY <2>2, PlacesAreRanked
  <2>4. ASSUME NEW i \in Wanted
        PROVE  LET q == Instance(ps, i) IN
               /\ q \in PackageStates /\ q.instance = i /\ Placed(q)
               /\ \E n \in DOMAIN ps : q.package = ps[n].package /\ q.manifest = ps[n].manifest
    <3> DEFINE n == Max(Templates(ps, i))
    <3>1. i \in ConfiguredInstances /\ Enabled(i)
      BY DEF Wanted
    <3>2. Templates(ps, i) # {}
      BY <1>2, <3>1 DEF Resolvable
    <3>3. /\ n \in DOMAIN ps /\ ps[n] \in PackageStates
          /\ ps[n].package = settings.instances[i].package
      BY <3>2, TemplateType
    <3> HIDE DEF n
    <3> DEFINE p == ps[n]
               q == Instantiate(p, i)
    <3>4. p \in PackageStates /\ p.package = settings.instances[i].package
      BY <3>3
    <3> HIDE DEF p
    <3>5. /\ q \in PackageStates /\ q.package = p.package /\ q.manifest = p.manifest
          /\ q.instance = i /\ Placed(q)
      BY <3>1, <3>4, InstanceType
    <3>6. Instance(ps, i) = q
      BY DEF Instance, n, p
    <3> HIDE DEF q
    <3> QED  BY <3>3, <3>5, <3>6 DEF p
  <2> HIDE DEF k
  <2>5. qs \in Seq(PackageStates)
    <3>1. qs \in [1..k -> PackageStates]
      BY <2>3, <2>4
    <3> QED  BY <2>3, <3>1, SeqDef
  <2>6. ASSUME NEW m \in 1..k, NEW n \in 1..k, qs[m].instance = qs[n].instance PROVE m = n
    <3> DEFINE a == NthOf(Wanted, m)
               b == NthOf(Wanted, n)
    <3>1. qs[m].instance = a /\ qs[n].instance = b
      BY <2>3, <2>4
    <3>2. (m < n => a < b) /\ (n < m => b < a) /\ a \in Nat /\ b \in Nat
      BY <2>2, <2>3
    <3> HIDE DEF a, b, qs
    <3>3. a = b
      BY <2>6, <3>1
    <3> QED  BY <3>2, <3>3
  <2>7. PackageList(qs)
    BY <2>5, <2>6 DEF PackageList
  <2>8. DrawnFrom(qs, ps) /\ \A n \in DOMAIN qs : Placed(qs[n])
    BY <2>3, <2>4 DEF DrawnFrom
  <2> QED  BY <2>1, <2>7, <2>8
<1> QED  BY <1>1, <1>2

\* What the pipeline admits of a list is granted, and eligible as the list is.
LEMMA PipelineAdmits ==
  ASSUME pins \subseteq settings.trusted, NEW ps, PackageList(ps),
         \A n \in DOMAIN ps : Eligible(ps[n])
  PROVE  LET qs == Admitted(ApplyTrust(ps, pins)) IN
         PackageList(qs) /\ \A n \in DOMAIN qs : Eligible(qs[n]) /\ Granted(qs[n])
<1> DEFINE ts == ApplyTrust(ps, pins)
           qs == Admitted(ts)
<1>1. /\ PackageList(ts) /\ DrawnFrom(ts, ps)
      /\ \A n \in DOMAIN ts : ts[n].trusted => ts[n].manifest \in pins
  BY TrustKeeps
<1> HIDE DEF ts
<1>2. /\ PackageList(qs)
      /\ \A n \in DOMAIN qs : \E i \in DOMAIN ts : qs[n] = ts[i] /\ Admits(ts[i])
  BY <1>1, AdmittedType
<1> HIDE DEF qs
<1>3. ASSUME NEW n \in DOMAIN qs PROVE Eligible(qs[n]) /\ Granted(qs[n])
  <2>1. PICK i \in DOMAIN ts : qs[n] = ts[i] /\ Admits(ts[i])
    BY <1>2
  <2>2. PICK k \in DOMAIN ps : ts[i].package = ps[k].package /\ ts[i].manifest = ps[k].manifest
    BY <1>1 DEF DrawnFrom
  <2>3. Eligible(qs[n])
    BY <2>1, <2>2 DEF Eligible
  <2>4. Granted(qs[n])
    BY <1>1, <2>1 DEF Granted, Admits
  <2> QED  BY <2>3, <2>4
<1> QED  BY <1>2, <1>3 DEF qs, ts

\* Packages drawn from what is eligible and granted are, too.
LEMMA DrawnAreSound ==
  ASSUME NEW qs, PackageList(qs), \A n \in DOMAIN qs : Eligible(qs[n]) /\ Granted(qs[n]),
         NEW rs, PackageList(rs), DrawnFrom(rs, qs), \A n \in DOMAIN rs : Placed(rs[n])
  PROVE  SoundList(rs)
<1> SUFFICES ASSUME NEW n \in DOMAIN rs PROVE Eligible(rs[n]) /\ Granted(rs[n])
  BY DEF SoundList
<1>1. PICK k \in DOMAIN qs : rs[n].package = qs[k].package /\ rs[n].manifest = qs[k].manifest
  BY DEF DrawnFrom
<1> QED  BY <1>1 DEF Eligible, Granted

LEMMA CompositionIsSound ==
  ASSUME settings \in Settings, pins \subseteq settings.trusted,
         NEW ps, PackageList(ps), \A n \in DOMAIN ps : Eligible(ps[n]),
         NEW qs, qs = Admitted(ApplyTrust(ps, pins)), Resolvable(qs)
  PROVE  SoundList(Resolve(qs))
<1> DEFINE rs == Resolve(qs)
<1>1. PackageList(qs) /\ \A n \in DOMAIN qs : Eligible(qs[n]) /\ Granted(qs[n])
  BY PipelineAdmits
<1>2. PackageList(rs) /\ DrawnFrom(rs, qs) /\ \A n \in DOMAIN rs : Placed(rs[n])
  BY <1>1, ResolveType
<1> HIDE DEF rs
<1>3. SoundList(rs)
  BY <1>1, <1>2, DrawnAreSound
<1> QED  BY <1>3 DEF rs

\* A targeted reload replaces one instance, or adds it.
LEMMA TargetedIsSound ==
  ASSUME settings \in Settings, NEW target \in ConfiguredInstances,
         SoundList(active.packages),
         NEW qs, PackageList(qs), \A n \in DOMAIN qs : Eligible(qs[n]) /\ Granted(qs[n]),
         Targetable(qs, target)
  PROVE  SoundList(Targeted(qs, target))
<1> DEFINE n == Min(Templates(qs, target))
           p == qs[n]
           new == Instantiate(p, target)
           others == active.packages
<1>1. Enabled(target) /\ Templates(qs, target) # {}
  BY DEF Targetable
<1>2. /\ n \in DOMAIN qs /\ p \in PackageStates
      /\ p.package = settings.instances[target].package
  BY <1>1, TemplateType
<1>3. Eligible(p) /\ Granted(p)
  BY <1>2
<1>4. Targeted(qs, target) =
        IF \E k \in DOMAIN others : others[k].instance = target
        THEN [k \in DOMAIN others |-> IF others[k].instance = target THEN new ELSE others[k]]
        ELSE Append(others, new)
  BY DEF Targeted
<1> HIDE DEF p
<1>5. /\ new \in PackageStates /\ new.package = p.package /\ new.manifest = p.manifest
      /\ new.instance = target /\ Placed(new)
  BY <1>1, <1>2, InstanceType
<1>6. Eligible(new) /\ Granted(new)
  BY <1>3, <1>5 DEF Eligible, Granted
<1>7. new.package = settings.instances[target].package
  BY <1>2, <1>5
<1> HIDE DEF new
<1>8. AnyConfigured
  BY DEF AnyConfigured
<1>9. /\ others \in Seq(PackageStates)
      /\ \A k \in DOMAIN others :
           Eligible(others[k]) /\ Granted(others[k]) /\ Placed(others[k])
      /\ \A k, l \in DOMAIN others :
           others[k].package = others[l].package /\ others[k].instance = others[l].instance
             => k = l
  BY DEF SoundList, PackageList
<1>10. \A k \in DOMAIN others :
         others[k].instance = target => others[k].package = new.package
  BY <1>7, <1>8, <1>9 DEF Placed
<1> HIDE DEF others
<1>11. CASE \E k \in DOMAIN others : others[k].instance = target
  <2> DEFINE rs == [k \in DOMAIN others |->
                      IF others[k].instance = target THEN new ELSE others[k]]
  <2>1. Targeted(qs, target) = rs
    BY <1>4, <1>11
  <2>2. ASSUME NEW k \in DOMAIN others
        PROVE  /\ rs[k] \in PackageStates /\ Eligible(rs[k]) /\ Granted(rs[k]) /\ Placed(rs[k])
               /\ rs[k].package = others[k].package /\ rs[k].instance = others[k].instance
    <3>1. others[k] \in PackageStates
      BY <1>9
    <3>2. CASE others[k].instance = target
      <4>1. rs[k] = new
        BY <3>2
      <4> HIDE DEF rs
      <4> QED  BY <1>5, <1>6, <1>10, <3>2, <4>1
    <3>3. CASE others[k].instance # target
      <4>1. rs[k] = others[k]
        BY <3>3
      <4> HIDE DEF rs
      <4> QED  BY <1>9, <3>1, <4>1
    <3> QED  BY <3>2, <3>3
  <2>3. DOMAIN rs = DOMAIN others /\ DOMAIN others = 1..Len(others) /\ Len(others) \in Nat
    BY <1>9
  <2>4. rs = [k \in 1..Len(others) |-> rs[k]]
    BY <2>3
  <2> HIDE DEF rs
  <2>5. rs \in Seq(PackageStates)
    <3>1. rs \in [1..Len(others) -> PackageStates]
      BY <2>2, <2>3, <2>4
    <3> QED  BY <2>3, <3>1, SeqDef
  <2>6. ASSUME NEW k \in DOMAIN rs, NEW l \in DOMAIN rs, rs[k].package = rs[l].package,
               rs[k].instance = rs[l].instance
        PROVE  k = l
    BY <1>9, <2>2, <2>3, <2>6
  <2>7. SoundList(rs)
    BY <2>2, <2>3, <2>5, <2>6 DEF SoundList, PackageList
  <2> QED  BY <2>1, <2>7
<1>12. CASE ~\E k \in DOMAIN others : others[k].instance = target
  <2> DEFINE rs == Append(others, new)
             m == Len(others) + 1
  <2>1. Targeted(qs, target) = rs
    BY <1>4, <1>12
  <2>2. /\ rs \in Seq(PackageStates) /\ DOMAIN rs = DOMAIN others \cup {m} /\ rs[m] = new
        /\ \A k \in DOMAIN others : rs[k] = others[k]
    BY <1>5, <1>9
  <2> HIDE DEF rs, m
  <2>3. ASSUME NEW k \in DOMAIN rs, NEW l \in DOMAIN rs, rs[k].package = rs[l].package,
               rs[k].instance = rs[l].instance
        PROVE  k = l
    BY <1>5, <1>9, <1>12, <2>2, <2>3
  <2>4. \A k \in DOMAIN rs : Eligible(rs[k]) /\ Granted(rs[k]) /\ Placed(rs[k])
    BY <1>5, <1>6, <1>9, <2>2
  <2>5. SoundList(rs)
    BY <2>2, <2>3, <2>4 DEF SoundList, PackageList
  <2> QED  BY <2>1, <2>5
<1> QED  BY <1>11, <1>12

\* A process that is reused serves the package that is as it was.
LEMMA ReusedServes ==
  ASSUME SoundGeneration(active), NEW c, NEW n \in DOMAIN c, NEW part \in c[n].parts,
         NEW force, Unchanged(c[n], part, force), NEW x \in ProcessesOf(c[n], part)
  PROVE  Serves(x, c)
<1>1. PICK m \in DOMAIN active.packages : SameKey(active.packages[m], c[n])
  BY DEF Unchanged
<1>2. /\ x \in active.processes /\ x.package = c[n].package /\ x.instance = c[n].instance
      /\ x.part = part
  BY DEF ProcessesOf
<1>3. PICK l \in DOMAIN active.packages :
        /\ x.package = active.packages[l].package /\ x.instance = active.packages[l].instance
        /\ x.manifest = active.packages[l].manifest
  BY <1>2 DEF SoundGeneration, Serves
<1>4. l = m
  BY <1>1, <1>2, <1>3 DEF SoundGeneration, SoundList, PackageList, SameKey
<1>5. x.manifest = c[n].manifest
  BY <1>1, <1>3, <1>4 DEF SameKey
<1> QED  BY <1>2, <1>5 DEF Serves

\* What a sound composition activates is sound.
LEMMA ActivatesSound ==
  ASSUME SoundGeneration(active), NEW c, SoundList(c), NEW force, NEW failed, NEW mute
  PROVE  SoundGeneration(Activates(c, force, failed, mute))
<1> DEFINE components == UNION {{<<n, p>> : p \in c[n].parts \cap Lifecycle} : n \in DOMAIN c}
           Kept(n, p) == IF Unchanged(c[n], p, force) THEN ProcessesOf(c[n], p) ELSE {}
           Fresh(n, p) == [package |-> c[n].package, instance |-> c[n].instance,
                              part |-> p, manifest |-> c[n].manifest]
           alive == {k \in components : Kept(k[1], k[2]) # {} \/ k[2] \notin failed}
           Id(k) == <<c[k[1]].package, c[k[1]].instance, k[2]>>
           Processes(k) == IF Kept(k[1], k[2]) # {} THEN Kept(k[1], k[2])
                           ELSE {Fresh(k[1], k[2])}
           answering == {a \in alive : IF Unchanged(c[a[1]], a[2], force)
                                       THEN Id(a) \in active.capabilities
                                       ELSE a[2] \notin mute}
           g == Activates(c, force, failed, mute)
<1>1. /\ g.packages = c
      /\ g.processes = UNION {Processes(k) : k \in alive}
      /\ g.clients = {Id(k) : k \in alive}
      /\ g.capabilities = {Id(k) : k \in answering}
  BY DEF Activates
<1>2. ASSUME NEW k \in alive PROVE k[1] \in DOMAIN c /\ k[2] \in c[k[1]].parts
  <2>1. PICK n \in DOMAIN c : k \in {<<n, p>> : p \in c[n].parts \cap Lifecycle}
    OBVIOUS
  <2> QED  BY <2>1
<1>3. answering \subseteq alive
  OBVIOUS
<1> HIDE DEF alive, answering, g
<1>4. ASSUME NEW k \in alive, NEW x \in Processes(k) PROVE Serves(x, c)
  <2> DEFINE n == k[1]
             part == k[2]
  <2>1. n \in DOMAIN c /\ part \in c[n].parts
    BY <1>2
  <2> HIDE DEF n, part
  <2>2. x \in Kept(n, part) \/ x = Fresh(n, part)
    BY <1>4 DEF n, part
  <2>3. CASE x \in Kept(n, part)
    <3>1. Unchanged(c[n], part, force) /\ x \in ProcessesOf(c[n], part)
      BY <2>3
    <3> QED  BY <2>1, <3>1, ReusedServes
  <2>4. CASE x = Fresh(n, part)
    BY <2>1, <2>4 DEF Serves
  <2> QED  BY <2>2, <2>3, <2>4
<1> HIDE DEF Processes
<1>5. \A x \in g.processes : Serves(x, g.packages)
  BY <1>1, <1>4
<1>6. g.capabilities \subseteq g.clients
  BY <1>1, <1>3
<1> QED  BY <1>1, <1>5, <1>6 DEF SoundGeneration, g

-----------------------------------------------------------------------------
(* Activation: the inductive invariant. *)

\* Soundness is about a configuration and a host, which do not change.
LEMMA SoundnessStays ==
  ASSUME NEW g, SoundGeneration(g), active' = g, host' = host, settings' = settings
  PROVE  SoundGeneration(active)'
<1>1. \A p : /\ Eligible(p)' <=> Eligible(p)
             /\ Granted(p)' <=> Granted(p)
             /\ Placed(p)' <=> Placed(p)
  BY DEF Eligible, Granted, Placed, Asked, ConfiguredInstances, Enabled, AnyConfigured
<1>2. SoundList(g.packages)
  BY DEF SoundGeneration
<1>3. SoundList(active.packages)'
  BY <1>1, <1>2 DEF SoundList, PackageList
<1>4. (\A x \in active.processes : Serves(x, active.packages))'
  BY DEF SoundGeneration, Serves
<1>5. (active.capabilities \subseteq active.clients)'
  BY DEF SoundGeneration
<1> QED  BY <1>3, <1>4, <1>5 DEF SoundGeneration

\* A generation of a sound composition keeps the invariant.
LEMMA PublishKeeps ==
  ASSUME ActivationInv, NEW c, SoundList(c), NEW force, Publishes(c, force),
         host' = host, settings' = settings,
         pins' \subseteq settings.trusted
  PROVE  ActivationInv'
<1>1. PICK failed, mute \in SUBSET (Lifecycle \cap OptionalParts) :
        active' = Activates(c, force, failed, mute)
  BY DEF Publishes
<1> DEFINE g == Activates(c, force, failed, mute)
<1>2. SoundGeneration(g)
  BY ActivatesSound DEF ActivationInv
<1>3. active' = g
  BY <1>1
<1> HIDE DEF g
<1>4. SoundGeneration(active)'
  BY <1>2, <1>3, SoundnessStays
<1> QED  BY <1>4 DEF ActivationInv

\* Nothing is active in the beginning.
LEMMA InitActivationInv == ActivationInit => ActivationInv
<1> SUFFICES ASSUME ActivationInit PROVE ActivationInv
  OBVIOUS
<1>1. active.packages = <<>> /\ active.processes = {} /\ active.clients = {}
      /\ active.capabilities = {} /\ active.number = 0
  BY DEF ActivationInit, NoGeneration
<1>2. SoundGeneration(active)
  <2>1. <<>> \in Seq(PackageStates) /\ DOMAIN <<>> = {}
    OBVIOUS
  <2>2. SoundList(<<>>)
    BY <2>1 DEF SoundList, PackageList
  <2> QED  BY <1>1, <2>2 DEF SoundGeneration
<1> QED  BY <1>1, <1>2 DEF ActivationInit, ActivationInv

\* The application pins what it trusts of what it finds.
LEMMA AppDiscoversPinsKeeps == ASSUME ActivationInv, AppDiscoversPins PROVE ActivationInv'
<1>1. /\ host' = host /\ settings' = settings /\ active' = active
  BY DEF AppDiscoversPins
<1>2. pins' \subseteq settings.trusted
  BY DEF AppDiscoversPins, TrustedEntries
<1>3. SoundGeneration(active)'
  BY <1>1, SoundnessStays DEF ActivationInv
<1> QED  BY <1>1, <1>2, <1>3 DEF ActivationInv

\* What the application gives its runtime is not disabled.
LEMMA AppPackagesType ==
  PackageList(AppPackages) /\ \A n \in DOMAIN AppPackages : Eligible(AppPackages[n])
<1>1. CASE ~Discoverable(PlaceIndexes)
  <2>1. AppPackages = <<>>
    BY <1>1 DEF AppPackages
  <2>2. <<>> \in Seq(PackageStates) /\ DOMAIN <<>> = {}
    OBVIOUS
  <2> QED  BY <2>1, <2>2 DEF PackageList
<1>2. CASE Discoverable(PlaceIndexes)
  <2> DEFINE found == Found(PlaceIndexes)
             known == ApplyTrust(found, settings.trusted)
             enabled == NotDisabled(known)
             ps == Admitted(enabled)
  <2>1. AppPackages = ps
    BY <1>2 DEF AppPackages, AppDiscovered
  <2>2. PackageList(found)
    BY FoundType
  <2> HIDE DEF found
  <2>3. PackageList(known)
    BY <2>2, TrustKeeps
  <2> HIDE DEF known
  <2>4. /\ PackageList(enabled)
        /\ \A n \in DOMAIN enabled : enabled[n].package \notin settings.disabled
    BY <2>3, NotDisabledType
  <2> HIDE DEF enabled
  <2>5. PackageList(ps) /\ DrawnFrom(ps, enabled)
    BY <2>4, AdmittedType
  <2> HIDE DEF ps
  <2>6. \A n \in DOMAIN ps : Eligible(ps[n])
    BY <2>4, <2>5 DEF DrawnFrom, Eligible
  <2> QED  BY <2>1, <2>5, <2>6
<1> QED  BY <1>1, <1>2

LEMMA AppBuildsKeeps == ASSUME ActivationInv, AppBuilds PROVE ActivationInv'
<1> DEFINE resolved == Resolve(AppPackages)
           qs == Admitted(ApplyTrust(resolved, pins))
<1>1. /\ Resolvable(AppPackages) /\ Resolvable(qs) /\ Publishes(Resolve(qs), FALSE)
      /\ host' = host /\ settings' = settings /\ pins' = pins /\ pins # NotConfigured
  BY DEF AppBuilds
<1>2. settings \in Settings /\ pins \subseteq settings.trusted
  BY <1>1 DEF ActivationInv
<1>3. /\ PackageList(AppPackages)
      /\ \A n \in DOMAIN AppPackages : Eligible(AppPackages[n])
  BY AppPackagesType
<1>4. PackageList(resolved) /\ DrawnFrom(resolved, AppPackages)
  BY <1>1, <1>2, <1>3, ResolveType
<1> HIDE DEF resolved
<1>5. \A n \in DOMAIN resolved : Eligible(resolved[n])
  BY <1>3, <1>4 DEF DrawnFrom, Eligible
<1>6. SoundList(Resolve(qs))
  BY <1>1, <1>2, <1>4, <1>5, CompositionIsSound
<1> DEFINE c == Resolve(qs)
<1>7. SoundList(c) /\ Publishes(c, FALSE)
  BY <1>1, <1>6
<1> HIDE DEF c
<1> QED  BY <1>1, <1>2, <1>7, PublishKeeps

\* An embedder's host disables nothing.
LEMMA HostStartsKeeps == ASSUME ActivationInv, HostStarts PROVE ActivationInv'
<1> DEFINE found == Found(PlaceIndexes)
           known == ApplyTrust(found, settings.trusted)
           qs == Admitted(known)
           c == Resolve(qs)
<1>1. /\ host = "host" /\ Resolvable(qs) /\ Publishes(c, FALSE)
      /\ host' = host /\ settings' = settings /\ pins' = settings.trusted
  BY DEF HostStarts
<1>2. settings \in Settings /\ settings.trusted \subseteq Manifests
  BY SettingsAssumption DEF ActivationInv
<1>3. PackageList(found)
  BY FoundType
<1> HIDE DEF found
<1>4. /\ PackageList(known)
      /\ \A n \in DOMAIN known : known[n].trusted => known[n].manifest \in settings.trusted
  BY <1>3, TrustKeeps
<1> HIDE DEF known
<1>5. /\ PackageList(qs)
      /\ \A n \in DOMAIN qs : \E i \in DOMAIN known : qs[n] = known[i] /\ Admits(known[i])
  BY <1>4, AdmittedType
<1> HIDE DEF qs
<1>6. \A n \in DOMAIN qs : Eligible(qs[n]) /\ Granted(qs[n])
  BY <1>1, <1>4, <1>5 DEF Eligible, Granted, Admits
<1>7. PackageList(c) /\ DrawnFrom(c, qs) /\ \A n \in DOMAIN c : Placed(c[n])
  BY <1>1, <1>2, <1>5, ResolveType
<1> HIDE DEF c
<1>8. SoundList(c)
  BY <1>5, <1>6, <1>7, DrawnAreSound
<1>9. pins' \subseteq settings.trusted
  BY <1>1
<1> QED  BY <1>1, <1>8, <1>9, PublishKeeps

LEMMA ReloadKeeps == ASSUME ActivationInv, reload_extensions PROVE ActivationInv'
<1> DEFINE known == ApplyTrust(ReloadSource, pins)
           qs == Admitted(known)
<1>1. /\ active.number > 0
      /\ \E force \in BOOLEAN :
           \/ Resolvable(qs) /\ ReloadWith(Resolve(qs), force)
           \/ \E target \in ConfiguredInstances :
                Targetable(qs, target) /\ ReloadWith(Targeted(qs, target), force)
  BY DEF reload_extensions
<1>2. settings \in Settings /\ pins \subseteq settings.trusted
  BY <1>1 DEF ActivationInv
<1>3. SoundList(active.packages)
  BY DEF ActivationInv, SoundGeneration
<1>4. PackageList(ReloadSource) /\ \A n \in DOMAIN ReloadSource : Eligible(ReloadSource[n])
  <2>1. CASE host = "host"
    <3>1. ReloadSource = Found(PlaceIndexes \ {1})
      BY <2>1 DEF ReloadSource
    <3>2. PackageList(Found(PlaceIndexes \ {1}))
      BY FoundType
    <3> QED  BY <2>1, <3>1, <3>2 DEF Eligible
  <2>2. CASE host # "host"
    BY <1>3, <2>2 DEF ReloadSource, SoundList
  <2> QED  BY <2>1, <2>2
<1>5. PackageList(qs) /\ \A n \in DOMAIN qs : Eligible(qs[n]) /\ Granted(qs[n])
  BY <1>2, <1>4, PipelineAdmits
<1>6. ASSUME NEW c, SoundList(c), NEW force, ReloadWith(c, force) PROVE ActivationInv'
  <2>1. /\ Publishes(c, force) /\ host' = host /\ settings' = settings /\ pins' = pins
    BY <1>6 DEF ReloadWith
  <2> QED  BY <1>2, <1>6, <2>1, PublishKeeps
<1>7. ASSUME Resolvable(qs) PROVE SoundList(Resolve(qs))
  BY <1>2, <1>4, <1>7, CompositionIsSound
<1>8. ASSUME NEW target \in ConfiguredInstances, Targetable(qs, target)
      PROVE  SoundList(Targeted(qs, target))
  <2> HIDE DEF qs
  <2> QED  BY <1>2, <1>3, <1>5, <1>8, TargetedIsSound
<1> HIDE DEF qs
<1> QED  BY <1>1, <1>6, <1>7, <1>8

LEMMA ActivationInvHolds == ActivationSpec => []ActivationInv
<1>1. ActivationInv /\ [ActivationNext]_activationVars => ActivationInv'
  <2> SUFFICES ASSUME ActivationInv, [ActivationNext]_activationVars PROVE ActivationInv'
    OBVIOUS
  <2>1. ASSUME host' = host, settings' = settings, pins' = pins, active' = active
        PROVE  ActivationInv'
    <3>1. SoundGeneration(active)'
      BY <2>1, SoundnessStays DEF ActivationInv
    <3> QED  BY <2>1, <3>1 DEF ActivationInv
  <2>2. CASE ManifestChanges
    BY <2>1, <2>2 DEF ManifestChanges
  <2>3. CASE UNCHANGED activationVars
    BY <2>1, <2>3 DEF activationVars
  <2> QED
    BY <2>2, <2>3, AppDiscoversPinsKeeps, AppBuildsKeeps, HostStartsKeeps, ReloadKeeps
    DEF ActivationNext
<1> QED  BY InitActivationInv, <1>1, PTL DEF ActivationSpec

\* What is active was admitted under a pin or the development switch, as its instance is
\* configured, and its processes were launched from its manifests (activation.rs:
\* ExtensionActivationPipeline::run), for every configuration, any number of places, packages
\* and reloads, and whatever becomes of the manifests between discovery and activation.
THEOREM OnlyAdmittedIsActive == ActivationSpec => []ActiveIsAdmitted
<1>1. ActivationInv => ActiveIsAdmitted
  <2> SUFFICES ASSUME ActivationInv PROVE ActiveIsAdmitted
    OBVIOUS
  <2>1. \A n \in DOMAIN active.packages :
          /\ Eligible(active.packages[n]) /\ Granted(active.packages[n])
          /\ Placed(active.packages[n])
    BY DEF ActivationInv, SoundGeneration, SoundList
  <2>2. \A x \in active.processes : Serves(x, active.packages)
    BY DEF ActivationInv, SoundGeneration
  <2>3. active.capabilities \subseteq active.clients
    BY DEF ActivationInv, SoundGeneration
  <2> QED
    BY <2>1, <2>2, <2>3 DEF ActiveIsAdmitted, Eligible, Granted, Placed, Serves
<1> QED  BY <1>1, ActivationInvHolds, PTL


-----------------------------------------------------------------------------
(* ModelResolution: the inductive invariant, and what the files say. *)

\* The files say of a field what it may be, and so do the flags and the environment.
ResolutionInv ==
  /\ Layers(layers)
  /\ DOMAIN overrides = Overrides
  /\ overrides["variant"] \in Variants \cup {Unknown}
  /\ cached \subseteq Models

\* What the fields that the proof looks into may be.
LEMMA FieldValues ==
  /\ <<"profile", "variant">> \in Fields /\ <<"context", "window">> \in Fields
  /\ ValuesOf(<<"profile", "variant">>) = Variants
  /\ ValuesOf(<<"defaults", "variant">>) = Variants
  /\ ValuesOf(<<"context", "window">>) = Windows
  /\ ValuesOf(<<"provider", "tools">>) = BOOLEAN
  /\ \A m, v : ValuesOf(<<m, v, "extends">>) = Variants
<1>1. /\ Name(<<"profile", "variant">>) = "variant"
      /\ Name(<<"defaults", "variant">>) = "variant"
      /\ Name(<<"context", "window">>) = "window"
      /\ Name(<<"provider", "tools">>) = "tools"
      /\ \A m, v : Name(<<m, v, "extends">>) = "extends"
  BY DEF Name
<1>2. <<"profile", "variant">> \in Fields /\ <<"context", "window">> \in Fields
  BY DEF Fields
<1> HIDE DEF Name
<1> QED
  BY <1>1, <1>2 DEF ValuesOf, Options

LEMMA UnknownIsNoValue ==
  /\ Unknown \notin Variants /\ Unknown \notin Windows
  /\ \A f \in Fields : Unknown \notin ValuesOf(f)
BY FieldValues, ResolutionAssumption

LEMMA ResolutionInvHolds == ResolutionSpec => []ResolutionInv
<1>1. ResolutionInit => ResolutionInv
  BY ResolutionAssumption DEF ResolutionInit, ResolutionInv, Overrides
<1>2. ASSUME ResolutionInv, [ResolutionNext]_resolutionVars
      PROVE  ResolutionInv'
  <2>1. ASSUME NEW layer \in {"global", "workspace"}, NEW f \in Fields,
               NEW value \in ValuesOf(f) \cup {Unknown}, Edit(layer, f, value)
        PROVE  ResolutionInv'
    <3> PICK said : said = layers[layer]
      OBVIOUS
    <3>1. /\ DOMAIN layers = {"global", "workspace"}
          /\ \A other \in DOMAIN layers :
               /\ DOMAIN layers[other] \subseteq Fields
               /\ \A g \in DOMAIN layers[other] : layers[other][g] \in ValuesOf(g)
      BY <1>2 DEF ResolutionInv, Layers
    <3> PICK says : says = IF value = Unknown THEN [g \in DOMAIN said \ {f} |-> said[g]]
                   ELSE [g \in DOMAIN said \cup {f} |-> IF g = f THEN value ELSE said[g]]
      OBVIOUS
    <3>2. layers' = [layers EXCEPT ![layer] = says]
      BY <2>1 DEF Edit
    <3>3. /\ DOMAIN says \subseteq Fields
          /\ \A g \in DOMAIN says : says[g] \in ValuesOf(g)
      BY <3>1
    <3>4. Layers(layers')
      BY <3>1, <3>2, <3>3 DEF Layers
    <3> QED
      BY <1>2, <2>1, <3>4 DEF ResolutionInv, Edit, Layers
  <2>2. ASSUME NEW o \in Overrides, NEW value \in ValuesOf(<<"profile", o>>), Override(o, value)
        PROVE  ResolutionInv'
    <3>1. o = "variant" => value \in Variants
      BY FieldValues
    <3>2. DOMAIN overrides' = Overrides /\ overrides'["variant"] \in Variants \cup {Unknown}
      BY <1>2, <2>2, <3>1 DEF ResolutionInv, Override, Overrides
    <3> QED
      BY <1>2, <2>2, <3>2 DEF ResolutionInv, Override, Layers
  <2>3. CASE refresh_models
    BY <1>2, <2>3 DEF ResolutionInv, refresh_models, Layers
  <2>4. CASE CacheExpires
    BY <1>2, <2>4 DEF ResolutionInv, CacheExpires, Layers
  <2>5. CASE UNCHANGED resolutionVars
    BY <1>2, <2>5 DEF ResolutionInv, resolutionVars, Layers
  <2> QED
    BY <1>2, <2>1, <2>2, <2>3, <2>4, <2>5 DEF ResolutionNext
<1> QED
  BY <1>1, <1>2, PTL DEF ResolutionSpec

\* What the files say together is what the highest of them says.
LEMMA MergedSays ==
  ASSUME ResolutionInv
  PROVE  /\ DOMAIN layers = {"global", "workspace"}
         /\ \A f : /\ f \in DOMAIN layers["workspace"] => Merged(f) = layers["workspace"][f]
                   /\ f \in DOMAIN layers["global"] /\ f \notin DOMAIN layers["workspace"] =>
                        Merged(f) = layers["global"][f]
                   /\ Merged(f) # Unknown <=>
                        \E layer \in DOMAIN layers : f \in DOMAIN layers[layer]
                   /\ Merged(f) # Unknown => Merged(f) \in ValuesOf(f)
<1>1. /\ DOMAIN layers = {"global", "workspace"}
      /\ \A layer \in DOMAIN layers :
           /\ DOMAIN layers[layer] \subseteq Fields
           /\ \A g \in DOMAIN layers[layer] : layers[layer][g] \in ValuesOf(g)
  BY DEF ResolutionInv, Layers
<1>2. \A layer \in DOMAIN layers : \A f \in DOMAIN layers[layer] : layers[layer][f] # Unknown
  BY <1>1, UnknownIsNoValue
<1> QED
  BY <1>1, <1>2 DEF Merged, Says, Upper

LEMMA VariantValues ==
  ASSUME ResolutionInv
  PROVE  /\ active_variant \in Variants \cup {Unknown}
         /\ \A m, v : Extended(m, v) \in Variants \cup {Unknown}
         /\ Merged(<<"provider", "tools">>) \in BOOLEAN \cup {Unknown}
<1>1. /\ Merged(<<"profile", "variant">>) \in Variants \cup {Unknown}
      /\ Merged(<<"defaults", "variant">>) \in Variants \cup {Unknown}
  BY MergedSays, FieldValues
<1>2. ASSUME NEW m, NEW v
      PROVE  Extended(m, v) \in Variants \cup {Unknown}
  BY MergedSays, FieldValues DEF Extended
<1>3. Merged(<<"provider", "tools">>) \in BOOLEAN \cup {Unknown}
  BY MergedSays, FieldValues
<1> QED
  BY <1>1, <1>2, <1>3 DEF active_variant, Upper, ResolutionInv

-----------------------------------------------------------------------------
(* The first of some fields that is set. *)

IsFirst(s, x) ==
  \/ x = Unknown /\ \A i \in DOMAIN s : Merged(s[i]) = Unknown
  \/ \E i \in DOMAIN s : /\ x = Merged(s[i]) /\ x # Unknown
                         /\ \A j \in DOMAIN s : j < i => Merged(s[j]) = Unknown

LEMMA FirstSetIs ==
  ASSUME ResolutionInv, NEW S, NEW s \in Seq(S), NEW x, IsFirst(s, x)
  PROVE  FirstSet(s) = x
<1> PICK set : set = {i \in DOMAIN s : \E layer \in DOMAIN layers : s[i] \in DOMAIN layers[layer]}
  OBVIOUS
<1>1. set = {i \in DOMAIN s : Merged(s[i]) # Unknown}
  BY MergedSays
<1>2. DOMAIN s \subseteq Nat
  BY LenProperties
<1>3. CASE x = Unknown /\ \A i \in DOMAIN s : Merged(s[i]) = Unknown
  <2>1. set = {}
    BY <1>1, <1>3
  <2> QED
    BY <1>3, <2>1 DEF FirstSet
<1>4. CASE \E i \in DOMAIN s : /\ x = Merged(s[i]) /\ x # Unknown
                               /\ \A j \in DOMAIN s : j < i => Merged(s[j]) = Unknown
  <2>1. PICK i \in DOMAIN s : /\ x = Merged(s[i]) /\ x # Unknown
                              /\ \A j \in DOMAIN s : j < i => Merged(s[j]) = Unknown
    BY <1>4
  <2>2. i \in set /\ \A j \in set : i <= j
    BY <1>1, <1>2, <2>1
  <2> PICK first : first = CHOOSE k \in set : \A j \in set : k <= j
    OBVIOUS
  <2>3. first \in set /\ \A j \in set : first <= j
    BY <2>2
  <2>4. first = i
    BY <1>1, <1>2, <2>2, <2>3
  <2>5. /\ s[i] \in DOMAIN layers["workspace"] => x = layers["workspace"][s[i]]
        /\ s[i] \notin DOMAIN layers["workspace"] => x = layers["global"][s[i]]
    BY <2>1, MergedSays
  <2>6. FirstSet(s) = IF s[first] \in DOMAIN layers["workspace"]
                      THEN layers["workspace"][s[first]] ELSE layers["global"][s[first]]
    BY <2>2 DEF FirstSet
  <2> QED
    BY <2>4, <2>5, <2>6
<1> QED
  BY <1>3, <1>4 DEF IsFirst

LEMMA FirstIndex ==
  ASSUME NEW T, T \subseteq Nat, T # {}
  PROVE  \E i \in T : \A j \in T : i <= j
<1>1. IsWellFoundedOn(OpToRel(<, Nat), Nat)
  BY NatLessThanWellFounded
<1>2. PICK i \in T : \A j \in T : <<j, i>> \notin OpToRel(<, Nat)
  BY <1>1, WFMin
<1>3. \A j \in T : ~ (j < i)
  BY <1>2 DEF OpToRel
<1> QED
  BY <1>3

LEMMA FirstSetIsFirst ==
  ASSUME ResolutionInv, NEW S, NEW s \in Seq(S)
  PROVE  IsFirst(s, FirstSet(s))
<1> PICK set : set = {i \in DOMAIN s : Merged(s[i]) # Unknown}
  OBVIOUS
<1>1. set \subseteq Nat
  BY LenProperties
<1>2. CASE set = {}
  <2>1. IsFirst(s, Unknown)
    BY <1>2 DEF IsFirst
  <2> QED
    BY <2>1, FirstSetIs
<1>3. CASE set # {}
  <2>1. PICK i \in set : \A j \in set : i <= j
    BY <1>1, <1>3, FirstIndex
  <2>2. \A j \in DOMAIN s : j < i => Merged(s[j]) = Unknown
    <3>1. DOMAIN s \subseteq Nat
      BY LenProperties
    <3> QED
      BY <1>1, <2>1, <3>1
  <2>3. IsFirst(s, Merged(s[i]))
    BY <2>1, <2>2 DEF IsFirst
  <2> QED
    BY <2>3, FirstSetIs
<1> QED
  BY <1>2, <1>3

\* Of two lists of fields, the first goes over the second.
LEMMA FirstOfBoth ==
  ASSUME NEW S, NEW s \in Seq(S), NEW t \in Seq(S), NEW x, NEW y, IsFirst(s, x), IsFirst(t, y)
  PROVE  IsFirst(s \o t, Upper(y, x))
<1>1. /\ Len(s) \in Nat /\ DOMAIN s = 1..Len(s) /\ Len(t) \in Nat /\ DOMAIN t = 1..Len(t)
      /\ DOMAIN (s \o t) = 1..(Len(s) + Len(t))
      /\ \A i \in DOMAIN (s \o t) :
           (s \o t)[i] = IF i <= Len(s) THEN s[i] ELSE t[i - Len(s)]
  BY ConcatProperties, LenProperties
<1> PICK both : both = s \o t
  OBVIOUS
<1>2. CASE x # Unknown
  <2>1. PICK i \in DOMAIN s : /\ x = Merged(s[i])
                              /\ \A j \in DOMAIN s : j < i => Merged(s[j]) = Unknown
    BY <1>2 DEF IsFirst
  <2>2. i \in DOMAIN both /\ both[i] = s[i]
    BY <1>1
  <2>3. \A j \in DOMAIN both : j < i => Merged(both[j]) = Unknown
    BY <1>1, <2>1
  <2> QED
    BY <1>2, <2>1, <2>2, <2>3 DEF IsFirst, Upper
<1>3. CASE x = Unknown
  <2>1. \A i \in DOMAIN s : Merged(s[i]) = Unknown
    BY <1>3 DEF IsFirst
  <2>2. CASE y = Unknown
    <3>1. \A i \in DOMAIN t : Merged(t[i]) = Unknown
      BY <2>2 DEF IsFirst
    <3>2. \A i \in DOMAIN both : Merged(both[i]) = Unknown
      BY <1>1, <2>1, <3>1
    <3> QED
      BY <1>3, <2>2, <3>2 DEF IsFirst, Upper
  <2>3. CASE y # Unknown
    <3>1. PICK k \in DOMAIN t : /\ y = Merged(t[k])
                                /\ \A j \in DOMAIN t : j < k => Merged(t[j]) = Unknown
      BY <2>3 DEF IsFirst
    <3> PICK i : i = Len(s) + k
      OBVIOUS
    <3>2. i \in DOMAIN both /\ both[i] = t[k]
      BY <1>1, <3>1
    <3>3. \A j \in DOMAIN both : j < i => Merged(both[j]) = Unknown
      BY <1>1, <2>1, <3>1
    <3> QED
      BY <1>3, <2>3, <3>1, <3>2, <3>3 DEF IsFirst, Upper
  <2> QED
    BY <2>2, <2>3
<1> QED
  BY <1>2, <1>3

LEMMA FirstOfOne ==
  ASSUME NEW f
  PROVE  IsFirst(<<f>>, Merged(f))
BY DEF IsFirst

-----------------------------------------------------------------------------
(* The ways of inheritance. *)

\* The ways from a variant that avoid the variants that were visited.
Way(m, visited, v) ==
  {chain \in Seq(Variants) :
     /\ Len(chain) # 0 /\ chain[1] = v
     /\ \A i \in DOMAIN chain : Defined(<<m, chain[i]>>) /\ chain[i] \notin visited
     /\ \A i, j \in DOMAIN chain : i # j => chain[i] # chain[j]
     /\ \A i \in DOMAIN chain :
          Extended(m, chain[i]) = IF i < Len(chain) THEN chain[i + 1] ELSE Unknown}

LEMMA WayStarts ==
  ASSUME NEW m, NEW visited, NEW v, NEW chain \in Way(m, visited, v)
  PROVE  /\ Len(chain) \in Nat \ {0} /\ DOMAIN chain = 1..Len(chain) /\ 1 \in DOMAIN chain
         /\ v \in Variants /\ v \notin visited /\ Defined(<<m, v>>)
         /\ Extended(m, v) = IF 1 < Len(chain) THEN chain[2] ELSE Unknown
<1>1. Len(chain) \in Nat \ {0} /\ DOMAIN chain = 1..Len(chain) /\ chain \in Seq(Variants)
  BY LenProperties DEF Way
<1>2. 1 \in DOMAIN chain /\ chain[1] = v /\ v \in Variants
  BY <1>1, ElementOfSeq DEF Way
<1>3. Extended(m, chain[1]) = IF 1 < Len(chain) THEN chain[1 + 1] ELSE Unknown
  BY <1>2 DEF Way
<1> QED
  BY <1>1, <1>2, <1>3 DEF Way

LEMMA WayAhead ==
  ASSUME NEW m, NEW visited, NEW v \in Variants, v \notin visited, Defined(<<m, v>>),
         NEW t \in Way(m, visited \cup {v}, Extended(m, v))
  PROVE  <<v>> \o t \in Way(m, visited, v)
<1> PICK n : n = Len(t)
  OBVIOUS
<1> PICK chain : chain = <<v>> \o t
  OBVIOUS
<1>1. n \in Nat \ {0} /\ t \in Seq(Variants) /\ DOMAIN t = 1..n
  BY LenProperties DEF Way
<1>2. /\ chain \in Seq(Variants) /\ Len(chain) = n + 1 /\ DOMAIN chain = 1..(n + 1)
      /\ chain[1] = v /\ \A i \in 1..n : chain[i + 1] = t[i]
      /\ \A i \in 2..(n + 1) : chain[i] = t[i - 1]
  BY <1>1, ConcatProperties
<1>3. /\ t[1] = Extended(m, v)
      /\ \A i \in 1..n : Defined(<<m, t[i]>>) /\ t[i] \notin visited /\ t[i] # v
      /\ \A i, j \in 1..n : i # j => t[i] # t[j]
      /\ \A i \in 1..n : Extended(m, t[i]) = IF i < n THEN t[i + 1] ELSE Unknown
  BY <1>1 DEF Way
<1>4. ASSUME NEW i \in 1..(n + 1)
      PROVE  /\ Defined(<<m, chain[i]>>) /\ chain[i] \notin visited
             /\ Extended(m, chain[i]) = IF i < n + 1 THEN chain[i + 1] ELSE Unknown
  <2>1. CASE i = 1
    <3>1. chain[1 + 1] = t[1]
      BY <1>1, <1>2
    <3> QED
      BY <1>1, <1>2, <1>3, <2>1, <3>1
  <2>2. CASE i # 1
    <3> PICK k : k = i - 1
      OBVIOUS
    <3>1. k \in 1..n /\ i = k + 1 /\ chain[i] = t[k]
      BY <1>1, <1>2, <2>2
    <3>2. k < n => k + 1 \in 1..n /\ chain[i + 1] = t[k + 1]
      BY <1>1, <1>2, <3>1
    <3> QED
      BY <1>1, <1>3, <3>1, <3>2
  <2> QED
    BY <2>1, <2>2
<1>5. ASSUME NEW i \in 1..(n + 1), NEW j \in 1..(n + 1), i # j
      PROVE  chain[i] # chain[j]
  <2>1. CASE i = 1
    BY <1>1, <1>2, <1>3, <1>5, <2>1
  <2>2. CASE j = 1
    BY <1>1, <1>2, <1>3, <1>5, <2>2
  <2>3. CASE i # 1 /\ j # 1
    <3>1. i - 1 \in 1..n /\ j - 1 \in 1..n /\ i - 1 # j - 1
      BY <1>1, <1>5, <2>3
    <3>2. chain[i] = t[i - 1] /\ chain[j] = t[j - 1]
      BY <1>1, <1>2, <2>3
    <3> QED
      BY <1>3, <3>1, <3>2
  <2> QED
    BY <2>1, <2>2, <2>3
<1>6. /\ chain \in Seq(Variants) /\ Len(chain) # 0 /\ chain[1] = v
      /\ \A i \in DOMAIN chain : Defined(<<m, chain[i]>>) /\ chain[i] \notin visited
      /\ \A i, j \in DOMAIN chain : i # j => chain[i] # chain[j]
      /\ \A i \in DOMAIN chain :
           Extended(m, chain[i]) = IF i < Len(chain) THEN chain[i + 1] ELSE Unknown
  <2>1. chain \in Seq(Variants) /\ Len(chain) # 0 /\ chain[1] = v
    BY <1>1, <1>2
  <2> QED
    BY ONLY <2>1, <1>2, <1>4, <1>5
<1> QED
  BY <1>6 DEF Way

LEMMA WayRest ==
  ASSUME NEW m, NEW visited, NEW v, NEW chain \in Way(m, visited, v), Extended(m, v) # Unknown
  PROVE  /\ Tail(chain) \in Way(m, visited \cup {v}, Extended(m, v))
         /\ chain = <<v>> \o Tail(chain)
<1> PICK n : n = Len(chain)
  OBVIOUS
<1> PICK t : t = Tail(chain)
  OBVIOUS
<1>1. n \in Nat /\ n > 1 /\ chain \in Seq(Variants) /\ DOMAIN chain = 1..n /\ chain[2] = Extended(m, v)
  BY WayStarts DEF Way
<1>2. /\ t \in Seq(Variants) /\ Len(t) = n - 1 /\ DOMAIN t = 1..(n - 1)
      /\ \A i \in 1..(n - 1) : t[i] = chain[i + 1]
  BY <1>1, HeadTailProperties, LenProperties
<1>3. /\ chain[1] = v
      /\ \A i \in 1..n : Defined(<<m, chain[i]>>) /\ chain[i] \notin visited
      /\ \A i, j \in 1..n : i # j => chain[i] # chain[j]
      /\ \A i \in 1..n : Extended(m, chain[i]) = IF i < n THEN chain[i + 1] ELSE Unknown
  BY <1>1 DEF Way
<1>4. ASSUME NEW i \in 1..(n - 1)
      PROVE  /\ Defined(<<m, t[i]>>) /\ t[i] \notin visited \cup {v}
             /\ Extended(m, t[i]) = IF i < n - 1 THEN t[i + 1] ELSE Unknown
  <2>1. i + 1 \in 1..n /\ i + 1 # 1 /\ 1 \in 1..n /\ t[i] = chain[i + 1]
    BY <1>1, <1>2
  <2>2. i < n - 1 <=> i + 1 < n
    BY <1>1
  <2>3. i < n - 1 => t[i + 1] = chain[(i + 1) + 1]
    BY <1>1, <1>2
  <2> QED
    BY <1>3, <2>1, <2>2, <2>3
<1>5. \A i, j \in 1..(n - 1) : i # j => t[i] # t[j]
  <2>1. \A i, j \in 1..(n - 1) : i # j => i + 1 \in 1..n /\ j + 1 \in 1..n /\ i + 1 # j + 1
    BY <1>1
  <2> QED
    BY <1>2, <1>3, <2>1
<1>6. t[1] = Extended(m, v) /\ Len(t) # 0
  BY <1>1, <1>2
<1>7. chain = <<v>> \o t
  <2>1. chain # <<>> /\ Head(chain) = v
    BY <1>1, <1>3
  <2> QED
    BY <1>1, <2>1, HeadTailProperties, ConcatProperties
<1> QED
  BY <1>2, <1>4, <1>5, <1>6, <1>7 DEF Way

LEMMA WayEnds ==
  ASSUME NEW m, NEW visited, NEW v, NEW chain \in Way(m, visited, v), Extended(m, v) = Unknown,
         ResolutionInv
  PROVE  chain = <<v>>
<1>1. /\ chain \in Seq(Variants) /\ Len(chain) \in Nat \ {0} /\ chain[1] = v
  BY WayStarts DEF Way
<1>2. 1 < Len(chain) => chain[2] \in Variants
  BY <1>1, ElementOfSeq
<1>3. 1 < Len(chain) => chain[2] = Unknown
  BY WayStarts
<1>4. ~(1 < Len(chain))
  BY ONLY <1>2, <1>3, UnknownIsNoValue
<1> PICK n : n = Len(chain)
  OBVIOUS
<1>5. n \in Nat \ {0} /\ ~(1 < n)
  BY <1>1, <1>4
<1>6. n = 1
  BY ONLY <1>5
<1> QED
  <2>1. v \in Variants
    BY WayStarts
  <2>2. <<v>> \in Seq(Variants) /\ Len(<<v>>) = 1 /\ <<v>>[1] = v
    BY <2>1
  <2>3. Len(chain) = Len(<<v>>) /\ \A i \in 1..Len(chain) : chain[i] = <<v>>[i]
    BY <1>1, <1>6, <2>2
  <2> QED
    BY <1>1, <2>2, <2>3, SeqEqual

LEMMA WayOfOne ==
  ASSUME NEW m, NEW visited, NEW v \in Variants, v \notin visited, Defined(<<m, v>>),
         Extended(m, v) = Unknown
  PROVE  <<v>> \in Way(m, visited, v)
BY DEF Way

\* There is no more than one.
LEMMA OnlyOneWay ==
  ASSUME NEW m, NEW visited, NEW v, NEW c \in Way(m, visited, v), NEW d \in Way(m, visited, v)
  PROVE  c = d
<1>1. /\ c \in Seq(Variants) /\ Len(c) \in Nat \ {0} /\ DOMAIN c = 1..Len(c)
      /\ d \in Seq(Variants) /\ Len(d) \in Nat \ {0} /\ DOMAIN d = 1..Len(d)
      /\ c[1] = v /\ d[1] = v
  BY WayStarts DEF Way
<1>2. /\ \A i \in 1..Len(c) : Extended(m, c[i]) = IF i < Len(c) THEN c[i + 1] ELSE Unknown
      /\ \A i \in 1..Len(d) : Extended(m, d[i]) = IF i < Len(d) THEN d[i + 1] ELSE Unknown
  BY <1>1 DEF Way
<1>3. /\ \A i \in 1..Len(c) : c[i] \in Variants
      /\ \A i \in 1..Len(d) : d[i] \in Variants
  BY <1>1, ElementOfSeq
<1> PICK T : T = {i \in Nat \ {0} : (i <= Len(c) <=> i > Len(d))
                                      \/ (i <= Len(c) /\ i <= Len(d) /\ c[i] # d[i])}
  OBVIOUS
<1>4. T = {}
  <2> SUFFICES ASSUME T # {} PROVE FALSE
    OBVIOUS
  <2>1. PICK i \in T : \A j \in T : i <= j
    BY FirstIndex
  <2>2. i \in Nat /\ i > 1
    BY <1>1, <2>1
  <2> PICK k : k = i - 1
    OBVIOUS
  <2>3. k \in Nat \ {0} /\ k < i /\ i = k + 1
    BY <2>2
  <2>4. k \notin T
    BY <2>1, <2>3
  <2>5. (k <= Len(c) <=> k <= Len(d)) /\ (k <= Len(c) /\ k <= Len(d) => c[k] = d[k])
    BY <1>1, <2>3, <2>4
  <2>6. CASE k > Len(c)
    BY <1>1, <2>1, <2>3, <2>5, <2>6
  <2>7. CASE k <= Len(c)
    <3>1. k \in 1..Len(c) /\ k \in 1..Len(d) /\ c[k] = d[k]
      BY <1>1, <2>3, <2>5, <2>7
    <3>2. (IF k < Len(c) THEN c[k + 1] ELSE Unknown) = (IF k < Len(d) THEN d[k + 1] ELSE Unknown)
      BY <1>2, <3>1
    <3>3. /\ k < Len(c) => c[k + 1] # Unknown
          /\ k < Len(d) => d[k + 1] # Unknown
      BY <1>1, <1>3, <2>3, UnknownIsNoValue
    <3> QED
      BY <1>1, <2>1, <2>3, <3>2, <3>3
  <2> QED
    BY <1>1, <2>3, <2>6, <2>7
<1>5. Len(c) = Len(d)
  <2> PICK p : p = Len(c)
    OBVIOUS
  <2> PICK q : q = Len(d)
    OBVIOUS
  <2>1. p \in Nat \ {0} /\ q \in Nat \ {0} /\ p \notin T /\ q \notin T
    BY <1>1, <1>4
  <2>2. ~(p <= p <=> p > q) /\ ~(q <= p <=> q > q)
    BY <2>1
  <2> QED
    BY <2>1, <2>2
<1>6. ASSUME NEW i \in 1..Len(c)
      PROVE  c[i] = d[i]
  <2>1. i \notin T
    BY <1>4
  <2> QED
    BY <1>1, <1>5, <2>1
<1> QED
  BY <1>1, <1>5, <1>6, SeqEqual

-----------------------------------------------------------------------------
(* What the variants resolve to is what their ways say. *)

FieldsOn(m, chain, o) == [i \in DOMAIN chain |-> <<m, chain[i], o>>]
OptionsOn(m, chain) == [o \in Options |-> FirstSet(FieldsOn(m, chain, o))]

OneVariant(m, parents, visited, v) ==
  IF v \in visited \/ ~Defined(<<m, v>>) THEN NoResolution
  ELSE IF Extended(m, v) = Unknown THEN Inherit(NoOptions, OwnOptions(m, v))
  ELSE IF parents[visited \cup {v}][Extended(m, v)] = NoResolution THEN NoResolution
  ELSE Inherit(parents[visited \cup {v}][Extended(m, v)], OwnOptions(m, v))

AllVariants(m, parents) ==
  [visited \in SUBSET Variants |-> [v \in Variants |-> OneVariant(m, parents, visited, v)]]

OnTheirWays(m) ==
  [visited \in SUBSET Variants |->
     [v \in Variants |-> IF Way(m, visited, v) = {} THEN NoResolution
                         ELSE OptionsOn(m, CHOOSE chain \in Way(m, visited, v) : TRUE)]]

LEMMA ChainFields ==
  ASSUME NEW m, NEW chain \in Seq(Variants), NEW o, NEW S, \A v \in Variants : <<m, v, o>> \in S
  PROVE  FieldsOn(m, chain, o) \in Seq(S)
<1>1. /\ Len(chain) \in Nat /\ DOMAIN chain = 1..Len(chain)
      /\ \A i \in 1..Len(chain) : chain[i] \in Variants
  BY LenProperties, ElementOfSeq
<1>2. \A i \in 1..Len(chain) : <<m, chain[i], o>> \in S
  BY <1>1
<1> QED
  BY <1>1, <1>2, IsASeq DEF FieldsOn

LEMMA OptionsOfOne ==
  ASSUME NEW m, NEW v, ResolutionInv
  PROVE  OptionsOn(m, <<v>>) = Inherit(NoOptions, OwnOptions(m, v))
<1>1. ASSUME NEW o \in Options
      PROVE  FirstSet(FieldsOn(m, <<v>>, o)) = Upper(NoOptions[o], OwnOptions(m, v)[o])
  <2>1. FieldsOn(m, <<v>>, o) = <<<<m, v, o>>>>
    BY DEF FieldsOn
  <2>2. FirstSet(<<<<m, v, o>>>>) = Merged(<<m, v, o>>)
    <3>1. <<<<m, v, o>>>> \in Seq({<<m, v, o>>})
      OBVIOUS
    <3>2. IsFirst(<<<<m, v, o>>>>, Merged(<<m, v, o>>))
      BY FirstOfOne
    <3> QED
      BY <3>1, <3>2, FirstSetIs
  <2>3. Upper(NoOptions[o], OwnOptions(m, v)[o]) = Merged(<<m, v, o>>)
    BY DEF NoOptions, OwnOptions, Upper
  <2> QED
    BY <2>1, <2>2, <2>3
<1> QED
  BY <1>1, Zenon DEF OptionsOn, Inherit, merge_options

LEMMA ElementsAhead ==
  ASSUME NEW S, NEW e \in S, NEW t \in Seq(S)
  PROVE  /\ <<e>> \in Seq(S) /\ <<e>> \o t \in Seq(S) /\ Len(t) \in Nat
         /\ Len(<<e>> \o t) = 1 + Len(t) /\ DOMAIN (<<e>> \o t) = 1..(1 + Len(t))
         /\ \A i \in 1..(1 + Len(t)) : (<<e>> \o t)[i] = IF i <= 1 THEN e ELSE t[i - 1]
<1>1. <<e>> \in Seq(S) /\ Len(<<e>>) = 1 /\ <<e>>[1] = e /\ Len(t) \in Nat
  BY LenProperties
<1>2. /\ <<e>> \o t \in Seq(S) /\ Len(<<e>> \o t) = 1 + Len(t)
      /\ \A i \in 1..(1 + Len(t)) : (<<e>> \o t)[i] = IF i <= 1 THEN <<e>>[i] ELSE t[i - 1]
  BY <1>1, ConcatProperties
<1>3. \A i \in 1..(1 + Len(t)) : i <= 1 => i = 1
  BY <1>1
<1>4. DOMAIN (<<e>> \o t) = 1..(1 + Len(t))
  BY <1>2, LenProperties
<1> QED
  BY <1>1, <1>2, <1>3, <1>4

LEMMA TwoOnes ==
  ASSUME NEW S, NEW d \in S, NEW e \in S
  PROVE  <<d>> \o <<e>> = <<d, e>>
<1>1. <<e>> \in Seq(S) /\ Len(<<e>>) = 1 /\ <<e>>[1] = e
  OBVIOUS
<1>2. /\ <<d>> \o <<e>> \in Seq(S) /\ Len(<<d>> \o <<e>>) = 2
      /\ (<<d>> \o <<e>>)[1] = d /\ (<<d>> \o <<e>>)[2] = e
  BY <1>1, ElementsAhead
<1>3. <<d, e>> \in Seq(S) /\ Len(<<d, e>>) = 2 /\ <<d, e>>[1] = d /\ <<d, e>>[2] = e
  OBVIOUS
<1>4. \A i \in 1..2 : i = 1 \/ i = 2
  OBVIOUS
<1>5. \A i \in 1..Len(<<d>> \o <<e>>) : (<<d>> \o <<e>>)[i] = <<d, e>>[i]
  BY <1>2, <1>3, <1>4
<1> QED
  BY <1>2, <1>3, <1>5, SeqEqual

LEMMA OptionsAhead ==
  ASSUME NEW m, NEW v \in Variants, NEW t \in Seq(Variants), ResolutionInv
  PROVE  OptionsOn(m, <<v>> \o t) = Inherit(OptionsOn(m, t), OwnOptions(m, v))
<1>1. ASSUME NEW o \in Options
      PROVE  FirstSet(FieldsOn(m, <<v>> \o t, o)) = Upper(OptionsOn(m, t)[o], OwnOptions(m, v)[o])
  <2> PICK S : S = {<<m, w, o>> : w \in Variants}
    OBVIOUS
  <2> PICK rest : rest = FieldsOn(m, t, o)
    OBVIOUS
  <2>1. rest \in Seq(S) /\ <<<<m, v, o>>>> \in Seq(S)
    <3>1. \A w \in Variants : <<m, w, o>> \in S
      OBVIOUS
    <3> QED
      BY <3>1, ChainFields
  <2>2. FieldsOn(m, <<v>> \o t, o) = <<<<m, v, o>>>> \o rest
    <3>1. /\ Len(t) \in Nat /\ DOMAIN t = 1..Len(t) /\ <<v>> \in Seq(Variants)
          /\ <<v>> \o t \in Seq(Variants) /\ Len(<<v>> \o t) = 1 + Len(t)
          /\ DOMAIN (<<v>> \o t) = 1..(1 + Len(t))
          /\ \A i \in 1..(1 + Len(t)) : (<<v>> \o t)[i] = IF i <= 1 THEN v ELSE t[i - 1]
      BY ElementsAhead, LenProperties
    <3>2. FieldsOn(m, <<v>> \o t, o) \in Seq(S)
      <4>1. \A w \in Variants : <<m, w, o>> \in S
        OBVIOUS
      <4> QED
        BY <3>1, <4>1, ChainFields
    <3>3. Len(rest) = Len(t) /\ \A i \in 1..Len(t) : rest[i] = <<m, t[i], o>>
      BY <2>1, <3>1, LenProperties DEF FieldsOn
    <3>4. /\ Len(FieldsOn(m, <<v>> \o t, o)) = 1 + Len(t)
          /\ \A i \in 1..(1 + Len(t)) :
               FieldsOn(m, <<v>> \o t, o)[i] = <<m, (<<v>> \o t)[i], o>>
      BY <3>1, <3>2, LenProperties DEF FieldsOn
    <3>5. /\ <<<<m, v, o>>>> \o rest \in Seq(S) /\ Len(<<<<m, v, o>>>> \o rest) = 1 + Len(t)
          /\ \A i \in 1..(1 + Len(t)) :
               (<<<<m, v, o>>>> \o rest)[i] = IF i <= 1 THEN <<m, v, o>> ELSE rest[i - 1]
      <4>1. <<m, v, o>> \in S
        OBVIOUS
      <4> QED
        BY <2>1, <3>3, <4>1, ElementsAhead
    <3>6. ASSUME NEW i \in 1..(1 + Len(t))
          PROVE  FieldsOn(m, <<v>> \o t, o)[i] = (<<<<m, v, o>>>> \o rest)[i]
      <4>1. CASE i <= 1
        BY <3>1, <3>4, <3>5, <4>1
      <4>2. CASE ~(i <= 1)
        <5>1. i - 1 \in 1..Len(t)
          BY <3>1, <4>2
        <5> QED
          BY <3>1, <3>3, <3>4, <3>5, <4>2, <5>1
      <4> QED
        BY <4>1, <4>2
    <3> QED
      BY <3>2, <3>4, <3>5, <3>6, SeqEqual
  <2>3. IsFirst(<<<<m, v, o>>>>, Merged(<<m, v, o>>)) /\ IsFirst(rest, FirstSet(rest))
    BY <2>1, FirstOfOne, FirstSetIsFirst
  <2>4. IsFirst(<<<<m, v, o>>>> \o rest, Upper(FirstSet(rest), Merged(<<m, v, o>>)))
    BY <2>1, <2>3, FirstOfBoth
  <2>5. FirstSet(<<<<m, v, o>>>> \o rest) = Upper(FirstSet(rest), Merged(<<m, v, o>>))
    <3>1. <<<<m, v, o>>>> \o rest \in Seq(S)
      BY <2>1, ConcatProperties
    <3> QED
      BY <2>4, <3>1, FirstSetIs
  <2>6. OptionsOn(m, t)[o] = FirstSet(rest) /\ OwnOptions(m, v)[o] = Merged(<<m, v, o>>)
    BY DEF OptionsOn, OwnOptions
  <2> QED
    BY <2>2, <2>5, <2>6
<1> QED
  BY <1>1, Zenon DEF OptionsOn, Inherit, merge_options

LEMMA OptionsAreSome ==
  ASSUME NEW m, NEW chain
  PROVE  OptionsOn(m, chain) # NoResolution
<1>1. DOMAIN OptionsOn(m, chain) = Options /\ DOMAIN NoResolution = {}
  BY DEF OptionsOn, NoResolution
<1>2. "thinking" \in Options
  BY DEF Options
<1> QED
  BY <1>1, <1>2

LEMMA TheirWay ==
  ASSUME NEW m, NEW visited \in SUBSET Variants, NEW v \in Variants,
         NEW chain \in Way(m, visited, v)
  PROVE  OnTheirWays(m)[visited][v] = OptionsOn(m, chain)
<1>1. (CHOOSE c \in Way(m, visited, v) : TRUE) = chain
  <2>1. (CHOOSE c \in Way(m, visited, v) : TRUE) \in Way(m, visited, v)
    OBVIOUS
  <2> QED
    BY <2>1, OnlyOneWay
<1>2. OnTheirWays(m)[visited][v] =
        IF Way(m, visited, v) = {} THEN NoResolution
        ELSE OptionsOn(m, CHOOSE c \in Way(m, visited, v) : TRUE)
  BY DEF OnTheirWays
<1> QED
  BY <1>1, <1>2

LEMMA NoWay ==
  ASSUME NEW m, NEW visited \in SUBSET Variants, NEW v \in Variants, Way(m, visited, v) = {}
  PROVE  OnTheirWays(m)[visited][v] = NoResolution
BY DEF OnTheirWays

\* The ways solve the equations of resolve_variant,
LEMMA WaysSolve ==
  ASSUME NEW m, ResolutionInv
  PROVE  OnTheirWays(m) = AllVariants(m, OnTheirWays(m))
<1> PICK ways : ways = OnTheirWays(m)
  OBVIOUS
<1>1. ASSUME NEW visited \in SUBSET Variants, NEW v \in Variants
      PROVE  ways[visited][v] = OneVariant(m, ways, visited, v)
  <2>1. CASE v \in visited \/ ~Defined(<<m, v>>)
    <3>1. Way(m, visited, v) = {}
      BY <2>1, WayStarts
    <3> QED
      BY <2>1, <3>1, NoWay DEF OneVariant
  <2>2. CASE v \notin visited /\ Defined(<<m, v>>) /\ Extended(m, v) = Unknown
    <3>1. <<v>> \in Way(m, visited, v)
      BY <2>2, WayOfOne
    <3>2. ways[visited][v] = OptionsOn(m, <<v>>)
      BY <3>1, TheirWay
    <3> QED
      BY <2>2, <3>2, OptionsOfOne DEF OneVariant
  <2>3. CASE v \notin visited /\ Defined(<<m, v>>) /\ Extended(m, v) # Unknown
    <3> PICK w : w = Extended(m, v)
      OBVIOUS
    <3> PICK seen : seen = visited \cup {v}
      OBVIOUS
    <3>1. w \in Variants /\ seen \in SUBSET Variants
      BY <2>3, VariantValues
    <3>2. OneVariant(m, ways, visited, v) =
            IF ways[seen][w] = NoResolution THEN NoResolution
            ELSE Inherit(ways[seen][w], OwnOptions(m, v))
      BY <2>3 DEF OneVariant
    <3>3. CASE Way(m, seen, w) = {}
      <4>1. Way(m, visited, v) = {}
        BY <2>3, <3>3, WayRest
      <4> QED
        BY <3>1, <3>2, <3>3, <4>1, NoWay
    <3>4. CASE Way(m, seen, w) # {}
      <4>1. PICK t : t \in Way(m, seen, w)
        BY <3>4
      <4>2. <<v>> \o t \in Way(m, visited, v)
        BY <2>3, <4>1, WayAhead
      <4>3. ways[seen][w] = OptionsOn(m, t) /\ ways[visited][v] = OptionsOn(m, <<v>> \o t)
        BY <3>1, <4>1, <4>2, TheirWay
      <4>4. OptionsOn(m, <<v>> \o t) = Inherit(OptionsOn(m, t), OwnOptions(m, v))
        <5>1. t \in Seq(Variants)
          BY <4>1 DEF Way
        <5> QED
          BY <5>1, OptionsAhead
      <4> QED
        BY <3>2, <4>3, <4>4, OptionsAreSome
    <3> QED
      BY <3>3, <3>4
  <2> QED
    BY <2>1, <2>2, <2>3
<1>2. ways = [visited \in SUBSET Variants |-> [v \in Variants |-> ways[visited][v]]]
  BY DEF OnTheirWays
<1> QED
  BY <1>1, <1>2, Zenon DEF AllVariants

\* and nothing else does: where two solutions differ, they differ for more that is visited.
LEMMA OnlyTheWaysSolve ==
  ASSUME NEW m, NEW some, ResolutionInv, some = AllVariants(m, some)
  PROVE  some = OnTheirWays(m)
<1> PICK ways : ways = OnTheirWays(m)
  OBVIOUS
<1>1. \A visited \in SUBSET Variants, v \in Variants :
        /\ some[visited][v] = OneVariant(m, some, visited, v)
        /\ ways[visited][v] = OneVariant(m, ways, visited, v)
  <2>1. ways = AllVariants(m, ways)
    BY WaysSolve
  <2>2. \A parents : \A visited \in SUBSET Variants, v \in Variants :
          AllVariants(m, parents)[visited][v] = OneVariant(m, parents, visited, v)
    BY DEF AllVariants
  <2>3. ASSUME NEW visited \in SUBSET Variants, NEW v \in Variants
        PROVE  /\ some[visited][v] = OneVariant(m, some, visited, v)
               /\ ways[visited][v] = OneVariant(m, ways, visited, v)
    <3>1. /\ AllVariants(m, some)[visited][v] = OneVariant(m, some, visited, v)
          /\ AllVariants(m, ways)[visited][v] = OneVariant(m, ways, visited, v)
      BY ONLY <2>2, <2>3
    <3> QED
      BY <2>1, <3>1
  <2> QED
    BY <2>3
<1> PICK apart : apart = {visited \in SUBSET Variants : \E v \in Variants : some[visited][v] # ways[visited][v]}
  OBVIOUS
<1>2. apart = {}
  <2> SUFFICES ASSUME apart # {} PROVE FALSE
    OBVIOUS
  <2> PICK left : left = {Cardinality(Variants \ visited) : visited \in apart}
    OBVIOUS
  <2>1. \A visited \in SUBSET Variants :
          IsFiniteSet(Variants \ visited) /\ Cardinality(Variants \ visited) \in Nat
    BY ResolutionAssumption, FS_Difference, FS_CardinalityType
  <2>2. left \subseteq Nat /\ left # {}
    BY <2>1
  <2>3. PICK n \in left : \A k \in left : n <= k
    BY <2>2, FirstIndex
  <2>4. PICK visited \in apart : n = Cardinality(Variants \ visited)
    BY <2>3
  <2>5. visited \in SUBSET Variants
    BY <2>4
  <2>6. PICK v \in Variants : some[visited][v] # ways[visited][v]
    BY <2>4
  <2> PICK seen : seen = visited \cup {v}
    OBVIOUS
  <2>7. /\ v \notin visited /\ Extended(m, v) \in Variants
        /\ some[seen][Extended(m, v)] # ways[seen][Extended(m, v)]
    <3>1. OneVariant(m, some, visited, v) # OneVariant(m, ways, visited, v)
      BY <1>1, <2>5, <2>6
    <3>2. \A parents :
            OneVariant(m, parents, visited, v) =
              IF v \in visited \/ ~Defined(<<m, v>>) THEN NoResolution
              ELSE IF Extended(m, v) = Unknown THEN Inherit(NoOptions, OwnOptions(m, v))
              ELSE IF parents[seen][Extended(m, v)] = NoResolution THEN NoResolution
              ELSE Inherit(parents[seen][Extended(m, v)], OwnOptions(m, v))
      BY DEF OneVariant
    <3>3. v \notin visited /\ Extended(m, v) # Unknown
      BY <3>1, <3>2
    <3>4. some[seen][Extended(m, v)] # ways[seen][Extended(m, v)]
      BY <3>1, <3>2
    <3> QED
      BY <3>3, <3>4, VariantValues
  <2>8. seen \in apart
    BY <2>5, <2>7
  <2>9. Cardinality(Variants \ seen) = n - 1
    <3>1. v \in Variants \ visited /\ Variants \ seen = (Variants \ visited) \ {v}
      BY <2>7
    <3> QED
      <4> PICK others : others = Variants \ visited
        OBVIOUS
      <4>1. IsFiniteSet(others) /\ Cardinality(others) = n /\ v \in others
        BY <2>1, <2>4, <2>5, <3>1
      <4>2. Cardinality(others \ {v}) = n - 1
        BY <4>1, FS_RemoveElement
      <4> QED
        BY <3>1, <4>2
  <2> PICK k : k = Cardinality(Variants \ seen)
    OBVIOUS
  <2>10. k \in left /\ n \in Nat /\ n <= k /\ k = n - 1
    BY <2>2, <2>3, <2>8, <2>9
  <2> QED
    BY ONLY <2>10
<1>3. \A visited \in SUBSET Variants, v \in Variants : some[visited][v] = ways[visited][v]
  BY <1>2
<1>4. some = [visited \in SUBSET Variants |-> [v \in Variants |-> some[visited][v]]]
  <2>1. AllVariants(m, some) =
          [visited \in SUBSET Variants |-> [v \in Variants |-> AllVariants(m, some)[visited][v]]]
    BY DEF AllVariants
  <2> QED
    BY <2>1
<1>5. ways = [visited \in SUBSET Variants |-> [v \in Variants |-> ways[visited][v]]]
  BY DEF OnTheirWays
<1> QED
  BY <1>3, <1>4, <1>5, Zenon

LEMMA VariantsFollowTheirWays ==
  ASSUME NEW m, ResolutionInv
  PROVE  ResolvedVariants(m) = OnTheirWays(m)
<1>1. ResolvedVariants(m) = CHOOSE some : some = AllVariants(m, some)
  BY DEF ResolvedVariants, AllVariants, OneVariant
<1>2. \E some : some = AllVariants(m, some)
  BY WaysSolve
<1>3. ResolvedVariants(m) = AllVariants(m, ResolvedVariants(m))
  BY <1>1, <1>2
<1> QED
  BY <1>3, OnlyTheWaysSolve

-----------------------------------------------------------------------------
(* What resolves follows the files. *)

LEMMA WaysAreChains ==
  ASSUME NEW m, NEW v, NEW chain \in Way(m, {}, v)
  PROVE  chain \in Chains(m, v)
<1> PICK n : n = Len(chain)
  OBVIOUS
<1>1. n \in Nat \ {0} /\ chain \in [1..n -> Variants] /\ DOMAIN chain = 1..n
  <2>1. chain \in Seq(Variants)
    BY DEF Way
  <2> QED
    BY <2>1, WayStarts, LenProperties
<1>2. /\ chain[1] = v
      /\ \A i \in DOMAIN chain : Defined(<<m, chain[i]>>)
      /\ \A i, j \in DOMAIN chain : i # j => chain[i] # chain[j]
      /\ \A i \in DOMAIN chain :
           Extended(m, chain[i]) = IF i < Len(chain) THEN chain[i + 1] ELSE Unknown
  BY DEF Way
<1>3. n \in 1..Cardinality(Variants)
  <2>1. chain \in Injection(1..n, Variants)
    BY <1>1, <1>2, Zenon DEF Injection, IsInjective
  <2>2. Cardinality(1..n) = n
    <3>1. 1 \in Int /\ n \in Int /\ n - 1 + 1 = n /\ ~(1 > n)
      BY <1>1
    <3> QED
      BY <3>1, FS_Interval
  <2>3. IsFiniteSet(Variants) /\ Cardinality(Variants) \in Nat
    BY ResolutionAssumption, FS_CardinalityType
  <2>4. Cardinality(1..n) <= Cardinality(Variants)
    BY <2>1, <2>3, FS_Injection
  <2> PICK k : k = Cardinality(Variants)
    OBVIOUS
  <2>5. n \in Nat \ {0} /\ k \in Nat /\ n <= k
    BY <1>1, <2>2, <2>3, <2>4
  <2> QED
    BY <2>5
<1>4. chain \in UNION {[1..k -> Variants] : k \in 1..Cardinality(Variants)}
  BY <1>1, <1>3
<1> QED
  BY <1>2, <1>4 DEF Chains

Before(o) == IF o = "temperature" THEN <<<<"defaults", o>>, <<"profile", o>>>> ELSE <<>>

\* One option: what the defaults say of it, the profile, the variants, the model.
LEMMA OneOption ==
  ASSUME ResolutionInv, NEW m, NEW chain \in Seq(Variants), NEW o, NEW x,
         IsFirst(FieldsOn(m, chain, o), x)
  PROVE  FirstSet(Before(o) \o FieldsOn(m, chain, o) \o <<<<m, o>>>>) =
           Upper(Upper(Upper(Merged(<<m, o>>), x),
                       IF o = "temperature" THEN Merged(<<"profile", o>>) ELSE Unknown),
                 IF o = "temperature" THEN Merged(<<"defaults", o>>) ELSE Unknown)
<1> PICK S : S = {<<m, v, o>> : v \in Variants} \cup {<<m, o>>, <<"defaults", o>>, <<"profile", o>>}
  OBVIOUS
<1> PICK on : on = FieldsOn(m, chain, o)
  OBVIOUS
<1> PICK p : p = IF o = "temperature" THEN Merged(<<"profile", o>>) ELSE Unknown
  OBVIOUS
<1> PICK d : d = IF o = "temperature" THEN Merged(<<"defaults", o>>) ELSE Unknown
  OBVIOUS
<1>1. on \in Seq(S)
  <2>1. \A v \in Variants : <<m, v, o>> \in S
    OBVIOUS
  <2> QED
    BY <2>1, ChainFields
<1>2. Before(o) \in Seq(S) /\ IsFirst(Before(o), Upper(p, d))
  <2>1. CASE o = "temperature"
    <3>1. Before(o) = <<<<"defaults", o>>>> \o <<<<"profile", o>>>>
      <4>1. Before(o) = <<<<"defaults", o>>, <<"profile", o>>>>
        BY <2>1 DEF Before
      <4>2. <<"defaults", o>> \in S /\ <<"profile", o>> \in S
        OBVIOUS
      <4> QED
        BY <4>1, <4>2, TwoOnes
    <3>2. <<<<"defaults", o>>>> \in Seq(S) /\ <<<<"profile", o>>>> \in Seq(S)
      OBVIOUS
    <3>3. IsFirst(<<<<"defaults", o>>>>, d) /\ IsFirst(<<<<"profile", o>>>>, p)
      BY <2>1, FirstOfOne
    <3>4. IsFirst(<<<<"defaults", o>>>> \o <<<<"profile", o>>>>, Upper(p, d))
      BY <3>2, <3>3, FirstOfBoth
    <3> QED
      BY <3>1, <3>2, <3>4, ConcatProperties
  <2>2. CASE o # "temperature"
    <3>1. Before(o) = <<>> /\ Upper(p, d) = Unknown
      BY <2>2 DEF Before, Upper
    <3>2. IsFirst(<<>>, Unknown)
      BY DEF IsFirst
    <3> QED
      BY <3>1, <3>2
  <2> QED
    BY <2>1, <2>2
<1>3. Before(o) \o on \in Seq(S) /\ IsFirst(Before(o) \o on, Upper(x, Upper(p, d)))
  BY <1>1, <1>2, FirstOfBoth, ConcatProperties
<1> PICK above : above = Before(o) \o on
  OBVIOUS
<1>4. <<<<m, o>>>> \in Seq(S) /\ IsFirst(<<<<m, o>>>>, Merged(<<m, o>>))
  <2> PICK f : f = <<m, o>>
    OBVIOUS
  <2>1. f \in S
    OBVIOUS
  <2>2. <<f>> \in Seq(S)
    BY <2>1
  <2>3. IsFirst(<<f>>, Merged(f))
    BY FirstOfOne
  <2> QED
    BY <2>2, <2>3
<1>5. /\ above \o <<<<m, o>>>> \in Seq(S)
      /\ IsFirst(above \o <<<<m, o>>>>, Upper(Merged(<<m, o>>), Upper(x, Upper(p, d))))
  BY <1>3, <1>4, FirstOfBoth, ConcatProperties
<1>6. FirstSet(above \o <<<<m, o>>>>) = Upper(Merged(<<m, o>>), Upper(x, Upper(p, d)))
  BY <1>5, FirstSetIs
<1>7. Upper(Merged(<<m, o>>), Upper(x, Upper(p, d))) = Upper(Upper(Upper(Merged(<<m, o>>), x), p), d)
  BY DEF Upper
<1> QED
  BY <1>6, <1>7

OfVariant(m) ==
  IF active_variant = Unknown THEN NoOptions
  ELSE IF ~Defined(<<m>>) THEN NoResolution ELSE resolve_variant(m, active_variant)

\* The way that a resolution goes, and what the variants on it say.
LEMMA OfVariantFollows ==
  ASSUME ResolutionInv, NEW m, OfVariant(m) # NoResolution
  PROVE  \E chain \in IF active_variant = Unknown THEN {<<>>} ELSE Chains(m, active_variant) :
           /\ chain \in Seq(Variants)
           /\ \A o \in Options : IsFirst(FieldsOn(m, chain, o), OfVariant(m)[o])
<1>1. CASE active_variant = Unknown
  <2>1. <<>> \in Seq(Variants)
    OBVIOUS
  <2>2. ASSUME NEW o \in Options
        PROVE  IsFirst(FieldsOn(m, <<>>, o), OfVariant(m)[o])
    <3>1. OfVariant(m)[o] = Unknown
      BY <1>1 DEF OfVariant, NoOptions
    <3>2. DOMAIN FieldsOn(m, <<>>, o) = {}
      BY DEF FieldsOn
    <3> QED
      BY <3>1, <3>2 DEF IsFirst
  <2> QED
    BY <1>1, <2>1, <2>2
<1>2. CASE active_variant # Unknown
  <2> PICK variant : variant = active_variant
    OBVIOUS
  <2>1. variant \in Variants
    BY <1>2, VariantValues
  <2>2. OfVariant(m) = OnTheirWays(m)[{}][variant]
    BY <1>2, VariantsFollowTheirWays DEF OfVariant, resolve_variant
  <2>3. Way(m, {}, variant) # {}
    BY <2>1, <2>2, NoWay
  <2>4. PICK chain : chain \in Way(m, {}, variant)
    BY <2>3
  <2>5. OfVariant(m) = OptionsOn(m, chain)
    BY <2>1, <2>2, <2>4, TheirWay
  <2>6. chain \in Seq(Variants)
    BY <2>4 DEF Way
  <2>7. ASSUME NEW o \in Options
        PROVE  IsFirst(FieldsOn(m, chain, o), OfVariant(m)[o])
    <3> PICK S : S = {<<m, v, o>> : v \in Variants}
      OBVIOUS
    <3>1. \A v \in Variants : <<m, v, o>> \in S
      OBVIOUS
    <3>2. FieldsOn(m, chain, o) \in Seq(S)
      BY <2>6, <3>1, ChainFields
    <3>3. OfVariant(m)[o] = FirstSet(FieldsOn(m, chain, o))
      BY <2>5 DEF OptionsOn
    <3> QED
      BY <3>2, <3>3, FirstSetIsFirst
  <2>8. chain \in Chains(m, variant)
    BY <2>4, WaysAreChains
  <2> QED
    BY <1>2, <2>6, <2>7, <2>8
<1> QED
  BY <1>1, <1>2

LEMMA OptionsFollow ==
  ASSUME ResolutionInv, ResolvedOptions # NoResolution, NEW m, m = SelectedModel
  PROVE  \E chain \in IF active_variant = Unknown THEN {<<>>} ELSE Chains(m, active_variant) :
           \A o \in Options :
             ResolvedOptions[o] = FirstSet(Before(o) \o FieldsOn(m, chain, o) \o <<<<m, o>>>>)
<1>1. /\ OfVariant(m) # NoResolution
      /\ \A o \in Options :
           ResolvedOptions[o] =
             Upper(Upper(Upper(Merged(<<m, o>>), OfVariant(m)[o]),
                         IF o = "temperature" THEN Merged(<<"profile", o>>) ELSE Unknown),
                   IF o = "temperature" THEN Merged(<<"defaults", o>>) ELSE Unknown)
  <2> PICK v : v = OfVariant(m)
    OBVIOUS
  <2> PICK profiled : profiled = [NoOptions EXCEPT !["temperature"] = Merged(<<"profile", "temperature">>)]
    OBVIOUS
  <2> PICK defaulted : defaulted = [NoOptions EXCEPT !["temperature"] = Merged(<<"defaults", "temperature">>)]
    OBVIOUS
  <2> PICK modelled : modelled = [o \in Options |-> Merged(<<m, o>>)]
    OBVIOUS
  <2>1. ResolvedOptions =
          IF v = NoResolution THEN NoResolution
          ELSE merge_options(merge_options(merge_options(modelled, v), profiled), defaulted)
    BY DEF ResolvedOptions, OfVariant
  <2>2. v # NoResolution
    BY <2>1
  <2>3. \A o \in Options :
          /\ profiled[o] = IF o = "temperature" THEN Merged(<<"profile", o>>) ELSE Unknown
          /\ defaulted[o] = IF o = "temperature" THEN Merged(<<"defaults", o>>) ELSE Unknown
          /\ modelled[o] = Merged(<<m, o>>)
    BY DEF NoOptions
  <2>4. \A o \in Options :
          ResolvedOptions[o] = Upper(Upper(Upper(modelled[o], v[o]), profiled[o]), defaulted[o])
    <3> PICK first : first = merge_options(modelled, v)
      OBVIOUS
    <3> PICK second : second = merge_options(first, profiled)
      OBVIOUS
    <3>1. ResolvedOptions = merge_options(second, defaulted)
      BY <2>1, <2>2
    <3>2. \A o \in Options :
            /\ first[o] = Upper(modelled[o], v[o]) /\ second[o] = Upper(first[o], profiled[o])
            /\ ResolvedOptions[o] = Upper(second[o], defaulted[o])
      <4>1. \A o \in Options : first[o] = Upper(modelled[o], v[o])
        BY DEF merge_options
      <4>2. \A o \in Options : second[o] = Upper(first[o], profiled[o])
        BY DEF merge_options
      <4>3. \A o \in Options : ResolvedOptions[o] = Upper(second[o], defaulted[o])
        BY <3>1 DEF merge_options
      <4> QED
        BY ONLY <4>1, <4>2, <4>3
    <3> QED
      BY ONLY <3>2
  <2> QED
    BY <2>2, <2>3, <2>4
<1>2. PICK chain \in IF active_variant = Unknown THEN {<<>>} ELSE Chains(m, active_variant) :
        /\ chain \in Seq(Variants)
        /\ \A o \in Options : IsFirst(FieldsOn(m, chain, o), OfVariant(m)[o])
  BY <1>1, OfVariantFollows
<1>3. ASSUME NEW o \in Options
      PROVE  ResolvedOptions[o] = FirstSet(Before(o) \o FieldsOn(m, chain, o) \o <<<<m, o>>>>)
  <2>1. chain \in Seq(Variants) /\ IsFirst(FieldsOn(m, chain, o), OfVariant(m)[o])
    BY <1>2
  <2>2. FirstSet(Before(o) \o FieldsOn(m, chain, o) \o <<<<m, o>>>>) =
          Upper(Upper(Upper(Merged(<<m, o>>), OfVariant(m)[o]),
                      IF o = "temperature" THEN Merged(<<"profile", o>>) ELSE Unknown),
                IF o = "temperature" THEN Merged(<<"defaults", o>>) ELSE Unknown)
    BY <2>1, OneOption
  <2> QED
    BY <1>1, <2>2
<1> QED
  BY <1>2, <1>3

LEMMA NothingUnsupported ==
  ASSUME ResolutionInv, NEW capabilities, NEW options, Resolves(capabilities, options)
  PROVE  /\ capabilities.tools => ProviderCapabilities.tools
         /\ options["thinking"] # Unknown => format # "openai_responses"
         /\ options["reasoning_effort"] # Unknown => capabilities.reasoning
<1>1. /\ capabilities.tools => Merged(<<"provider", "tools">>) # FALSE
      /\ options["thinking"] # Unknown => format # "openai_responses"
      /\ options["reasoning_effort"] # Unknown => capabilities.reasoning
  BY DEF Resolves, validate_resolved_provider, validate_model_options
<1>2. Merged(<<"provider", "tools">>) # FALSE => ProviderCapabilities.tools = TRUE
  BY VariantValues DEF ProviderCapabilities, Upper
<1> QED
  BY <1>1, <1>2

LEMMA WindowFollows ==
  ASSUME ResolutionInv, NEW m, m = SelectedModel
  PROVE  ResolvedWindow =
           Upper(Upper(IF Defined(<<m>>) \/ m \notin cached THEN FallbackWindow
                       ELSE CachedInfo[m].window,
                       FirstSet(<<<<"profile", "window">>, <<"context", "window">>,
                                  <<"context", "max_window">>, <<m, "window">>>>)),
                 overrides["window"])
<1> PICK p : p = Merged(<<"profile", "window">>)
  OBVIOUS
<1> PICK c : c = Merged(<<"context", "window">>)
  OBVIOUS
<1> PICK k : k = Merged(<<"context", "max_window">>)
  OBVIOUS
<1> PICK w : w = Merged(<<m, "window">>)
  OBVIOUS
<1> PICK set : set = FirstSet(<<<<"profile", "window">>, <<"context", "window">>,
                                <<"context", "max_window">>, <<m, "window">>>>)
  OBVIOUS
<1>1. set = Upper(Upper(Upper(w, k), c), p)
  <2> PICK S : S = {<<"profile", "window">>, <<"context", "window">>,
                    <<"context", "max_window">>, <<m, "window">>}
    OBVIOUS
  <2> PICK s : s = <<<<"profile", "window">>, <<"context", "window">>,
                     <<"context", "max_window">>, <<m, "window">>>>
    OBVIOUS
  <2>1. /\ s \in Seq(S) /\ DOMAIN s = 1..4
        /\ Merged(s[1]) = p /\ Merged(s[2]) = c /\ Merged(s[3]) = k /\ Merged(s[4]) = w
    OBVIOUS
  <2>2. IsFirst(s, Upper(Upper(Upper(w, k), c), p))
    <3>1. 1 \in DOMAIN s /\ 2 \in DOMAIN s /\ 3 \in DOMAIN s /\ 4 \in DOMAIN s
      BY <2>1
    <3>2. \A j \in DOMAIN s : j = 1 \/ j = 2 \/ j = 3 \/ j = 4
      BY <2>1
    <3> QED
      BY <2>1, <3>1, <3>2 DEF IsFirst, Upper
  <2> QED
    BY <2>1, <2>2, FirstSetIs
<1> PICK f : f = FallbackWindow
  OBVIOUS
<1>2. ResolvedWindow =
        Upper(Upper(Upper(Upper(Upper(f, list_models(m).window), w), Upper(k, c)), p), overrides["window"])
  BY DEF ResolvedWindow, ContextWindow
<1>3. CASE Defined(<<m>>)
  <2>1. list_models(m).window = Upper(f, w)
    BY <1>3 DEF list_models
  <2>2. Upper(Upper(f, Upper(f, w)), w) = Upper(f, w)
    BY DEF Upper
  <2>3. Upper(Upper(Upper(f, w), Upper(k, c)), p) = Upper(f, Upper(Upper(Upper(w, k), c), p))
    BY DEF Upper
  <2> QED
    BY <1>1, <1>2, <1>3, <2>1, <2>2, <2>3
<1>4. CASE ~Defined(<<m>>) /\ m \notin cached
  <2>1. list_models(m).window = Unknown
    BY <1>4 DEF list_models, NotListed
  <2>2. Upper(f, Unknown) = f
    BY DEF Upper
  <2>3. Upper(Upper(Upper(f, w), Upper(k, c)), p) = Upper(f, Upper(Upper(Upper(w, k), c), p))
    BY DEF Upper
  <2> QED
    BY <1>1, <1>2, <1>4, <2>1, <2>2, <2>3
<1>5. CASE ~Defined(<<m>>) /\ m \in cached
  <2> PICK l : l = CachedInfo[m].window
    OBVIOUS
  <2>1. l \in Windows
    BY <1>5, ResolutionAssumption DEF ResolutionInv
  <2>2. list_models(m).window = l /\ Upper(f, l) = l
    BY <1>5, <2>1, UnknownIsNoValue DEF list_models, Upper
  <2>3. Upper(Upper(Upper(l, w), Upper(k, c)), p) = Upper(l, Upper(Upper(Upper(w, k), c), p))
    BY DEF Upper
  <2> QED
    BY <1>1, <1>2, <1>5, <2>2, <2>3
<1> QED
  BY <1>3, <1>4, <1>5

LEMMA ExplainedFollows ==
  ASSUME ResolutionInv, NEW layer \in DOMAIN layers, NEW f \in DOMAIN layers[layer]
  PROVE  ExplainedSetting(f) = Merged(f) /\ layers[ExplainedSource(f)][f] = ExplainedSetting(f)
<1>1. layer \in {"global", "workspace"}
  BY MergedSays
<1>2. CASE f \in DOMAIN layers["workspace"]
  <2>1. ExplainedSource(f) = "workspace" /\ Merged(f) = layers["workspace"][f]
    BY <1>2, MergedSays DEF ExplainedSource
  <2> QED
    BY <2>1 DEF ExplainedSetting
<1>3. CASE f \notin DOMAIN layers["workspace"]
  <2>1. f \in DOMAIN layers["global"]
    BY <1>1, <1>3
  <2>2. ExplainedSource(f) = "global" /\ Merged(f) = layers["global"][f]
    BY <1>3, <2>1, MergedSays DEF ExplainedSource
  <2> QED
    BY <2>2 DEF ExplainedSetting
<1> QED
  BY <1>2, <1>3

\* What a run is sent to and with is what the files say, in the order that is documented,
\* whatever they say, however their variants inherit, and after every edit, override and
\* refresh (resolve_provider).
THEOREM ResolutionFollowsFiles == ResolutionSpec => []ModelsFollowLayers
<1>1. ResolutionInv => ModelsFollowLayers
  <2> SUFFICES ASSUME ResolutionInv PROVE ModelsFollowLayers
    OBVIOUS
  <2> PICK m : m = SelectedModel
    OBVIOUS
  <2> PICK variant : variant = active_variant
    OBVIOUS
  <2> PICK options : options = ResolvedOptions
    OBVIOUS
  <2> PICK capabilities : capabilities = ResolvedCapabilities
    OBVIOUS
  <2>1. ASSUME Resolves(capabilities, options)
        PROVE  \E chain \in IF variant = Unknown THEN {<<>>} ELSE Chains(m, variant) :
                 \A o \in Options :
                   options[o] =
                     FirstSet((IF o = "temperature"
                               THEN <<<<"defaults", o>>, <<"profile", o>>>> ELSE <<>>)
                               \o [i \in DOMAIN chain |-> <<m, chain[i], o>>] \o <<<<m, o>>>>)
    <3>1. ResolvedOptions # NoResolution
      BY <2>1 DEF Resolves
    <3> QED
      BY <3>1, OptionsFollow DEF Before, FieldsOn
  <2>2. ASSUME Resolves(capabilities, options)
        PROVE  /\ capabilities.tools => ProviderCapabilities.tools
               /\ options["thinking"] # Unknown => format # "openai_responses"
               /\ options["reasoning_effort"] # Unknown => capabilities.reasoning
    BY <2>2, NothingUnsupported
  <2>3. ResolvedWindow =
          LET set == FirstSet(<<<<"profile", "window">>, <<"context", "window">>,
                                <<"context", "max_window">>, <<m, "window">>>>)
              listed == IF Defined(<<m>>) \/ m \notin cached THEN FallbackWindow
                        ELSE CachedInfo[m].window
          IN Upper(Upper(listed, set), overrides["window"])
    BY WindowFollows
  <2>4. \A layer \in DOMAIN layers : \A f \in DOMAIN layers[layer] :
          /\ ExplainedSetting(f) = Merged(f)
          /\ layers[ExplainedSource(f)][f] = ExplainedSetting(f)
    BY ExplainedFollows
  <2> QED
    BY <2>1, <2>2, <2>3, <2>4 DEF ModelsFollowLayers
<1> QED
  BY <1>1, ResolutionInvHolds, PTL

-----------------------------------------------------------------------------
(* Memory: steps of a loop. *)

\* What holds before a loop and is kept by each of its steps holds after all of them.
LEMMA EveryStep ==
  ASSUME NEW n \in Nat, NEW good \in SUBSET (0..n), 0 \in good,
         \A k \in 1..n : k - 1 \in good => k \in good
  PROVE  good = 0..n
<1> SUFFICES ASSUME (0..n) \ good # {} PROVE FALSE
  OBVIOUS
<1>1. (0..n) \ good \subseteq Nat
  OBVIOUS
<1> PICK bad : bad = (0..n) \ good
  OBVIOUS
<1>2. PICK k \in bad : \A j \in bad : k <= j
  BY ONLY <1>1, bad = (0..n) \ good, (0..n) \ good # {}, FirstIndex
<1>3. k \in 0..n /\ k # 0 /\ k \notin good
  BY <1>2
<1>4. k \in 1..n /\ k - 1 \in 0..n
  BY <1>3
<1>5. k - 1 \in good
  BY <1>2, <1>4
<1> QED
  BY <1>3, <1>4, <1>5

\* A loop of n steps on a state in S has its states, one after another.
LoopsThrough(f, n, first, step) ==
  f[0] = first /\ \A k \in 1..n : f[k] = step[k][f[k - 1]]

LEMMA LoopStates ==
  ASSUME NEW S, NEW n \in Nat, NEW first \in S, NEW step \in [1..n -> [S -> S]]
  PROVE  \E f \in [0..n -> S] : LoopsThrough(f, n, first, step)
<1> DEFINE Runs(f, m) == f[0] = first /\ \A k \in 1..m : f[k] = step[k][f[k - 1]]
           good == {m \in 0..n : \E f \in [0..m -> S] : Runs(f, m)}
<1>1. 0 \in good
  <2> PICK f : f = [k \in 0..0 |-> first]
    OBVIOUS
  <2>1. f \in [0..0 -> S] /\ 0 \in 0..n
    OBVIOUS
  <2>2. Runs(f, 0)
    OBVIOUS
  <2> QED
    BY <2>1, <2>2
<1>2. ASSUME NEW m \in 1..n, m - 1 \in good PROVE m \in good
  <2>1. PICK f \in [0..(m - 1) -> S] : Runs(f, m - 1)
    BY <1>2
  <2> PICK g : g = [k \in 0..m |-> IF k = m THEN step[m][f[m - 1]] ELSE f[k]]
    OBVIOUS
  <2>2. f[m - 1] \in S
    BY <2>1
  <2>3. step[m][f[m - 1]] \in S
    BY <2>2
  <2>4. g \in [0..m -> S]
    <3>1. ASSUME NEW k \in 0..m PROVE g[k] \in S
      BY <2>3, <3>1
    <3> QED
      BY <3>1
  <2>5. g[0] = first
    BY <2>1
  <2>6. ASSUME NEW k \in 1..m PROVE g[k] = step[k][g[k - 1]]
    <3>1. k - 1 \in 0..(m - 1)
      OBVIOUS
    <3>2. g[k - 1] = f[k - 1]
      BY <3>1
    <3>3. CASE k = m
      BY <3>2, <3>3
    <3>4. CASE k # m
      <4>1. k \in 1..(m - 1)
        BY <3>4
      <4>2. g[k] = f[k] /\ f[k] = step[k][f[k - 1]]
        BY <2>1, <3>4, <4>1
      <4> QED
        BY <3>2, <4>2
    <3> QED
      BY <3>3, <3>4
  <2>7. m \in 0..n
    OBVIOUS
  <2> QED
    BY <2>4, <2>5, <2>6, <2>7
<1> HIDE DEF good
<1>3. good \in SUBSET (0..n)
  BY DEF good
<1>4. good = 0..n
  BY ONLY <1>1, <1>2, <1>3, n \in Nat, EveryStep
<1>5. n \in good
  BY <1>4
<1> QED
  BY <1>5 DEF good, LoopsThrough

-----------------------------------------------------------------------------
(* Memory: lists of entries that say the same, section by section. *)

MemoryEntries ==
  {e \in [id : {m[1] : m \in Marks}, section : MemorySections, line : Lines, more : BOOLEAN] :
     <<e.id, e.section>> \in Marks}

SameEntry(x, y) == x.id = y.id /\ x.section = y.section /\ x.line = y.line

\* f pairs the entries of two lists, each section in its order.
AlikeBy(f, a, b) ==
  /\ f \in [DOMAIN a -> DOMAIN b]
  /\ \A i, j \in DOMAIN a : f[i] = f[j] => i = j
  /\ \A j \in DOMAIN b : \E i \in DOMAIN a : f[i] = j
  /\ \A i \in DOMAIN a : SameEntry(a[i], b[f[i]])
  /\ \A i, j \in DOMAIN a : i < j /\ a[i].section = a[j].section => f[i] < f[j]

Alike(a, b) == \E f : AlikeBy(f, a, b)

LEMMA AlikeItself == ASSUME NEW a \in Seq(MemoryEntries) PROVE Alike(a, a)
<1>1. AlikeBy([i \in DOMAIN a |-> i], a, a)
  BY DEF AlikeBy, SameEntry
<1> QED
  BY <1>1 DEF Alike

LEMMA AlikeTwice ==
  ASSUME NEW a, NEW b, NEW c, Alike(a, b), Alike(b, c)
  PROVE  Alike(a, c)
<1>1. PICK f : AlikeBy(f, a, b)
  BY DEF Alike
<1>2. PICK g : AlikeBy(g, b, c)
  BY DEF Alike
<1> PICK h : h = [i \in DOMAIN a |-> g[f[i]]]
  OBVIOUS
<1>3. \A i \in DOMAIN a : f[i] \in DOMAIN b /\ h[i] = g[f[i]] /\ h[i] \in DOMAIN c
  BY <1>1, <1>2 DEF AlikeBy
<1>4. h \in [DOMAIN a -> DOMAIN c]
  BY <1>3
<1>5. \A i, j \in DOMAIN a : h[i] = h[j] => i = j
  BY <1>1, <1>2, <1>3 DEF AlikeBy
<1>6. \A j \in DOMAIN c : \E i \in DOMAIN a : h[i] = j
  <2> SUFFICES ASSUME NEW j \in DOMAIN c PROVE \E i \in DOMAIN a : h[i] = j
    OBVIOUS
  <2>1. PICK k \in DOMAIN b : g[k] = j
    BY <1>2 DEF AlikeBy
  <2>2. PICK i \in DOMAIN a : f[i] = k
    BY <1>1 DEF AlikeBy
  <2> QED
    BY <1>3, <2>1, <2>2
<1>7. \A i \in DOMAIN a : SameEntry(a[i], c[h[i]])
  BY <1>1, <1>2, <1>3 DEF AlikeBy, SameEntry
<1>8. ASSUME NEW i \in DOMAIN a, NEW j \in DOMAIN a, i < j, a[i].section = a[j].section
      PROVE  h[i] < h[j]
  <2>1. f[i] < f[j]
    BY <1>1, <1>8 DEF AlikeBy
  <2>2. b[f[i]].section = b[f[j]].section
    BY <1>1, <1>8 DEF AlikeBy, SameEntry
  <2> QED
    BY <1>2, <1>3, <2>1, <2>2 DEF AlikeBy
<1>9. AlikeBy(h, a, c)
  BY <1>4, <1>5, <1>6, <1>7, <1>8 DEF AlikeBy
<1> QED
  BY <1>9 DEF Alike

LEMMA AlikeBack ==
  ASSUME NEW S, NEW a \in Seq(S), NEW b \in Seq(S), Alike(a, b)
  PROVE  Alike(b, a)
<1>1. PICK f : AlikeBy(f, a, b)
  BY DEF Alike
<1> PICK g : g = [j \in DOMAIN b |-> CHOOSE i \in DOMAIN a : f[i] = j]
  OBVIOUS
<1>2. \A j \in DOMAIN b : g[j] \in DOMAIN a /\ f[g[j]] = j
  BY <1>1 DEF AlikeBy
<1>3. g \in [DOMAIN b -> DOMAIN a]
  BY <1>2
<1>4. \A i, j \in DOMAIN b : g[i] = g[j] => i = j
  BY <1>2
<1>5. \A i \in DOMAIN a : \E j \in DOMAIN b : g[j] = i
  <2> SUFFICES ASSUME NEW i \in DOMAIN a PROVE \E j \in DOMAIN b : g[j] = i
    OBVIOUS
  <2>1. f[i] \in DOMAIN b
    BY <1>1 DEF AlikeBy
  <2>2. g[f[i]] = i
    BY <1>1, <1>2, <2>1 DEF AlikeBy
  <2> QED
    BY <2>1, <2>2
<1>6. \A j \in DOMAIN b : SameEntry(b[j], a[g[j]])
  BY <1>1, <1>2 DEF AlikeBy, SameEntry
<1>7. ASSUME NEW i \in DOMAIN b, NEW j \in DOMAIN b, i < j, b[i].section = b[j].section
      PROVE  g[i] < g[j]
  <2>1. g[i] \in Nat /\ g[j] \in Nat /\ i \in Nat /\ j \in Nat
    BY <1>2, DOMAIN a \subseteq Nat, DOMAIN b \subseteq Nat
  <2>2. a[g[i]].section = a[g[j]].section
    BY <1>6, <1>7 DEF SameEntry
  <2>3. g[j] < g[i] => f[g[j]] < f[g[i]]
    BY <1>1, <1>2, <2>2 DEF AlikeBy
  <2>4. f[g[i]] = i /\ f[g[j]] = j
    BY <1>2
  <2>5. i < j
    BY <1>7
  <2>6. ~(g[j] < g[i])
    BY ONLY <2>1, <2>3, <2>4, <2>5
  <2>7. g[i] # g[j]
    BY ONLY <2>1, <2>4, <2>5
  <2> QED
    BY ONLY <2>1, <2>6, <2>7
<1>8. AlikeBy(g, b, a)
  BY <1>3, <1>4, <1>5, <1>6, <1>7 DEF AlikeBy
<1> QED
  BY <1>8 DEF Alike

\* Lists that are alike hold every entry as often.
LEMMA AlikeHolds ==
  ASSUME NEW S, NEW a \in Seq(S), NEW b \in Seq(S), Alike(a, b), NEW e
  PROVE  TimesHeld(FirstLines(a), e) = TimesHeld(FirstLines(b), e)
<1>1. PICK f : AlikeBy(f, a, b)
  BY DEF Alike
<1> PICK x : x = FirstLines(a)
  OBVIOUS
<1> PICK y : y = FirstLines(b)
  OBVIOUS
<1>2. DOMAIN x = DOMAIN a /\ DOMAIN y = DOMAIN b
  BY DEF FirstLines
<1>3. \A i \in DOMAIN a : x[i] = y[f[i]]
  BY <1>1 DEF AlikeBy, SameEntry, FirstLines
<1> PICK I : I = {i \in DOMAIN a : x[i] = e}
  OBVIOUS
<1> PICK J : J = {j \in DOMAIN b : y[j] = e}
  OBVIOUS
<1> PICK g : g = [i \in I |-> f[i]]
  OBVIOUS
<1>4. g \in [I -> J]
  BY <1>1, <1>3 DEF AlikeBy
<1>5. \A i, j \in I : g[i] = g[j] => i = j
  BY <1>1 DEF AlikeBy
<1>6. \A j \in J : \E i \in I : g[i] = j
  <2> SUFFICES ASSUME NEW j \in J PROVE \E i \in I : g[i] = j
    OBVIOUS
  <2>1. PICK i \in DOMAIN a : f[i] = j
    BY <1>1 DEF AlikeBy
  <2>2. i \in I
    BY <1>3, <2>1
  <2> QED
    BY <2>1, <2>2
<1>7. g \in Bijection(I, J)
  <2>1. g \in Injection(I, J)
    BY <1>4, <1>5, Zenon DEF Injection, IsInjective
  <2>2. g \in Surjection(I, J)
    BY <1>4, <1>6 DEF Surjection
  <2> QED
    BY <2>1, <2>2 DEF Bijection
<1>8. IsFiniteSet(I)
  <2>1. DOMAIN a = 1..Len(a) /\ Len(a) \in Nat
    OBVIOUS
  <2>2. IsFiniteSet(1..Len(a))
    BY <2>1, FS_Interval
  <2>3. I \in SUBSET (1..Len(a))
    BY <2>1
  <2> QED
    BY <2>2, <2>3, FS_Subset
<1>9. Cardinality(I) = Cardinality(J)
  <2>1. ExistsBijection(I, J)
    BY <1>7 DEF ExistsBijection
  <2> QED
    BY <1>8, <2>1, FS_Bijection
<1>10. TimesHeld(x, e) = Cardinality(I) /\ TimesHeld(y, e) = Cardinality(J)
  BY <1>2 DEF TimesHeld
<1> QED
  BY <1>9, <1>10

\* The places that a filter leaves are numbers, finitely many.
LEMMA PlacesOf ==
  ASSUME NEW S, NEW a \in Seq(S), NEW I \in SUBSET DOMAIN a
  PROVE  /\ I \in SUBSET Nat /\ IsFiniteSet(I) /\ Cardinality(I) \in Nat
         /\ Subsequence(a, I) \in Seq(S) /\ Len(Subsequence(a, I)) = Cardinality(I)
         /\ \A k \in 1..Cardinality(I) : Subsequence(a, I)[k] = a[NthOf(I, k)]
         /\ \A i \in I : /\ RankIn(I, i) \in 1..Cardinality(I)
                         /\ Subsequence(a, I)[RankIn(I, i)] = a[i]
<1>1. DOMAIN a = 1..Len(a) /\ Len(a) \in Nat
  OBVIOUS
<1>2. I \in SUBSET Nat /\ IsFiniteSet(I)
  <2>1. IsFiniteSet(1..Len(a)) /\ I \in SUBSET (1..Len(a))
    BY <1>1, FS_Interval
  <2> QED
    BY <2>1, FS_Subset
<1>3. /\ Cardinality(I) \in Nat
      /\ \A k \in 1..Cardinality(I) : NthOf(I, k) \in I
      /\ \A i \in I : NthOf(I, RankIn(I, i)) = i
  BY <1>2, PlacesAreRanked
<1>4. \A i \in I : RankIn(I, i) \in 1..Cardinality(I)
  BY <1>2, RankType
<1>5. \A i \in I : a[i] \in S
  OBVIOUS
<1>6. \A k \in 1..Cardinality(I) : a[NthOf(I, k)] \in S
  BY <1>3, <1>5
<1> PICK n : n = Cardinality(I)
  OBVIOUS
<1> PICK s : s = Subsequence(a, I)
  OBVIOUS
<1>7. s = [k \in 1..n |-> a[NthOf(I, k)]]
  BY DEF Subsequence
<1>8. s \in Seq(S) /\ Len(s) = n
  BY <1>3, <1>6, <1>7
<1>9. \A k \in 1..n : s[k] = a[NthOf(I, k)]
  BY <1>7
<1>10. \A i \in I : s[RankIn(I, i)] = a[i]
  BY <1>3, <1>4, <1>9
<1> QED
  BY <1>2, <1>3, <1>4, <1>8, <1>9, <1>10

\* A filter that tells entries apart by what they say leaves of two lists that are alike two
\* that are.
LEMMA AlikeFiltered ==
  ASSUME NEW S, NEW a \in Seq(S), NEW b \in Seq(S), NEW f, AlikeBy(f, a, b),
         NEW I \in SUBSET DOMAIN a, NEW J \in SUBSET DOMAIN b,
         \A i \in DOMAIN a : i \in I <=> f[i] \in J
  PROVE  Alike(Subsequence(a, I), Subsequence(b, J))
<1> PICK x : x = Subsequence(a, I)
  OBVIOUS
<1> PICK y : y = Subsequence(b, J)
  OBVIOUS
<1> PICK m : m = Cardinality(I)
  OBVIOUS
<1> PICK n : n = Cardinality(J)
  OBVIOUS
<1>1. /\ I \in SUBSET Nat /\ IsFiniteSet(I) /\ J \in SUBSET Nat /\ IsFiniteSet(J)
      /\ m \in Nat /\ n \in Nat
      /\ x \in Seq(S) /\ Len(x) = m /\ y \in Seq(S) /\ Len(y) = n
      /\ \A k \in 1..m : x[k] = a[NthOf(I, k)]
      /\ \A j \in J : RankIn(J, j) \in 1..n /\ y[RankIn(J, j)] = b[j]
  BY PlacesOf
<1>2. DOMAIN x = 1..m /\ DOMAIN y = 1..n
  BY <1>1
<1>3. /\ \A k \in 1..m : NthOf(I, k) \in I /\ RankIn(I, NthOf(I, k)) = k
      /\ \A i \in I : NthOf(I, RankIn(I, i)) = i
      /\ \A k, l \in 1..m : k < l => NthOf(I, k) < NthOf(I, l)
  BY <1>1, PlacesAreRanked
<1>4. /\ \A l \in 1..n : NthOf(J, l) \in J /\ RankIn(J, NthOf(J, l)) = l
      /\ \A j \in J : NthOf(J, RankIn(J, j)) = j
  BY <1>1, PlacesAreRanked
<1>5. \A i \in I : RankIn(I, i) \in 1..m
  BY <1>1, RankType
<1> PICK g : g = [k \in 1..m |-> RankIn(J, f[NthOf(I, k)])]
  OBVIOUS
<1>6. \A k \in 1..m : NthOf(I, k) \in DOMAIN a /\ f[NthOf(I, k)] \in J
  BY <1>3
<1>7. g \in [1..m -> 1..n]
  BY <1>1, <1>6
<1>8. ASSUME NEW k \in 1..m, NEW l \in 1..m, g[k] = g[l] PROVE k = l
  <2>1. f[NthOf(I, k)] = f[NthOf(I, l)]
    BY <1>4, <1>6, <1>8
  <2>2. NthOf(I, k) = NthOf(I, l)
    BY <1>6, <2>1 DEF AlikeBy
  <2> QED
    BY <1>3, <2>2
<1>9. ASSUME NEW l \in 1..n PROVE \E k \in 1..m : g[k] = l
  <2>1. NthOf(J, l) \in DOMAIN b
    BY <1>4
  <2>2. PICK i \in DOMAIN a : f[i] = NthOf(J, l)
    BY <2>1 DEF AlikeBy
  <2>3. i \in I
    BY <1>4, <2>2
  <2>4. RankIn(I, i) \in 1..m /\ NthOf(I, RankIn(I, i)) = i
    BY <1>3, <1>5, <2>3
  <2>5. g[RankIn(I, i)] = l
    BY <1>4, <2>2, <2>4
  <2> QED
    BY <2>4, <2>5
<1>10. ASSUME NEW k \in 1..m PROVE SameEntry(x[k], y[g[k]])
  <2>1. x[k] = a[NthOf(I, k)] /\ y[g[k]] = b[f[NthOf(I, k)]]
    BY <1>1, <1>6
  <2> QED
    BY <1>6, <2>1 DEF AlikeBy
<1>11. ASSUME NEW k \in 1..m, NEW l \in 1..m, k < l, x[k].section = x[l].section
       PROVE  g[k] < g[l]
  <2>1. NthOf(I, k) < NthOf(I, l) /\ a[NthOf(I, k)].section = a[NthOf(I, l)].section
    BY <1>1, <1>3, <1>11
  <2>2. f[NthOf(I, k)] < f[NthOf(I, l)]
    BY <1>6, <2>1 DEF AlikeBy
  <2>3. RankIn(J, f[NthOf(I, k)]) < RankIn(J, f[NthOf(I, l)])
    BY ONLY <1>1, <1>6, <2>2, RankGrows
  <2> QED
    BY <2>3
<1>12. AlikeBy(g, x, y)
  BY <1>2, <1>7, <1>8, <1>9, <1>10, <1>11 DEF AlikeBy
<1> QED
  BY <1>12 DEF Alike

\* The order of the sections is an order of both.
LEMMA TwoSections ==
  ASSUME NEW a
  PROVE  \E s, t \in MemorySections :
           /\ SectionOrder(a) = <<s, t>> /\ s # t /\ \A u \in MemorySections : u = s \/ u = t
BY DEF SectionOrder, MemorySections

\* Section by section there is every entry that there was, each section in its order.
LEMMA SectionsAlike ==
  ASSUME NEW S, NEW a \in Seq(S), \A i \in DOMAIN a : a[i].section \in MemorySections
  PROVE  SectionBySection(a) \in Seq(S) /\ Alike(a, SectionBySection(a))
<1>1. PICK s, t \in MemorySections :
        SectionOrder(a) = <<s, t>> /\ s # t /\ \A u \in MemorySections : u = s \/ u = t
  BY ONLY TwoSections
<1> PICK I : I = {i \in DOMAIN a : a[i].section = s}
  OBVIOUS
<1> PICK J : J = {i \in DOMAIN a : a[i].section = t}
  OBVIOUS
<1> PICK x : x = Subsequence(a, I)
  OBVIOUS
<1> PICK y : y = Subsequence(a, J)
  OBVIOUS
<1> PICK m : m = Cardinality(I)
  OBVIOUS
<1> PICK n : n = Cardinality(J)
  OBVIOUS
<1> PICK z : z = x \o y
  OBVIOUS
<1>2. SectionBySection(a) = z
  BY <1>1 DEF SectionBySection, InSection
<1>3. I \in SUBSET DOMAIN a /\ J \in SUBSET DOMAIN a
  OBVIOUS
<1>4. /\ I \in SUBSET Nat /\ IsFiniteSet(I) /\ m \in Nat /\ x \in Seq(S) /\ Len(x) = m
      /\ \A i \in I : RankIn(I, i) \in 1..m /\ x[RankIn(I, i)] = a[i]
  BY ONLY <1>3, a \in Seq(S), x = Subsequence(a, I), m = Cardinality(I), PlacesOf
<1>5. /\ J \in SUBSET Nat /\ IsFiniteSet(J) /\ n \in Nat /\ y \in Seq(S) /\ Len(y) = n
      /\ \A i \in J : RankIn(J, i) \in 1..n /\ y[RankIn(J, i)] = a[i]
  BY ONLY <1>3, a \in Seq(S), y = Subsequence(a, J), n = Cardinality(J), PlacesOf
<1>6. /\ z \in Seq(S) /\ Len(z) = m + n /\ DOMAIN z = 1..(m + n)
      /\ \A k \in 1..m : z[k] = x[k]
      /\ \A k \in 1..n : z[m + k] = y[k]
  <2>1. x \in Seq(S) /\ y \in Seq(S) /\ Len(x) = m /\ Len(y) = n /\ m \in Nat /\ n \in Nat
    BY <1>4, <1>5
  <2>2. /\ z \in Seq(S) /\ Len(z) = Len(x) + Len(y)
        /\ \A i \in 1..(Len(x) + Len(y)) : z[i] = IF i <= Len(x) THEN x[i] ELSE y[i - Len(x)]
    BY <2>1, ConcatProperties
  <2>3. DOMAIN z = 1..(m + n)
    BY ONLY <2>1, <2>2
  <2>4. \A k \in 1..m : z[k] = x[k]
    BY ONLY <2>1, <2>2
  <2>5. ASSUME NEW k \in 1..n PROVE z[m + k] = y[k]
    <3>1. m + k \in 1..(m + n) /\ ~(m + k <= m) /\ (m + k) - m = k
      BY ONLY <2>1, <2>5
    <3> QED
      BY ONLY <2>1, <2>2, <3>1
  <2> QED
    BY <2>1, <2>2, <2>3, <2>4, <2>5
<1>7. /\ \A k \in 1..m : NthOf(I, k) \in I /\ RankIn(I, NthOf(I, k)) = k
      /\ \A i \in I : NthOf(I, RankIn(I, i)) = i
  BY <1>4, PlacesAreRanked
<1>8. /\ \A k \in 1..n : NthOf(J, k) \in J /\ RankIn(J, NthOf(J, k)) = k
      /\ \A i \in J : NthOf(J, RankIn(J, i)) = i
  BY <1>5, PlacesAreRanked
<1> PICK f : f = [i \in DOMAIN a |-> IF i \in I THEN RankIn(I, i) ELSE m + RankIn(J, i)]
  OBVIOUS
<1>9. \A i \in DOMAIN a : i \in I \/ i \in J
  BY <1>1
<1>10. \A i \in I : i \notin J
  BY <1>1
<1>11. \A i \in I : f[i] = RankIn(I, i) /\ f[i] \in 1..m
  BY <1>3, <1>4
<1>12. \A i \in J : f[i] = m + RankIn(J, i) /\ RankIn(J, i) \in 1..n
  BY <1>3, <1>5, <1>10
<1>13. f \in [DOMAIN a -> 1..(m + n)]
  <2>1. ASSUME NEW i \in DOMAIN a PROVE f[i] \in 1..(m + n)
    <3>1. CASE i \in I
      BY <1>4, <1>5, <1>11, <3>1
    <3>2. CASE i \in J
      <4> PICK r : r = RankIn(J, i)
        OBVIOUS
      <4>1. r \in 1..n /\ f[i] = m + r /\ m \in Nat /\ n \in Nat
        BY <1>4, <1>5, <1>12, <3>2
      <4> QED
        BY ONLY <4>1
    <3> QED
      BY <1>9, <3>1, <3>2
  <2> QED
    BY <2>1
<1>14. ASSUME NEW i \in DOMAIN a, NEW j \in DOMAIN a, f[i] = f[j] PROVE i = j
  <2>0. m \in Nat /\ n \in Nat
    BY <1>4, <1>5
  <2>1. CASE i \in I /\ j \in I
    <3>1. RankIn(I, i) = RankIn(I, j)
      BY ONLY <1>11, <1>14, <2>1
    <3>2. NthOf(I, RankIn(I, i)) = i /\ NthOf(I, RankIn(I, j)) = j
      BY ONLY <1>7, <2>1
    <3> QED
      BY ONLY <3>1, <3>2
  <2> PICK p : p = RankIn(J, i)
    OBVIOUS
  <2> PICK q : q = RankIn(J, j)
    OBVIOUS
  <2>2. i \in J => f[i] = m + p /\ p \in 1..n
    BY <1>12
  <2>3. j \in J => f[j] = m + q /\ q \in 1..n
    BY <1>12
  <2>4. (i \in I => f[i] \in 1..m) /\ (j \in I => f[j] \in 1..m)
    BY <1>11
  <2>5. CASE i \in J /\ j \in J
    <3>1. p = q
      BY ONLY <1>14, <2>0, <2>2, <2>3, <2>5
    <3>2. NthOf(J, p) = i /\ NthOf(J, q) = j
      BY ONLY <1>8, <2>5, p = RankIn(J, i), q = RankIn(J, j)
    <3> QED
      BY ONLY <3>1, <3>2
  <2>6. CASE i \in I /\ j \in J
    BY ONLY <1>14, <2>0, <2>3, <2>4, <2>6
  <2>7. CASE i \in J /\ j \in I
    BY ONLY <1>14, <2>0, <2>2, <2>4, <2>7
  <2> QED
    BY <1>9, <2>1, <2>5, <2>6, <2>7
<1>15. ASSUME NEW k \in 1..(m + n) PROVE \E i \in DOMAIN a : f[i] = k
  <2>1. CASE k \in 1..m
    BY <1>3, <1>7, <1>11, <2>1
  <2>2. CASE k \notin 1..m
    <3>1. k \in 1..(m + n) /\ m \in Nat /\ n \in Nat
      BY <1>4, <1>5
    <3>2. PICK l \in 1..n : k = m + l
      <4>1. k - m \in 1..n /\ k = m + (k - m)
        BY ONLY <2>2, <3>1
      <4> QED
        BY <4>1
    <3>3. NthOf(J, l) \in J /\ f[NthOf(J, l)] = k
      BY <1>8, <1>12, <3>2
    <3> QED
      BY <1>3, <3>3
  <2> QED
    BY <2>1, <2>2
<1>16. ASSUME NEW i \in DOMAIN a PROVE SameEntry(a[i], z[f[i]])
  <2>1. z[f[i]] = a[i]
    <3>1. CASE i \in I
      <4>1. f[i] = RankIn(I, i) /\ f[i] \in 1..m
        BY <1>11, <3>1
      <4>2. z[f[i]] = x[f[i]]
        BY <1>6, <4>1
      <4> QED
        BY <1>4, <3>1, <4>1, <4>2
    <3>2. CASE i \in J
      <4> PICK r : r = RankIn(J, i)
        OBVIOUS
      <4>1. f[i] = m + r /\ r \in 1..n
        BY ONLY <1>12, <3>2, r = RankIn(J, i)
      <4>2. y[r] = a[i]
        BY ONLY <1>5, <3>2, r = RankIn(J, i)
      <4>3. z[m + r] = y[r]
        BY ONLY <1>6, <4>1
      <4> QED
        BY ONLY <4>1, <4>2, <4>3
    <3> QED
      BY <1>9, <3>1, <3>2
  <2> QED
    BY <2>1 DEF SameEntry
<1>17. ASSUME NEW i \in DOMAIN a, NEW j \in DOMAIN a, i < j, a[i].section = a[j].section
       PROVE  f[i] < f[j]
  <2>1. CASE i \in I
    <3>1. j \in I
      BY <1>17, <2>1
    <3>2. RankIn(I, i) < RankIn(I, j)
      BY ONLY <1>4, <1>17, <2>1, <3>1, RankGrows
    <3> QED
      BY <1>11, <2>1, <3>1, <3>2
  <2>2. CASE i \in J
    <3>1. j \in J
      BY <1>17, <2>2
    <3>2. RankIn(J, i) < RankIn(J, j)
      BY ONLY <1>5, <1>17, <2>2, <3>1, RankGrows
    <3>3. /\ f[i] = m + RankIn(J, i) /\ f[j] = m + RankIn(J, j)
          /\ RankIn(J, i) \in Nat /\ RankIn(J, j) \in Nat
      BY <1>12, <2>2, <3>1
    <3> QED
      BY ONLY <1>4, <3>2, <3>3
  <2> QED
    BY <1>9, <2>1, <2>2
<1>18. AlikeBy(f, a, z)
  BY <1>6, <1>13, <1>14, <1>15, <1>16, <1>17 DEF AlikeBy
<1> QED
  BY <1>2, <1>6, <1>18 DEF Alike

-----------------------------------------------------------------------------
(* Memory: what is read and written. *)

LEMMA MarkFacts ==
  /\ \A s \in MemorySections, l \in Lines, m \in BOOLEAN : <<GeneratedId(s, l, m), s>> \in Marks
  /\ \A m \in GeneratedMarks : m[1] # NoMark
  /\ \A m \in Marks : m[1] # NoMark
<1>1. \A m \in GeneratedMarks : m[1] # NoMark
  BY MemoryAssumption
<1>2. \A s \in MemorySections, l \in Lines, m \in BOOLEAN : <<GeneratedId(s, l, m), s>> \in Marks
  BY DEF Marks, GeneratedMarks
<1>3. ASSUME NEW m \in Marks PROVE m[1] # NoMark
  BY <1>1 DEF Marks
<1> QED
  BY <1>1, <1>2, <1>3

LEMMA EntryFacts ==
  ASSUME NEW e \in MemoryEntries
  PROVE  /\ <<e.id, e.section>> \in Marks /\ e.section \in MemorySections
         /\ e.line \in Lines /\ e.more \in BOOLEAN
BY DEF MemoryEntries

LEMMA EntryMade ==
  ASSUME NEW id, NEW s \in MemorySections, NEW l \in Lines, NEW m \in BOOLEAN,
         <<id, s>> \in Marks
  PROVE  [id |-> id, section |-> s, line |-> l, more |-> m] \in MemoryEntries
<1> PICK pair : pair = <<id, s>>
  OBVIOUS
<1>1. pair \in Marks /\ pair[1] = id
  OBVIOUS
<1>2. id \in {p[1] : p \in Marks}
  BY <1>1
<1> QED
  BY <1>2 DEF MemoryEntries

LEMMA ParseType ==
  ASSUME NEW file \in {NoMemory} \cup MemoryFiles
  PROVE  Parse(file) \in Seq(MemoryEntries)
<1>1. CASE file = NoMemory
  BY <1>1 DEF Parse
<1>2. CASE file # NoMemory
  <2>1. file \in MemoryFiles
    BY <1>2
  <2> PICK es : es = file.entries
    OBVIOUS
  <2>2. es \in Seq(FileEntries)
    BY <2>1 DEF MemoryFiles
  <2> DEFINE Read(e) ==
        LET more == e.tail = "indented"
        IN [id |-> IF e.mark = NoMark THEN GeneratedId(e.section, e.line, more) ELSE e.mark,
            section |-> e.section, line |-> e.line, more |-> more]
  <2>3. ASSUME NEW e \in FileEntries PROVE Read(e) \in MemoryEntries
    <3> PICK more : more = (e.tail = "indented")
      OBVIOUS
    <3> PICK id : id = IF e.mark = NoMark THEN GeneratedId(e.section, e.line, more) ELSE e.mark
      OBVIOUS
    <3>1. /\ e.section \in MemorySections /\ e.line \in Lines
          /\ e.mark = NoMark \/ <<e.mark, e.section>> \in Marks
      BY DEF FileEntries
    <3>2. more \in BOOLEAN
      OBVIOUS
    <3>3. <<id, e.section>> \in Marks
      BY <3>1, <3>2, MarkFacts
    <3>4. [id |-> id, section |-> e.section, line |-> e.line, more |-> more] \in MemoryEntries
      BY ONLY <3>1, <3>2, <3>3, EntryMade
    <3> QED
      BY <3>4
  <2> HIDE DEF Read
  <2>4. Parse(file) = [i \in DOMAIN es |-> Read(es[i])]
    BY <1>2 DEF Parse, Read
  <2>5. \A i \in DOMAIN es : Read(es[i]) \in MemoryEntries
    BY <2>2, <2>3
  <2>6. DOMAIN es = 1..Len(es) /\ Len(es) \in Nat
    BY <2>2
  <2> QED
    BY <2>4, <2>5, <2>6
<1> QED
  BY <1>1, <1>2

\* A list that is written and read again is what it was, section by section, and further lines
\* are lost.
LEMMA Rewritten ==
  ASSUME NEW a \in Seq(MemoryEntries)
  PROVE  /\ FormatMemory(a) \in MemoryFiles
         /\ Parse(FormatMemory(a)) \in Seq(MemoryEntries)
         /\ Alike(a, Parse(FormatMemory(a)))
<1>1. \A i \in DOMAIN a : a[i].section \in MemorySections
  <2>1. ASSUME NEW i \in DOMAIN a PROVE a[i].section \in MemorySections
    <3>1. a[i] \in MemoryEntries
      OBVIOUS
    <3> QED
      BY <3>1, EntryFacts
  <2> QED
    BY <2>1
<1> PICK z : z = SectionBySection(a)
  OBVIOUS
<1>2. z \in Seq(MemoryEntries) /\ Alike(a, z)
  BY <1>1, SectionsAlike
<1> DEFINE Put(e) == [mark |-> e.id, section |-> e.section, line |-> e.line,
                      tail |-> IF e.more THEN "loose" ELSE "none"]
<1>3. ASSUME NEW e \in MemoryEntries
      PROVE  Put(e) \in FileEntries /\ Put(e).mark # NoMark
  <2>1. /\ <<e.id, e.section>> \in Marks /\ e.section \in MemorySections /\ e.line \in Lines
        /\ e.id \in {m[1] : m \in Marks}
    BY DEF MemoryEntries
  <2>2. e.id # NoMark
    BY <2>1, MarkFacts
  <2> QED
    BY <2>1, <2>2 DEF FileEntries, Tails
<1> PICK es : es = [i \in DOMAIN z |-> Put(z[i])]
  OBVIOUS
<1> PICK file : file = [entries |-> es, notes |-> FALSE]
  OBVIOUS
<1>4. FormatMemory(a) = file
  BY DEF FormatMemory
<1>5. DOMAIN z = 1..Len(z) /\ Len(z) \in Nat /\ \A i \in DOMAIN z : z[i] \in MemoryEntries
  BY <1>2
<1>6. \A i \in DOMAIN z : /\ es[i] \in FileEntries /\ es[i].mark # NoMark
                          /\ es[i].mark = z[i].id /\ es[i].section = z[i].section
                          /\ es[i].line = z[i].line
  BY <1>3, <1>5
<1> HIDE DEF Put
<1>7. es \in Seq(FileEntries) /\ DOMAIN es = DOMAIN z
  BY <1>5, <1>6
<1>8. file \in MemoryFiles
  BY <1>7 DEF MemoryFiles
<1>9. file # NoMemory
  BY <1>8, MemoryAssumption
<1> PICK w : w = Parse(file)
  OBVIOUS
<1>10. w \in Seq(MemoryEntries)
  BY <1>8, ParseType
<1>11. DOMAIN w = DOMAIN z /\ \A i \in DOMAIN z : SameEntry(z[i], w[i])
  <2>1. file.entries = es
    OBVIOUS
  <2>2. /\ DOMAIN w = DOMAIN es
        /\ \A i \in DOMAIN es :
             /\ w[i].id = IF es[i].mark = NoMark
                          THEN GeneratedId(es[i].section, es[i].line, es[i].tail = "indented")
                          ELSE es[i].mark
             /\ w[i].section = es[i].section /\ w[i].line = es[i].line
    BY <1>9, <2>1 DEF Parse
  <2>3. ASSUME NEW i \in DOMAIN z PROVE SameEntry(z[i], w[i])
    <3>1. w[i].id = es[i].mark
      BY <1>6, <1>7, <2>2
    <3> QED
      BY <1>6, <1>7, <2>2, <3>1 DEF SameEntry
  <2> QED
    BY <1>7, <2>2, <2>3
<1>12. AlikeBy([i \in DOMAIN z |-> i], z, w)
  BY <1>11 DEF AlikeBy, SameEntry
<1>13. Alike(z, w)
  BY <1>12 DEF Alike
<1>14. Alike(a, w)
  BY <1>2, <1>13, AlikeTwice
<1> QED
  BY <1>4, <1>8, <1>10, <1>14

-----------------------------------------------------------------------------
(* Memory: what the operations of a proposal do. *)

LEMMA OperationFacts ==
  ASSUME NEW ids, NEW op \in MemoryOperations(ids)
  PROVE  \/ op.kind = "Add" /\ op.section \in MemorySections /\ op.line \in Lines
            /\ op.more \in BOOLEAN
         \/ op.kind = "Replace" /\ op.id \in ids /\ op.line \in Lines /\ op.more \in BOOLEAN
         \/ op.kind = "Remove" /\ op.id \in ids
BY DEF MemoryOperations

\* The entry that is added, and the entry that is put for another one.
Added(op) == [id |-> GeneratedId(op.section, op.line, op.more),
              section |-> op.section, line |-> op.line, more |-> op.more]
Replaced(e, op) == [e EXCEPT !.line = op.line, !.more = op.more]

IsFound(a, op, i) ==
  i \in DOMAIN a /\ a[i].id = op.id /\ \A j \in DOMAIN a : a[j].id = op.id => i <= j

Others(a, op) == {i \in DOMAIN a : a[i].id # op.id}

LEMMA AppliedCases ==
  ASSUME NEW S, NEW a \in Seq(S), NEW op
  PROVE  /\ op.kind = "Add" => Applied(a, op) = Append(a, Added(op))
         /\ op.kind = "Replace" =>
              \/ (\A i \in DOMAIN a : a[i].id # op.id) /\ Applied(a, op) = a
              \/ \E i \in DOMAIN a : /\ IsFound(a, op, i)
                                     /\ Applied(a, op) = [a EXCEPT ![i] = Replaced(a[i], op)]
         /\ op.kind = "Remove" => Applied(a, op) = Subsequence(a, Others(a, op))
<1> PICK found : found = {i \in DOMAIN a : a[i].id = op.id}
  OBVIOUS
<1> PICK first : first = CHOOSE i \in found : \A j \in found : i <= j
  OBVIOUS
<1>1. Applied(a, op) =
        CASE op.kind = "Add" -> Append(a, Added(op))
          [] op.kind = "Replace" ->
               IF found = {} THEN a ELSE [a EXCEPT ![first] = Replaced(@, op)]
          [] op.kind = "Remove" -> Subsequence(a, Others(a, op))
  BY DEF Applied, Added, Replaced, Others
<1>2. ASSUME found # {} PROVE IsFound(a, op, first)
  <2>1. found \subseteq Nat
    OBVIOUS
  <2>2. \E i \in found : \A j \in found : i <= j
    BY ONLY <1>2, <2>1, FirstIndex
  <2>3. first \in found /\ \A j \in found : first <= j
    BY <2>2
  <2>4. \A j \in DOMAIN a : a[j].id = op.id => j \in found
    OBVIOUS
  <2>5. first \in DOMAIN a /\ a[first].id = op.id
    BY <2>3
  <2> QED
    BY ONLY <2>3, <2>4, <2>5 DEF IsFound
<1>3. ASSUME op.kind = "Replace"
      PROVE  \/ (\A i \in DOMAIN a : a[i].id # op.id) /\ Applied(a, op) = a
             \/ \E i \in DOMAIN a : /\ IsFound(a, op, i)
                                    /\ Applied(a, op) = [a EXCEPT ![i] = Replaced(a[i], op)]
  <2>1. Applied(a, op) = IF found = {} THEN a ELSE [a EXCEPT ![first] = Replaced(@, op)]
    BY <1>1, <1>3
  <2>2. CASE found = {}
    BY <2>1, <2>2
  <2>3. CASE found # {}
    BY <1>2, <2>1, <2>3 DEF IsFound
  <2> QED
    BY <2>2, <2>3
<1> QED
  BY <1>1, <1>3

LEMMA ReplacedFacts ==
  ASSUME NEW e \in MemoryEntries, NEW op, op.line \in Lines, op.more \in BOOLEAN
  PROVE  /\ Replaced(e, op) \in MemoryEntries
         /\ Replaced(e, op).id = e.id /\ Replaced(e, op).section = e.section
         /\ Replaced(e, op).line = op.line
BY DEF MemoryEntries, Replaced

LEMMA AddedFacts ==
  ASSUME NEW op, op.section \in MemorySections, op.line \in Lines, op.more \in BOOLEAN
  PROVE  Added(op) \in MemoryEntries
<1>1. <<GeneratedId(op.section, op.line, op.more), op.section>> \in Marks
  BY MarkFacts
<1> QED
  BY <1>1, EntryMade DEF Added

LEMMA AppliedType ==
  ASSUME NEW ids, NEW op \in MemoryOperations(ids), NEW a \in Seq(MemoryEntries)
  PROVE  Applied(a, op) \in Seq(MemoryEntries)
<1>1. CASE op.kind = "Add"
  <2>1. Added(op) \in MemoryEntries
    BY <1>1, OperationFacts, AddedFacts
  <2> QED
    BY <1>1, <2>1, AppliedCases
<1>2. CASE op.kind = "Replace"
  <2>1. op.line \in Lines /\ op.more \in BOOLEAN
    BY <1>2, OperationFacts
  <2>2. ASSUME NEW i \in DOMAIN a, Applied(a, op) = [a EXCEPT ![i] = Replaced(a[i], op)]
        PROVE  Applied(a, op) \in Seq(MemoryEntries)
    <3>1. Replaced(a[i], op) \in MemoryEntries
      BY <2>1, ReplacedFacts
    <3> QED
      BY <2>2, <3>1
  <2> QED
    BY <1>2, <2>2, AppliedCases
<1>3. CASE op.kind = "Remove"
  <2>1. Others(a, op) \in SUBSET DOMAIN a
    BY DEF Others
  <2>2. Subsequence(a, Others(a, op)) \in Seq(MemoryEntries)
    BY <2>1, PlacesOf
  <2> QED
    BY <1>3, <2>2, AppliedCases
<1> QED
  BY <1>1, <1>2, <1>3, OperationFacts

\* An operation does the same to lists that are alike: what it appends is last in its section,
\* and the first entry with an id is the first in the section of the id.
LEMMA AppliedAlike ==
  ASSUME MarksTellSections, NEW ids, NEW op \in MemoryOperations(ids),
         NEW a \in Seq(MemoryEntries), NEW b \in Seq(MemoryEntries), Alike(a, b)
  PROVE  Alike(Applied(a, op), Applied(b, op))
<1>1. PICK f : AlikeBy(f, a, b)
  BY DEF Alike
<1> PICK m : m = Len(a)
  OBVIOUS
<1> PICK n : n = Len(b)
  OBVIOUS
<1>2. DOMAIN a = 1..m /\ DOMAIN b = 1..n /\ m \in Nat /\ n \in Nat
  OBVIOUS
<1>3. \A i \in DOMAIN a : f[i] \in DOMAIN b /\ a[i].id = b[f[i]].id
  BY <1>1 DEF AlikeBy, SameEntry
<1>4. CASE op.kind = "Add"
  <2> PICK e : e = Added(op)
    OBVIOUS
  <2> PICK x : x = Append(a, e)
    OBVIOUS
  <2> PICK y : y = Append(b, e)
    OBVIOUS
  <2> PICK g : g = [i \in 1..(m + 1) |-> IF i = m + 1 THEN n + 1 ELSE f[i]]
    OBVIOUS
  <2>1. Applied(a, op) = x /\ Applied(b, op) = y
    BY <1>4, AppliedCases
  <2>2. /\ DOMAIN x = 1..(m + 1) /\ x[m + 1] = e /\ \A i \in 1..m : x[i] = a[i]
        /\ DOMAIN y = 1..(n + 1) /\ y[n + 1] = e /\ \A i \in 1..n : y[i] = b[i]
    BY <1>2
  <2>3. m + 1 \in 1..(m + 1) /\ g[m + 1] = n + 1 /\ n + 1 \in 1..(n + 1)
    BY <1>2
  <2>4. \A i \in 1..m : i \in 1..(m + 1) /\ i # m + 1
    BY <1>2
  <2>5. \A i \in 1..m : g[i] = f[i] /\ g[i] \in 1..n
    BY <1>2, <1>3, <2>4
  <2>6. \A j \in 1..n : j \in 1..(n + 1) /\ j # n + 1 /\ j < n + 1
    BY <1>2
  <2>7. \A i \in 1..(m + 1) : i = m + 1 \/ i \in 1..m
    BY <1>2
  <2>8. \A j \in 1..(n + 1) : j = n + 1 \/ j \in 1..n
    BY <1>2
  <2>9. g \in [DOMAIN x -> DOMAIN y]
    <3>1. \A i \in 1..(m + 1) : g[i] \in 1..(n + 1)
      BY <2>3, <2>5, <2>6, <2>7
    <3> QED
      BY <2>2, <3>1
  <2>10. ASSUME NEW i \in DOMAIN x, NEW j \in DOMAIN x, g[i] = g[j] PROVE i = j
    <3>1. CASE i \in 1..m /\ j \in 1..m
      BY <1>1, <1>2, <2>5, <2>10, <3>1 DEF AlikeBy
    <3>2. CASE i = m + 1 /\ j \in 1..m
      BY <2>3, <2>5, <2>6, <2>10, <3>2
    <3>3. CASE i \in 1..m /\ j = m + 1
      BY <2>3, <2>5, <2>6, <2>10, <3>3
    <3> QED
      BY <2>2, <2>7, <3>1, <3>2, <3>3
  <2>11. ASSUME NEW j \in DOMAIN y PROVE \E i \in DOMAIN x : g[i] = j
    <3>1. CASE j = n + 1
      BY <2>2, <2>3, <3>1
    <3>2. CASE j \in 1..n
      <4>1. PICK i \in 1..m : f[i] = j
        BY <1>1, <1>2, <3>2 DEF AlikeBy
      <4> QED
        BY <2>2, <2>4, <2>5, <4>1
    <3> QED
      BY <2>2, <2>8, <3>1, <3>2
  <2>12. ASSUME NEW i \in DOMAIN x PROVE SameEntry(x[i], y[g[i]])
    <3>1. CASE i = m + 1
      BY <2>2, <2>3, <3>1 DEF SameEntry
    <3>2. CASE i \in 1..m
      BY <1>1, <1>2, <2>2, <2>5, <3>2 DEF AlikeBy
    <3> QED
      BY <2>2, <2>7, <3>1, <3>2
  <2>13. ASSUME NEW i \in DOMAIN x, NEW j \in DOMAIN x, i < j, x[i].section = x[j].section
         PROVE  g[i] < g[j]
    <3>1. i \in 1..(m + 1) /\ j \in 1..(m + 1)
      BY <2>2
    <3>2. i \in 1..m
      BY ONLY <1>2, <2>13, <3>1
    <3>3. CASE j = m + 1
      BY <2>3, <2>5, <2>6, <3>2, <3>3
    <3>4. CASE j \in 1..m
      BY <1>1, <1>2, <2>2, <2>5, <2>13, <3>2, <3>4 DEF AlikeBy
    <3> QED
      BY <2>7, <3>1, <3>3, <3>4
  <2>14. AlikeBy(g, x, y)
    BY <2>9, <2>10, <2>11, <2>12, <2>13 DEF AlikeBy
  <2> QED
    BY <2>1, <2>14 DEF Alike
<1>5. CASE op.kind = "Replace"
  <2>1. op.line \in Lines /\ op.more \in BOOLEAN
    BY <1>5, OperationFacts
  <2>2. CASE \A i \in DOMAIN a : a[i].id # op.id
    <3>1. \A j \in DOMAIN b : b[j].id # op.id
      BY <1>1, <1>3, <2>2 DEF AlikeBy
    <3>2. Applied(a, op) = a
      BY <1>5, <2>2, AppliedCases DEF IsFound
    <3>3. Applied(b, op) = b
      BY <1>5, <3>1, AppliedCases DEF IsFound
    <3> QED
      BY <3>2, <3>3
  <2>3. CASE ~(\A i \in DOMAIN a : a[i].id # op.id)
    <3>1. ~(\A j \in DOMAIN b : b[j].id # op.id)
      BY <1>3, <2>3
    <3>2. PICK p \in DOMAIN a : /\ IsFound(a, op, p)
                                /\ Applied(a, op) = [a EXCEPT ![p] = Replaced(a[p], op)]
      BY <1>5, <2>3, AppliedCases
    <3>3. PICK q \in DOMAIN b : /\ IsFound(b, op, q)
                                /\ Applied(b, op) = [b EXCEPT ![q] = Replaced(b[q], op)]
      BY <1>5, <3>1, AppliedCases
    <3>4. PICK k \in DOMAIN a : f[k] = q
      BY <1>1 DEF AlikeBy
    <3>5. a[p].id = op.id /\ a[k].id = op.id /\ b[f[p]].id = op.id
      BY <1>3, <3>2, <3>3, <3>4 DEF IsFound
    <3>6. p <= k /\ q <= f[p]
      BY <1>3, <3>2, <3>3, <3>5 DEF IsFound
    <3>7. a[p] \in MemoryEntries /\ a[k] \in MemoryEntries /\ b[q] \in MemoryEntries
      OBVIOUS
    <3>8. a[p].section = a[k].section
      <4> PICK u : u = <<a[p].id, a[p].section>>
        OBVIOUS
      <4> PICK v : v = <<a[k].id, a[k].section>>
        OBVIOUS
      <4>1. u \in Marks /\ v \in Marks
        BY <3>7, EntryFacts
      <4>2. u[1] = v[1]
        BY <3>5
      <4>3. u[2] = v[2]
        BY <4>1, <4>2 DEF MarksTellSections
      <4> QED
        BY <4>3
    <3>9. p < k => f[p] < f[k]
      BY <1>1, <3>8 DEF AlikeBy
    <3>10. p \in Nat /\ k \in Nat /\ q \in Nat /\ f[p] \in Nat
      BY <1>2, <1>3
    <3>11. p = k
      BY ONLY <3>4, <3>6, <3>9, <3>10
    <3> PICK x : x = Applied(a, op)
      OBVIOUS
    <3> PICK y : y = Applied(b, op)
      OBVIOUS
    <3>12. /\ DOMAIN x = DOMAIN a /\ x[p] = Replaced(a[p], op)
           /\ \A i \in DOMAIN a : i # p => x[i] = a[i]
      BY <3>2
    <3>13. /\ DOMAIN y = DOMAIN b /\ y[q] = Replaced(b[q], op)
           /\ \A j \in DOMAIN b : j # q => y[j] = b[j]
      BY <3>3
    <3>14. /\ Replaced(a[p], op).id = a[p].id /\ Replaced(a[p], op).section = a[p].section
           /\ Replaced(a[p], op).line = op.line
           /\ Replaced(b[q], op).id = b[q].id /\ Replaced(b[q], op).section = b[q].section
           /\ Replaced(b[q], op).line = op.line
      BY <2>1, <3>7, ReplacedFacts
    <3>15. \A i \in DOMAIN a : x[i].section = a[i].section
      BY <3>12, <3>14
    <3>16. ASSUME NEW i \in DOMAIN a PROVE SameEntry(x[i], y[f[i]])
      <4>1. SameEntry(a[i], b[f[i]])
        BY <1>1 DEF AlikeBy
      <4>2. CASE i = p
        BY <3>4, <3>11, <3>12, <3>13, <3>14, <4>1, <4>2 DEF SameEntry
      <4>3. CASE i # p
        <5>1. f[i] # q
          BY <1>1, <3>4, <3>11, <4>3 DEF AlikeBy
        <5>2. x[i] = a[i] /\ y[f[i]] = b[f[i]]
          BY <1>3, <3>12, <3>13, <4>3, <5>1
        <5> QED
          BY <4>1, <5>2
      <4> QED
        BY <4>2, <4>3
    <3>17. AlikeBy(f, x, y)
      BY <1>1, <3>12, <3>13, <3>15, <3>16 DEF AlikeBy
    <3> QED
      BY <3>17 DEF Alike
  <2> QED
    BY <2>2, <2>3
<1>6. CASE op.kind = "Remove"
  <2> PICK I : I = Others(a, op)
    OBVIOUS
  <2> PICK J : J = Others(b, op)
    OBVIOUS
  <2>1. I \in SUBSET DOMAIN a /\ J \in SUBSET DOMAIN b
    BY DEF Others
  <2>2. \A i \in DOMAIN a : i \in I <=> f[i] \in J
    BY <1>3 DEF Others
  <2>3. Alike(Subsequence(a, I), Subsequence(b, J))
    BY ONLY <1>1, <2>1, <2>2, a \in Seq(MemoryEntries), b \in Seq(MemoryEntries),
            AlikeFiltered
  <2> QED
    BY <1>6, <2>3, AppliedCases
<1> QED
  BY <1>4, <1>5, <1>6, OperationFacts

\* What has another id than the operations name stays.
Holds(a, id, section, line) ==
  \E i \in DOMAIN a : a[i].id = id /\ a[i].section = section /\ a[i].line = line

LEMMA AppliedKeeps ==
  ASSUME NEW ids, NEW op \in MemoryOperations(ids), NEW a \in Seq(MemoryEntries),
         NEW id, id \notin ids, NEW section, NEW line, Holds(a, id, section, line)
  PROVE  Holds(Applied(a, op), id, section, line)
<1>1. PICK i \in DOMAIN a : a[i].id = id /\ a[i].section = section /\ a[i].line = line
  BY DEF Holds
<1>2. CASE op.kind = "Add"
  <2>1. Applied(a, op) = Append(a, Added(op))
    BY <1>2, AppliedCases
  <2>2. i \in DOMAIN Append(a, Added(op)) /\ Append(a, Added(op))[i] = a[i]
    OBVIOUS
  <2> QED
    BY <1>1, <2>1, <2>2 DEF Holds
<1>3. CASE op.kind = "Replace"
  <2>1. op.id # id
    BY <1>3, OperationFacts
  <2>2. CASE Applied(a, op) = a
    BY <2>2
  <2>3. ASSUME NEW j \in DOMAIN a, IsFound(a, op, j),
               Applied(a, op) = [a EXCEPT ![j] = Replaced(a[j], op)]
        PROVE  Holds(Applied(a, op), id, section, line)
    <3>1. j # i
      BY <1>1, <2>1, <2>3 DEF IsFound
    <3>2. i \in DOMAIN Applied(a, op) /\ Applied(a, op)[i] = a[i]
      BY <2>3, <3>1
    <3> QED
      BY <1>1, <3>2 DEF Holds
  <2> QED
    BY <1>3, <2>2, <2>3, AppliedCases
<1>4. CASE op.kind = "Remove"
  <2>1. op.id # id
    BY <1>4, OperationFacts
  <2> PICK I : I = Others(a, op)
    OBVIOUS
  <2> PICK s : s = Subsequence(a, I)
    OBVIOUS
  <2>2. I \in SUBSET DOMAIN a /\ i \in I
    BY <1>1, <2>1 DEF Others
  <2>3. /\ s \in Seq(MemoryEntries) /\ Len(s) = Cardinality(I)
        /\ RankIn(I, i) \in 1..Cardinality(I) /\ s[RankIn(I, i)] = a[i]
    BY <2>2, PlacesOf
  <2>4. RankIn(I, i) \in DOMAIN s
    BY <2>3
  <2>5. Holds(s, id, section, line)
    BY <1>1, <2>3, <2>4 DEF Holds
  <2> QED
    BY <1>4, <2>5, AppliedCases
<1> QED
  BY <1>2, <1>3, <1>4, OperationFacts

\* The lists between the accepted operations.
AcceptedStates(g, a, operations, accepted) ==
  /\ g[0] = a
  /\ \A k \in 1..Len(accepted) :
       g[k] = IF accepted[k] \in DOMAIN operations
              THEN Applied(g[k - 1], operations[accepted[k]]) ELSE g[k - 1]
  /\ ApplyAccepted(a, operations, accepted) = g[Len(accepted)]

LEMMA AcceptedRuns ==
  ASSUME NEW ids, NEW operations \in Seq(MemoryOperations(ids)), NEW accepted \in Seq(Nat),
         NEW a \in Seq(MemoryEntries)
  PROVE  \E g : AcceptedStates(g, a, operations, accepted)
<1> PICK S : S = Seq(MemoryEntries)
  OBVIOUS
<1> PICK n : n = Len(accepted)
  OBVIOUS
<1> DEFINE Step(k, e) == IF accepted[k] \in DOMAIN operations
                         THEN Applied(e, operations[accepted[k]]) ELSE e
           Loops(g) == g = [k \in 0..n |-> IF k = 0 THEN a
                                           ELSE IF accepted[k] \in DOMAIN operations
                                           THEN Applied(g[k - 1], operations[accepted[k]])
                                           ELSE g[k - 1]]
<1>1. n \in Nat /\ a \in S
  OBVIOUS
<1>2. ASSUME NEW k \in 1..n, NEW e \in S PROVE Step(k, e) \in S
  <2>1. CASE accepted[k] \in DOMAIN operations
    <3>1. operations[accepted[k]] \in MemoryOperations(ids)
      BY <2>1
    <3>2. Applied(e, operations[accepted[k]]) \in S
      BY <3>1, AppliedType
    <3> QED
      BY <2>1, <3>2
  <2>2. CASE accepted[k] \notin DOMAIN operations
    BY <2>2
  <2> QED
    BY <2>1, <2>2
<1> PICK step : step = [k \in 1..n |-> [e \in S |-> Step(k, e)]]
  OBVIOUS
<1> HIDE DEF Step
<1>3. step \in [1..n -> [S -> S]]
  BY <1>2
<1>4. PICK f \in [0..n -> S] : f[0] = a /\ \A k \in 1..n : f[k] = step[k][f[k - 1]]
  <2>1. n \in Nat
    BY <1>1
  <2>2. a \in S
    BY <1>1
  <2>3. \E f \in [0..n -> S] : LoopsThrough(f, n, a, step)
    BY ONLY <1>3, <2>1, <2>2, LoopStates
  <2> QED
    BY <2>3 DEF LoopsThrough
<1>5. \A k \in 1..n : f[k] = Step(k, f[k - 1])
  <2>1. \A k \in 1..n : k - 1 \in 0..n
    BY <1>1
  <2> QED
    BY <1>4, <2>1
<1>6. Loops(f)
  <2>1. \A k \in 0..n : k = 0 \/ k \in 1..n
    BY <1>1
  <2>2. \A k \in 0..n : f[k] = IF k = 0 THEN a ELSE Step(k, f[k - 1])
    BY <1>1, <1>4, <1>5, <2>1
  <2> QED
    BY <2>2 DEF Step
<1> PICK g : g = CHOOSE h : Loops(h)
  OBVIOUS
<1>7. Loops(g)
  BY <1>6
<1>8. ApplyAccepted(a, operations, accepted) = g[n]
  BY DEF ApplyAccepted
<1>9. g[0] = a
  <2>1. 0 \in 0..n
    BY <1>1
  <2> QED
    BY <1>7, <2>1
<1>10. ASSUME NEW k \in 1..n
       PROVE  g[k] = IF accepted[k] \in DOMAIN operations
                     THEN Applied(g[k - 1], operations[accepted[k]]) ELSE g[k - 1]
  <2>1. k \in 0..n /\ k # 0
    BY <1>1
  <2> QED
    BY <1>7, <2>1
<1> QED
  BY ONLY <1>8, <1>9, <1>10, n = Len(accepted), Zenon DEF AcceptedStates

LEMMA AcceptedType ==
  ASSUME NEW ids, NEW operations \in Seq(MemoryOperations(ids)), NEW accepted \in Seq(Nat),
         NEW a \in Seq(MemoryEntries), NEW g, AcceptedStates(g, a, operations, accepted)
  PROVE  \A k \in 0..Len(accepted) : g[k] \in Seq(MemoryEntries)
<1> PICK n : n = Len(accepted)
  OBVIOUS
<1> PICK good : good = {k \in 0..n : g[k] \in Seq(MemoryEntries)}
  OBVIOUS
<1>1. n \in Nat /\ good \in SUBSET (0..n)
  OBVIOUS
<1>2. 0 \in good
  BY <1>1 DEF AcceptedStates
<1>3. ASSUME NEW k \in 1..n, k - 1 \in good PROVE k \in good
  <2>1. g[k - 1] \in Seq(MemoryEntries) /\ k \in 0..n
    BY <1>3
  <2>2. CASE accepted[k] \in DOMAIN operations
    <3>1. operations[accepted[k]] \in MemoryOperations(ids)
      BY <2>2
    <3>2. g[k] = Applied(g[k - 1], operations[accepted[k]])
      BY <2>2 DEF AcceptedStates
    <3>3. g[k] \in Seq(MemoryEntries)
      BY <2>1, <3>1, <3>2, AppliedType
    <3> QED
      BY <2>1, <3>3
  <2>3. CASE accepted[k] \notin DOMAIN operations
    BY <2>1, <2>3 DEF AcceptedStates
  <2> QED
    BY <2>2, <2>3
<1>4. good = 0..n
  BY ONLY <1>1, <1>2, <1>3, EveryStep
<1> QED
  BY <1>4

\* What is accepted keeps lists alike, and what it does not name.
LEMMA AcceptedAlike ==
  ASSUME MarksTellSections, NEW ids, NEW operations \in Seq(MemoryOperations(ids)),
         NEW accepted \in Seq(Nat),
         NEW a \in Seq(MemoryEntries), NEW b \in Seq(MemoryEntries), Alike(a, b)
  PROVE  /\ ApplyAccepted(a, operations, accepted) \in Seq(MemoryEntries)
         /\ Alike(ApplyAccepted(a, operations, accepted), ApplyAccepted(b, operations, accepted))
<1> PICK n : n = Len(accepted)
  OBVIOUS
<1>1. PICK g : AcceptedStates(g, a, operations, accepted)
  BY AcceptedRuns
<1>2. PICK h : AcceptedStates(h, b, operations, accepted)
  BY AcceptedRuns
<1>3. \A k \in 0..n : g[k] \in Seq(MemoryEntries)
  BY <1>1, AcceptedType
<1>4. \A k \in 0..n : h[k] \in Seq(MemoryEntries)
  BY <1>2, AcceptedType
<1> PICK good : good = {k \in 0..n : Alike(g[k], h[k])}
  OBVIOUS
<1>5. n \in Nat /\ good \in SUBSET (0..n)
  OBVIOUS
<1>6. 0 \in good
  BY <1>1, <1>2, <1>5 DEF AcceptedStates
<1>7. ASSUME NEW k \in 1..n, k - 1 \in good PROVE k \in good
  <2>1. Alike(g[k - 1], h[k - 1]) /\ k \in 0..n /\ k - 1 \in 0..n
    BY <1>7
  <2>2. CASE accepted[k] \in DOMAIN operations
    <3>1. operations[accepted[k]] \in MemoryOperations(ids)
      BY <2>2
    <3>2. /\ g[k] = Applied(g[k - 1], operations[accepted[k]])
          /\ h[k] = Applied(h[k - 1], operations[accepted[k]])
      BY <1>1, <1>2, <2>2 DEF AcceptedStates
    <3>3. g[k - 1] \in Seq(MemoryEntries) /\ h[k - 1] \in Seq(MemoryEntries)
      BY <1>3, <1>4, <2>1
    <3>4. Alike(Applied(g[k - 1], operations[accepted[k]]),
                Applied(h[k - 1], operations[accepted[k]]))
      BY ONLY MarksTellSections, <2>1, <3>1, <3>3, AppliedAlike
    <3> QED
      BY <2>1, <3>2, <3>4
  <2>3. CASE accepted[k] \notin DOMAIN operations
    BY <1>1, <1>2, <2>1, <2>3 DEF AcceptedStates
  <2> QED
    BY <2>2, <2>3
<1>8. good = 0..n
  BY ONLY <1>5, <1>6, <1>7, EveryStep
<1>9. n \in 0..n
  BY <1>5
<1> QED
  BY <1>1, <1>2, <1>3, <1>8, <1>9 DEF AcceptedStates

LEMMA AcceptedKeeps ==
  ASSUME NEW ids, NEW operations \in Seq(MemoryOperations(ids)), NEW accepted \in Seq(Nat),
         NEW a \in Seq(MemoryEntries), NEW id, id \notin ids, NEW section, NEW line,
         Holds(a, id, section, line)
  PROVE  Holds(ApplyAccepted(a, operations, accepted), id, section, line)
<1> PICK n : n = Len(accepted)
  OBVIOUS
<1>1. PICK g : AcceptedStates(g, a, operations, accepted)
  BY AcceptedRuns
<1>2. \A k \in 0..n : g[k] \in Seq(MemoryEntries)
  BY <1>1, AcceptedType
<1> PICK good : good = {k \in 0..n : Holds(g[k], id, section, line)}
  OBVIOUS
<1>3. n \in Nat /\ good \in SUBSET (0..n)
  OBVIOUS
<1>4. 0 \in good
  BY <1>1, <1>3 DEF AcceptedStates
<1>5. ASSUME NEW k \in 1..n, k - 1 \in good PROVE k \in good
  <2>1. Holds(g[k - 1], id, section, line) /\ k \in 0..n /\ k - 1 \in 0..n
    BY <1>5
  <2>2. CASE accepted[k] \in DOMAIN operations
    <3>1. operations[accepted[k]] \in MemoryOperations(ids)
      BY <2>2
    <3>2. g[k] = Applied(g[k - 1], operations[accepted[k]])
      BY <1>1, <2>2 DEF AcceptedStates
    <3>3. g[k - 1] \in Seq(MemoryEntries)
      BY <1>2, <2>1
    <3>4. Holds(Applied(g[k - 1], operations[accepted[k]]), id, section, line)
      BY ONLY <2>1, <3>1, <3>3, id \notin ids, AppliedKeeps
    <3> QED
      BY <2>1, <3>2, <3>4
  <2>3. CASE accepted[k] \notin DOMAIN operations
    BY <1>1, <2>1, <2>3 DEF AcceptedStates
  <2> QED
    BY <2>2, <2>3
<1>6. good = 0..n
  BY ONLY <1>3, <1>4, <1>5, EveryStep
<1>7. n \in 0..n
  BY <1>3
<1> QED
  BY <1>1, <1>6, <1>7 DEF AcceptedStates

-----------------------------------------------------------------------------
(* Memory: what is selected. *)

LEMMA TokensGrow ==
  ASSUME NEW s \in Seq(MemoryEntries), NEW e \in MemoryEntries
  PROVE  /\ TokensOf(s) \in Nat /\ EntrySize(e) \in Nat
         /\ TokensOf(Append(s, e)) = TokensOf(s) + EntrySize(e)
<1> PICK n : n = Len(s)
  OBVIOUS
<1> PICK t : t = Append(s, e)
  OBVIOUS
<1> PICK I : I = {i \in DOMAIN s : s[i].more}
  OBVIOUS
<1> PICK J : J = {i \in DOMAIN t : t[i].more}
  OBVIOUS
<1>1. n \in Nat /\ DOMAIN s = 1..n /\ DOMAIN t = 1..(n + 1) /\ Len(t) = n + 1
  OBVIOUS
<1>2. t[n + 1] = e /\ \A i \in 1..n : t[i] = s[i]
  OBVIOUS
<1>3. I \in SUBSET DOMAIN s
  OBVIOUS
<1>4. IsFiniteSet(I) /\ Cardinality(I) \in Nat
  BY ONLY <1>3, s \in Seq(MemoryEntries), PlacesOf
<1>5. n + 1 \notin I /\ n + 1 \in 1..(n + 1)
  BY <1>1
<1>6. \A i \in 1..(n + 1) : i = n + 1 \/ i \in 1..n
  BY <1>1
<1>7. \A i \in 1..n : i \in 1..(n + 1)
  BY <1>1
<1>8. TokensOf(s) = n + Cardinality(I) /\ TokensOf(t) = n + 1 + Cardinality(J)
  BY <1>1 DEF TokensOf
<1>9. CASE e.more
  <2>1. J = I \cup {n + 1}
    BY <1>1, <1>2, <1>5, <1>6, <1>7, <1>9
  <2>2. Cardinality(J) = Cardinality(I) + 1
    BY <1>4, <1>5, <2>1, FS_AddElement
  <2>3. EntrySize(e) = 2
    BY <1>9 DEF EntrySize
  <2> QED
    BY ONLY <1>1, <1>4, <1>8, <2>2, <2>3, t = Append(s, e)
<1>10. CASE ~e.more
  <2>1. J = I
    BY <1>1, <1>2, <1>5, <1>6, <1>7, <1>10
  <2>2. EntrySize(e) = 1
    BY <1>10 DEF EntrySize
  <2> QED
    BY ONLY <1>1, <1>4, <1>8, <2>1, <2>2, t = Append(s, e)
<1> QED
  BY <1>9, <1>10

\* The lists while entries are selected.
SelectedStates(g, a) ==
  /\ g[0] = Pinned(a)
  /\ \A k \in 1..Len(Unpinned(a)) :
       g[k] = IF TokensOf(g[k - 1]) + EntrySize(Unpinned(a)[k]) <= MemoryTokens
              THEN Append(g[k - 1], Unpinned(a)[k]) ELSE g[k - 1]
  /\ MemoryStrategy # "Full" => SelectEntries(a) = g[Len(Unpinned(a))]

LEMMA PinnedFacts ==
  ASSUME NEW a \in Seq(MemoryEntries)
  PROVE  /\ Pinned(a) \in Seq(MemoryEntries) /\ Unpinned(a) \in Seq(MemoryEntries)
         /\ \A i \in DOMAIN Pinned(a) : Pinned(a)[i].section = "Facts"
         /\ \A e \in ToSet(a) : IF e.section = "Facts" THEN e \in ToSet(Pinned(a))
                                ELSE e \in ToSet(Unpinned(a))
         /\ ToSet(Pinned(a)) \subseteq ToSet(a) /\ ToSet(Unpinned(a)) \subseteq ToSet(a)
         /\ (\A i \in DOMAIN a : a[i].section = "Facts") => Unpinned(a) = <<>>
<1> PICK I : I = {i \in DOMAIN a : a[i].section = "Facts"}
  OBVIOUS
<1> PICK J : J = {i \in DOMAIN a : a[i].section # "Facts"}
  OBVIOUS
<1> PICK x : x = Pinned(a)
  OBVIOUS
<1> PICK y : y = Unpinned(a)
  OBVIOUS
<1>1. x = Subsequence(a, I) /\ y = Subsequence(a, J)
  BY DEF Pinned, Unpinned, InSection
<1>2. I \in SUBSET DOMAIN a /\ J \in SUBSET DOMAIN a
  OBVIOUS
<1>3. /\ I \in SUBSET Nat /\ IsFiniteSet(I)
      /\ x \in Seq(MemoryEntries) /\ Len(x) = Cardinality(I)
      /\ \A k \in 1..Cardinality(I) : x[k] = a[NthOf(I, k)]
      /\ \A i \in I : RankIn(I, i) \in 1..Cardinality(I) /\ x[RankIn(I, i)] = a[i]
  BY ONLY <1>1, <1>2, a \in Seq(MemoryEntries), PlacesOf
<1>4. /\ J \in SUBSET Nat /\ IsFiniteSet(J)
      /\ y \in Seq(MemoryEntries) /\ Len(y) = Cardinality(J)
      /\ \A k \in 1..Cardinality(J) : y[k] = a[NthOf(J, k)]
      /\ \A i \in J : RankIn(J, i) \in 1..Cardinality(J) /\ y[RankIn(J, i)] = a[i]
  BY ONLY <1>1, <1>2, a \in Seq(MemoryEntries), PlacesOf
<1>5. DOMAIN x = 1..Cardinality(I) /\ DOMAIN y = 1..Cardinality(J)
  BY <1>3, <1>4
<1>6. \A k \in 1..Cardinality(I) : NthOf(I, k) \in I
  BY ONLY <1>3, PlacesAreRanked
<1>7. \A k \in 1..Cardinality(J) : NthOf(J, k) \in J
  BY ONLY <1>4, PlacesAreRanked
<1>8. \A i \in DOMAIN x : x[i] \in ToSet(a) /\ x[i].section = "Facts"
  BY <1>3, <1>5, <1>6 DEF ToSet
<1>9. \A i \in DOMAIN y : y[i] \in ToSet(a)
  BY <1>4, <1>5, <1>7 DEF ToSet
<1>10. ToSet(x) \subseteq ToSet(a) /\ ToSet(y) \subseteq ToSet(a)
  BY <1>8, <1>9 DEF ToSet
<1>11. ASSUME NEW e \in ToSet(a)
       PROVE  IF e.section = "Facts" THEN e \in ToSet(x) ELSE e \in ToSet(y)
  <2>1. PICK i \in DOMAIN a : a[i] = e
    BY DEF ToSet
  <2>2. CASE e.section = "Facts"
    <3>1. i \in I
      BY <2>1, <2>2
    <3>2. RankIn(I, i) \in DOMAIN x /\ x[RankIn(I, i)] = e
      BY <1>3, <1>5, <2>1, <3>1
    <3> QED
      BY <2>2, <3>2 DEF ToSet
  <2>3. CASE e.section # "Facts"
    <3>1. i \in J
      BY <2>1, <2>3
    <3>2. RankIn(J, i) \in DOMAIN y /\ y[RankIn(J, i)] = e
      BY <1>4, <1>5, <2>1, <3>1
    <3> QED
      BY <2>3, <3>2 DEF ToSet
  <2> QED
    BY <2>2, <2>3
<1>12. ASSUME \A i \in DOMAIN a : a[i].section = "Facts" PROVE y = <<>>
  <2>1. J = {}
    BY <1>12
  <2>2. Len(y) = 0
    BY <1>4, <2>1, FS_EmptySet
  <2> QED
    BY <1>4, <2>2
<1> QED
  BY <1>3, <1>4, <1>8, <1>10, <1>11, <1>12

LEMMA SelectedRuns ==
  ASSUME NEW a \in Seq(MemoryEntries)
  PROVE  \E g : SelectedStates(g, a)
<1> PICK S : S = Seq(MemoryEntries)
  OBVIOUS
<1> PICK rest : rest = Unpinned(a)
  OBVIOUS
<1> PICK n : n = Len(rest)
  OBVIOUS
<1> DEFINE Step(k, e) == IF TokensOf(e) + EntrySize(rest[k]) <= MemoryTokens
                         THEN Append(e, rest[k]) ELSE e
           Loops(g) == g = [k \in 0..n |->
                              IF k = 0 THEN Pinned(a)
                              ELSE LET before == g[k - 1]
                                   IN IF TokensOf(before) + EntrySize(rest[k]) <= MemoryTokens
                                      THEN Append(before, rest[k]) ELSE before]
<1>1. n \in Nat /\ Pinned(a) \in S /\ rest \in S
  BY PinnedFacts
<1>2. ASSUME NEW k \in 1..n, NEW e \in S PROVE Step(k, e) \in S
  <2>1. rest[k] \in MemoryEntries
    BY <1>1
  <2>2. Append(e, rest[k]) \in S
    BY <2>1
  <2> QED
    BY <2>2
<1> PICK step : step = [k \in 1..n |-> [e \in S |-> Step(k, e)]]
  OBVIOUS
<1> HIDE DEF Step
<1>3. step \in [1..n -> [S -> S]]
  BY <1>2
<1>4. PICK f \in [0..n -> S] :
        f[0] = Pinned(a) /\ \A k \in 1..n : f[k] = step[k][f[k - 1]]
  <2>1. n \in Nat
    BY <1>1
  <2>2. Pinned(a) \in S
    BY <1>1
  <2>3. \E f \in [0..n -> S] : LoopsThrough(f, n, Pinned(a), step)
    BY ONLY <1>3, <2>1, <2>2, LoopStates
  <2> QED
    BY <2>3 DEF LoopsThrough
<1>5. \A k \in 1..n : f[k] = Step(k, f[k - 1])
  <2>1. \A k \in 1..n : k - 1 \in 0..n
    BY <1>1
  <2> QED
    BY <1>4, <2>1
<1>6. Loops(f)
  <2>1. \A k \in 0..n : k = 0 \/ k \in 1..n
    BY <1>1
  <2>2. \A k \in 0..n : f[k] = IF k = 0 THEN Pinned(a) ELSE Step(k, f[k - 1])
    BY <1>1, <1>4, <1>5, <2>1
  <2> QED
    BY <2>2 DEF Step
<1> PICK g : g = CHOOSE h : Loops(h)
  OBVIOUS
<1>7. Loops(g)
  BY <1>6
<1>8. MemoryStrategy # "Full" => SelectEntries(a) = g[n]
  BY DEF SelectEntries
<1>9. g[0] = Pinned(a)
  <2>1. 0 \in 0..n
    BY <1>1
  <2> QED
    BY <1>7, <2>1
<1>10. ASSUME NEW k \in 1..n
       PROVE  g[k] = IF TokensOf(g[k - 1]) + EntrySize(rest[k]) <= MemoryTokens
                     THEN Append(g[k - 1], rest[k]) ELSE g[k - 1]
  <2>1. k \in 0..n /\ k # 0
    BY <1>1
  <2> QED
    BY <1>7, <2>1
<1> QED
  BY ONLY <1>8, <1>9, <1>10, n = Len(rest), rest = Unpinned(a), Zenon DEF SelectedStates

\* What a list has when k of the entries that are not pinned have been looked at.
SelectedSoFar(s, a, k) ==
  /\ s \in Seq(MemoryEntries)
  /\ ToSet(Pinned(a)) \subseteq ToSet(s) /\ ToSet(s) \subseteq ToSet(a)
  /\ (\E i \in DOMAIN s : s[i].section # "Facts") => TokensOf(s) <= MemoryTokens
  /\ \A j \in 1..k : \/ Unpinned(a)[j] \in ToSet(s)
                     \/ TokensOf(s) + EntrySize(Unpinned(a)[j]) > MemoryTokens

LEMMA SelectsOneMore ==
  ASSUME NEW a \in Seq(MemoryEntries), NEW k \in 1..Len(Unpinned(a)), NEW s,
         SelectedSoFar(s, a, k - 1)
  PROVE  SelectedSoFar(IF TokensOf(s) + EntrySize(Unpinned(a)[k]) <= MemoryTokens
                       THEN Append(s, Unpinned(a)[k]) ELSE s, a, k)
<1> PICK rest : rest = Unpinned(a)
  OBVIOUS
<1> PICK e : e = rest[k]
  OBVIOUS
<1> PICK t : t = Append(s, e)
  OBVIOUS
<1>1. /\ rest \in Seq(MemoryEntries) /\ ToSet(rest) \subseteq ToSet(a)
      /\ k \in 1..Len(rest) /\ Len(rest) \in Nat
  BY PinnedFacts
<1>2. e \in MemoryEntries /\ e \in ToSet(a)
  <2>1. k \in DOMAIN rest
    BY <1>1
  <2>2. e \in ToSet(rest)
    BY <2>1 DEF ToSet
  <2> QED
    BY <1>1, <2>1, <2>2
<1>3. s \in Seq(MemoryEntries)
  BY DEF SelectedSoFar
<1>4. /\ TokensOf(s) \in Nat /\ EntrySize(e) \in Nat
      /\ TokensOf(t) = TokensOf(s) + EntrySize(e)
  BY <1>2, <1>3, TokensGrow
<1>5. \A j \in 1..k : j = k \/ j \in 1..(k - 1)
  BY <1>1
<1>6. \A j \in 1..k : rest[j] \in MemoryEntries
  BY <1>1
<1>7. \A j \in 1..k : EntrySize(rest[j]) \in Nat
  BY <1>3, <1>6, TokensGrow
<1>8. MemoryTokens \in Nat
  BY MemoryAssumption
<1>9. CASE TokensOf(s) + EntrySize(e) <= MemoryTokens
  <2>1. t \in Seq(MemoryEntries) /\ ToSet(t) = ToSet(s) \cup {e}
    <3>1. Len(s) \in Nat /\ DOMAIN s = 1..Len(s) /\ DOMAIN t = 1..(Len(s) + 1)
      BY <1>2, <1>3
    <3>2. t[Len(s) + 1] = e /\ \A i \in 1..Len(s) : t[i] = s[i]
      BY <1>2, <1>3
    <3>3. \A i \in 1..(Len(s) + 1) : i = Len(s) + 1 \/ i \in 1..Len(s)
      BY <3>1
    <3>4. Len(s) + 1 \in 1..(Len(s) + 1) /\ \A i \in 1..Len(s) : i \in 1..(Len(s) + 1)
      BY <3>1
    <3>5. ToSet(t) \subseteq ToSet(s) \cup {e}
      BY <3>1, <3>2, <3>3 DEF ToSet
    <3>6. ToSet(s) \cup {e} \subseteq ToSet(t)
      <4>1. e \in ToSet(t)
        BY <3>1, <3>2, <3>4 DEF ToSet
      <4>2. \A i \in DOMAIN s : s[i] \in ToSet(t)
        BY <3>1, <3>2, <3>4 DEF ToSet
      <4> QED
        BY <4>1, <4>2 DEF ToSet
    <3> QED
      BY <1>2, <1>3, <3>5, <3>6
  <2>2. TokensOf(t) <= MemoryTokens
    BY <1>4, <1>9
  <2>3. ASSUME NEW j \in 1..k
        PROVE  rest[j] \in ToSet(t) \/ TokensOf(t) + EntrySize(rest[j]) > MemoryTokens
    <3>1. CASE j = k
      BY <2>1, <3>1
    <3>2. CASE j \in 1..(k - 1)
      <4>1. rest[j] \in ToSet(s) \/ TokensOf(s) + EntrySize(rest[j]) > MemoryTokens
        BY <3>2 DEF SelectedSoFar
      <4>2. EntrySize(rest[j]) \in Nat
        BY <1>7
      <4>3. ASSUME TokensOf(s) + EntrySize(rest[j]) > MemoryTokens
            PROVE  TokensOf(t) + EntrySize(rest[j]) > MemoryTokens
        BY ONLY <1>4, <1>8, <4>2, <4>3
      <4> QED
        BY <2>1, <4>1, <4>3
    <3> QED
      BY <1>5, <3>1, <3>2
  <2>4. SelectedSoFar(t, a, k)
    BY <1>2, <2>1, <2>2, <2>3 DEF SelectedSoFar
  <2> QED
    BY <1>9, <2>4
<1>10. CASE ~(TokensOf(s) + EntrySize(e) <= MemoryTokens)
  <2>1. TokensOf(s) + EntrySize(e) > MemoryTokens
    BY <1>4, <1>8, <1>10
  <2>2. SelectedSoFar(s, a, k)
    BY <1>5, <2>1 DEF SelectedSoFar
  <2> QED
    BY <1>10, <2>2
<1> QED
  BY <1>9, <1>10

\* What is selected is of the list, with all that is pinned; what else is selected fits, and
\* what is not selected does not.
SoundSelection(all, selected) ==
  /\ ToSet(selected) \subseteq ToSet(all) /\ ToSet(Pinned(all)) \subseteq ToSet(selected)
  /\ MemoryStrategy = "Budgeted" /\ Unpinned(selected) # <<>> =>
       TokensOf(selected) <= MemoryTokens
  /\ \A e \in ToSet(all) \ ToSet(selected) : TokensOf(selected) + EntrySize(e) > MemoryTokens

LEMMA SelectsSoundly ==
  ASSUME NEW a \in Seq(MemoryEntries)
  PROVE  SoundSelection(a, SelectEntries(a))
<1>1. CASE MemoryStrategy = "Full"
  <2>1. SelectEntries(a) = a
    BY <1>1 DEF SelectEntries
  <2> QED
    BY <1>1, <2>1, PinnedFacts DEF SoundSelection
<1>2. CASE MemoryStrategy # "Full"
  <2>1. PICK g : SelectedStates(g, a)
    BY SelectedRuns
  <2> PICK n : n = Len(Unpinned(a))
    OBVIOUS
  <2> PICK good : good = {k \in 0..n : SelectedSoFar(g[k], a, k)}
    OBVIOUS
  <2>2. n \in Nat /\ good \in SUBSET (0..n)
    BY PinnedFacts
  <2>3. 0 \in good
    <3>1. g[0] = Pinned(a)
      BY <2>1 DEF SelectedStates
    <3>2. \A j \in 1..0 : FALSE
      OBVIOUS
    <3>3. SelectedSoFar(Pinned(a), a, 0)
      BY <3>2, PinnedFacts DEF SelectedSoFar
    <3> QED
      BY <2>2, <3>1, <3>3
  <2>4. ASSUME NEW k \in 1..n, k - 1 \in good PROVE k \in good
    <3>1. SelectedSoFar(g[k - 1], a, k - 1) /\ k \in 0..n
      BY <2>4
    <3>2. g[k] = IF TokensOf(g[k - 1]) + EntrySize(Unpinned(a)[k]) <= MemoryTokens
                 THEN Append(g[k - 1], Unpinned(a)[k]) ELSE g[k - 1]
      BY <2>1 DEF SelectedStates
    <3>3. SelectedSoFar(g[k], a, k)
      BY <3>1, <3>2, SelectsOneMore
    <3> QED
      BY <3>1, <3>3
  <2>5. good = 0..n
    BY ONLY <2>2, <2>3, <2>4, EveryStep
  <2> PICK s : s = g[n]
    OBVIOUS
  <2>6. SelectedSoFar(s, a, n)
    <3>1. n \in 0..n
      BY <2>2
    <3> QED
      BY <2>5, <3>1
  <2>7. SelectEntries(a) = s
    BY <1>2, <2>1 DEF SelectedStates
  <2>8. ASSUME Unpinned(s) # <<>> PROVE TokensOf(s) <= MemoryTokens
    <3>1. s \in Seq(MemoryEntries)
      BY <2>6 DEF SelectedSoFar
    <3>2. \E i \in DOMAIN s : s[i].section # "Facts"
      BY <2>8, <3>1, PinnedFacts
    <3> QED
      BY <2>6, <3>2 DEF SelectedSoFar
  <2>9. ASSUME NEW e \in ToSet(a) \ ToSet(s) PROVE TokensOf(s) + EntrySize(e) > MemoryTokens
    <3>1. e \notin ToSet(Pinned(a))
      BY <2>6 DEF SelectedSoFar
    <3>2. e \in ToSet(Unpinned(a))
      BY <3>1, PinnedFacts
    <3>3. PICK j \in DOMAIN Unpinned(a) : Unpinned(a)[j] = e
      BY <3>2 DEF ToSet
    <3>4. j \in 1..n
      BY <3>3, PinnedFacts
    <3> QED
      BY <2>6, <3>3, <3>4 DEF SelectedSoFar
  <2> QED
    BY <2>6, <2>7, <2>8, <2>9 DEF SelectedSoFar, SoundSelection
<1> QED
  BY <1>1, <1>2

-----------------------------------------------------------------------------
(* Memory: the inductive invariant. *)

FilesRead == {NoMemory} \cup MemoryFiles

IdsOf(entries) == {e.id : e \in ToSet(entries)}

LoadedInv(l) ==
  l.at = "loaded" => l.file \in FilesRead /\ l.selected = SelectEntries(Parse(l.file))

\* The content that is planned has all that the session left out of its context.
KeepsUnseen(l, content) ==
  \A id, section, line : id \notin IdsOf(l.selected) /\ Holds(Parse(l.file), id, section, line) =>
                           Holds(Parse(content), id, section, line)

ProposalInv(p, l) ==
  /\ p.at # "none" => l.at = "loaded"
  /\ p.at = "decided" => /\ p.operations \in Seq(MemoryOperations(IdsOf(l.selected)))
                         /\ p.accepted \in Seq(Nat)
  /\ p.at = "planned" => /\ p.content \in MemoryFiles /\ p.meant \in Seq(MemoryEntries)
                         /\ Alike(Parse(p.content), p.meant)
                         /\ KeepsUnseen(l, p.content)

MemoryInv ==
  /\ memory \in FilesRead
  /\ meant \in Seq(MemoryEntries) /\ Alike(Parse(memory), meant)
  /\ DOMAIN loaded = Readers /\ DOMAIN proposal = Readers
  /\ \A s \in Readers : LoadedInv(loaded[s]) /\ ProposalInv(proposal[s], loaded[s])

LEMMA AlikeKeeps ==
  ASSUME NEW a, NEW b, Alike(a, b), NEW id, NEW section, NEW line, Holds(a, id, section, line)
  PROVE  Holds(b, id, section, line)
BY DEF Alike, AlikeBy, SameEntry, Holds

\* A proposal that is written does to the file what it does to what is meant.
LEMMA WrittenAlike ==
  ASSUME MarksTellSections, NEW ids, NEW operations \in Seq(MemoryOperations(ids)),
         NEW accepted \in Seq(Nat),
         NEW a \in Seq(MemoryEntries), NEW b \in Seq(MemoryEntries), Alike(a, b)
  PROVE  /\ FormatMemory(ApplyAccepted(a, operations, accepted)) \in MemoryFiles
         /\ ApplyAccepted(b, operations, accepted) \in Seq(MemoryEntries)
         /\ Alike(Parse(FormatMemory(ApplyAccepted(a, operations, accepted))),
                  ApplyAccepted(b, operations, accepted))
         /\ \A id, section, line :
              id \notin ids /\ Holds(a, id, section, line) =>
                Holds(Parse(FormatMemory(ApplyAccepted(a, operations, accepted))),
                      id, section, line)
<1> PICK x : x = ApplyAccepted(a, operations, accepted)
  OBVIOUS
<1> PICK y : y = ApplyAccepted(b, operations, accepted)
  OBVIOUS
<1> PICK z : z = Parse(FormatMemory(x))
  OBVIOUS
<1>1. x \in Seq(MemoryEntries) /\ Alike(x, y)
  BY AcceptedAlike
<1>2. Alike(b, b)
  BY AlikeItself
<1>3. y \in Seq(MemoryEntries)
  BY <1>2, AcceptedAlike
<1>4. FormatMemory(x) \in MemoryFiles /\ z \in Seq(MemoryEntries) /\ Alike(x, z)
  BY <1>1, Rewritten
<1>5. Alike(z, x)
  BY ONLY <1>1, <1>4, AlikeBack
<1>6. Alike(z, y)
  BY ONLY <1>1, <1>5, AlikeTwice
<1>7. ASSUME NEW id, NEW section, NEW line, id \notin ids, Holds(a, id, section, line)
      PROVE  Holds(z, id, section, line)
  <2>1. Holds(x, id, section, line)
    BY <1>7, AcceptedKeeps
  <2> QED
    BY ONLY <1>4, <2>1, AlikeKeeps
<1> QED
  BY <1>3, <1>4, <1>6, <1>7

-----------------------------------------------------------------------------
(* Memory: its steps. *)

\* People leave a file of entries.
LEMMA EditsAreFiles ==
  ASSUME MemoryInv, EditMemory
  PROVE  memory' \in MemoryFiles /\ meant' = Parse(memory') /\ UNCHANGED <<loaded, proposal>>
<1> PICK old : old = IF memory = NoMemory THEN [entries |-> <<>>, notes |-> FALSE] ELSE memory
  OBVIOUS
<1>1. old \in MemoryFiles
  BY DEF MemoryInv, FilesRead, MemoryFiles
<1>2. old.entries \in Seq(FileEntries) /\ old.notes \in BOOLEAN
  BY <1>1 DEF MemoryFiles
<1>3. ASSUME NEW file, file \in MemoryFiles, Edited(file)
      PROVE  memory' \in MemoryFiles /\ meant' = Parse(memory') /\ UNCHANGED <<loaded, proposal>>
  BY <1>3 DEF Edited
<1>4. ASSUME NEW es \in Seq(FileEntries) PROVE [old EXCEPT !.entries = es] \in MemoryFiles
  BY <1>1 DEF MemoryFiles
<1>5. ASSUME NEW section \in MemorySections, NEW line \in Lines, NEW tail \in {"none", "indented"}
      PROVE  [old EXCEPT !.entries = Append(@,
                [mark |-> NoMark, section |-> section, line |-> line, tail |-> tail])]
               \in MemoryFiles
  <2>1. [mark |-> NoMark, section |-> section, line |-> line, tail |-> tail] \in FileEntries
    BY DEF FileEntries, Tails
  <2> PICK e : e = [mark |-> NoMark, section |-> section, line |-> line, tail |-> tail]
    OBVIOUS
  <2>2. Append(old.entries, e) \in Seq(FileEntries)
    BY <1>2, <2>1
  <2> QED
    BY <1>4, <2>2
<1>6. ASSUME NEW i \in DOMAIN old.entries, NEW line \in Lines
      PROVE  [old EXCEPT !.entries[i].line = line] \in MemoryFiles
  <2>1. old.entries[i] \in FileEntries
    BY <1>2
  <2>2. [old.entries[i] EXCEPT !.line = line] \in FileEntries
    BY <2>1 DEF FileEntries
  <2> PICK e : e = [old.entries[i] EXCEPT !.line = line]
    OBVIOUS
  <2>3. [old.entries EXCEPT ![i] = e] \in Seq(FileEntries)
    BY <1>2, <2>2
  <2>4. [old EXCEPT !.entries[i].line = line]
          = [old EXCEPT !.entries = [old.entries EXCEPT ![i] = e]]
    OBVIOUS
  <2> QED
    BY <1>4, <2>3, <2>4
<1>7. ASSUME NEW i \in DOMAIN old.entries
      PROVE  [old EXCEPT !.entries = RemoveAt(@, i)] \in MemoryFiles
  <2>1. RemoveAt(old.entries, i) \in Seq(FileEntries)
    <3>1. i \in 1..Len(old.entries) /\ Len(old.entries) \in Nat
      BY <1>2
    <3>2. SubSeq(old.entries, 1, i - 1) \in Seq(FileEntries)
      BY <1>2, <3>1
    <3>3. SubSeq(old.entries, i + 1, Len(old.entries)) \in Seq(FileEntries)
      BY <1>2, <3>1
    <3> QED
      BY <3>2, <3>3 DEF RemoveAt
  <2> QED
    BY <1>4, <2>1
<1>8. ASSUME memory # NoMemory PROVE [memory EXCEPT !.notes = TRUE] \in MemoryFiles
  BY <1>1, <1>8 DEF MemoryFiles
<1>9. \/ \E section \in MemorySections, line \in Lines, tail \in {"none", "indented"} :
           Edited([old EXCEPT !.entries = Append(@,
                     [mark |-> NoMark, section |-> section, line |-> line, tail |-> tail])])
      \/ \E i \in DOMAIN old.entries : \E line \in Lines : Edited([old EXCEPT !.entries[i].line = line])
      \/ \E i \in DOMAIN old.entries : Edited([old EXCEPT !.entries = RemoveAt(@, i)])
      \/ memory # NoMemory /\ Edited([memory EXCEPT !.notes = TRUE])
  BY DEF EditMemory
<1> HIDE DEF Edited
<1>10. CASE \E section \in MemorySections, line \in Lines, tail \in {"none", "indented"} :
              Edited([old EXCEPT !.entries = Append(@,
                        [mark |-> NoMark, section |-> section, line |-> line, tail |-> tail])])
  BY <1>3, <1>5, <1>10
<1>11. CASE \E i \in DOMAIN old.entries : \E line \in Lines :
              Edited([old EXCEPT !.entries[i].line = line])
  BY <1>3, <1>6, <1>11
<1>12. CASE \E i \in DOMAIN old.entries : Edited([old EXCEPT !.entries = RemoveAt(@, i)])
  BY <1>3, <1>7, <1>12
<1>13. CASE memory # NoMemory /\ Edited([memory EXCEPT !.notes = TRUE])
  BY <1>3, <1>8, <1>13
<1> QED
  BY <1>9, <1>10, <1>11, <1>12, <1>13

LEMMA MemoryInvHolds == MemorySpec /\ MarksTellSections => []MemoryInv
<1> SUFFICES ASSUME MarksTellSections PROVE MemorySpec => []MemoryInv
  OBVIOUS
<1>1. ASSUME MemoryInit PROVE MemoryInv
  <2>1. memory \in FilesRead
    <3>1. ASSUME NEW es \in FirstEntries PROVE [entries |-> es, notes |-> FALSE] \in MemoryFiles
      <4>1. es \in Seq(FileEntries)
        BY MemoryAssumption
      <4> QED
        BY <4>1 DEF MemoryFiles
    <3>2. \/ memory = NoMemory
          \/ \E es \in FirstEntries : memory = [entries |-> es, notes |-> FALSE]
      BY <1>1 DEF MemoryInit
    <3> QED
      BY <3>1, <3>2 DEF FilesRead
  <2>2. meant \in Seq(MemoryEntries) /\ Alike(Parse(memory), meant)
    <3>1. Parse(memory) \in Seq(MemoryEntries)
      BY <2>1, ParseType DEF FilesRead
    <3> QED
      BY <1>1, <3>1, AlikeItself DEF MemoryInit
  <2>3. /\ DOMAIN loaded = Readers /\ DOMAIN proposal = Readers
        /\ \A s \in Readers : loaded[s].at = "new" /\ proposal[s].at = "none"
    BY <1>1 DEF MemoryInit, NotLoaded, NoProposal
  <2> QED
    BY <2>1, <2>2, <2>3 DEF MemoryInv, LoadedInv, ProposalInv
<1>2. ASSUME MemoryInv, [MemoryNext]_memoryVars PROVE MemoryInv'
  <2>1. ASSUME EditMemory PROVE MemoryInv'
    <3>1. memory' \in MemoryFiles /\ meant' = Parse(memory') /\ UNCHANGED <<loaded, proposal>>
      BY <1>2, <2>1, EditsAreFiles
    <3>2. memory' \in FilesRead
      BY <3>1 DEF FilesRead
    <3>3. meant' \in Seq(MemoryEntries) /\ Alike(Parse(memory'), meant')
      BY <3>1, ParseType, AlikeItself
    <3> QED
      BY <1>2, <3>1, <3>2, <3>3 DEF MemoryInv
  <2>2. ASSUME NEW s \in Readers, LoadMemory(s) PROVE MemoryInv'
    <3> PICK l : l = IF Loadable
                     THEN [at |-> "loaded", file |-> memory,
                           selected |-> SelectEntries(Parse(memory))]
                     ELSE [at |-> "failed"]
      OBVIOUS
    <3>1. /\ loaded[s].at = "new" /\ loaded' = [loaded EXCEPT ![s] = l]
          /\ memory' = memory /\ proposal' = proposal /\ meant' = meant
      BY <2>2 DEF LoadMemory
    <3>2. LoadedInv(l)
      BY <1>2 DEF LoadedInv, MemoryInv
    <3>3. proposal[s].at = "none"
      BY <1>2, <3>1 DEF MemoryInv, ProposalInv
    <3>4. ProposalInv(proposal[s], l)
      BY <3>3 DEF ProposalInv
    <3>5. /\ DOMAIN loaded' = Readers
          /\ \A t \in Readers : loaded'[t] = IF t = s THEN l ELSE loaded[t]
      BY <1>2, <3>1 DEF MemoryInv
    <3>6. \A t \in Readers : LoadedInv(loaded'[t]) /\ ProposalInv(proposal'[t], loaded'[t])
      BY <1>2, <3>1, <3>2, <3>4, <3>5 DEF MemoryInv
    <3> QED
      BY <1>2, <3>1, <3>5, <3>6 DEF MemoryInv
  <2>3. ASSUME NEW s \in Readers, NEW p, ProposalInv(p, loaded[s]),
               proposal' = [proposal EXCEPT ![s] = p], loaded' = loaded
        PROVE  /\ DOMAIN loaded' = Readers /\ DOMAIN proposal' = Readers
               /\ \A t \in Readers : LoadedInv(loaded'[t]) /\ ProposalInv(proposal'[t], loaded'[t])
    <3>1. \A t \in Readers : proposal'[t] = IF t = s THEN p ELSE proposal[t]
      BY <1>2, <2>3 DEF MemoryInv
    <3> QED
      BY <1>2, <2>3, <3>1 DEF MemoryInv
  <2>4. ASSUME NEW s \in Readers, Propose(s) PROVE MemoryInv'
    <3> PICK ids : ids = IdsOf(loaded[s].selected)
      OBVIOUS
    <3>1. PICK operations \in SeqOf(MemoryOperations(ids), MaxMemoryOps) :
            \E accepted \in {[i \in DOMAIN operations |-> i], <<Len(operations)>>, <<>>} :
              proposal' = [proposal EXCEPT ![s] =
                [at |-> IF accepted = <<>> THEN "rejected" ELSE "decided",
                 operations |-> operations, accepted |-> accepted]]
      BY <2>4 DEF Propose, IdsOf
    <3>2. PICK accepted \in {[i \in DOMAIN operations |-> i], <<Len(operations)>>, <<>>} :
            proposal' = [proposal EXCEPT ![s] =
                [at |-> IF accepted = <<>> THEN "rejected" ELSE "decided",
                 operations |-> operations, accepted |-> accepted]]
      BY <3>1
    <3>3. /\ loaded[s].at = "loaded" /\ memory' = memory /\ loaded' = loaded
          /\ meant' = meant
      BY <2>4 DEF Propose
    <3>4. operations \in Seq(MemoryOperations(ids))
      BY <3>1 DEF SeqOf
    <3>5. accepted \in Seq(Nat)
      <4>1. DOMAIN operations = 1..Len(operations) /\ Len(operations) \in Nat
        BY <3>4
      <4> PICK all : all = [i \in DOMAIN operations |-> i]
        OBVIOUS
      <4> PICK last : last = Len(operations)
        OBVIOUS
      <4>2. all \in Seq(Nat)
        BY <4>1
      <4>3. accepted = all \/ accepted = <<last>> \/ accepted = <<>>
        OBVIOUS
      <4>4. <<last>> \in Seq(Nat)
        BY ONLY <4>1, last = Len(operations)
      <4>5. <<>> \in Seq(Nat)
        OBVIOUS
      <4> QED
        BY <4>2, <4>3, <4>4, <4>5, Zenon
    <3> PICK p : p = [at |-> IF accepted = <<>> THEN "rejected" ELSE "decided",
                      operations |-> operations, accepted |-> accepted]
      OBVIOUS
    <3>6. /\ p.at \in {"rejected", "decided"}
          /\ p.operations = operations /\ p.accepted = accepted
      OBVIOUS
    <3>7. ProposalInv(p, loaded[s])
      BY <3>3, <3>4, <3>5, <3>6 DEF ProposalInv
    <3> QED
      BY <1>2, <2>3, <3>2, <3>3, <3>7 DEF MemoryInv
  <2>5. ASSUME NEW s \in Readers, PlanWrite(s) PROVE MemoryInv'
    <3> PICK operations : operations = proposal[s].operations
      OBVIOUS
    <3> PICK accepted : accepted = proposal[s].accepted
      OBVIOUS
    <3> PICK content : content = FormatMemory(ApplyAccepted(Parse(memory), operations, accepted))
      OBVIOUS
    <3> PICK intent : intent = ApplyAccepted(meant, operations, accepted)
      OBVIOUS
    <3> PICK p : p = IF memory # loaded[s].file THEN [at |-> "conflict"]
                     ELSE [at |-> "planned", content |-> content, meant |-> intent]
      OBVIOUS
    <3>1. /\ proposal[s].at = "decided" /\ memory' = memory /\ loaded' = loaded
          /\ meant' = meant
      BY <2>5 DEF PlanWrite
    <3>2. proposal' = [proposal EXCEPT ![s] = p]
      BY <2>5 DEF PlanWrite
    <3>3. /\ operations \in Seq(MemoryOperations(IdsOf(loaded[s].selected)))
          /\ accepted \in Seq(Nat) /\ loaded[s].at = "loaded"
      BY <1>2, <3>1 DEF MemoryInv, ProposalInv
    <3>4. ProposalInv(p, loaded[s])
      <4>1. CASE memory # loaded[s].file
        <5>1. p.at = "conflict"
          BY <4>1
        <5> QED
          BY <3>3, <5>1 DEF ProposalInv
      <4>2. CASE memory = loaded[s].file
        <5>1. p.at = "planned" /\ p.content = content /\ p.meant = intent
          BY <4>2
        <5>2. Parse(memory) \in Seq(MemoryEntries)
          BY <1>2, ParseType DEF MemoryInv, FilesRead
        <5>3. meant \in Seq(MemoryEntries) /\ Alike(Parse(memory), meant)
          BY <1>2 DEF MemoryInv
        <5> PICK ids : ids = IdsOf(loaded[s].selected)
          OBVIOUS
        <5> PICK before : before = Parse(memory)
          OBVIOUS
        <5>4. /\ content \in MemoryFiles /\ intent \in Seq(MemoryEntries)
              /\ Alike(Parse(content), intent)
              /\ \A id, section, line :
                   id \notin ids /\ Holds(before, id, section, line) =>
                     Holds(Parse(content), id, section, line)
          <6>1. MarksTellSections
            OBVIOUS
          <6>2. /\ operations \in Seq(MemoryOperations(ids)) /\ accepted \in Seq(Nat)
                /\ before \in Seq(MemoryEntries) /\ meant \in Seq(MemoryEntries)
                /\ Alike(before, meant)
                /\ content = FormatMemory(ApplyAccepted(before, operations, accepted))
                /\ intent = ApplyAccepted(meant, operations, accepted)
            BY <3>3, <5>2, <5>3
          <6> QED
            BY ONLY <6>1, <6>2, WrittenAlike
        <5>5. KeepsUnseen(loaded[s], content)
          BY <4>2, <5>4 DEF KeepsUnseen
        <5> QED
          BY <3>3, <5>1, <5>4, <5>5 DEF ProposalInv
      <4> QED
        BY <4>1, <4>2
    <3> QED
      BY <1>2, <2>3, <3>1, <3>2, <3>4 DEF MemoryInv
  <2>6. ASSUME NEW s \in Readers, CommitMemory(s) PROVE MemoryInv'
    <3>1. /\ proposal[s].at = "planned" /\ loaded' = loaded
          /\ memory' = proposal[s].content /\ meant' = proposal[s].meant
          /\ proposal' = [proposal EXCEPT ![s] = [at |-> "written"]]
      BY <2>6 DEF CommitMemory
    <3>2. /\ loaded[s].at = "loaded" /\ memory' \in MemoryFiles
          /\ meant' \in Seq(MemoryEntries) /\ Alike(Parse(memory'), meant')
      BY <1>2, <3>1 DEF MemoryInv, ProposalInv
    <3>3. ProposalInv([at |-> "written"], loaded[s])
      BY <3>2 DEF ProposalInv
    <3> QED
      BY <2>3, <3>1, <3>2, <3>3 DEF MemoryInv, FilesRead
  <2>7. ASSUME NEW s \in Readers, MemoryWriteFails(s) PROVE MemoryInv'
    <3>1. /\ proposal[s].at = "planned" /\ loaded' = loaded
          /\ memory' = memory /\ meant' = meant
          /\ proposal' = [proposal EXCEPT ![s] = [at |-> "failed"]]
      BY <2>7 DEF MemoryWriteFails
    <3>2. loaded[s].at = "loaded"
      BY <1>2, <3>1 DEF MemoryInv, ProposalInv
    <3>3. ProposalInv([at |-> "failed"], loaded[s])
      BY <3>2 DEF ProposalInv
    <3> QED
      BY <1>2, <2>3, <3>1, <3>3 DEF MemoryInv
  <2>8. ASSUME UNCHANGED memoryVars PROVE MemoryInv'
    <3>1. memory' = memory /\ meant' = meant /\ loaded' = loaded /\ proposal' = proposal
      BY <2>8 DEF memoryVars
    <3> QED
      BY <1>2, <3>1 DEF MemoryInv
  <2> QED
    BY <1>2, <2>1, <2>2, <2>4, <2>5, <2>6, <2>7, <2>8 DEF MemoryNext
<1> QED
  BY <1>1, <1>2, PTL DEF MemorySpec

\* The memory holds what people and accepted proposals mean it to hold, however often it is
\* rewritten and whoever edits it meanwhile, and no proposal loses what its session left out
\* for the budget, if an id stands in one section (apply_memory_proposal,
\* select_memory_entries).
THEOREM MemoryIsAsMeant == MemorySpec /\ MarksTellSections => []MemoryAsMeant
<1>1. MemoryInv => MemoryAsMeant
  <2> SUFFICES ASSUME MemoryInv PROVE MemoryAsMeant
    OBVIOUS
  <2>1. ASSUME NEW e
        PROVE  TimesHeld(FirstLines(Parse(memory)), e) = TimesHeld(FirstLines(meant), e)
    <3>1. Parse(memory) \in Seq(MemoryEntries)
      BY ParseType DEF MemoryInv, FilesRead
    <3>2. meant \in Seq(MemoryEntries) /\ Alike(Parse(memory), meant)
      BY DEF MemoryInv
    <3> QED
      BY ONLY <3>1, <3>2, AlikeHolds
  <2>2. ASSUME NEW s \in Readers, loaded[s].at = "loaded"
        PROVE  SoundSelection(Parse(loaded[s].file), loaded[s].selected)
    <3>1. loaded[s].file \in FilesRead /\ loaded[s].selected = SelectEntries(Parse(loaded[s].file))
      BY <2>2 DEF MemoryInv, LoadedInv
    <3>2. Parse(loaded[s].file) \in Seq(MemoryEntries)
      BY <3>1, ParseType DEF FilesRead
    <3> QED
      BY <3>1, <3>2, SelectsSoundly
  <2>3. ASSUME NEW s \in Readers, proposal[s].at = "planned",
               NEW e \in ToSet(FirstLines(Parse(loaded[s].file))),
               e.id \notin {x.id : x \in ToSet(loaded[s].selected)}
        PROVE  e \in ToSet(FirstLines(Parse(proposal[s].content)))
    <3> PICK a : a = Parse(loaded[s].file)
      OBVIOUS
    <3> PICK b : b = Parse(proposal[s].content)
      OBVIOUS
    <3>1. KeepsUnseen(loaded[s], proposal[s].content)
      BY <2>3 DEF MemoryInv, ProposalInv
    <3>2. PICK i \in DOMAIN a :
            e = [id |-> a[i].id, section |-> a[i].section, line |-> a[i].line]
      BY DEF ToSet, FirstLines
    <3>3. e.id = a[i].id
      BY <3>2
    <3>4. Holds(a, a[i].id, a[i].section, a[i].line)
      BY DEF Holds
    <3>5. a[i].id \notin IdsOf(loaded[s].selected)
      BY <2>3, <3>3 DEF IdsOf
    <3>6. Holds(b, a[i].id, a[i].section, a[i].line)
      BY <3>1, <3>4, <3>5 DEF KeepsUnseen
    <3>7. PICK j \in DOMAIN b :
            b[j].id = a[i].id /\ b[j].section = a[i].section /\ b[j].line = a[i].line
      BY <3>6 DEF Holds
    <3>8. e = [id |-> b[j].id, section |-> b[j].section, line |-> b[j].line]
      BY <3>2, <3>7
    <3> QED
      BY <3>8 DEF ToSet, FirstLines
  <2> QED
    BY <2>1, <2>2, <2>3 DEF MemoryAsMeant, SoundSelection
<1> QED
  BY <1>1, MemoryInvHolds, PTL
=============================================================================
