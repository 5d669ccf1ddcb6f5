--------------------------- MODULE SteeringPromise ---------------------------
(***************************************************************************)
(* What the senders of steering messages are promised, without the queue's *)
(* idempotency map and without the runs that drain it: between two         *)
(* completions a channel delivers what it accepted, in order, each message *)
(* once, and never two messages under one idempotency key.  Whatever was   *)
(* accepted and not delivered when the channel completes is dropped.       *)
(***************************************************************************)
EXTENDS Naturals, Sequences

CONSTANTS Message, NoKey, Capacity

VARIABLES open, pending, delivered

Taken == delivered \o pending

Init == open = TRUE /\ pending = <<>> /\ delivered = <<>>

Accept(m) ==
  /\ open
  /\ Len(pending) < Capacity
  /\ \A i \in DOMAIN Taken :
       /\ Taken[i].id # m.id
       /\ m.key # NoKey => Taken[i].key # m.key
  /\ pending' = Append(pending, m)
  /\ UNCHANGED <<open, delivered>>

Deliver ==
  /\ delivered' = delivered \o pending
  /\ pending' = <<>>
  /\ UNCHANGED open

Open == open' = TRUE /\ UNCHANGED <<pending, delivered>>

Close == open' = FALSE /\ UNCHANGED <<pending, delivered>>

Complete == open' = FALSE /\ pending' = <<>> /\ delivered' = <<>>

Next == (\E m \in Message : Accept(m)) \/ Deliver \/ Open \/ Close \/ Complete

Spec == Init /\ [][Next]_<<open, pending, delivered>>
=============================================================================
