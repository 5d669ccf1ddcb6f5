---------------------------- MODULE MCExtensions ----------------------------
(* Instances of Extensions for TLC. *)
EXTENDS Extensions

\* One component at most.
MCConfigured == {comps \in Composition : \E c \in Components : comps[c] = Absent}
=============================================================================
