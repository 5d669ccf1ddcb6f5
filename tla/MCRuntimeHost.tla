---------------------------- MODULE MCRuntimeHost ----------------------------
(* Instances of RuntimeHost for TLC. *)
EXTENDS RuntimeHost, TLC

\* Session ids are interchangeable.
Symmetry == Permutations(Sessions)
=============================================================================
