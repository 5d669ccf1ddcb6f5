---------------------------- MODULE MCToolPolicy ----------------------------
(* Instances of ToolPolicy for TLC. *)
EXTENDS ToolPolicy

CONSTANTS read, bash, s1, s2

\* s1 allows one tool, by its name and by its canonical id; s2 whatever there is.
MCAllowedTools ==
  [s \in Skills |-> IF s = s1 THEN {Bare(read), CanonicalId(read)} ELSE AllowTokens]

\* s1 allows one tool by its name, as the documentation does; s2 says nothing.
MCNamedTools == [s \in Skills |-> IF s = s1 THEN {Bare(read)} ELSE Unrestricted]
=============================================================================
