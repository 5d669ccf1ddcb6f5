--------------------------- MODULE MCConfigLayers ---------------------------
(* Instances of ConfigLayers for TLC. *)
EXTENDS ConfigLayers

CONSTANTS p1, p2, m1, e1, e2

\* Files that have policy lists, and files that have a profile and a provider.
MCLists == {Unset, {}, {e1}}
MCPolicyFiles ==
  {NoFile} \cup {[Empty EXCEPT !.allow = a, !.deny = d] : a \in MCLists, d \in {Unset, {e1}, {e2}}}
MCProviderFiles ==
  {NoFile} \cup {[Empty EXCEPT !.credentials = k, !.settings["profile"] = p, !.profiles[p1] = q] :
                   k \in {{}, {"api_key_env"}, {"api_key", "auth_ref"}}, p \in {Unset, p1},
                   q \in {NoProfile, Unset, m1}}
MCInitialFiles == (MCPolicyFiles \X MCPolicyFiles) \cup (MCProviderFiles \X MCProviderFiles)

NoSettings == [s \in Settings |-> Unset]
MCEnvironments == {NoSettings, [NoSettings EXCEPT !["profile"] = p2, !["variant"] = m1]}
MCCommandLines == {NoSettings, [NoSettings EXCEPT !["model"] = m1]}
=============================================================================
