---------------------------- MODULE ConfigLayers ----------------------------
(***************************************************************************)
(* The configuration: the global and the workspace gestalt.json, the       *)
(* environment and the command line, how load_effective_config merges      *)
(* them, what config explain says of it, and the commands that rewrite the *)
(* two files (crates/gestalt-app/src/config.rs, connect.rs, profiles.rs,   *)
(* runtime_factory.rs).  One provider and one model stand for all.         *)
(***************************************************************************)
EXTENDS Naturals, FiniteSets

CONSTANTS
  Commands,       \* processes that run commands
  Profiles,       \* names that profiles may have
  BuiltinProfiles,
  Models,
  Entries,        \* entries of policy lists: paths, commands, domains
  DefaultAllow, DefaultDeny,
  Names,          \* extensions and skills
  TrustedNames,   \* skills that may be activated
  Unset,          \* a field that a layer does not have
  NoFile, NoProfile,
  InitialFiles,   \* pairs of a global and a workspace file to begin with
  Environments, CommandLines, \* settings that the environment and the flags may give
  MaxCommands

ASSUME ConfigAssumption ==
  /\ BuiltinProfiles \subseteq Profiles /\ TrustedNames \subseteq Names
  /\ DefaultAllow \subseteq Entries /\ DefaultDeny \subseteq Entries
  /\ NoFile # Unset /\ \A E \in SUBSET Entries : Unset # E

Credentials == {"api_key", "api_key_env", "auth_ref"}
Settings == {"profile", "model", "variant"}
Values == Profiles \cup Models

Layers == [Settings -> Values \cup {Unset}]

\* What a gestalt.json holds.
Files ==
  [settings : Layers,
   profiles : [Profiles -> Models \cup {NoProfile, Unset}],  \* Unset: the provider's model
   credentials : SUBSET Credentials,
   allow : (SUBSET Entries) \cup {Unset},
   deny : (SUBSET Entries) \cup {Unset},
   disabled : SUBSET Names,
   active : SUBSET Names]

Empty ==
  [settings |-> [s \in Settings |-> Unset], profiles |-> [p \in Profiles |-> NoProfile],
   credentials |-> {}, allow |-> Unset, deny |-> Unset, disabled |-> {}, active |-> {}]

ASSUME FilesAssumption ==
  /\ InitialFiles \subseteq (Files \cup {NoFile}) \X (Files \cup {NoFile})
  /\ Environments \subseteq Layers /\ CommandLines \subseteq Layers

VARIABLES
  globalFile, workspaceFile,
  legacy,       \* a config.toml or policies.toml of an earlier version lies about
  environment,  \* GESTALT_PROFILE, GESTALT_MODEL, GESTALT_VARIANT
  flags,        \* --profile, --model
  keychain,     \* whether the secret of the provider is stored
  underway,     \* [Commands -> the command under way and the file it will write]
  commands      \* commands begun

configVars == <<globalFile, workspaceFile, legacy, environment, flags, keychain, underway, commands>>

NoCommand == [at |-> "idle"]

-----------------------------------------------------------------------------
(* Loading. *)

\* WorkspaceConfig::from_file: two credentials in one layer are refused.
ValidLayer(file) == Cardinality(file.credentials) <= 1

Read(file) == IF file = NoFile THEN Empty ELSE file

Above(low, high) == IF high # Unset THEN high ELSE low

\* The upper list for the lower one, as allow lists are merged.
Replaced(low, high) == Above(low, high)

\* merge_unions
Union(low, high) ==
  IF low = Unset THEN high ELSE IF high = Unset THEN low ELSE low \cup high

\* validate_subset
Narrows(low, high) == Unset \notin {low, high} => high \subseteq low

\* merge_profile_config: a profile that does not name a model keeps the one below.
OverProfile(low, high) ==
  IF high = NoProfile THEN low ELSE IF high = Unset /\ low # NoProfile THEN low ELSE high

\* WorkspaceConfig::merge and merge_provider_config: a credential drops the one below it.
Merge(low, high) ==
  [settings |-> [s \in Settings |-> Above(low.settings[s], high.settings[s])],
   profiles |-> [p \in Profiles |-> OverProfile(low.profiles[p], high.profiles[p])],
   credentials |-> IF high.credentials # {} THEN high.credentials ELSE low.credentials,
   allow |-> Above(low.allow, high.allow),
   deny |-> Union(low.deny, high.deny),
   disabled |-> low.disabled \cup high.disabled,
   active |-> low.active \cup high.active]

Loads(global, workspace) ==
  /\ ~legacy
  /\ ValidLayer(Read(global)) /\ ValidLayer(Read(workspace))
  /\ Narrows(Read(global).allow, Read(workspace).allow)

\* load_effective_config, and the variant of the environment, which resolve_provider applies.
Effective(global, workspace) ==
  LET merged == Merge(Read(global), Read(workspace))
  IN [merged EXCEPT !.settings = [s \in Settings |->
                      Above(Above(merged.settings[s], environment[s]), flags[s])]]

\* PoliciesConfig::to_policy_config: an empty list is the default list.
WithDefault(list, default) == IF list \in {Unset, {}} THEN default ELSE list
AllowedEntries(config) == WithDefault(config.allow, DefaultAllow)
DeniedEntries(config) == WithDefault(config.deny, DefaultDeny)

\* resolve_provider: a profile that no layer has and that is not built in is refused,
Resolves(config) ==
  LET profile == config.settings["profile"]
  IN profile = Unset \/ profile \in BuiltinProfiles \/ config.profiles[profile] # NoProfile

\* and the model is the override, or the profile's; Unset is the default of the provider.
ResolvedModel(config) ==
  LET override == Above(environment["model"], flags["model"])
      profile == config.settings["profile"]
  IN IF override # Unset THEN override
     ELSE IF profile = Unset \/ config.profiles[profile] = NoProfile THEN Unset
     ELSE config.profiles[profile]

\* explain_config: the layer that is said to give a setting, and the value.
ExplainedLayer(s) ==
  IF flags[s] # Unset THEN "cli"
  ELSE IF environment[s] # Unset THEN "environment"
  ELSE IF Read(workspaceFile).settings[s] # Unset THEN "workspace"
  ELSE IF Read(globalFile).settings[s] # Unset THEN "global"
  ELSE "default"

ExplainedValue(s) ==
  CASE ExplainedLayer(s) = "cli" -> flags[s]
    [] ExplainedLayer(s) = "environment" -> environment[s]
    [] ExplainedLayer(s) = "workspace" -> workspaceFile.settings[s]
    [] ExplainedLayer(s) = "global" -> globalFile.settings[s]
    [] OTHER -> Unset

\* The lists of the policies are explained one layer at a time too, and so not as merged.
ExplainedDenied ==
  IF Read(workspaceFile).deny # Unset THEN workspaceFile.deny
  ELSE IF Read(globalFile).deny # Unset THEN globalFile.deny
  ELSE DefaultDeny

-----------------------------------------------------------------------------
(* Commands.  mutate_workspace_config_file reads a file, changes its copy and puts the
   whole copy in place of what is there by then. *)

ConfigInit ==
  /\ \E files \in InitialFiles : globalFile = files[1] /\ workspaceFile = files[2]
  /\ legacy \in BOOLEAN
  /\ environment \in Environments /\ flags \in CommandLines
  /\ keychain = FALSE
  /\ underway = [c \in Commands |-> NoCommand]
  /\ commands = 0

Current == Effective(globalFile, workspaceFile)

\* A command has read a file and is about to write its copy; it forgets a secret first if
\* it disconnects.
Rewrite(c, target, copy) ==
  /\ underway' = [underway EXCEPT ![c] = [at |-> "write", target |-> target, file |-> copy]]
  /\ commands' = commands + 1

MayBegin(c) == underway[c] = NoCommand /\ commands < MaxCommands /\ ~legacy

\* profiles use: the profile is one that is configured or built in.
UseProfile(c, profile) ==
  LET target == IF workspaceFile # NoFile THEN "workspace" ELSE "global"
      file == IF target = "workspace" THEN workspaceFile ELSE globalFile
  IN /\ MayBegin(c) /\ Loads(globalFile, workspaceFile)
     /\ profile \in BuiltinProfiles \/ Current.profiles[profile] # NoProfile
     /\ Rewrite(c, target, [Read(file) EXCEPT !.settings["profile"] = profile])
     /\ UNCHANGED <<globalFile, workspaceFile, legacy, environment, flags, keychain>>

\* runtime enable and disable: the list of the workspace only.
SetDisabled(c, name, disabled) ==
  LET file == Read(workspaceFile)
  IN /\ MayBegin(c) /\ ValidLayer(file)
     /\ Rewrite(c, "workspace",
             [file EXCEPT !.disabled = IF disabled THEN @ \cup {name} ELSE @ \ {name}])
     /\ UNCHANGED <<globalFile, workspaceFile, legacy, environment, flags, keychain>>

\* skill activate and deactivate: what is activated is trusted.
SetActive(c, name, active) ==
  LET file == Read(workspaceFile)
  IN /\ MayBegin(c) /\ Loads(globalFile, workspaceFile)
     /\ active => name \in TrustedNames
     /\ Rewrite(c, "workspace",
             [file EXCEPT !.active = IF active THEN @ \cup {name} ELSE @ \ {name}])
     /\ UNCHANGED <<globalFile, workspaceFile, legacy, environment, flags, keychain>>

\* connect: the secret is stored before the file names it; with --set-default the profile of
\* that name is made and used.
Connect(c, profile, stored, asDefault) ==
  LET file == Read(globalFile)
      connected == [file EXCEPT !.credentials = {IF stored THEN "auth_ref" ELSE "api_key_env"}]
  IN /\ MayBegin(c) /\ ValidLayer(file)
     /\ keychain' = (keychain \/ stored)
     /\ Rewrite(c, "global",
             IF asDefault
             THEN [connected EXCEPT !.profiles[profile] = Unset, !.settings["profile"] = profile]
             ELSE connected)
     /\ UNCHANGED <<globalFile, workspaceFile, legacy, environment, flags>>

\* disconnect --force: the profiles of the provider go, and the secret before the file does;
\* the profile in use is reset if it is the one that was removed last.
Disconnect(c) ==
  LET gone == {p \in Profiles : globalFile.profiles[p] # NoProfile}
      without == [globalFile EXCEPT !.credentials = {},
                                    !.profiles = [p \in Profiles |-> NoProfile]]
  IN /\ MayBegin(c) /\ globalFile # NoFile /\ ValidLayer(globalFile)
     /\ keychain' = FALSE
     /\ \E last \in gone \cup {Unset} :
          /\ last = Unset => gone = {}
          /\ Rewrite(c, "global",
                  IF last = without.settings["profile"]
                  THEN [without EXCEPT !.settings["profile"] = Unset] ELSE without)
     /\ UNCHANGED <<globalFile, workspaceFile, legacy, environment, flags>>

\* The temporary file is renamed over the target, or cannot be.
WriteFile(c) ==
  /\ underway[c].at = "write"
  /\ \/ UNCHANGED <<globalFile, workspaceFile>>
     \/ underway[c].target = "global" /\ globalFile' = underway[c].file /\ UNCHANGED workspaceFile
     \/ underway[c].target = "workspace" /\ workspaceFile' = underway[c].file /\ UNCHANGED globalFile
  /\ underway' = [underway EXCEPT ![c] = NoCommand]
  /\ UNCHANGED <<legacy, environment, flags, keychain, commands>>

ConfigNext ==
  \E c \in Commands :
    \/ \E profile \in Profiles : UseProfile(c, profile)
    \/ \E name \in Names, on \in BOOLEAN : SetDisabled(c, name, on) \/ SetActive(c, name, on)
    \/ \E profile \in Profiles, stored, asDefault \in BOOLEAN :
         Connect(c, profile, stored, asDefault)
    \/ Disconnect(c) \/ WriteFile(c)

ConfigSpec == ConfigInit /\ [][ConfigNext]_configVars

-----------------------------------------------------------------------------

\* Whatever the commands have left in the files, what loads keeps the promises of the layers
\* (docs/v0.1/configuration.md): everything that either file denies is denied; a provider has
\* the credential of the topmost layer that names one, and no other; a setting has the value
\* that config explain gives for it, and what it says is denied is.
LayersRespected ==
  Loads(globalFile, workspaceFile) =>
    /\ \A file \in {globalFile, workspaceFile} :
         file # NoFile /\ file.deny # Unset => file.deny \subseteq DeniedEntries(Current)
    /\ Cardinality(Current.credentials) <= 1
    /\ Read(workspaceFile).credentials \in {{}, Current.credentials}
    /\ \A s \in Settings : ExplainedValue(s) = Current.settings[s]
    /\ ExplainedDenied \subseteq DeniedEntries(Current)
=============================================================================
