--------------------------- MODULE ModelResolution ---------------------------
(***************************************************************************)
(* What a run is sent to and with: the model, its variants, options,       *)
(* limits and capabilities that resolve_provider makes of the two          *)
(* gestalt.json, the flags, the environment and the model catalog, and     *)
(* what `config explain` says of the same fields                           *)
(* (crates/gestalt-app/src/config.rs, models.rs, model_cache.rs).  One     *)
(* provider, which is built in, and one profile, which is in effect; a     *)
(* layer is what a file says of the fields that it sets.                   *)
(***************************************************************************)
EXTENDS Naturals, Sequences, FiniteSets

CONSTANTS
  Models, Variants,
  Configurable,    \* models that the files define
  OptionValues,    \* values of an option
  Windows,         \* sizes of a context window
  BuiltinFormat, BuiltinModel, \* of the provider
  CachedInfo,      \* [Models -> what the provider lists of a model]
  FallbackWindow,  \* 32,000
  Unknown,         \* a field that nothing sets
  FirstLayers,     \* files to begin with
  MaxEdits         \* bound: edits, overrides and refreshes

\* temperature stands for the three options of sampling.
Options == {"temperature", "reasoning_effort", "text_verbosity", "thinking"}
Formats == {"anthropic_messages", "openai_chat", "openai_responses"}

ModelFields == {"display_name", "window", "reasoning", "tools"} \cup Options
VariantFields == {"extends"} \cup Options

Fields ==
  ({"profile"} \X {"model", "variant", "temperature", "window"})
    \cup ({"defaults"} \X {"variant", "temperature"})
    \cup ({"context"} \X {"window", "max_window"})
    \cup ({"provider"} \X {"format", "default_model", "tools"})
    \cup (Configurable \X ModelFields)
    \cup (Configurable \X Variants \X VariantFields)

Name(f) == f[Len(f)]

ValuesOf(f) ==
  CASE Name(f) \in Options -> OptionValues
    [] Name(f) \in {"window", "max_window"} -> Windows
    [] Name(f) \in {"reasoning", "tools"} -> BOOLEAN
    [] Name(f) \in {"variant", "extends"} -> Variants
    [] Name(f) \in {"model", "default_model"} -> Models
    [] Name(f) = "format" -> Formats
    [] OTHER -> OptionValues

Overrides == {"model", "window", "variant"}  \* --model, --context-window, GESTALT_VARIANT

\* What the two files may say.
Layers(files) ==
  /\ DOMAIN files = {"global", "workspace"}
  /\ \A layer \in DOMAIN files :
       /\ DOMAIN files[layer] \subseteq Fields
       /\ \A f \in DOMAIN files[layer] : files[layer][f] \in ValuesOf(f)

ASSUME ResolutionAssumption ==
  /\ IsFiniteSet(Variants)
  /\ \A f \in Fields : Unknown \notin ValuesOf(f)
  /\ \A files \in FirstLayers : Layers(files)
  /\ BuiltinFormat \in Formats /\ BuiltinModel \in Models /\ Configurable \subseteq Models
  /\ CachedInfo \in [Models -> [window : Windows, reasoning : BOOLEAN, tools : BOOLEAN]]

VARIABLES
  layers,     \* the fields of the global and of the workspace file
  overrides,  \* of the command line and the environment
  cached,     \* models of the last refresh, which are forgotten after a day
  edits

resolutionVars == <<layers, overrides, cached, edits>>

ResolutionInit ==
  /\ layers \in FirstLayers
  /\ overrides = [o \in Overrides |-> Unknown]
  /\ cached = {} /\ edits = 0

-----------------------------------------------------------------------------
(* Merging. *)

Upper(low, high) == IF high # Unknown THEN high ELSE low

\* merge_model_definition, _variant, _options, _capabilities: field by field.
Says(layer, f) == IF f \in DOMAIN layers[layer] THEN layers[layer][f] ELSE Unknown
Merged(f) == Upper(Says("global", f), Says("workspace", f))

Defined(place) ==
  \E layer \in DOMAIN layers :
    \E f \in DOMAIN layers[layer] : SubSeq(f, 1, Len(place)) = place

\* load_effective_config: each of the two names of the window fills in for the other.
ContextWindow == Upper(Merged(<<"context", "max_window">>), Merged(<<"context", "window">>))

-----------------------------------------------------------------------------
(* resolve_provider *)

format == Upper(BuiltinFormat, Merged(<<"provider", "format">>))

SelectedModel ==
  Upper(Upper(Upper(BuiltinModel, Merged(<<"provider", "default_model">>)),
              Merged(<<"profile", "model">>)), overrides["model"])

active_variant ==
  Upper(Upper(Merged(<<"profile", "variant">>), Merged(<<"defaults", "variant">>)),
        overrides["variant"])

NoOptions == [o \in Options |-> Unknown]
NoResolution == [o \in {} |-> Unknown]

merge_options(base, over) == [o \in Options |-> Upper(base[o], over[o])]

\* A bug: the parent's options win.
MergedUnder(base, over) == merge_options(over, base)

\* The options of a variant go over those of the one it extends.
Inherit(base, over) == merge_options(base, over)

Extended(m, v) == Merged(<<m, v, "extends">>)
OwnOptions(m, v) == [o \in Options |-> Merged(<<m, v, o>>)]

\* resolve_variant of each variant, with those that it has visited.
ResolvedVariants(m) ==
  LET resolved[visited \in SUBSET Variants] ==
        [v \in Variants |->
           IF v \in visited \/ ~Defined(<<m, v>>) THEN NoResolution
           ELSE IF Extended(m, v) = Unknown THEN Inherit(NoOptions, OwnOptions(m, v))
           ELSE LET parent == resolved[visited \cup {v}][Extended(m, v)]
                IN IF parent = NoResolution THEN NoResolution
                   ELSE Inherit(parent, OwnOptions(m, v))]
  IN resolved

resolve_variant(m, variant) == ResolvedVariants(m)[{}][variant]

\* The options of the model, of the variant, of the profile and of the defaults.
ResolvedOptions ==
  LET m == SelectedModel
      ofModel == [o \in Options |-> Merged(<<m, o>>)]
      ofVariant == IF active_variant = Unknown THEN NoOptions
                   ELSE IF ~Defined(<<m>>) THEN NoResolution ELSE resolve_variant(m, active_variant)
      ofProfile == [NoOptions EXCEPT !["temperature"] = Merged(<<"profile", "temperature">>)]
      ofDefaults == [NoOptions EXCEPT !["temperature"] = Merged(<<"defaults", "temperature">>)]
  IN IF ofVariant = NoResolution THEN NoResolution
     ELSE merge_options(merge_options(merge_options(ofModel, ofVariant), ofProfile), ofDefaults)

\* list_models: a model that a file defines is listed by its definition, over a template
\* and not over what the provider lists; the built-in catalog is that of the provider.
NotListed == [window |-> Unknown, reasoning |-> FALSE, tools |-> TRUE]
list_models(m) ==
  IF Defined(<<m>>)
  THEN [window |-> Upper(FallbackWindow, Merged(<<m, "window">>)),
        reasoning |-> Upper(FALSE, Merged(<<m, "reasoning">>)),
        tools |-> Upper(TRUE, Merged(<<m, "tools">>))]
  ELSE IF m \in cached THEN CachedInfo[m] ELSE NotListed

ResolvedWindow ==
  LET m == SelectedModel
      listed == Upper(FallbackWindow, list_models(m).window)
      configured == Upper(listed, Merged(<<m, "window">>))
  IN Upper(Upper(Upper(configured, ContextWindow), Merged(<<"profile", "window">>)),
           overrides["window"])

ResolvedCapabilities ==
  LET info == list_models(SelectedModel)
  IN [c \in {"reasoning", "tools"} |-> Upper(info[c], Merged(<<SelectedModel, c>>))]

\* What the files say that the provider can.
ProviderCapabilities == [tools |-> Upper(TRUE, Merged(<<"provider", "tools">>))]

validate_model_options(capabilities, options) ==
  /\ options["text_verbosity"] # Unknown => format = "openai_responses"
  /\ options["thinking"] # Unknown =>
       /\ format # "openai_responses"
       /\ format = "anthropic_messages" => capabilities.reasoning
  /\ options["reasoning_effort"] # Unknown => capabilities.reasoning

validate_resolved_provider(capabilities, options) ==
  /\ capabilities.tools => Merged(<<"provider", "tools">>) # FALSE
  /\ validate_model_options(capabilities, options)

Resolves(capabilities, options) ==
  options # NoResolution /\ validate_resolved_provider(capabilities, options)

Resolved == Resolves(ResolvedCapabilities, ResolvedOptions)

-----------------------------------------------------------------------------
(* config explain *)

\* The highest file that has a field; the value is that of the file for the fields that
\* explain_config names, and that of the merged files for the others.
NamedContext == {f \in Fields : f[1] = "context"}
Named == NamedContext \cup {f \in Fields : f[1] = "defaults"}

ExplainedSource(f) ==
  IF f \in DOMAIN layers["workspace"] THEN "workspace"
  ELSE IF f \in DOMAIN layers["global"] THEN "global" ELSE "default"

ExplainedSetting(f) ==
  IF f \notin Named THEN Merged(f)
  ELSE IF ExplainedSource(f) = "default" THEN Unknown ELSE layers[ExplainedSource(f)][f]

-----------------------------------------------------------------------------
(* What changes the sources. *)

Edit(layer, f, value) ==
  /\ edits < MaxEdits /\ edits' = edits + 1
  /\ value # Says(layer, f)
  /\ layers' = [layers EXCEPT ![layer] =
                 IF value = Unknown THEN [g \in DOMAIN @ \ {f} |-> @[g]]
                 ELSE [g \in DOMAIN @ \cup {f} |-> IF g = f THEN value ELSE @[g]]]
  /\ UNCHANGED <<overrides, cached>>

Override(o, value) ==
  /\ edits < MaxEdits /\ edits' = edits + 1
  /\ overrides[o] = Unknown
  /\ overrides' = [overrides EXCEPT ![o] = value]
  /\ UNCHANGED <<layers, cached>>

\* `models refresh` asks the provider that resolves; without one it fails.
refresh_models ==
  /\ Resolved
  /\ edits < MaxEdits /\ edits' = edits + 1
  /\ \E listed \in SUBSET Models : listed # {} /\ cached' = listed
  /\ UNCHANGED <<layers, overrides>>

\* load_cached_models takes no list of the day before.
CacheExpires ==
  /\ cached # {} /\ cached' = {}
  /\ UNCHANGED <<layers, overrides, edits>>

ResolutionNext ==
  \/ \E layer \in {"global", "workspace"}, f \in Fields :
       \E value \in ValuesOf(f) \cup {Unknown} : Edit(layer, f, value)
  \/ \E o \in Overrides :
       \E value \in ValuesOf(<<"profile", o>>) : Override(o, value)
  \/ refresh_models \/ CacheExpires

ResolutionSpec == ResolutionInit /\ [][ResolutionNext]_resolutionVars

-----------------------------------------------------------------------------
(* Properties. *)

\* The ways of inheritance from a variant: each extends the one before it, no one comes
\* back, and the last extends none.
Chains(m, variant) ==
  {chain \in UNION {[1..n -> Variants] : n \in 1..Cardinality(Variants)} :
     /\ chain[1] = variant
     /\ \A i \in DOMAIN chain : Defined(<<m, chain[i]>>)
     /\ \A i, j \in DOMAIN chain : i # j => chain[i] # chain[j]
     /\ \A i \in DOMAIN chain :
          Extended(m, chain[i]) = IF i < Len(chain) THEN chain[i + 1] ELSE Unknown}

\* What the files say first of some fields; of each the workspace comes first.
FirstSet(fields) ==
  LET set == {i \in DOMAIN fields : \E layer \in DOMAIN layers : fields[i] \in DOMAIN layers[layer]}
      first == fields[CHOOSE i \in set : \A j \in set : i <= j]
  IN IF set = {} THEN Unknown
     ELSE IF first \in DOMAIN layers["workspace"] THEN layers["workspace"][first]
     ELSE layers["global"][first]

\* What resolves is what the files say, in the order that is documented: an option comes
\* from the defaults, the profile, the variant, the variants that it extends one after the
\* other, the model, and the workspace goes before the global file in each; a variant that
\* inherits from itself, also through two files that are sound alone, resolves to nothing;
\* nothing unsupported is sent; and `config explain` names a file that has the value.
ModelsFollowLayers ==
  LET m == SelectedModel
      variant == active_variant
      options == ResolvedOptions
      capabilities == ResolvedCapabilities
  IN
  /\ Resolves(capabilities, options) =>
       /\ \E chain \in IF variant = Unknown THEN {<<>>} ELSE Chains(m, variant) :
            \A o \in Options :
              options[o] =
                FirstSet((IF o = "temperature" THEN <<<<"defaults", o>>, <<"profile", o>>>> ELSE <<>>)
                          \o [i \in DOMAIN chain |-> <<m, chain[i], o>>] \o <<<<m, o>>>>)
       /\ capabilities.tools => ProviderCapabilities.tools
       /\ options["thinking"] # Unknown => format # "openai_responses"
       /\ options["reasoning_effort"] # Unknown => capabilities.reasoning
  /\ ResolvedWindow =
       LET set == FirstSet(<<<<"profile", "window">>, <<"context", "window">>,
                             <<"context", "max_window">>, <<m, "window">>>>)
           listed == IF Defined(<<m>>) \/ m \notin cached THEN FallbackWindow
                     ELSE CachedInfo[m].window
       IN Upper(Upper(listed, set), overrides["window"])
  /\ \A layer \in DOMAIN layers : \A f \in DOMAIN layers[layer] :
       /\ ExplainedSetting(f) = Merged(f)
       /\ layers[ExplainedSource(f)][f] = ExplainedSetting(f)
=============================================================================
