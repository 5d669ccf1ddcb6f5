----------------------------- MODULE Activation -----------------------------
(***************************************************************************)
(* From manifests on disk to an active generation: discovery, trust pins,  *)
(* configured instances, the activation pipeline with its reuse of         *)
(* processes, and reloads (crates/gestalt-runtime/src/activation.rs,       *)
(* builder.rs, orchestration.rs, control.rs, discovery.rs,                 *)
(* extension/package.rs, and build_app_runtime of crates/gestalt-app).     *)
(* What the manager does with generations and leases is Extensions'.  A    *)
(* manifest is its hash; grants and configuration of an instance do not    *)
(* change while a host lives, and neither does what it launches.           *)
(***************************************************************************)
EXTENDS Subsequences, FiniteSetsExt

CONSTANTS
  Packages,      \* package ids
  Manifests,     \* manifest hashes
  PackageOf,     \* the package a manifest declares
  PartsOf,       \* the components a manifest declares
  Lifecycle,     \* components that are processes
  CommandTools,  \* components that are command tools; the others are servers and skills
  OptionalParts, \* components whose failure is a diagnostic
  Places,        \* number of manifest paths, in the order of discovery; the first is explicit
  NoManifest, Broken,
  Settings,      \* trusted pins, disabled packages, allow_untrusted and instances
  NotConfigured,
  MaxReloads     \* bound: activations after the first

PlaceIndexes == 1..Places
Parts == UNION {PartsOf[m] : m \in Manifests}

VARIABLES
  host,       \* who activates: an AgentRuntime, or a RuntimeHost of an embedder
  settings,   \* the configuration, which does not change
  onDisk,     \* what is at each place
  pins,       \* trusted_extension_pins; NotConfigured before they are determined
  active,     \* the active generation
  baseTools,  \* names of the catalog that generations are composed with
  reloads

activationVars == <<host, settings, onDisk, pins, active, baseTools, reloads>>

Configurations == [package : Packages, enabled : BOOLEAN, off : SUBSET Parts]

ASSUME SettingsAssumption ==
  \A s \in Settings :
    /\ s.trusted \subseteq Manifests /\ s.disabled \subseteq Packages /\ s.allow \in BOOLEAN
    /\ s.instances \in Seq(Configurations)
ASSUME PlacesAssumption == Places \in Nat

NoGeneration == [number |-> 0, packages |-> <<>>, processes |-> {}, clients |-> {}, capabilities |-> {}]

ActivationInit ==
  /\ host \in {"runtime", "host"}
  /\ settings \in Settings
  /\ onDisk \in [PlaceIndexes -> Manifests \cup {NoManifest, Broken}]
  /\ pins = NotConfigured /\ active = NoGeneration /\ baseTools = {} /\ reloads = 0

-----------------------------------------------------------------------------
(* Discovery and resolution. *)

\* discover_packages fails as a whole at a manifest that does not parse or validate.
Discoverable(places) == \A n \in places : onDisk[n] # Broken

\* The first manifest of a package counts.
Found(places) ==
  LET Counts(n) ==
        /\ n \in places /\ onDisk[n] \in Manifests
        /\ \A e \in places : e < n /\ onDisk[e] \in Manifests =>
             PackageOf[onDisk[e]] # PackageOf[onDisk[n]]
      Template(n) ==
        [package |-> PackageOf[onDisk[n]], manifest |-> onDisk[n],
         instance |-> 0, trusted |-> FALSE, parts |-> PartsOf[onDisk[n]]]
      counted == {n \in PlaceIndexes : Counts(n)}
  IN [i \in 1..Cardinality(counted) |-> Template(NthOf(counted, i))]

\* A pin names the package and the hash of its manifest.
MatchesPin(pin, p) == PackageOf[pin] = p.package /\ pin = p.manifest

ApplyTrust(packages, trusted) ==
  [i \in DOMAIN packages |->
     [packages[i] EXCEPT !.trusted = \E pin \in trusted : MatchesPin(pin, packages[i])]]

ConfiguredInstances == DOMAIN settings.instances
Enabled(i) == settings.instances[i].enabled
Asked(package) == \E i \in ConfiguredInstances : Enabled(i) /\ settings.instances[i].package = package
AnyConfigured == ConfiguredInstances # {}

Instantiate(p, i) ==
  [p EXCEPT !.instance = i, !.parts = @ \ settings.instances[i].off]

\* resolve_configured_instances: a later package of the same id replaces an earlier one.
Templates(packages, i) ==
  {n \in DOMAIN packages : packages[n].package = settings.instances[i].package}
Wanted == {i \in ConfiguredInstances : Enabled(i)}
Instance(packages, i) == Instantiate(packages[Max(Templates(packages, i))], i)
Resolvable(packages) ==
  AnyConfigured =>
    \A i \in ConfiguredInstances : Enabled(i) =>
      Templates(packages, i) # {} /\ Instance(packages, i).parts # {}
Resolve(packages) ==
  IF AnyConfigured
  THEN [n \in 1..Cardinality(Wanted) |-> Instance(packages, NthOf(Wanted, n))]
  ELSE packages

-----------------------------------------------------------------------------
(* ExtensionActivationPipeline.run and publish_snapshot.  Its steps are      *)
(* Extensions'; here an activation is one.                                   *)

\* A configured package that is not trusted fails the activation; another is left out.
Refuses(packages) ==
  \E n \in DOMAIN packages :
    ~packages[n].trusted /\ ~settings.allow /\ Asked(packages[n].package)
Admits(p) == p.trusted \/ (settings.allow /\ Asked(p.package))
Admitted(packages) == Subsequence(packages, {n \in DOMAIN packages : Admits(packages[n])})

\* A targeted reload takes the first package of the id, and the others as they are.
Targeted(packages, target) ==
  LET new == Instantiate(packages[Min(Templates(packages, target))], target)
      others == active.packages
  IN IF \E n \in DOMAIN others : others[n].instance = target
     THEN [n \in DOMAIN others |-> IF others[n].instance = target THEN new ELSE others[n]]
     ELSE Append(others, new)
Targetable(packages, target) ==
  /\ Enabled(target) /\ Templates(packages, target) # {}
  /\ packages[Min(Templates(packages, target))].parts \ settings.instances[target].off # {}

ToolNames(composition) ==
  UNION {{<<composition[n].package, composition[n].instance, c>> : c \in composition[n].parts \cap CommandTools}
           : n \in DOMAIN composition}

\* A bug: the manifest is not part of the reuse key.
SameInstance(old, new) == old.instance = new.instance /\ old.package = new.package

\* The reuse key holds the manifest hash and the trust.  It holds the hashes of the
\* executable and of the lock file too, but both sides compute them from the files
\* as they are at this moment, so that they never differ.
SameKey(old, new) ==
  /\ old.instance = new.instance /\ old.package = new.package
  /\ old.manifest = new.manifest /\ old.trusted = new.trusted

Unchanged(p, c, force) ==
  ~force /\ \E n \in DOMAIN active.packages :
              c \in active.packages[n].parts /\ SameKey(active.packages[n], p)
ProcessesOf(p, c) ==
  {x \in active.processes : x.package = p.package /\ x.instance = p.instance /\ x.part = c}

\* A component is described by itself when it is new, and as before otherwise.
Activates(composition, force, failed, mute) ==
  LET components == UNION {{<<n, c>> : c \in composition[n].parts \cap Lifecycle} : n \in DOMAIN composition}
      Reused(n, c) == IF Unchanged(composition[n], c, force) THEN ProcessesOf(composition[n], c) ELSE {}
      Launched(n, c) == [package |-> composition[n].package, instance |-> composition[n].instance,
                         part |-> c, manifest |-> composition[n].manifest]
      alive == {k \in components : Reused(k[1], k[2]) # {} \/ k[2] \notin failed}
      Id(k) == <<composition[k[1]].package, composition[k[1]].instance, k[2]>>
  IN [number |-> active.number + 1,
      packages |-> composition,
      processes |-> UNION {IF Reused(k[1], k[2]) # {} THEN Reused(k[1], k[2])
                           ELSE {Launched(k[1], k[2])} : k \in alive},
      clients |-> {Id(k) : k \in alive},
      capabilities |->
        {Id(k) : k \in {a \in alive : IF Unchanged(composition[a[1]], a[2], force)
                                      THEN Id(a) \in active.capabilities
                                      ELSE a[2] \notin mute}}]

\* A required component that fails fails the activation, which then changes nothing.
Publishes(composition, force) ==
  \E failed, mute \in SUBSET (Lifecycle \cap OptionalParts) :
    active' = Activates(composition, force, failed, mute)

NoCollision(composition) == ToolNames(composition) \cap baseTools = {}

-----------------------------------------------------------------------------
(* build_app_runtime discovers for the pins and again for the packages.     *)

TrustedEntries(packages) ==
  {m \in settings.trusted : \E n \in DOMAIN packages :
     packages[n].manifest = m /\ packages[n].package \notin settings.disabled}

AppDiscoversPins ==
  /\ host = "runtime" /\ pins = NotConfigured
  /\ pins' = IF Discoverable(PlaceIndexes) THEN TrustedEntries(Found(PlaceIndexes)) ELSE {}
  /\ UNCHANGED <<host, settings, onDisk, active, baseTools, reloads>>

\* The app leaves out disabled packages and those it does not trust.
NotDisabled(packages) ==
  Subsequence(packages, {n \in DOMAIN packages : packages[n].package \notin settings.disabled})
AppDiscovered == NotDisabled(ApplyTrust(Found(PlaceIndexes), settings.trusted))
AppPackages == IF Discoverable(PlaceIndexes) THEN Admitted(AppDiscovered) ELSE <<>>
AppRefuses == Discoverable(PlaceIndexes) /\ Refuses(AppDiscovered)

\* AgentRuntimeBuilder.build resolves the instances, and the pipeline again, from
\* what was resolved; tools and registry of the generation become the runtime's.
AppBuilds ==
  LET once == ApplyTrust(Resolve(AppPackages), pins)
      composition == Resolve(Admitted(once))
  IN
  /\ host = "runtime" /\ pins # NotConfigured /\ active.number = 0
  /\ ~AppRefuses /\ Resolvable(AppPackages)
  /\ once # <<>> /\ ~Refuses(once) /\ Resolvable(Admitted(once))
  /\ Publishes(composition, FALSE)
  /\ baseTools' = ToolNames(composition)
  /\ UNCHANGED <<host, settings, onDisk, pins, reloads>>

\* RuntimeHost::new takes the packages of its builder, which an embedder discovered.
HostStarts ==
  LET packages == ApplyTrust(Found(PlaceIndexes), settings.trusted) IN
  /\ host = "host" /\ active.number = 0 /\ Discoverable(PlaceIndexes)
  /\ packages # <<>> /\ ~Refuses(packages) /\ Resolvable(Admitted(packages))
  /\ Publishes(Resolve(Admitted(packages)), FALSE)
  /\ pins' = settings.trusted
  /\ UNCHANGED <<host, settings, onDisk, baseTools, reloads>>

\* A RuntimeHost rediscovers, without explicit paths; an AgentRuntime reloads what it has.
ReloadSource == IF host = "host" THEN Found(PlaceIndexes \ {1}) ELSE active.packages

ReloadWith(composition, force) ==
  /\ NoCollision(composition)
  /\ Publishes(composition, force)
  /\ reloads' = reloads + 1
  /\ UNCHANGED <<host, settings, onDisk, pins, baseTools>>

reload_extensions ==
  LET packages == ApplyTrust(ReloadSource, pins) IN
  /\ active.number > 0 /\ reloads < MaxReloads
  /\ host = "host" => Discoverable(PlaceIndexes \ {1})
  /\ ~Refuses(packages)
  /\ \E force \in BOOLEAN :
       \/ Resolvable(Admitted(packages)) /\ ReloadWith(Resolve(Admitted(packages)), force)
       \/ \E target \in ConfiguredInstances :
            /\ Targetable(Admitted(packages), target)
            /\ ReloadWith(Targeted(Admitted(packages), target), force)

\* Manifests are edited, removed and broken while hosts live.
ManifestChanges ==
  /\ \E n \in PlaceIndexes, m \in Manifests \cup {NoManifest, Broken} :
       onDisk' = [onDisk EXCEPT ![n] = m]
  /\ UNCHANGED <<host, settings, pins, active, baseTools, reloads>>

ActivationNext ==
  \/ AppDiscoversPins \/ AppBuilds \/ HostStarts \/ reload_extensions
  \/ ManifestChanges

ActivationSpec == ActivationInit /\ [][ActivationNext]_activationVars

-----------------------------------------------------------------------------
(* Properties. *)

\* What is active was admitted: each package with the manifest that a pin names, or
\* by the development switch and an enabled instance; each instance as it is
\* configured; each process launched from the manifest of its package; and each
\* capability has the client that serves it.  Manifests change between discoveries,
\* reloads rediscover, target one instance and reuse processes.
ActiveIsAdmitted ==
  /\ \A n \in DOMAIN active.packages :
       LET p == active.packages[n] IN
       /\ p.manifest \in settings.trusted \/ (settings.allow /\ Asked(p.package))
       /\ host = "runtime" => p.package \notin settings.disabled
       /\ AnyConfigured =>
            /\ p.instance \in ConfiguredInstances /\ Enabled(p.instance)
            /\ settings.instances[p.instance].package = p.package
            /\ p.parts \cap settings.instances[p.instance].off = {}
  /\ \A x \in active.processes :
       \E n \in DOMAIN active.packages :
         LET p == active.packages[n] IN
         x.package = p.package /\ x.instance = p.instance /\ x.manifest = p.manifest
           /\ x.part \in p.parts
  /\ active.capabilities \subseteq active.clients
=============================================================================
