------------------------------ MODULE Extensions ------------------------------
(***************************************************************************)
(* The extension manager: reloads build a generation of processes and      *)
(* publish it, runs lease the generation they started with, and what a     *)
(* generation no longer uses is drained                                    *)
(* (crates/gestalt-runtime/src/extension/manager.rs, activation.rs,        *)
(* control.rs).  Reloads are serialized, as by the reload mutex of         *)
(* control.rs; runs and tasks are threads.                                 *)
(***************************************************************************)
EXTENDS Naturals, Sequences, FiniteSets

CONSTANTS
  Components,      \* lifecycle components
  Versions,        \* what the reuse key of a component depends on
  Absent,          \* a component that is not configured
  Required,        \* components that are not optional
  Configured,      \* the compositions that discovery may find
  Leasers,         \* runs
  MaxGenerations,  \* bound: generations published
  MaxProcesses     \* bound: processes launched

Composition == [Components -> Versions \cup {Absent}]
Empty == [c \in Components |-> Absent]

ASSUME ExtensionsAssumption ==
  /\ Configured \subseteq Composition
  /\ MaxGenerations \in Nat \ {0} /\ MaxProcesses \in Nat
  /\ Absent \notin Versions /\ Required \subseteq Components

ReuseKey == Components \X Versions
ProcessState == {"Ready", "Draining", "Stopping", "Stopped"}

VARIABLES
  snapshots,    \* generation n published snapshots[n]; the last one is active
  processes,    \* processes, in the order of launch: reuse key and state
  instances,    \* process_instances; 0 is none
  launched,     \* processes whose flight is over and that are not inserted yet
  leases,       \* counted leases per generation
  retired,      \* retired_generations
  draining,     \* drain tasks: process and whether it is stopped already
  stopping,     \* processes a dropped candidate stops
  reload,       \* the reload under way
  leasers,      \* the run's lease: phase, generation, and whether it counted in time
  own           \* ghost: processes that one candidate launched and no other has held

extensionVars == <<snapshots, processes, instances, launched, leases, retired,
                   draining, stopping, reload, leasers, own>>

NoReload == [pc |-> "idle", comps |-> Empty, todo |-> {}, force |-> FALSE,
             dry |-> FALSE, started |-> {}, reused |-> {}]
NoLease == [pc |-> "idle", gen |-> 0, timely |-> FALSE]

ExtensionsInit ==
  /\ snapshots = <<[comps |-> Empty, procs |-> {}]>>
  /\ processes = <<>> /\ instances = [k \in ReuseKey |-> 0] /\ launched = {}
  /\ leases = [g \in 1..MaxGenerations |-> 0] /\ retired = {}
  /\ draining = {} /\ stopping = {} /\ reload = NoReload
  /\ leasers = [r \in Leasers |-> NoLease] /\ own = {}

ActiveGeneration == Len(snapshots)
KeysOf(procs) == {processes[p].key : p \in procs}

-----------------------------------------------------------------------------
(* ExtensionActivationPipeline.run and its commit. *)

\* Packages are found as they are configured now.  A targeted reload keeps every
\* other instance as the active generation has it: one of the compositions.
ReloadBegins(comps, force, dry) ==
  /\ reload.pc = "idle" /\ ActiveGeneration < MaxGenerations
  /\ reload' = [NoReload EXCEPT !.pc = "activating", !.comps = comps,
                  !.todo = {c \in Components : comps[c] # Absent},
                  !.force = force, !.dry = dry]
  /\ UNCHANGED <<snapshots, processes, instances, launched, leases, retired,
                 draining, stopping, leasers, own>>

\* The pipeline is between two components.
Activating == reload.pc = "activating" /\ reload.started \cap launched = {}

Key(c) == <<c, reload.comps[c]>>
Held(p) == own' = own \ {p}

\* The active generation has the component with this reuse key, and its process.
Reusable(c) ==
  {p \in snapshots[ActiveGeneration].procs :
     ~reload.force /\ processes[p].key = Key(c)}

Reuse(c) ==
  \E p \in Reusable(c) :
    /\ reload' = [reload EXCEPT !.todo = @ \ {c}, !.reused = @ \cup {p}]
    /\ Held(p)
    /\ UNCHANGED <<snapshots, processes, instances, launched, leases, retired,
                   draining, stopping, leasers>>

\* launch_process answers with the instance it has, unless that one is over.
Existing(k) ==
  instances[k] # 0 /\ processes[instances[k]].state # "Stopped"

ReloadFinds(c) ==
  LET p == instances[Key(c)] IN
  /\ Reusable(c) = {} /\ Existing(Key(c))
  /\ reload' = [reload EXCEPT !.todo = @ \ {c}, !.started = @ \cup {p}]
  /\ Held(p)
  /\ UNCHANGED <<snapshots, processes, instances, launched, leases, retired,
                 draining, stopping, leasers>>

\* single_flights lets a second launch of a key wait for the first, so that a launch
\* is one step; the process is Ready then, and inserted in another step.
Launch(k) ==
  /\ Len(processes) < MaxProcesses
  /\ processes' = Append(processes, [key |-> k, state |-> "Ready"])

ReloadLaunches(c) ==
  /\ Reusable(c) = {} /\ ~Existing(Key(c))
  /\ Launch(Key(c))
  /\ own' = own \cup {Len(processes) + 1}
  /\ reload' = [reload EXCEPT !.todo = @ \ {c}, !.started = @ \cup {Len(processes) + 1}]
  /\ launched' = launched \cup {Len(processes) + 1}
  /\ UNCHANGED <<snapshots, instances, leases, retired, draining, stopping, leasers>>

\* A component fails to launch, or to initialize or describe itself when it was
\* launched: an optional one is a diagnostic.
OptionalFails(c) ==
  /\ c \notin Required /\ Reusable(c) = {}
  /\ reload' = [reload EXCEPT !.todo = @ \ {c}]
  /\ UNCHANGED <<snapshots, processes, instances, launched, leases, retired,
                 draining, stopping, leasers, own>>

\* A candidate that is dropped stops everything it was told it started.
Dropped ==
  /\ stopping' = stopping \cup reload.started
  /\ reload' = NoReload
  /\ UNCHANGED <<snapshots, processes, instances, launched, leases, retired,
                 draining, leasers, own>>

RequiredFails ==
  /\ Activating /\ Dropped
  /\ \E c \in Required : reload.comps[c] # Absent /\ Reusable(c) = {}

DryRunEnds == Activating /\ reload.todo = {} /\ reload.dry /\ Dropped

\* publish_snapshot swaps the active snapshot ...
Publish ==
  /\ Activating /\ reload.todo = {} /\ ~reload.dry
  /\ snapshots' = Append(snapshots,
                    [comps |-> reload.comps, procs |-> reload.started \cup reload.reused])
  /\ reload' = [reload EXCEPT !.pc = "published"]
  /\ UNCHANGED <<processes, instances, launched, leases, retired, draining,
                 stopping, leasers, own>>

\* drain_unused_resources: what the other generation does not have by its key.
Unused(previous, current) ==
  {p \in snapshots[previous].procs :
     processes[p].key \notin KeysOf(snapshots[current].procs)}
Drain(procs) == draining' = draining \cup {[proc |-> p, over |-> FALSE] : p \in procs}

\* A bug: the runs that lease a generation are not asked for.
NobodyLeases(gen) == FALSE

HasLeases(gen) == leases[gen] > 0

\* ... then asks for leases of the previous one, which is drained at once ...
TestLeases ==
  LET previous == ActiveGeneration - 1 IN
  /\ reload.pc = "published"
  /\ IF HasLeases(previous)
     THEN reload' = [reload EXCEPT !.pc = "retiring"] /\ UNCHANGED draining
     ELSE reload' = NoReload /\ Drain(Unused(previous, ActiveGeneration))
  /\ UNCHANGED <<snapshots, processes, instances, launched, leases, retired,
                 stopping, leasers, own>>

\* ... or kept for the release of the last lease.
Retire ==
  /\ reload.pc = "retiring"
  /\ retired' = retired \cup {ActiveGeneration - 1}
  /\ reload' = NoReload
  /\ UNCHANGED <<snapshots, processes, instances, launched, leases, draining,
                 stopping, leasers, own>>

-----------------------------------------------------------------------------
(* Runs. *)

\* acquire_lease reads the active snapshot and counts the lease after that.
ReadSnapshot(r) ==
  /\ leasers[r].pc = "idle"
  /\ leasers' = [leasers EXCEPT ![r] = [pc |-> "read", gen |-> ActiveGeneration, timely |-> FALSE]]
  /\ UNCHANGED <<snapshots, processes, instances, launched, leases, retired,
                 draining, stopping, reload, own>>

CountLease(r) ==
  LET g == leasers[r].gen IN
  /\ leasers[r].pc = "read"
  /\ leases' = [leases EXCEPT ![g] = @ + 1]
  /\ leasers' = [leasers EXCEPT ![r].pc = "leased", ![r].timely = (g = ActiveGeneration)]
  /\ UNCHANGED <<snapshots, processes, instances, launched, retired, draining,
                 stopping, reload, own>>

\* A run whose component's process is over launches another one for the key.
Relaunch(r, c) ==
  LET k == <<c, snapshots[leasers[r].gen].comps[c]>> IN
  /\ leasers[r].pc = "leased" /\ k \in ReuseKey /\ ~Existing(k)
  /\ Launch(k)
  /\ launched' = launched \cup {Len(processes) + 1}
  /\ UNCHANGED <<snapshots, instances, leases, retired, draining, stopping,
                 reload, leasers, own>>

Insert(p) ==
  /\ p \in launched
  /\ launched' = launched \ {p}
  /\ instances' = [instances EXCEPT ![processes[p].key] = p]
  /\ UNCHANGED <<snapshots, processes, leases, retired, draining, stopping,
                 reload, leasers, own>>

\* release_lease: the last one drains a generation that is retired.
Release(r) ==
  LET g == leasers[r].gen
      last == leases[g] = 1
  IN /\ leasers[r].pc = "leased"
     /\ leasers' = [leasers EXCEPT ![r] = NoLease]
     /\ leases' = [leases EXCEPT ![g] = @ - 1]
     /\ retired' = IF last THEN retired \ {g} ELSE retired
     /\ IF last /\ g \in retired THEN Drain(Unused(g, ActiveGeneration)) ELSE UNCHANGED draining
     /\ UNCHANGED <<snapshots, processes, instances, launched, stopping, reload,
                    own>>

-----------------------------------------------------------------------------
(* The tasks; transition_to asks no state.  Calls in flight delay a drain by
   at most twenty polls. *)

Becomes(p, state) == processes' = [processes EXCEPT ![p].state = state]

StartDrain(d) ==
  /\ d \in draining /\ ~d.over /\ processes[d.proc].state # "Draining"
  /\ Becomes(d.proc, "Draining")
  /\ UNCHANGED <<snapshots, instances, launched, leases, retired, draining,
                 stopping, reload, leasers, own>>

StopDrained(d) ==
  /\ d \in draining /\ ~d.over /\ processes[d.proc].state = "Draining"
  /\ Becomes(d.proc, "Stopped")
  /\ draining' = (draining \ {d}) \cup {[d EXCEPT !.over = TRUE]}
  /\ UNCHANGED <<snapshots, instances, launched, leases, retired, stopping,
                 reload, leasers, own>>

\* Whatever process the key has by now is forgotten.
ForgetDrained(d) ==
  /\ d \in draining /\ d.over
  /\ draining' = draining \ {d}
  /\ instances' = [instances EXCEPT ![processes[d.proc].key] = 0]
  /\ UNCHANGED <<snapshots, processes, launched, leases, retired, stopping,
                 reload, leasers, own>>

\* shutdown_started_processes; the instances keep the stopped process.
StopStarted(p) ==
  /\ p \in stopping
  /\ IF processes[p].state = "Stopping"
     THEN Becomes(p, "Stopped") /\ stopping' = stopping \ {p}
     ELSE Becomes(p, "Stopping") /\ UNCHANGED stopping
  /\ UNCHANGED <<snapshots, instances, launched, leases, retired, draining,
                 reload, leasers, own>>

ExtensionsNext ==
  \/ \E comps \in Configured, force, dry \in BOOLEAN : ReloadBegins(comps, force, dry)
  \/ \E c \in reload.todo :
       Activating /\ (Reuse(c) \/ ReloadFinds(c) \/ ReloadLaunches(c) \/ OptionalFails(c))
  \/ RequiredFails
  \/ DryRunEnds \/ Publish \/ TestLeases \/ Retire
  \/ \E r \in Leasers :
       \/ ReadSnapshot(r) \/ CountLease(r) \/ Release(r)
       \/ \E c \in Components : Relaunch(r, c)
  \/ \E p \in launched : Insert(p)
  \/ \E d \in draining : StartDrain(d) \/ StopDrained(d) \/ ForgetDrained(d)
  \/ \E p \in stopping : StopStarted(p)

ExtensionsSpec == ExtensionsInit /\ [][ExtensionsNext]_extensionVars

-----------------------------------------------------------------------------
(* Properties. *)

\* A run that leased the active generation finds the processes that were launched
\* for this generation alone callable until it releases the lease, whatever reloads,
\* dry runs and failures, other runs and drains come between.
LeasedStaysCallable ==
  \A r \in Leasers :
    leasers[r].pc = "leased" /\ leasers[r].timely =>
      \A p \in snapshots[leasers[r].gen].procs :
        p \in own => processes[p].state = "Ready"

\* A reload that fails or is a dry run leaves the active generation callable: it
\* stops only processes that the active generation does not have.
ReloadKeepsActive ==
  [][\A p \in stopping' \ stopping : p \notin snapshots[ActiveGeneration].procs]_extensionVars
=============================================================================
