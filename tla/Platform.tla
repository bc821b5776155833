------------------------------ MODULE Platform ------------------------------
(***************************************************************************)
(* What lies outside the program: the GitHub service that registers runners*)
(* and runs jobs, and the Oxide control plane that holds the instances and *)
(* boot disks.  Both are modelled from how internal/scaler uses them.  An  *)
(* action of this module is a step they take by themselves; the operators  *)
(* of the last section are the effects of the scaler's API calls.          *)
(***************************************************************************)
EXTENDS RunnerView

CONSTANTS
  Names,          \* runner names; shared by registration, instance and disk
  Disturbances    \* the kinds of failure this instance of the model allows

ASSUME DisturbancesAssumption ==
  Disturbances \subseteq {"api", "late", "crash", "faults", "operator"}

VARIABLES
  registered,     \* names with a runner registration in the scale set
  job,            \* job[n]: the one job an ephemeral runner gets
  told,           \* told[n]: the last event about that job sent to the listener
  runState,       \* runState[n]: state of the Oxide instance
  disk,           \* disk[n]: state of its boot disk
  age,            \* age[n]: young < 5 min <= aged < 10 min <= overdue
  late            \* instance creations accepted and not visible yet

githubVars == <<registered, job, told>>
oxideVars == <<runState, disk, age, late>>
platformVars == <<registered, job, told, runState, disk, age, late>>

PlatformTypeOK ==
  /\ registered \subseteq Names
  /\ job \in [Names -> {"none", "running", "completed"}]
  /\ told \in [Names -> {"nothing", "started", "completed"}]
  /\ runState \in [Names -> RunStates]
  /\ disk \in [Names -> DiskStates]
  /\ age \in [Names -> {"young", "aged", "overdue"}]
  /\ late \subseteq Names

PlatformInit ==
  /\ registered = {}
  /\ job = [n \in Names |-> "none"]
  /\ told = [n \in Names |-> "nothing"]
  /\ runState = [n \in Names |-> "absent"]
  /\ disk = [n \in Names |-> "absent"]
  /\ age = [n \in Names |-> "young"]
  /\ late = {}

-----------------------------------------------------------------------------
(* GitHub *)

\* A job lands on a runner that is online; this needs its registration.
JobAssigned(n) ==
  /\ n \in registered
  /\ runState[n] = "running"
  /\ job[n] = "none"
  /\ job' = [job EXCEPT ![n] = "running"]
  /\ UNCHANGED <<registered, told, oxideVars>>

\* The job ends, or GitHub gives it up because the runner is lost.  Runners
\* are ephemeral: the registration goes with the job.
JobEnds(n) ==
  /\ job[n] = "running"
  /\ job' = [job EXCEPT ![n] = "completed"]
  /\ registered' = registered \ {n}
  /\ UNCHANGED <<told, oxideVars>>

\* GitHub removes registrations that have been offline for a long time.
RegistrationLapses(n) ==
  /\ n \in registered
  /\ runState[n] # "running"
  /\ job[n] = "none"
  /\ age[n] = "overdue"
  /\ registered' = registered \ {n}
  /\ UNCHANGED <<job, told, oxideVars>>

-----------------------------------------------------------------------------
(* Oxide *)

Boots(n) ==
  /\ runState[n] = "starting"
  /\ runState' = [runState EXCEPT ![n] = "running"]
  /\ UNCHANGED <<githubVars, disk, age, late>>

\* The guest powers itself off when the runner process exits; it never does
\* so in the middle of a job.
PowersOff(n) ==
  /\ runState[n] = "running"
  /\ job[n] # "running"
  /\ runState' = [runState EXCEPT ![n] = "stopping"]
  /\ UNCHANGED <<githubVars, disk, age, late>>

StopCompletes(n) ==
  /\ runState[n] = "stopping"
  /\ runState' = [runState EXCEPT ![n] = "stopped"]
  /\ UNCHANGED <<githubVars, disk, age, late>>

InstanceFails(n) ==
  /\ "faults" \in Disturbances
  /\ runState[n] \in {"starting", "running", "stopping"}
  /\ runState' = [runState EXCEPT ![n] = "failed"]
  /\ UNCHANGED <<githubVars, disk, age, late>>

DiskFaults(n) ==
  /\ "faults" \in Disturbances
  /\ disk[n] \in {"attached", "detached"}
  /\ disk' = [disk EXCEPT ![n] = "faulted"]
  /\ UNCHANGED <<githubVars, runState, age, late>>

\* Somebody else deletes a halted instance; it stays listed for a while.
OperatorDeletes(n) ==
  /\ "operator" \in Disturbances
  /\ runState[n] \in {"stopped", "failed"}
  /\ runState' = [runState EXCEPT ![n] = "destroyed"]
  /\ disk' = [disk EXCEPT ![n] = IF @ = "attached" THEN "detached" ELSE @]
  /\ UNCHANGED <<githubVars, age, late>>

DestroyedVanishes(n) ==
  /\ runState[n] = "destroyed"
  /\ runState' = [runState EXCEPT ![n] = "absent"]
  /\ UNCHANGED <<githubVars, disk, age, late>>

\* Time passes for everything called n.
GrowsOlder(n) ==
  /\ n \in registered \/ runState[n] # "absent" \/ disk[n] # "absent"
  /\ age[n] # "overdue"
  /\ age' = [age EXCEPT ![n] = IF @ = "young" THEN "aged" ELSE "overdue"]
  /\ UNCHANGED <<githubVars, runState, disk, late>>

\* The instance and disk of a creation whose request was given up on appear.
LateCreationLands(n) ==
  /\ n \in late
  /\ late' = late \ {n}
  /\ runState' = [runState EXCEPT ![n] = "starting"]
  /\ disk' = [disk EXCEPT ![n] = "attached"]
  /\ age' = [age EXCEPT ![n] = "young"]
  /\ UNCHANGED githubVars

PlatformStep ==
  \E n \in Names :
    \/ JobAssigned(n) \/ JobEnds(n) \/ RegistrationLapses(n)
    \/ Boots(n) \/ PowersOff(n) \/ StopCompletes(n)
    \/ InstanceFails(n) \/ DiskFaults(n)
    \/ OperatorDeletes(n) \/ DestroyedVanishes(n)
    \/ GrowsOlder(n) \/ LateCreationLands(n)

-----------------------------------------------------------------------------
(* The effects of the scaler's calls, each on all the platform's variables. *)

\* GenerateJitRunnerConfig registers the runner.
Registers(n) ==
  /\ registered' = registered \union {n}
  /\ UNCHANGED <<job, told, oxideVars>>

\* RemoveRunner, which GitHub refuses while the runner has a job.
Unregisters(n) ==
  /\ job[n] # "running"
  /\ registered' = registered \ {n}
  /\ UNCHANGED <<job, told, oxideVars>>

\* InstanceCreate creates the instance together with its boot disk.
CreatesInstance(n) ==
  /\ runState' = [runState EXCEPT ![n] = "starting"]
  /\ disk' = [disk EXCEPT ![n] = "attached"]
  /\ age' = [age EXCEPT ![n] = "young"]
  /\ UNCHANGED <<githubVars, late>>

CreatesInstanceLate(n) ==
  /\ "late" \in Disturbances
  /\ late' = late \union {n}
  /\ UNCHANGED <<githubVars, runState, disk, age>>

\* InstanceStop; nothing is left to stop unless the instance is up.
StopsInstance(n) ==
  /\ runState' = [runState EXCEPT ![n] =
                    IF @ \in {"starting", "running"} THEN "stopping" ELSE @]
  /\ UNCHANGED <<githubVars, disk, age, late>>

\* InstanceDelete, accepted for a halted instance only; the boot disk is
\* detached with it.  "absent" and "destroyed" answer ErrObjectNotFound.
DeletesInstance(n) ==
  /\ runState[n] \notin {"starting", "running", "stopping"}
  /\ runState' = [runState EXCEPT ![n] =
                    IF @ \in {"stopped", "failed"} THEN "absent" ELSE @]
  /\ disk' = [disk EXCEPT ![n] = IF @ = "attached" THEN "detached" ELSE @]
  /\ UNCHANGED <<githubVars, age, late>>

\* DiskDelete, refused for a disk that is attached.
DeletesDisk(n) ==
  /\ disk[n] # "attached"
  /\ disk' = [disk EXCEPT ![n] = "absent"]
  /\ UNCHANGED <<githubVars, runState, age, late>>

=============================================================================
