----------------------------- MODULE Reconciler -----------------------------
(***************************************************************************)
(* The scaler (internal/scaler): the listener's callbacks, which record    *)
(* demand and job events, and the reconcile loop, which observes, plans    *)
(* and acts.  Every GitHub or Oxide call is a step of its own, so callbacks*)
(* and the platform interleave with a reconciliation between any two of    *)
(* its calls and make the snapshot it works from stale.                    *)
(***************************************************************************)
EXTENDS Platform, Integers, FiniteSets, FiniteSetsExt

CONSTANTS
  NoName,                \* cur when no teardown is being driven
  Configs,               \* the [min, max] settings a process may start with
  MaxDemand,             \* bound: the largest demand GitHub reports
  MaxRestarts,           \* bound: how often the process is restarted
  ProvisionConcurrency   \* provisionConcurrency

ASSUME ConstantsAssumption ==
  /\ NoName \notin Names
  /\ \A c \in Configs : c \in [min : Nat, max : Nat] /\ c.min <= c.max
  /\ MaxDemand \in Nat
  /\ MaxRestarts \in Nat
  /\ ProvisionConcurrency \in Nat \ {0}

\* The runners are the entries of a map, which loops and len count.
ASSUME NamesAssumption == IsFiniteSet(Names)

VARIABLES
  config,           \* Scaler.minRunners and maxRunners
  desired,          \* Scaler.desiredRunnerCount; -1 before the first report
  inbox,            \* Scaler.jobEvents, a set: see JobEventsCommute
  demand,           \* reconcileState.desiredRunnerCount
  runners,          \* reconcileState.runners
  auditDue,         \* githubAuditInterval has passed since lastGitHubAudit
  requeue,          \* reconcileResult.nextReconcile is set
  target,           \* local target of reconcile; -1 when there is none
  pc,               \* where the reconcile loop stands
  todo,             \* the names a loop over state.runners has not visited
  cur,              \* the runner whose teardown is being driven
  instanceDeleted,  \* local of teardown
  prov,             \* prov[n]: the goroutine that provisions n
  restarts          \* counts restarts against MaxRestarts

inputVars == <<config, desired, inbox, restarts>>
planVars == <<demand, auditDue, target, prov>>
workVars == <<todo, cur, instanceDeleted>>
loopVars == <<runners, requeue, pc, planVars, workVars>>
processVars == <<inputVars, loopVars>>
vars == <<platformVars, processVars>>

PCs == {"down", "idle", "instances", "disks", "audit", "reclaim", "act",
        "lookup", "remove", "instance", "disk", "image", "provision", "drained"}

Provisions == {"unused", "queued", "registered", "created", "failed"}

TypeOK ==
  /\ PlatformTypeOK
  /\ config \in Configs
  /\ desired \in -1 .. MaxDemand
  /\ inbox \subseteq Names \X {"started", "completed"}
  /\ demand \in -1 .. MaxDemand
  /\ runners \in [Names -> Runners]
  /\ auditDue \in BOOLEAN
  /\ requeue \in BOOLEAN
  /\ target \in Nat \union {-1}
  /\ pc \in PCs
  /\ todo \subseteq Names
  /\ cur \in Names \union {NoName}
  /\ instanceDeleted \in BOOLEAN
  /\ prov \in [Names -> Provisions]
  /\ restarts \in 0 .. MaxRestarts

-----------------------------------------------------------------------------
(* Counting and choosing runners in a view (a value of runners). *)

AtMost(a, b) == IF a < b THEN a ELSE b
AtLeast(a, b) == IF a > b THEN a ELSE b

ActiveRunners(view) == {n \in Names : Active(view[n])}
ActiveRunnerCount(view) == Cardinality(ActiveRunners(view))

\* Seeded fault: halted instances and those being torn down are left out.
Faulty_InstanceCount(view) == ActiveRunnerCount(view)

InstanceCount(view) == Cardinality({n \in Names : view[n].instance # "absent"})

PastGracePeriod(n) == age[n] # "young"
ProvisioningTimedOut(n, r) == r.instance = "starting" /\ age[n] = "overdue"

\* Seeded fault: the grace period is ignored.
Faulty_Settled(n, r) == r.instance # "absent" /\ ~TearingDown(r)

Settled(n, r) == r.instance # "absent" /\ ~TearingDown(r) /\ PastGracePeriod(n)

\* Seeded fault: only provisioning that takes too long is noticed.
Faulty_MarkedForInstance(n, r) ==
  IF Settled(n, r) /\ ProvisioningTimedOut(n, r)
  THEN MarkForTeardown(r, "permanent") ELSE r

\* markInstancesForTeardown, for one runner.
MarkedForInstance(n, r) ==
  IF Settled(n, r) /\ (InstanceHalted(r.instance) \/ ProvisioningTimedOut(n, r))
  THEN MarkForTeardown(r, "permanent") ELSE r

\* Seeded fault: only the disks of existing instances are looked at.
Faulty_MarkedForDisk(n, r) ==
  IF r.disk # "absent" /\ r.instance # "absent" /\ ~TearingDown(r) /\ PastGracePeriod(n)
  THEN MarkForTeardown(r, "permanent") ELSE r

\* markDisksForTeardown, for one runner.
MarkedForDisk(n, r) ==
  IF r.disk # "absent" /\ r.instance = "absent" /\ ~TearingDown(r) /\ PastGracePeriod(n)
  THEN MarkForTeardown(r, "permanent") ELSE r

AuditCandidates(view) ==
  {n \in Names : Settled(n, view[n]) /\ ~InstanceHalted(view[n].instance)}

\* Seeded fault: busy runners are candidates.
Faulty_ScaleDownCandidates(view) == AuditCandidates(view)

ScaleDownCandidates(view) == {n \in AuditCandidates(view) : ~view[n].busy}

Reclaimable(view) ==
  {n \in Names :
    /\ view[n].instance # "absent"
    /\ ~InstanceHalted(view[n].instance)
    /\ CanCancelForCapacity(view[n].teardown)}

\* A name that newRunnerName may return: random, so nothing bears it yet.
FreshNames ==
  {n \in Names :
    /\ n \notin registered /\ n \notin late
    /\ runState[n] = "absent" /\ disk[n] = "absent"
    /\ job[n] = "none" /\ age[n] = "young"
    /\ runners[n] = EmptyRunner}

-----------------------------------------------------------------------------
(* Start and end of a reconciliation. *)

\* reconcile returns with view as the runner view.  The snapshots in it are
\* dropped, because the next observation overwrites them before any read; no
\* property reads them before it either.
ReturnToRun(view, rq) ==
  /\ runners' = [n \in Names |->
                   [view[n] EXCEPT !.instance = "absent", !.disk = "absent"]]
  /\ requeue' = rq
  /\ demand' = -1
  /\ target' = -1
  /\ prov' = [n \in Names |-> "unused"]
  /\ UNCHANGED <<auditDue, cur, instanceDeleted>>

\* Seeded fault: drained when nothing is active any more.
Faulty_EndReconcile(view, rq) ==
  /\ ReturnToRun(view, rq \/ \E n \in Names : TearingDown(view[n]))
  /\ pc' = IF config.max = 0 /\ ActiveRunners(view) = {} THEN "drained" ELSE "idle"
  /\ UNCHANGED todo

\* The last lines of a reconciliation that observed the platform.
EndReconcile(view, rq) ==
  /\ ReturnToRun(view, rq \/ \E n \in Names : TearingDown(view[n]))
  /\ pc' = IF config.max = 0 /\ \A n \in Names : view[n] = EmptyRunner
           THEN "drained" ELSE "idle"
  /\ UNCHANGED todo

\* processJobEvents: the demand and the inbox are taken under one lock.
StartReconcile ==
  /\ pc = "idle"
  /\ demand' = desired
  /\ inbox' = {}
  /\ runners' =
       [n \in Names |->
         LET r == IF <<n, "started">> \in inbox THEN JobStarted(runners[n])
                                                ELSE runners[n]
         IN  IF <<n, "completed">> \in inbox THEN JobCompleted(r) ELSE r]
  /\ requeue' = FALSE
  /\ pc' = "instances"
  /\ UNCHANGED <<platformVars, workVars, config, desired, auditDue, target, prov, restarts>>

\* observeRunners joins both lists after both arrived; nothing reads the
\* first one before the second, so it is entered in the view at once.
ListInstances ==
  /\ pc = "instances"
  /\ runners' = [n \in Names |-> [runners[n] EXCEPT !.instance = runState[n]]]
  /\ pc' = "disks"
  /\ UNCHANGED <<platformVars, inputVars, planVars, workVars, requeue>>

\* The second list completes the observation, and the plan starts.
ListDisks ==
  /\ pc = "disks"
  /\ LET observed == [n \in Names |-> [runners[n] EXCEPT !.disk = disk[n]]]
         marked == [n \in Names |->
                     MarkedForDisk(n, MarkedForInstance(n, observed[n]))]
     IN  /\ runners' = marked
         /\ IF auditDue
            THEN pc' = "audit" /\ todo' = AuditCandidates(marked)
            ELSE pc' = "reclaim" /\ UNCHANGED todo
  /\ UNCHANGED <<platformVars, inputVars, planVars, requeue, cur, instanceDeleted>>

\* Seeded fault: a failed observation asks for no retry.
Faulty_ObserveFails ==
  /\ "api" \in Disturbances
  /\ pc \in {"instances", "disks"}
  /\ ReturnToRun(runners, FALSE)
  /\ pc' = "idle"
  /\ UNCHANGED <<platformVars, inputVars, todo>>

ObserveFails ==
  /\ "api" \in Disturbances
  /\ pc \in {"instances", "disks"}
  /\ ReturnToRun(runners, TRUE)
  /\ pc' = "idle"
  /\ UNCHANGED <<platformVars, inputVars, todo>>

-----------------------------------------------------------------------------
(* markRegistrationsForTeardown.  The result is still empty when the audit *)
(* starts, so during it requeue is the local flag retry.                   *)

\* Seeded fault: the phase advances before there is a teardown.
Faulty_AuditRunner(n) ==
  /\ pc = "audit"
  /\ n \in todo
  /\ runners' = IF n \in registered THEN runners
                ELSE [runners EXCEPT ![n].teardown = BeginDeprovisioning(@)]
  /\ todo' = todo \ {n}
  /\ UNCHANGED <<platformVars, inputVars, planVars, requeue, pc, cur, instanceDeleted>>

AuditRunner(n) ==
  /\ pc = "audit"
  /\ n \in todo
  /\ runners' =
       IF n \in registered THEN runners
       ELSE [runners EXCEPT ![n].teardown = BeginDeprovisioning(NewTeardown("permanent"))]
  /\ todo' = todo \ {n}
  /\ UNCHANGED <<platformVars, inputVars, planVars, requeue, pc, cur, instanceDeleted>>

AuditRunnerFails(n) ==
  /\ "api" \in Disturbances
  /\ pc = "audit"
  /\ n \in todo
  /\ todo' = todo \ {n}
  /\ requeue' = TRUE
  /\ UNCHANGED <<platformVars, inputVars, planVars, runners, pc, cur, instanceDeleted>>

AuditDone ==
  /\ pc = "audit"
  /\ todo = {}
  /\ auditDue' = requeue
  /\ pc' = "reclaim"
  /\ UNCHANGED <<platformVars, inputVars, workVars, demand, runners, requeue, target, prov>>

-----------------------------------------------------------------------------
(* The target and cancelPendingScaleDowns. *)

\* Seeded fault: no demand is taken for unknown demand.
Faulty_Target == IF demand <= 0 THEN -1 ELSE AtMost(demand + config.min, config.max)

Target == IF demand < 0 THEN -1 ELSE AtMost(demand + config.min, config.max)

\* Seeded fault: runners being torn down count as available.
Faulty_Missing(view) == AtLeast(Target - InstanceCount(view), 0)

Missing(view) == AtLeast(Target - ActiveRunnerCount(view), 0)

Reclaim ==
  /\ pc = "reclaim"
  /\ target' = Target
  /\ LET candidates == Reclaimable(runners)
         selected == AtMost(Missing(runners), Cardinality(candidates))
     IN  \E chosen \in kSubset(selected, candidates) :
           /\ runners' = [n \in Names |->
                IF n \in chosen THEN [runners[n] EXCEPT !.teardown = NoTeardown]
                                ELSE runners[n]]
           /\ todo' = {n \in Names \ chosen : TearingDown(runners[n])}
  /\ pc' = "act"
  /\ UNCHANGED <<platformVars, inputVars, demand, auditDue, requeue, cur, instanceDeleted, prov>>

-----------------------------------------------------------------------------
(* teardown, one runner after another in any order. *)

\* teardown(cur) returns with rq as its deadline.
Return(rq) ==
  /\ requeue' = (requeue \/ rq)
  /\ pc' = "act"
  /\ cur' = NoName
  /\ instanceDeleted' = FALSE

BeginTeardown(n) ==
  /\ pc = "act"
  /\ n \in todo
  /\ todo' = todo \ {n}
  /\ LET t == runners[n].teardown
     IN  IF t.phase = "window" /\ t.waiting
         THEN Return(TRUE) /\ UNCHANGED runners
         ELSE /\ runners' = [runners EXCEPT ![n].teardown =
                               IF @.phase = "window" THEN BeginRemovingRegistration(@)
                                                     ELSE @]
              /\ pc' = IF t.phase = "deprovisioning" THEN "instance" ELSE "lookup"
              /\ cur' = n
              /\ UNCHANGED <<requeue, instanceDeleted>>
  /\ UNCHANGED <<platformVars, inputVars, planVars>>

\* Seeded fault: the registration is found and not removed.
Faulty_LookupRegistration ==
  /\ pc = "lookup"
  /\ runners' = [runners EXCEPT ![cur].teardown = BeginDeprovisioning(@)]
  /\ pc' = "instance"
  /\ UNCHANGED <<platformVars, inputVars, planVars, workVars, requeue>>

\* removeRunner: GetRunnerByName.
LookupRegistration ==
  /\ pc = "lookup"
  /\ IF cur \in registered
     THEN pc' = "remove" /\ UNCHANGED runners
     ELSE /\ runners' = [runners EXCEPT ![cur].teardown = BeginDeprovisioning(@)]
          /\ pc' = "instance"
  /\ UNCHANGED <<platformVars, inputVars, planVars, workVars, requeue>>

\* removeRunner: RemoveRunner.
RemoveRegistration ==
  /\ pc = "remove"
  /\ Unregisters(cur)
  /\ runners' = [runners EXCEPT ![cur].teardown = BeginDeprovisioning(@)]
  /\ pc' = "instance"
  /\ UNCHANGED <<inputVars, planVars, workVars, requeue>>

\* Seeded fault: a permanent teardown goes on although the job still runs.
Faulty_JobStillRunning ==
  /\ pc = "remove"
  /\ job[cur] = "running"
  /\ runners' = [runners EXCEPT ![cur].teardown = BeginDeprovisioning(@)]
  /\ pc' = "instance"
  /\ UNCHANGED <<platformVars, inputVars, planVars, workVars, requeue>>

\* RemoveRunner answers JobStillRunningError.
JobStillRunning ==
  /\ pc = "remove"
  /\ job[cur] = "running"
  /\ runners' = [runners EXCEPT ![cur] = FoundRunningAJob(@)]
  /\ Return(runners[cur].teardown.policy = "permanent")
  /\ UNCHANGED <<platformVars, inputVars, planVars, todo>>

DeleteInstance ==
  /\ pc = "instance"
  /\ runners[cur].instance \in {"stopped", "failed"}
  /\ DeletesInstance(cur)
  /\ runners' = [runners EXCEPT ![cur].instance = "absent"]
  /\ instanceDeleted' = TRUE
  /\ pc' = "disk"
  /\ UNCHANGED <<inputVars, planVars, requeue, todo, cur>>

InstanceGone ==
  /\ pc = "instance"
  /\ runners[cur].instance \in {"absent", "destroyed"}
  /\ runners' = [runners EXCEPT ![cur].instance = "absent"]
  /\ pc' = "disk"
  /\ UNCHANGED <<platformVars, inputVars, planVars, workVars, requeue>>

\* Seeded fault: a stopping instance is not waited for.
Faulty_AwaitStop ==
  /\ pc = "instance"
  /\ runners[cur].instance = "stopping"
  /\ pc' = "disk"
  /\ UNCHANGED <<platformVars, inputVars, planVars, workVars, runners, requeue>>

AwaitStop ==
  /\ pc = "instance"
  /\ runners[cur].instance = "stopping"
  /\ Return(TRUE)
  /\ UNCHANGED <<platformVars, inputVars, planVars, runners, todo>>

StopInstance ==
  /\ pc = "instance"
  /\ runners[cur].instance \in {"starting", "running"}
  /\ StopsInstance(cur)
  /\ Return(TRUE)
  /\ UNCHANGED <<inputVars, planVars, runners, todo>>

\* Seeded fault: a disk that still looks attached is deleted as well.
Faulty_DiskDeletable == TRUE

DiskDeletable == instanceDeleted \/ runners[cur].disk \in {"detached", "faulted"}

DeleteDisk ==
  /\ pc = "disk"
  /\ runners[cur].disk # "absent"
  /\ DiskDeletable
  /\ DeletesDisk(cur)
  /\ runners' = [runners EXCEPT ![cur] =
                   [@ EXCEPT !.disk = "absent", !.teardown = NoTeardown]]
  /\ Return(FALSE)
  /\ UNCHANGED <<inputVars, planVars, todo>>

AwaitDetach ==
  /\ pc = "disk"
  /\ runners[cur].disk # "absent"
  /\ ~DiskDeletable
  /\ Return(TRUE)
  /\ UNCHANGED <<platformVars, inputVars, planVars, runners, todo>>

NoDiskLeft ==
  /\ pc = "disk"
  /\ runners[cur].disk = "absent"
  /\ runners' = [runners EXCEPT ![cur].teardown = NoTeardown]
  /\ Return(FALSE)
  /\ UNCHANGED <<platformVars, inputVars, planVars, todo>>

\* A call of the teardown fails.  The caller cannot tell whether it took
\* effect, and asks to be driven again.
TeardownCallFails ==
  /\ "api" \in Disturbances
  /\ \/ pc = "lookup" /\ UNCHANGED platformVars
     \/ pc = "remove" /\ (Unregisters(cur) \/ UNCHANGED platformVars)
     \/ /\ pc = "instance"
        /\ runners[cur].instance \in {"stopped", "failed"}
        /\ DeletesInstance(cur) \/ UNCHANGED platformVars
     \/ /\ pc = "instance"
        /\ runners[cur].instance \in {"starting", "running"}
        /\ StopsInstance(cur) \/ UNCHANGED platformVars
     \/ /\ pc = "disk"
        /\ runners[cur].disk # "absent" /\ DiskDeletable
        /\ DeletesDisk(cur) \/ UNCHANGED platformVars
  /\ Return(TRUE)
  /\ UNCHANGED <<inputVars, planVars, runners, todo>>

-----------------------------------------------------------------------------
(* After the teardowns: prune, then scaleUp or scaleDown. *)

PrunedView == [n \in Names |-> Pruned(runners[n])]

Requested ==
  AtMost(target - ActiveRunnerCount(PrunedView),
         AtLeast(config.max - InstanceCount(PrunedView), 0))

\* Nothing to scale: demand unknown or met, or no capacity for scaleUp.
HoldScale ==
  /\ pc = "act"
  /\ todo = {}
  /\ \/ target < 0
     \/ ActiveRunnerCount(PrunedView) = target
     \/ ActiveRunnerCount(PrunedView) < target /\ Requested <= 0
  /\ EndReconcile(PrunedView, requeue)
  /\ UNCHANGED <<platformVars, inputVars>>

\* Oldest first: nobody is chosen over a candidate that is clearly older.
OldestFirst(chosen, candidates) ==
  \A n \in chosen, m \in candidates \ chosen : ~(age[n] = "aged" /\ age[m] = "overdue")

ScaleDown ==
  /\ pc = "act"
  /\ todo = {}
  /\ target >= 0
  /\ ActiveRunnerCount(PrunedView) > target
  /\ LET candidates == ScaleDownCandidates(PrunedView)
         selected == AtMost(ActiveRunnerCount(PrunedView) - target, Cardinality(candidates))
     IN  \E chosen \in kSubset(selected, candidates) :
           /\ OldestFirst(chosen, candidates)
           /\ EndReconcile([n \in Names |->
                IF n \in chosen THEN MarkForTeardown(PrunedView[n], "cancelable")
                                ELSE PrunedView[n]],
                requeue \/ chosen # {})
  /\ UNCHANGED <<platformVars, inputVars>>

StartScaleUp ==
  /\ pc = "act"
  /\ todo = {}
  /\ ActiveRunnerCount(PrunedView) < target
  /\ Requested > 0
  /\ runners' = PrunedView
  /\ pc' = "image"
  /\ UNCHANGED <<platformVars, inputVars, planVars, workVars, requeue>>

\* The image is known: one goroutine for each requested runner (as far as
\* Names, which bounds how many runners there are at once, has a name left).
FetchImage ==
  /\ pc = "image"
  /\ \E chosen \in kSubset(AtMost(Requested, Cardinality(FreshNames)), FreshNames) :
       prov' = [n \in Names |-> IF n \in chosen THEN "queued" ELSE "unused"]
  /\ pc' = "provision"
  /\ UNCHANGED <<platformVars, inputVars, workVars, demand, runners, auditDue, requeue, target>>

FetchImageFails ==
  /\ "api" \in Disturbances
  /\ pc = "image"
  /\ EndReconcile(runners, TRUE)
  /\ UNCHANGED <<platformVars, inputVars>>

-----------------------------------------------------------------------------
(* provisionRunners: the goroutines, and the wait for all of them. *)

Provisioning(n, status) ==
  /\ pc = "provision"
  /\ prov' = [prov EXCEPT ![n] = status]
  /\ UNCHANGED <<inputVars, workVars, demand, runners, auditDue, requeue, target, pc>>

HasSlot(n) ==
  /\ prov[n] = "queued"
  /\ Cardinality({m \in Names : prov[m] = "registered"}) < ProvisionConcurrency

RegisterRunner(n) ==
  HasSlot(n) /\ Registers(n) /\ Provisioning(n, "registered")

RegisterRunnerFails(n) ==
  /\ "api" \in Disturbances
  /\ HasSlot(n)
  /\ Registers(n) \/ UNCHANGED platformVars
  /\ Provisioning(n, "failed")

CreateInstance(n) ==
  prov[n] = "registered" /\ CreatesInstance(n) /\ Provisioning(n, "created")

CreateInstanceFails(n) ==
  /\ "api" \in Disturbances
  /\ prov[n] = "registered"
  /\ CreatesInstance(n) \/ CreatesInstanceLate(n) \/ UNCHANGED platformVars
  /\ Provisioning(n, "failed")

\* Seeded fault: a failed attempt leaves no trace.
Faulty_Provisioned(n) ==
  IF prov[n] = "created" THEN [runners[n] EXCEPT !.instance = "starting"] ELSE runners[n]

\* What becomes of the entry of n: the instance that was created, or a teardown.
Provisioned(n) ==
  IF prov[n] = "created" THEN [runners[n] EXCEPT !.instance = "starting"]
  ELSE IF prov[n] = "failed" THEN MarkForTeardown(runners[n], "permanent")
  ELSE runners[n]

JoinProvision ==
  /\ pc = "provision"
  /\ \A n \in Names : prov[n] \in {"unused", "created", "failed"}
  /\ EndReconcile([n \in Names |-> Provisioned(n)],
                  requeue \/ \E n \in Names : prov[n] = "failed")
  /\ UNCHANGED <<platformVars, inputVars>>

-----------------------------------------------------------------------------
(* The listener's callbacks, and the clock. *)

Up == pc \notin {"down", "drained"}

HandleDesiredRunnerCount(count) ==
  /\ Up
  /\ desired' = count
  /\ UNCHANGED <<platformVars, config, inbox, loopVars, restarts>>

HandleJobStarted(n) ==
  /\ Up
  /\ job[n] # "none" /\ told[n] = "nothing"
  /\ told' = [told EXCEPT ![n] = "started"]
  /\ inbox' = inbox \union {<<n, "started">>}
  /\ UNCHANGED <<registered, job, oxideVars, config, desired, loopVars, restarts>>

HandleJobCompleted(n) ==
  /\ Up
  /\ job[n] = "completed" /\ told[n] = "started"
  /\ told' = [told EXCEPT ![n] = "completed"]
  /\ inbox' = inbox \union {<<n, "completed">>}
  /\ UNCHANGED <<registered, job, oxideVars, config, desired, loopVars, restarts>>

\* registrationRemovalAfter passes.
WindowCloses(n) ==
  /\ runners[n].teardown.waiting
  /\ runners' = [runners EXCEPT ![n].teardown.waiting = FALSE]
  /\ UNCHANGED <<platformVars, inputVars, planVars, workVars, requeue, pc>>

\* githubAuditInterval has passed.  Only ListDisks reads it, so no more than
\* one place in the loop where it comes true has to be modelled.
AuditComesDue ==
  /\ pc = "idle"
  /\ ~auditDue
  /\ auditDue' = TRUE
  /\ UNCHANGED <<platformVars, inputVars, workVars, demand, runners, requeue, target, pc, prov>>

-----------------------------------------------------------------------------
(* The process. *)

FreshMemory ==
  /\ desired' = -1
  /\ inbox' = {}
  /\ demand' = -1
  /\ runners' = [n \in Names |-> EmptyRunner]
  /\ auditDue' = TRUE
  /\ requeue' = FALSE
  /\ target' = -1
  /\ todo' = {}
  /\ cur' = NoName
  /\ instanceDeleted' = FALSE
  /\ prov' = [n \in Names |-> "unused"]

\* The process dies, or is stopped, between any two of its steps.
Crash ==
  /\ "crash" \in Disturbances
  /\ restarts < MaxRestarts
  /\ Up
  /\ FreshMemory
  /\ pc' = "down"
  /\ restarts' = restarts + 1
  /\ UNCHANGED <<platformVars, config>>

\* It starts again, perhaps with another configuration.
Restart ==
  /\ pc = "down"
  /\ config' \in Configs
  /\ pc' = "idle"
  /\ UNCHANGED <<platformVars, planVars, workVars, desired, inbox, runners, requeue, restarts>>

\* newRunnerName never returns a name twice.  Once nothing refers to a name
\* any more, it stands for one that was never used.
NameIsFreshAgain(n) ==
  /\ n \notin registered /\ n \notin late
  /\ runState[n] = "absent" /\ disk[n] = "absent"
  /\ job[n] # "running"
  /\ job[n] = told[n] \/ (job[n] = "none" /\ age[n] # "young")
  /\ runners[n] = EmptyRunner /\ prov[n] = "unused"
  /\ \A status \in {"started", "completed"} : <<n, status>> \notin inbox
  /\ job' = [job EXCEPT ![n] = "none"]
  /\ told' = [told EXCEPT ![n] = "nothing"]
  /\ age' = [age EXCEPT ![n] = "young"]
  /\ UNCHANGED <<registered, runState, disk, late, processVars>>

-----------------------------------------------------------------------------
Init ==
  /\ PlatformInit
  /\ config \in Configs
  /\ desired = -1
  /\ inbox = {}
  /\ demand = -1
  /\ runners = [n \in Names |-> EmptyRunner]
  /\ auditDue = TRUE
  /\ requeue = FALSE
  /\ target = -1
  /\ pc = "idle"
  /\ todo = {}
  /\ cur = NoName
  /\ instanceDeleted = FALSE
  /\ prov = [n \in Names |-> "unused"]
  /\ restarts = 0

Gather == StartReconcile \/ ListInstances \/ ListDisks \/ ObserveFails

Audit ==
  AuditDone \/ \E n \in Names : AuditRunner(n) \/ AuditRunnerFails(n)

Teardown ==
  \/ \E n \in Names : BeginTeardown(n)
  \/ LookupRegistration \/ RemoveRegistration \/ JobStillRunning
  \/ DeleteInstance \/ InstanceGone \/ AwaitStop \/ StopInstance
  \/ DeleteDisk \/ AwaitDetach \/ NoDiskLeft
  \/ TeardownCallFails

Scale == Reclaim \/ HoldScale \/ ScaleDown \/ StartScaleUp \/ FetchImage \/ FetchImageFails

Provision ==
  \/ \E n \in Names : RegisterRunner(n) \/ RegisterRunnerFails(n)
                      \/ CreateInstance(n) \/ CreateInstanceFails(n)
  \/ JoinProvision

Loop == Gather \/ Audit \/ Teardown \/ Scale \/ Provision

Listen ==
  \/ \E count \in 0 .. MaxDemand : HandleDesiredRunnerCount(count)
  \/ \E n \in Names : HandleJobStarted(n) \/ HandleJobCompleted(n)

Clock == AuditComesDue \/ \E n \in Names : WindowCloses(n)

World ==
  \/ PlatformStep /\ UNCHANGED processVars
  \/ \E n \in Names : NameIsFreshAgain(n)

Next == Loop \/ Listen \/ Clock \/ World \/ Crash \/ Restart

Spec == Init /\ [][Next]_vars

-----------------------------------------------------------------------------
(* Fairness.  The loop runs again at the latest when its ticker fires, the *)
(* listener hands over the session's first statistics and what GitHub sends*)
(* after them, time passes, jobs end (or GitHub gives them up), stopping   *)
(* instances stop, and the supervisor restarts the process.  Nothing makes *)
(* an instance boot, a job arrive or the demand change.                    *)

PlatformFairness(n) ==
  WF_vars(/\ JobEnds(n) \/ RegistrationLapses(n) \/ StopCompletes(n)
             \/ DestroyedVanishes(n) \/ GrowsOlder(n)
          /\ UNCHANGED processVars)

Fairness ==
  /\ WF_vars(Loop)
  /\ WF_vars(Restart)
  /\ SF_vars(AuditComesDue)
  /\ WF_vars(desired = -1 /\ \E count \in 0 .. MaxDemand : HandleDesiredRunnerCount(count))
  /\ \A n \in Names :
       /\ WF_vars(HandleJobStarted(n) \/ HandleJobCompleted(n))
       /\ WF_vars(WindowCloses(n))
       /\ WF_vars(NameIsFreshAgain(n))
       /\ PlatformFairness(n)

FairSpec == Spec /\ Fairness

-----------------------------------------------------------------------------
(* Safety *)

\* The instances there are; a destroyed one is only listed for a while.
Existing == {n \in Names : runState[n] \notin {"absent", "destroyed"}}

\* The phase deprovisioning means "the registration is known to be gone"
\* (teardownPhaseDeprovisioning), also while answers get lost, registrations
\* are removed by others and names are provisioned concurrently.
DeprovisioningIsUnregistered ==
  \A n \in Names : runners[n].teardown.phase = "deprovisioning" => n \notin registered

\* The scaler never stops the instance under a job that is running: whatever
\* it remembers or has forgotten, GitHub's refusal comes first.
NeverStopsARunningJob ==
  [][\A n \in Names :
       job[n] = "running" /\ runState[n] # "stopping" => runState'[n] # "stopping"]_vars

\* The order of teardown, first half: the scaler deletes neither the instance
\* nor the disk of a runner that GitHub could still send a job to.
RegistrationGoesFirst ==
  [][\A n \in registered :
       /\ disk[n] # "absent" => disk'[n] # "absent"
       /\ runState[n] \notin {"absent", "destroyed"} => runState'[n] # "absent"]_vars

\* Second half: the disk of a runner is only deleted after its instance.
DiskGoesLast ==
  [][\A n \in Names :
       disk[n] # "absent" /\ disk'[n] = "absent"
         => runState[n] \in {"absent", "destroyed"}]_vars

\* What teardown deletes on the word of its snapshot can be deleted by then:
\* the control plane never has to refuse a deletion of an instance that is up
\* or of a disk that is attached.
DeletesAreAccepted ==
  /\ pc = "instance" /\ runners[cur].instance \in {"stopped", "failed"}
       => runState[cur] \notin {"starting", "running", "stopping"}
  /\ pc = "disk" /\ runners[cur].disk # "absent" /\ DiskDeletable
       => disk[cur] # "attached"

\* The last step of teardown(n): neither its instance nor its disk is left.
TeardownEnds(n) == pc = "disk" /\ cur = n /\ Gone(runners'[n])

\* Only cancelable teardowns are ever called off, and none once the
\* registration is gone.  A teardown that is permanent or in deprovisioning ends
\* with its own last step (or the process): no job event that arrives late
\* (processJobEvents), no new demand and no failing call stops it before.
TeardownNeverRegresses ==
  [][\A n \in Names :
       LET t == runners[n].teardown
           after == runners'[n].teardown
       IN  pc' # "down" /\ ~TeardownEnds(n) =>
             /\ t.phase = "deprovisioning" => after.phase = "deprovisioning"
             /\ t.policy = "permanent" => after.policy = "permanent"]_vars

\* "Busy runners [...] are never candidates" of a scale-down (scaleDown): once
\* the start of its job was processed, a runner is not up for removal for lack
\* of demand for as long as the job runs.
BusyRunnersAreSpared ==
  \A n \in Names :
    told[n] = "started" /\ <<n, "started">> \notin inbox /\ job[n] = "running"
      => runners[n].teardown.policy # "cancelable"

\* The loop never rests on a pending teardown without a deadline to return to.
PendingWorkIsScheduled ==
  pc = "idle" => requeue \/ \A n \in Names : ~TearingDown(runners[n])

\* New instances are requested only when no pending scale-down could still be
\* called off instead (cancelPendingScaleDowns runs first for that reason).
ReclaimBeforeProvision ==
  pc \in {"image", "provision"} => Reclaimable(runners) = {}

\* Creating an instance never raises their number above MaxRunners, counting
\* the halted ones and those being torn down (scaleUp).
CreateWithinMax ==
  [][Cardinality(Existing') > Cardinality(Existing) =>
       Cardinality(Existing') <= config.max]_vars

\* MaxRunners, "the maximum number of GitHub Actions runners that will be
\* created", lets users set "a hard limit to manage resource capacity"
\* (doc of Config.MaxRunners): there are never more instances than that.
InstancesWithinMax == Cardinality(Existing) <= config.max

\* ErrScaleSetDrained means that nothing the scale set owns is left.
DrainedMeansEmpty ==
  pc = "drained" => Existing = {} /\ \A n \in Names : disk[n] = "absent"

\* A failed provisioning is never forgotten: between reconciliations, every
\* registration without an instance has a teardown that will remove it.
NoOrphanRegistration ==
  pc = "idle" =>
    \A n \in registered : runState[n] = "absent" => TearingDown(runners[n])

\* While no call fails, resourceGracePeriod protects a new instance that is up
\* from everything but the end of its job.
YoungInstancesAreSpared ==
  \A n \in Names :
    /\ runState[n] \in {"starting", "running"} /\ age[n] = "young"
    /\ TearingDown(runners[n])
    => job[n] = "completed"

-----------------------------------------------------------------------------
(* Liveness *)

CallFails ==
  \/ ObserveFails \/ TeardownCallFails \/ FetchImageFails
  \/ \E n \in Names : \/ AuditRunnerFails(n)
                      \/ RegisterRunnerFails(n) \/ CreateInstanceFails(n)

OutagesEnd == <>[][~CallFails]_vars

DemandSettles == \E count \in -1 .. MaxDemand : <>[](desired = count)

Dead(n) ==
  \/ InstanceHalted(runState[n])
  \/ runState[n] # "absent" /\ n \notin registered
  \/ disk[n] # "absent" /\ runState[n] = "absent"

\* An instance that halted or lost its registration and a disk without an
\* instance are removed in the end, also when the job event was lost.  Demand
\* has to settle: while it keeps rising and falling, every audit may find the
\* runner in a scale-down that is called off again after the audit.
DeadRunnersAreReaped ==
  OutagesEnd /\ DemandSettles =>
    \A n \in Names : Dead(n) ~> runState[n] = "absent" /\ disk[n] = "absent"

\* A scale set started with MaxRunners 0 drains: idle runners are removed,
\* busy ones are waited for, and ErrScaleSetDrained is returned.
DrainCompletes ==
  OutagesEnd => (config.max = 0 ~> pc = "drained" \/ config.max > 0)

\* Demand that persists gets a live instance: capacity taken by dead runners
\* is freed for it.
DemandIsServed ==
  OutagesEnd =>
    (desired > 0 /\ config.max > 0
       ~> \/ desired <= 0 \/ config.max = 0
          \/ \E n \in Names : runState[n] \in {"starting", "running"})

=============================================================================
