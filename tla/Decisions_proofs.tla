--------------------------- MODULE Decisions_proofs ---------------------------
(***************************************************************************)
(* Whom the scaler tears down and whom it spares: the proofs behind the    *)
(* comments of scaleDown, markInstancesForTeardown and provisionRunners.   *)
(***************************************************************************)
EXTENDS Observation_proofs, FiniteSetTheorems

USE DEF platformVars, githubVars, oxideVars, inputVars, planVars, workVars, loopVars,
        processVars

-----------------------------------------------------------------------------
(* How the record of a runner's job and teardown changes in one step.      *)

SameBusy(n) == runners'[n].busy = runners[n].busy

\* Nothing is decided; pruning forgets a runner of which nothing is left.
Undecided(n) ==
  /\ runners'[n].teardown = runners[n].teardown
  /\ SameBusy(n) \/ (pc = "act" /\ Gone(runners[n]))

\* markInstancesForTeardown, markDisksForTeardown
Marked(n) ==
  /\ pc = "disks" /\ PastGracePeriod(n) /\ SameBusy(n) /\ UNCHANGED platformVars
  /\ runners[n].teardown = NoTeardown /\ runners'[n].teardown.policy = "permanent"

\* markRegistrationsForTeardown
Audited(n) ==
  /\ pc = "audit" /\ n \in todo /\ SameBusy(n) /\ UNCHANGED platformVars
  /\ runners'[n].teardown.policy = "permanent"

\* cancelPendingScaleDowns, and the answer that a job is still running
CalledOff(n) ==
  /\ pc \in {"reclaim", "remove"}
  /\ SameBusy(n) \/ runners'[n].busy
  /\ runners[n].teardown.policy = "cancelable" /\ runners'[n].teardown = NoTeardown

FoundBusy(n) == runners'[n].teardown = runners[n].teardown /\ runners'[n].busy

\* teardown moves on, and registrationRemovalAfter passes.
Driven(n) ==
  /\ SameBusy(n) /\ TearingDown(runners[n])
  /\ runners'[n].teardown.policy = runners[n].teardown.policy
  /\ ~runners'[n].teardown.waiting

Finished(n) ==
  /\ pc = "disk" /\ n = cur /\ SameBusy(n)
  /\ runners'[n].teardown = NoTeardown

\* scaleDown
ScaledDown(n) ==
  /\ pc = "act" /\ n \in ScaleDownCandidates(runners) /\ SameBusy(n) /\ UNCHANGED platformVars
  /\ runners'[n].teardown.policy = "cancelable" /\ pc' \notin Observed

\* provisionRunners, after a failure
GivenUp(n) ==
  /\ prov[n] = "failed" /\ SameBusy(n) /\ UNCHANGED platformVars
  /\ runners'[n].teardown.policy = "permanent"

Decides(n) ==
  \/ Undecided(n) \/ Marked(n) \/ Audited(n) \/ CalledOff(n) \/ FoundBusy(n)
  \/ Driven(n) \/ Finished(n) \/ ScaledDown(n) \/ GivenUp(n)

\* A mark makes a permanent teardown, or a cancelable one where there was none.
LEMMA MarkPolicy ==
  ASSUME NEW r \in Runners
  PROVE  /\ MarkForTeardown(r, "permanent").teardown.policy = "permanent"
         /\ ~TearingDown(r) => MarkForTeardown(r, "cancelable").teardown.policy = "cancelable"
<1> DEFINE u == IF TearingDown(r) THEN UpgradedTeardown(r.teardown, "permanent")
                                  ELSE NewTeardown("permanent")
<1>1. MarkForTeardown(r, "permanent").teardown = u
  BY DEF MarkForTeardown, Runners
<1>2. ASSUME NEW t \in TeardownStates
      PROVE  UpgradedTeardown(t, "permanent").policy = "permanent"
  BY <1>2 DEF UpgradedTeardown, BeginRemovingRegistration, TeardownStates, Policies
<1>3. u.policy = "permanent"
  BY <1>2, TeardownCases DEF NewTeardown
<1>4. ASSUME ~TearingDown(r)
      PROVE  MarkForTeardown(r, "cancelable").teardown.policy = "cancelable"
  BY <1>4 DEF MarkForTeardown, NewTeardown, Runners
<1> HIDE DEF u
<1> QED
  BY <1>1, <1>3, <1>4

\* Listing marks only what is left over and past its grace period.
LEMMA GatherDecides ==
  ASSUME IInv, Gather, NEW n \in Names
  PROVE  StartReconcile \/ Decides(n)
<1> USE DEF IInv, TypeOK, Decides, SameBusy
<1>1. CASE ListInstances
  BY <1>1 DEF ListInstances, Runners, Undecided
<1>2. CASE ListDisks
  <2> DEFINE r == [runners[n] EXCEPT !.disk = disk[n]]
             s == MarkedForInstance(n, r)
  <2>1. runners'[n] = MarkedForDisk(n, s) /\ pc = "disks" /\ UNCHANGED platformVars
    BY <1>2 DEF ListDisks
  <2>2. r \in Runners /\ r.teardown = runners[n].teardown /\ r.busy = runners[n].busy
    <3>1. runners[n] \in Runners /\ disk[n] \in DiskStates
      BY DEF PlatformTypeOK
    <3> QED
      BY <3>1 DEF Runners
  <2> HIDE DEF r
  <2>3. /\ s \in Runners /\ s.busy = r.busy
        /\ \/ s = r
           \/ PastGracePeriod(n) /\ ~TearingDown(r) /\ s.teardown.policy = "permanent"
    BY <2>2, MarkForTeardownKeeps, MarkForTeardownType, MarkPolicy
       DEF MarkedForInstance, Settled, Policies
  <2> HIDE DEF s
  <2>4. /\ MarkedForDisk(n, s).busy = s.busy
        /\ \/ MarkedForDisk(n, s) = s
           \/ /\ PastGracePeriod(n) /\ ~TearingDown(s)
              /\ MarkedForDisk(n, s).teardown.policy = "permanent"
    BY <2>3, MarkForTeardownKeeps, MarkPolicy DEF MarkedForDisk, Policies
  <2>5. s.teardown.policy = "permanent" => TearingDown(s)
    BY DEF TearingDown, NoTeardown
  <2> QED
    BY <2>1, <2>2, <2>3, <2>4, <2>5 DEF Undecided, Marked, TearingDown
<1>3. CASE ObserveFails
  BY <1>3 DEF ObserveFails, ReturnToRun, Runners, Undecided
<1> QED
  BY <1>1, <1>2, <1>3 DEF Gather

\* The audit marks only runners it has still to look at.
LEMMA AuditDecides ==
  ASSUME IInv, Audit, NEW n \in Names
  PROVE  Decides(n)
<1> USE DEF IInv, TypeOK, Decides, SameBusy
<1>1. ASSUME NEW m \in Names, AuditRunner(m), n = m PROVE Decides(n)
  <2>1. runners' = runners \/ runners' = [runners EXCEPT ![n].teardown =
                                BeginDeprovisioning(NewTeardown("permanent"))]
    BY <1>1 DEF AuditRunner
  <2> QED
    BY <1>1, <2>1 DEF AuditRunner, BeginDeprovisioning, NewTeardown, Runners, Undecided, Audited
<1>2. ASSUME NEW m \in Names, AuditRunner(m), n # m PROVE Decides(n)
  BY <1>2 DEF AuditRunner, Undecided
<1>3. CASE AuditDone \/ \E m \in Names : AuditRunnerFails(m)
  BY <1>3 DEF AuditDone, AuditRunnerFails, Undecided
<1> QED
  BY <1>1, <1>2, <1>3 DEF Audit

\* A teardown moves on, ends, or is called off because of a job.
LEMMA TeardownDecides ==
  ASSUME IInv, Teardown, NEW n \in Names
  PROVE  Decides(n)
<1> USE DEF IInv, TypeOK, Decides, SameBusy
<1>1. CASE runners'[n] = runners[n]
  BY <1>1 DEF Undecided
<1>2. ASSUME NEW m \in Names, BeginTeardown(m) PROVE Decides(n)
  <2>1. TearingDown(runners[m])
    BY <1>2 DEF BeginTeardown, TeardownInHand
  <2>2. runners[m].teardown \in TeardownStates
    BY <2>1, TeardownCases
  <2> DEFINE t == runners[m].teardown
             u == IF t.phase = "window" THEN BeginRemovingRegistration(t) ELSE t
  <2>3. runners' = runners \/ runners' = [runners EXCEPT ![m].teardown = u]
    BY <1>2 DEF BeginTeardown
  <2>4. u.policy = t.policy /\ ~u.waiting
    BY <2>2 DEF BeginRemovingRegistration, TeardownStates
  <2> HIDE DEF u
  <2>5. CASE n = m /\ runners' = [runners EXCEPT ![m].teardown = u]
    BY <2>1, <2>4, <2>5 DEF Runners, Driven
  <2> QED
    BY <1>1, <2>3, <2>5
<1>3. CASE LookupRegistration \/ RemoveRegistration
  <2>1. pc \in {"lookup", "remove"} /\ cur \in Names /\ TearingDown(runners[cur])
    BY <1>3 DEF LookupRegistration, RemoveRegistration, TeardownInHand, TearingDown, NoTeardown
  <2>2. \/ runners' = runners
        \/ runners' = [runners EXCEPT ![cur].teardown =
                        BeginDeprovisioning(runners[cur].teardown)]
    BY <1>3 DEF LookupRegistration, RemoveRegistration
  <2>3. CASE n = cur /\ runners' # runners
    BY <2>1, <2>2, <2>3 DEF BeginDeprovisioning, Runners, Driven
  <2> QED
    BY <1>1, <2>2, <2>3
<1>4. CASE JobStillRunning
  <2>1. /\ runners' = [runners EXCEPT ![cur] = FoundRunningAJob(runners[cur])]
        /\ pc = "remove"
    BY <1>4 DEF JobStillRunning
  <2>2. CASE n = cur
    <3>1. runners'[n] = FoundRunningAJob(runners[n])
      BY <2>1, <2>2
    <3>2. /\ runners'[n].busy
          /\ runners'[n].teardown = IF runners[n].teardown.policy = "cancelable"
                                    THEN NoTeardown ELSE runners[n].teardown
      BY <3>1 DEF FoundRunningAJob, Runners
    <3> QED
      BY <2>1, <3>2 DEF CalledOff, FoundBusy
  <2>3. CASE n # cur
    BY <1>1, <2>1, <2>3
  <2> QED
    BY <2>2, <2>3
<1>5. CASE DeleteInstance \/ InstanceGone
  BY <1>5 DEF DeleteInstance, InstanceGone, Runners, Undecided
<1>6. CASE DeleteDisk \/ NoDiskLeft
  <2>1. CASE n = cur
    BY <1>6, <2>1 DEF DeleteDisk, NoDiskLeft, Runners, Finished
  <2>2. CASE n # cur
    BY <1>1, <1>6, <2>2 DEF DeleteDisk, NoDiskLeft
  <2> QED
    BY <2>1, <2>2
<1>7. CASE AwaitStop \/ StopInstance \/ AwaitDetach \/ TeardownCallFails
  BY <1>1, <1>7 DEF AwaitStop, StopInstance, AwaitDetach, TeardownCallFails
<1> QED
  BY <1>2, <1>3, <1>4, <1>5, <1>6, <1>7 DEF Teardown

\* What the returned view decided is what is left after the snapshots are dropped.
LEMMA ReturnsDecide ==
  ASSUME IInv, Returns, NEW n \in Names
  PROVE  Decides(n)
<1> USE DEF IInv, TypeOK, Decides, SameBusy
<1>1. PICK view \in [Names -> Runners], rq \in BOOLEAN :
        EndReconcile(view, rq) /\ Concludes(n, view)
  BY ReturnedViews
<1>2. runners'[n].teardown = view[n].teardown /\ runners'[n].busy = view[n].busy
  BY <1>1 DEF EndReconcile, ReturnToRun, Runners
<1>3. UNCHANGED platformVars
  BY DEF Returns, HoldScale, ScaleDown, FetchImageFails, JoinProvision
<1>4. CASE /\ view[n].teardown = runners[n].teardown
           /\ view[n].busy = runners[n].busy \/ (pc = "act" /\ Gone(runners[n]))
  BY <1>2, <1>4 DEF Undecided
<1>5. CASE /\ pc = "act" /\ n \in ScaleDownCandidates(runners)
           /\ view[n] = MarkForTeardown(runners[n], "cancelable")
  BY <1>1, <1>2, <1>3, <1>5, MarkPolicy, MarkForTeardownKeeps
     DEF EndReconcile, Observed, ScaledDown, ScaleDownCandidates, AuditCandidates, Settled, Policies
<1>6. CASE prov[n] = "failed" /\ view[n] = MarkForTeardown(runners[n], "permanent")
  BY <1>2, <1>3, <1>6, MarkPolicy, MarkForTeardownKeeps DEF GivenUp, Policies
<1> QED
  BY <1>1, <1>4, <1>5, <1>6 DEF Concludes

\* Scaling calls off cancelable teardowns, or begins them for idle runners.
LEMMA ScaleDecides ==
  ASSUME IInv, Scale, NEW n \in Names
  PROVE  Decides(n)
<1> USE DEF IInv, TypeOK, Decides, SameBusy
<1>1. CASE Reclaim
  <2>1. PICK chosen \in SUBSET Reclaimable(runners) :
          runners' = [m \in Names |->
            IF m \in chosen THEN [runners[m] EXCEPT !.teardown = NoTeardown] ELSE runners[m]]
    BY <1>1 DEF Reclaim, kSubset
  <2>2. CASE n \in chosen
    <3>1. runners[n].teardown.policy = "cancelable" /\ pc = "reclaim"
      BY <1>1, <2>2 DEF Reclaim, Reclaimable, CanCancelForCapacity
    <3>2. runners'[n].teardown = NoTeardown /\ runners'[n].busy = runners[n].busy
      BY <2>1, <2>2 DEF Runners
    <3> QED
      BY <3>1, <3>2 DEF CalledOff
  <2>3. CASE n \notin chosen
    BY <2>1, <2>3 DEF Undecided
  <2> QED
    BY <2>2, <2>3
<1>2. CASE StartScaleUp
  <2>1. runners'[n] = PrunedView[n] /\ pc = "act"
    BY <1>2 DEF StartScaleUp
  <2>2. EmptyRunner.teardown = NoTeardown
    BY DEF EmptyRunner
  <2> QED
    BY <2>1, <2>2, PrunedTypes DEF Undecided, Gone, TearingDown
<1>3. CASE FetchImage
  BY <1>3 DEF FetchImage, Undecided
<1> QED
  BY <1>1, <1>2, <1>3, ReturnsDecide DEF Scale, Returns

\* Outside a reconciliation nothing is decided, except that time passes.
LEMMA RestDecides ==
  ASSUME IInv, Provision \/ Listen \/ Clock \/ World \/ Restart \/ UNCHANGED vars, NEW n \in Names
  PROVE  Decides(n)
<1> USE DEF IInv, TypeOK, Decides, SameBusy
<1>1. ASSUME NEW m \in Names, WindowCloses(m) PROVE Decides(n)
  <2>1. TearingDown(runners[m])
    BY <1>1 DEF WindowCloses, TearingDown, NoTeardown
  <2>2. runners[m].teardown \in TeardownStates
    BY <2>1, TeardownCases
  <2> DEFINE u == [runners[m].teardown EXCEPT !.waiting = FALSE]
  <2>3. runners' = [runners EXCEPT ![m].teardown = u]
    BY <1>1 DEF WindowCloses
  <2>4. u.policy = runners[m].teardown.policy /\ ~u.waiting
    BY <2>2 DEF TeardownStates
  <2> HIDE DEF u
  <2>5. CASE n = m
    BY <2>1, <2>3, <2>4, <2>5 DEF Runners, Driven
  <2>6. CASE n # m
    BY <2>3, <2>6 DEF Undecided
  <2> QED
    BY <2>5, <2>6
<1>2. CASE JoinProvision
  BY <1>2, ReturnsDecide DEF Returns
<1>3. CASE runners' = runners
  BY <1>3 DEF Undecided
<1>4. Listen \/ World \/ Restart \/ AuditComesDue \/ UNCHANGED vars => runners' = runners
  BY DEF Listen, HandleDesiredRunnerCount, HandleJobStarted, HandleJobCompleted, World,
     NameIsFreshAgain, Restart, AuditComesDue, vars
<1>5. Provision => JoinProvision \/ runners' = runners
  BY DEF Provision, RegisterRunner, RegisterRunnerFails, CreateInstance,
     CreateInstanceFails, Provisioning
<1> QED
  BY <1>1, <1>2, <1>3, <1>4, <1>5 DEF Clock

\* Every step but a crash and the processing of job events decides about a
\* runner in one of these ways, for the reason given there.
LEMMA StepDecides ==
  ASSUME IInv, [Next]_vars, NEW n \in Names
  PROVE  Crash \/ StartReconcile \/ Decides(n)
BY GatherDecides, AuditDecides, TeardownDecides, ScaleDecides, RestDecides DEF Next, Loop

-----------------------------------------------------------------------------
(* No registration is forgotten.                                           *)

\* A teardown or a goroutine is responsible for every registration without an
\* instance, while one process runs and nobody else deletes instances.
OrphansAreMarked ==
  restarts = 0 =>
    \A n \in Names :
      /\ runState[n] # "destroyed"
      /\ n \in registered /\ runState[n] = "absent" =>
           \/ runners[n].teardown.policy = "permanent"
           \/ prov[n] \in {"registered", "failed"}

\* The job events of an entry, in the order processJobEvents applies them here.
LEMMA EventsOf ==
  ASSUME IInv, StartReconcile, NEW n \in Names
  PROVE  \E r \in Runners :
           /\ r = IF <<n, "started">> \in inbox THEN JobStarted(runners[n]) ELSE runners[n]
           /\ runners'[n] = IF <<n, "completed">> \in inbox THEN JobCompleted(r) ELSE r
           /\ Holds(runners[n], r) /\ Holds(runners[n], runners'[n])
<1> USE DEF IInv, TypeOK
<1> DEFINE r == IF <<n, "started">> \in inbox THEN JobStarted(runners[n]) ELSE runners[n]
<1>1. runners'[n] = IF <<n, "completed">> \in inbox THEN JobCompleted(r) ELSE r
  BY DEF StartReconcile
<1>2. r \in Runners /\ Holds(runners[n], r)
  BY JobEventTypes, MarksHold DEF Holds, Policies
<1>3. r = IF <<n, "started">> \in inbox THEN JobStarted(runners[n]) ELSE runners[n]
  OBVIOUS
<1> HIDE DEF r
<1>4. Holds(r, JobCompleted(r))
  BY <1>2, MarksHold DEF Policies
<1> QED
  BY <1>1, <1>2, <1>3, <1>4 DEF Holds

\* A process that has not been restarted has not crashed.
LEMMA NoCrash ==
  ASSUME IInv, [Next]_vars, restarts' = 0
  PROVE  restarts = 0 /\ ~Crash
<1> USE ConstantsAssumption DEF IInv, TypeOK
<1>1. CASE Crash
  BY <1>1 DEF Crash
<1>2. Loop => restarts' = restarts
  <2>1. Gather \/ Audit \/ Scale => restarts' = restarts
    BY DEF Gather, StartReconcile, ListInstances, ListDisks, ObserveFails, Audit,
       AuditRunner, AuditRunnerFails, AuditDone, Scale, Reclaim, HoldScale, ScaleDown,
       StartScaleUp, FetchImage, FetchImageFails
  <2>2. Teardown => restarts' = restarts
    BY DEF Teardown, BeginTeardown, LookupRegistration, RemoveRegistration,
       JobStillRunning, DeleteInstance, InstanceGone, AwaitStop, StopInstance, DeleteDisk,
       AwaitDetach, NoDiskLeft, TeardownCallFails
  <2>3. Provision => restarts' = restarts
    BY DEF Provision, RegisterRunner, RegisterRunnerFails, CreateInstance,
       CreateInstanceFails, Provisioning, JoinProvision
  <2> QED
    BY <2>1, <2>2, <2>3 DEF Loop
<1>3. Listen \/ Clock \/ World \/ Restart \/ UNCHANGED vars => restarts' = restarts
  BY DEF Listen, HandleDesiredRunnerCount, HandleJobStarted, HandleJobCompleted, Clock,
     AuditComesDue, WindowCloses, World, NameIsFreshAgain, Restart, vars
<1> QED
  BY <1>1, <1>2, <1>3 DEF Next

\* A registration without an instance is an old one, or has just been made.
LEMMA NewOrphans ==
  ASSUME "operator" \notin Disturbances, IInv, NInv, [Next]_vars, NEW n \in Names,
         runState[n] # "destroyed"
  PROVE  /\ runState'[n] # "destroyed"
         /\ n \in registered' /\ runState'[n] = "absent" =>
              \/ n \in registered /\ runState[n] = "absent"
              \/ prov'[n] \in {"registered", "failed"}
<1> USE DEF IInv, TypeOK, PlatformTypeOK
<1>1. ASSUME NEW m \in Names, Effect(m)
      PROVE  /\ runState'[n] # "destroyed"
             /\ n \in registered' /\ runState'[n] = "absent" =>
                  \/ n \in registered /\ runState[n] = "absent"
                  \/ prov'[n] \in {"registered", "failed"}
  <2>1. pc = "instance" => cur \notin registered
    BY DEF DeprovisioningIsUnregistered, TeardownInHand
  <2> QED
    BY <1>1, <2>1 DEF Effect, Registers, CreatesInstance, CreatesInstanceLate, Unregisters,
       StopsInstance, DeletesInstance, DeletesDisk
<1>2. CASE World
  <2>1. ASSUME NEW m \in Names, ~OperatorDeletes(m),
               \/ JobAssigned(m) \/ JobEnds(m) \/ RegistrationLapses(m) \/ DiskFaults(m)
               \/ GrowsOlder(m) \/ NameIsFreshAgain(m)
        PROVE  registered' \subseteq registered /\ runState' = runState
    BY <2>1 DEF JobAssigned, JobEnds, RegistrationLapses, GrowsOlder, NameIsFreshAgain,
       DiskFaults
  <2>2. ASSUME NEW m \in Names,
               \/ Boots(m) \/ PowersOff(m) \/ StopCompletes(m) \/ InstanceFails(m)
               \/ DestroyedVanishes(m) \/ LateCreationLands(m)
        PROVE  /\ registered' = registered /\ runState'[n] # "destroyed"
               /\ runState'[n] = "absent" => runState[n] = "absent"
    BY <2>2 DEF Boots, PowersOff, StopCompletes, InstanceFails, DestroyedVanishes,
       LateCreationLands
  <2> QED
    BY <1>2, <2>1, <2>2 DEF World, PlatformStep, OperatorDeletes
<1> QED
  BY <1>1, <1>2, LoopEffects, OtherStepEffects DEF Next

\* A goroutine that has registered its runner creates the instance or fails, and
\* a failure ends in a permanent teardown.
LEMMA FailuresAreMarked ==
  ASSUME IInv, [Next]_vars, ~Crash, NEW n \in Names, prov[n] \in {"registered", "failed"}
  PROVE  \/ prov'[n] \in {"registered", "failed"}
         \/ runners'[n].teardown.policy = "permanent"
         \/ CreatesInstance(n)
<1> USE DEF IInv, TypeOK
<1>1. pc = "provision"
  BY DEF ProvisioningIsFresh
<1>2. CASE JoinProvision
  <2>1. prov[n] = "failed"
    BY <1>2 DEF JoinProvision
  <2>2. PICK view \in [Names -> Runners], rq \in BOOLEAN :
          EndReconcile(view, rq) /\ Concludes(n, view)
    BY <1>2, ReturnedViews DEF Returns
  <2>3. view[n].teardown.policy = "permanent"
    BY <1>1, <2>1, <2>2, MarkPolicy DEF Concludes
  <2> QED
    BY <2>2, <2>3 DEF EndReconcile, ReturnToRun, Runners
<1>3. ASSUME NEW m \in Names,
             \/ RegisterRunner(m) \/ RegisterRunnerFails(m)
             \/ CreateInstance(m) \/ CreateInstanceFails(m)
      PROVE  prov'[n] \in {"registered", "failed"} \/ CreatesInstance(n)
  BY <1>3 DEF RegisterRunner, RegisterRunnerFails, CreateInstance, CreateInstanceFails,
     HasSlot, Provisioning
<1>4. CASE Listen \/ Clock \/ World \/ Restart \/ UNCHANGED vars
  BY <1>1, <1>4 DEF Listen, HandleDesiredRunnerCount, HandleJobStarted, HandleJobCompleted,
     Clock, AuditComesDue, WindowCloses, World, NameIsFreshAgain, Restart, vars
<1>5. ~(Gather \/ Audit \/ Scale)
  BY <1>1 DEF Gather, StartReconcile, ListInstances, ListDisks, ObserveFails, Audit,
     AuditRunner, AuditRunnerFails, AuditDone, Scale, Reclaim, HoldScale, ScaleDown,
     StartScaleUp, FetchImage, FetchImageFails
<1>6. ~Teardown
  BY <1>1 DEF Teardown, BeginTeardown, LookupRegistration, RemoveRegistration,
     JobStillRunning, DeleteInstance, InstanceGone, AwaitStop, StopInstance, DeleteDisk,
     AwaitDetach, NoDiskLeft, TeardownCallFails
<1> QED
  BY <1>2, <1>3, <1>4, <1>5, <1>6 DEF Next, Loop, Provision

\* A permanent teardown of a runner that is registered is not over.
LEMMA PermanentStays ==
  ASSUME IInv, [Next]_vars, ~Crash, NEW n \in Names,
         runners[n].teardown.policy = "permanent", n \in registered
  PROVE  runners'[n].teardown.policy = "permanent"
<1> USE DEF IInv, TypeOK
<1>1. CASE StartReconcile
  BY <1>1, EventsOf DEF Holds
<1>2. CASE Decides(n)
  <2>1. TearingDown(runners[n])
    BY DEF TearingDown, NoTeardown
  <2>2. ~Finished(n)
    BY DEF Finished, TeardownInHand, DeprovisioningIsUnregistered
  <2>3. ~ScaledDown(n)
    BY <2>1 DEF ScaledDown, ScaleDownCandidates, AuditCandidates, Settled
  <2> QED
    BY <1>2, <2>1, <2>2, <2>3 DEF Decides, Undecided, Marked, Audited, CalledOff, FoundBusy,
       Driven, GivenUp, TearingDown
<1> QED
  BY <1>1, <1>2, StepDecides

\* A failed provisioning is never forgotten: between reconciliations, a
\* registration without an instance has a teardown that will remove it, as long
\* as the process lives and nobody else deletes instances.
THEOREM RegistrationsAreOwned ==
  ASSUME "operator" \notin Disturbances
  PROVE  Spec => [](restarts = 0 => NoOrphanRegistration)
<1>1. Init => OrphansAreMarked
  BY DEF Init, PlatformInit, OrphansAreMarked
<1>2. ASSUME IInv, NInv, OrphansAreMarked, [Next]_vars PROVE OrphansAreMarked'
  <2> SUFFICES ASSUME restarts' = 0, NEW n \in Names
               PROVE  /\ runState'[n] # "destroyed"
                      /\ n \in registered' /\ runState'[n] = "absent" =>
                           \/ runners'[n].teardown.policy = "permanent"
                           \/ prov'[n] \in {"registered", "failed"}
    BY DEF OrphansAreMarked
  <2>1. restarts = 0 /\ ~Crash
    BY <1>2, NoCrash
  <2>2. runState[n] # "destroyed"
    BY <1>2, <2>1 DEF OrphansAreMarked
  <2>3. CASE n \in registered /\ runState[n] = "absent" /\ runState'[n] = "absent"
    <3>1. ~CreatesInstance(n)
      BY <1>2, <2>3 DEF CreatesInstance, IInv, TypeOK, PlatformTypeOK
    <3> QED
      BY <1>2, <2>1, <2>2, <2>3, <3>1, PermanentStays, FailuresAreMarked DEF OrphansAreMarked
  <2> QED
    BY <1>2, <2>2, <2>3, NewOrphans
<1>3. IInv /\ NInv /\ OrphansAreMarked /\ [Next]_vars => OrphansAreMarked'
  BY <1>2
<1>4. IInv /\ OrphansAreMarked => (restarts = 0 => NoOrphanRegistration)
  <2> SUFFICES ASSUME IInv, OrphansAreMarked, restarts = 0, pc = "idle",
                      NEW n \in registered, runState[n] = "absent"
               PROVE  TearingDown(runners[n])
    BY DEF NoOrphanRegistration
  <2>1. n \in Names /\ prov[n] = "unused"
    BY DEF IInv, TypeOK, PlatformTypeOK, ProvisioningIsFresh
  <2> QED
    BY <2>1 DEF OrphansAreMarked, TearingDown, NoTeardown
<1> QED
  BY Inductive, NamesSafe, <1>1, <1>3, <1>4, PTL DEF Spec

-----------------------------------------------------------------------------
(* Busy runners are spared.                                                *)

\* The disk of a runner at work is there, so the view does not lose its entry.
WorkNeedsDisk ==
  \A n \in Names :
    /\ n \in registered /\ runState[n] # "absent" => disk[n] # "absent"
    /\ job[n] = "running" => disk[n] # "absent"
    /\ job[n] = "none" => told[n] = "nothing"

\* The listener has delivered the start of a job that still runs.
AtWork(n) == told[n] = "started" /\ <<n, "started">> \notin inbox /\ job[n] = "running"

BusyIsKnown ==
  restarts = 0 =>
    \A n \in Names : AtWork(n) =>
      /\ runners[n].busy
      /\ runners[n].teardown.policy # "cancelable"
      /\ pc \in Observed => runners[n].disk # "absent"

\* The disk of a registered runner stays.
LEMMA DiskStays ==
  ASSUME IInv, [Next]_vars, NEW n \in Names, n \in registered, disk[n] # "absent"
  PROVE  disk'[n] # "absent"
<1> USE DEF IInv, TypeOK, PlatformTypeOK
<1>1. ASSUME NEW m \in Names, Effect(m) PROVE disk'[n] # "absent"
  <2>1. pc \in {"instance", "disk"} => cur # n
    BY DEF DeprovisioningIsUnregistered, TeardownInHand
  <2> QED
    BY <1>1, <2>1 DEF Effect, Registers, CreatesInstance, CreatesInstanceLate, Unregisters,
       StopsInstance, DeletesInstance, DeletesDisk
<1> QED
  BY <1>1, WorldEffects, LoopEffects, OtherStepEffects DEF Next

\* No step leaves a registered runner with an instance but without a disk.
LEMMA WorkNeedsDiskInductive ==
  ASSUME IInv, NInv, WorkNeedsDisk, [Next]_vars
  PROVE  WorkNeedsDisk'
<1> USE DEF IInv, TypeOK, PlatformTypeOK
<1>1. ASSUME NEW n \in Names, NEW m \in Names, Effect(m)
      PROVE  /\ n \in registered' /\ runState'[n] # "absent" => disk'[n] # "absent"
             /\ job' = job /\ told' = told
  <2>1. \/ n \in registered' /\ runState'[n] # "absent" =>
             n \in registered /\ runState[n] # "absent"
        \/ disk'[n] = "attached"
    BY <1>1 DEF Effect, Registers, CreatesInstance, CreatesInstanceLate, Unregisters,
       StopsInstance, DeletesInstance, DeletesDisk, NInv, NamesAreUnspoilt, Taken
  <2>2. job' = job /\ told' = told
    BY <1>1 DEF Effect, Registers, CreatesInstance, CreatesInstanceLate, Unregisters,
       StopsInstance, DeletesInstance, DeletesDisk
  <2> QED
    BY <2>1, <2>2, DiskStays DEF WorkNeedsDisk
<1>2. ASSUME NEW n \in Names, World
      PROVE  /\ n \in registered' /\ runState'[n] # "absent" => disk'[n] # "absent"
             /\ job'[n] = "running" => \/ job[n] = "running"
                                       \/ n \in registered /\ runState[n] = "running"
             /\ job'[n] = "none" => told'[n] = "nothing"
  <2>1. ASSUME NEW m \in Names, JobAssigned(m) \/ JobEnds(m) \/ RegistrationLapses(m)
        PROVE  /\ registered' \subseteq registered /\ UNCHANGED <<runState, disk>>
               /\ job'[n] = "running" => \/ job[n] = "running"
                                         \/ n \in registered /\ runState[n] = "running"
               /\ told' = told /\ (job'[n] = "none" => job[n] = "none")
    BY <2>1 DEF JobAssigned, JobEnds, RegistrationLapses
  <2>2. ASSUME NEW m \in Names,
               \/ Boots(m) \/ PowersOff(m) \/ StopCompletes(m) \/ InstanceFails(m)
               \/ DiskFaults(m) \/ OperatorDeletes(m) \/ DestroyedVanishes(m) \/ GrowsOlder(m)
        PROVE  /\ UNCHANGED githubVars
               /\ runState'[n] # "absent" => runState[n] # "absent"
    BY <2>2 DEF Boots, PowersOff, StopCompletes, InstanceFails, DiskFaults, OperatorDeletes,
       DestroyedVanishes, GrowsOlder
  <2>3. ASSUME NEW m \in Names, LateCreationLands(m)
        PROVE  /\ UNCHANGED githubVars
               /\ runState'[n] = runState[n] \/ disk'[n] = "attached"
    BY <2>3 DEF LateCreationLands
  <2>4. ASSUME NEW m \in Names, NameIsFreshAgain(m)
        PROVE  /\ UNCHANGED <<registered, runState, disk>>
               /\ \/ job'[n] = job[n] /\ told'[n] = told[n]
                  \/ job'[n] = "none" /\ told'[n] = "nothing"
    BY <2>4 DEF NameIsFreshAgain
  <2>5. /\ n \in registered /\ runState[n] # "absent" => disk'[n] # "absent"
        /\ job[n] = "none" => told[n] = "nothing"
    BY DiskStays DEF WorkNeedsDisk
  <2>6. ASSUME NEW m \in Names,
               \/ JobAssigned(m) \/ JobEnds(m) \/ RegistrationLapses(m)
               \/ Boots(m) \/ PowersOff(m) \/ StopCompletes(m) \/ InstanceFails(m)
               \/ DiskFaults(m) \/ OperatorDeletes(m) \/ DestroyedVanishes(m)
               \/ GrowsOlder(m) \/ LateCreationLands(m) \/ NameIsFreshAgain(m)
        PROVE  /\ n \in registered' /\ runState'[n] # "absent" => disk'[n] # "absent"
               /\ job'[n] = "running" => \/ job[n] = "running"
                                         \/ n \in registered /\ runState[n] = "running"
               /\ job'[n] = "none" => told'[n] = "nothing"
    BY <2>1, <2>2, <2>3, <2>4, <2>5, <2>6
  <2> QED
    BY <1>2, <2>6 DEF World, PlatformStep
<1>3. ASSUME NEW n \in Names, Listen \/ Clock \/ Crash \/ Restart \/ UNCHANGED vars
      PROVE  job'[n] = "none" => told'[n] = "nothing"
  BY <1>3 DEF Listen, HandleDesiredRunnerCount, HandleJobStarted, HandleJobCompleted, Clock,
     AuditComesDue, WindowCloses, Crash, Restart, vars, WorkNeedsDisk
<1>4. ASSUME NEW n \in Names, job[n] = "running" PROVE disk'[n] # "absent"
  BY <1>4, DiskStays DEF WorkNeedsDisk, JobsNeedRegistrations
<1>5. ASSUME NEW n \in Names, n \in registered, runState[n] = "running"
      PROVE  disk'[n] # "absent"
  BY <1>5, DiskStays DEF WorkNeedsDisk
<1> SUFFICES ASSUME NEW n \in Names
             PROVE  /\ n \in registered' /\ runState'[n] # "absent" => disk'[n] # "absent"
                    /\ job'[n] = "running" => disk'[n] # "absent"
                    /\ job'[n] = "none" => told'[n] = "nothing"
  BY DEF WorkNeedsDisk
<1>6. CASE World
  BY <1>2, <1>4, <1>5, <1>6
<1>7. CASE Listen \/ Clock \/ Crash \/ Restart \/ UNCHANGED vars
  BY <1>3, <1>4, <1>7, OtherStepEffects DEF WorkNeedsDisk
<1>8. CASE Loop
  BY <1>1, <1>4, <1>8, LoopEffects DEF WorkNeedsDisk
<1> QED
  BY <1>6, <1>7, <1>8 DEF Next

\* A runner comes to be at work when the start of its job is processed.
LEMMA BeginsWork ==
  ASSUME IInv, WorkNeedsDisk, [Next]_vars, ~Crash, NEW n \in Names, AtWork(n)'
  PROVE  AtWork(n) \/ (StartReconcile /\ <<n, "started">> \in inbox /\ job[n] = "running")
<1> USE DEF IInv, TypeOK, PlatformTypeOK, AtWork
<1>1. ASSUME Loop PROVE UNCHANGED <<job, told>>
  <2>1. ASSUME NEW m \in Names, Effect(m) PROVE UNCHANGED <<job, told>>
    BY <2>1 DEF Effect, Registers, CreatesInstance, CreatesInstanceLate, Unregisters,
       StopsInstance, DeletesInstance, DeletesDisk
  <2> QED
    BY <1>1, <2>1, LoopEffects
<1>2. CASE Loop
  <2>1. Gather \/ Audit \/ Scale => StartReconcile \/ inbox' = inbox
    BY DEF Gather, ListInstances, ListDisks, ObserveFails, Audit, AuditRunner,
       AuditRunnerFails, AuditDone, Scale, Reclaim, HoldScale, ScaleDown, StartScaleUp,
       FetchImage, FetchImageFails
  <2>2. Teardown => inbox' = inbox
    BY DEF Teardown, BeginTeardown, LookupRegistration, RemoveRegistration,
       JobStillRunning, DeleteInstance, InstanceGone, AwaitStop, StopInstance, DeleteDisk,
       AwaitDetach, NoDiskLeft, TeardownCallFails
  <2>3. Provision => inbox' = inbox
    BY DEF Provision, RegisterRunner, RegisterRunnerFails, CreateInstance,
       CreateInstanceFails, Provisioning, JoinProvision
  <2> QED
    BY <1>1, <1>2, <2>1, <2>2, <2>3 DEF Loop
<1>3. CASE Listen
  BY <1>3 DEF Listen, HandleDesiredRunnerCount, HandleJobStarted, HandleJobCompleted
<1>4. CASE Clock \/ Restart \/ UNCHANGED vars
  BY <1>4 DEF Clock, AuditComesDue, WindowCloses, Restart, vars
<1>5. CASE World
  <2>1. ASSUME NEW m \in Names, JobAssigned(m) PROVE AtWork(n)
    BY <1>5, <2>1 DEF JobAssigned, WorkNeedsDisk, World, NameIsFreshAgain
  <2>2. ASSUME NEW m \in Names, NameIsFreshAgain(m) PROVE AtWork(n)
    BY <2>2 DEF NameIsFreshAgain
  <2>3. ASSUME NEW m \in Names,
               \/ RegistrationLapses(m) \/ Boots(m) \/ PowersOff(m) \/ StopCompletes(m)
               \/ InstanceFails(m) \/ DiskFaults(m) \/ OperatorDeletes(m)
               \/ DestroyedVanishes(m) \/ GrowsOlder(m) \/ LateCreationLands(m)
        PROVE  UNCHANGED <<job, told>>
    BY <2>3 DEF RegistrationLapses, Boots, PowersOff, StopCompletes, InstanceFails,
       DiskFaults, OperatorDeletes, DestroyedVanishes, GrowsOlder, LateCreationLands
  <2>4. ASSUME NEW m \in Names, JobEnds(m)
        PROVE  told' = told /\ (job'[n] = "running" => job[n] = "running")
    BY <2>4 DEF JobEnds
  <2>5. inbox' = inbox
    BY <1>5 DEF World, NameIsFreshAgain
  <2> QED
    BY <1>5, <2>1, <2>2, <2>3, <2>4, <2>5 DEF World, PlatformStep
<1> QED
  BY <1>2, <1>3, <1>4, <1>5 DEF Next

\* Processing the start of a job that runs makes the runner busy, and calls a
\* pending scale-down off.
LEMMA StartsAreNoted ==
  ASSUME IInv, StartReconcile, NEW n \in Names, job[n] = "running",
         \/ <<n, "started">> \in inbox
         \/ runners[n].busy /\ runners[n].teardown.policy # "cancelable"
  PROVE  runners'[n].busy /\ runners'[n].teardown.policy # "cancelable"
<1> USE DEF IInv, TypeOK
<1>1. PICK r \in Runners :
        /\ r = IF <<n, "started">> \in inbox THEN JobStarted(runners[n]) ELSE runners[n]
        /\ runners'[n] = IF <<n, "completed">> \in inbox THEN JobCompleted(r) ELSE r
  BY EventsOf
<1>2. runners[n].teardown.phase # "deprovisioning"
  BY DEF DeprovisioningIsUnregistered, JobsNeedRegistrations
<1>3. ASSUME r = JobStarted(runners[n])
      PROVE  r.busy /\ r.teardown.policy # "cancelable"
  <2>1. r.busy /\ r.teardown = IF CanCancelForJob(runners[n].teardown)
                               THEN NoTeardown ELSE runners[n].teardown
    BY <1>3 DEF JobStarted, Runners
  <2> QED
    BY <1>2, <2>1 DEF CanCancelForJob, NoTeardown
<1>4. r.busy /\ r.teardown.policy # "cancelable"
  BY <1>1, <1>3
<1>5. JobCompleted(r).busy = r.busy /\ JobCompleted(r).teardown.policy = "permanent"
  BY MarkPolicy, MarkForTeardownKeeps DEF JobCompleted, Policies
<1> QED
  BY <1>1, <1>4, <1>5

\* No step makes the scaler forget a job it was told of, or give up its runner.
LEMMA BusyInductive ==
  ASSUME IInv, NInv, WorkNeedsDisk, BusyIsKnown, [Next]_vars
  PROVE  BusyIsKnown'
<1> USE DEF IInv, TypeOK, PlatformTypeOK
<1> SUFFICES ASSUME restarts' = 0, NEW n \in Names, AtWork(n)'
             PROVE  /\ runners'[n].busy
                    /\ runners'[n].teardown.policy # "cancelable"
                    /\ pc' \in Observed => runners'[n].disk # "absent"
  BY DEF BusyIsKnown
<1>1. restarts = 0 /\ ~Crash
  BY NoCrash
<1>2. CASE StartReconcile
  <2>1. pc' \notin Observed
    BY <1>2 DEF StartReconcile, Observed
  <2>2. \/ <<n, "started">> \in inbox /\ job[n] = "running"
        \/ AtWork(n) /\ runners[n].busy /\ runners[n].teardown.policy # "cancelable"
    BY <1>1, BeginsWork DEF BusyIsKnown
  <2> QED
    BY <1>2, <2>1, <2>2, StartsAreNoted DEF AtWork
<1>3. CASE ~StartReconcile
  <2>1. AtWork(n)
    BY <1>1, <1>3, BeginsWork
  <2>2. /\ runners[n].busy /\ runners[n].teardown.policy # "cancelable"
        /\ pc \in Observed => runners[n].disk # "absent"
    BY <1>1, <2>1 DEF BusyIsKnown
  <2>3. n \in registered /\ disk[n] # "absent"
    BY <2>1 DEF AtWork, JobsNeedRegistrations, WorkNeedsDisk
  <2>4. pc = "disk" => n # cur
    BY <2>3 DEF TeardownInHand, DeprovisioningIsUnregistered
  <2>5. runners'[n].busy /\ runners'[n].teardown.policy # "cancelable"
    <3>1. ~(pc = "act" /\ Gone(runners[n]))
      BY <2>2 DEF Gone, Observed
    <3>2. ~Finished(n) /\ ~ScaledDown(n) /\ ~CalledOff(n)
      BY <2>2, <2>4 DEF Finished, ScaledDown, ScaleDownCandidates, CalledOff
    <3> QED
      BY <1>1, <1>3, <2>2, <3>1, <3>2, StepDecides DEF Decides, Undecided, Marked, Audited,
         FoundBusy, Driven, GivenUp, SameBusy
  <2>6. pc' \in Observed => runners'[n].disk # "absent"
    BY <2>2, <2>3, <2>4, StepSees DEF Sees, SeesDisk
  <2> QED
    BY <2>5, <2>6
<1> QED
  BY <1>2, <1>3

\* "Busy runners [...] are never candidates": once the start of its job was
\* processed, a runner is not up for removal for lack of demand while the job
\* runs, as long as the process that was told so lives.
THEOREM BusyAreSpared == Spec => [](restarts = 0 => BusyRunnersAreSpared)
<1>1. Init => WorkNeedsDisk /\ BusyIsKnown
  BY DEF Init, PlatformInit, WorkNeedsDisk, BusyIsKnown, AtWork
<1>2. IInv /\ NInv /\ WorkNeedsDisk /\ BusyIsKnown /\ [Next]_vars
        => WorkNeedsDisk' /\ BusyIsKnown'
  BY WorkNeedsDiskInductive, BusyInductive
<1>3. BusyIsKnown => (restarts = 0 => BusyRunnersAreSpared)
  BY DEF BusyIsKnown, BusyRunnersAreSpared, AtWork
<1> QED
  BY Inductive, NamesSafe, <1>1, <1>2, <1>3, PTL DEF Spec

-----------------------------------------------------------------------------
(* The grace period.                                                       *)

\* Without failing calls, whatever tears a runner down while it is young knows
\* that its job is over.
YoungAreSettling ==
  /\ late = {}
  /\ \A n \in Names :
       /\ prov[n] # "failed"
       /\ TearingDown(runners[n]) => age[n] # "young" \/ job[n] = "completed"
       /\ <<n, "completed">> \in inbox => job[n] = "completed"
       /\ pc = "audit" /\ n \in todo => age[n] # "young" /\ runners[n].instance # "absent"

\* Without failing calls, no goroutine fails.
LEMMA NothingFails ==
  ASSUME "api" \notin Disturbances, IInv, YoungAreSettling, [Next]_vars, NEW n \in Names
  PROVE  prov'[n] # "failed"
<1> USE DEF IInv, TypeOK
<1>1. CASE prov' = prov
  BY <1>1 DEF YoungAreSettling
<1>2. Listen \/ Clock \/ World \/ Restart \/ UNCHANGED vars => prov' = prov
  BY DEF Listen, HandleDesiredRunnerCount, HandleJobStarted, HandleJobCompleted, Clock,
     AuditComesDue, WindowCloses, World, NameIsFreshAgain, Restart, vars
<1>3. CASE Crash
  BY <1>3 DEF Crash, FreshMemory
<1>4. Teardown => prov' = prov
  BY DEF Teardown, BeginTeardown, LookupRegistration, RemoveRegistration,
     JobStillRunning, DeleteInstance, InstanceGone, AwaitStop, StopInstance, DeleteDisk,
     AwaitDetach, NoDiskLeft, TeardownCallFails
<1>5. CASE Gather \/ Audit \/ Scale
  <2>1. CASE FetchImage
    BY <2>1 DEF FetchImage
  <2> QED
    BY <1>1, <1>5, <2>1 DEF Gather, StartReconcile, ListInstances, ListDisks, ObserveFails,
       Audit, AuditRunner, AuditRunnerFails, AuditDone, Scale, Reclaim, HoldScale, ScaleDown,
       StartScaleUp, FetchImageFails, EndReconcile, ReturnToRun
<1>6. CASE Provision
  BY <1>6 DEF Provision, RegisterRunner, RegisterRunnerFails, CreateInstance,
     CreateInstanceFails, Provisioning, HasSlot, JoinProvision, EndReconcile, ReturnToRun,
     YoungAreSettling
<1> QED
  BY <1>1, <1>2, <1>3, <1>4, <1>5, <1>6 DEF Next, Loop

\* Only a name with an empty entry becomes young again, and only such a name
\* loses its completed job.
LEMMA OnlyFreshNamesAreRenewed ==
  ASSUME IInv, NInv, late = {}, [Next]_vars, NEW n \in Names, runners'[n] # EmptyRunner
  PROVE  /\ age[n] # "young" => age'[n] # "young"
         /\ job[n] = "completed" => job'[n] = "completed"
<1> USE DEF IInv, TypeOK, PlatformTypeOK
<1>1. CASE Loop
  <2>1. ASSUME NEW m \in Names, Effect(m)
        PROVE  /\ job' = job
               /\ age'[n] = age[n] \/ (prov[n] = "registered" /\ prov'[n] # "registered"
                                         /\ prov'[n] # "unused")
    BY <2>1 DEF Effect, Registers, CreatesInstance, CreatesInstanceLate, Unregisters,
       StopsInstance, DeletesInstance, DeletesDisk
  <2>2. IInv'
    BY <1>1, GatherInv, AuditInv, TeardownInv, ScaleInv, ProvisionInv DEF Loop
  <2>3. prov'[n] = "unused"
    BY <2>2 DEF ProvisioningIsFresh
  <2> QED
    BY <1>1, <2>1, <2>3, LoopEffects
<1>2. CASE World
  <2>1. ASSUME NEW m \in Names, NameIsFreshAgain(m)
        PROVE  age'[n] = age[n] /\ job'[n] = job[n]
    BY <2>1 DEF NameIsFreshAgain
  <2>2. ASSUME NEW m \in Names,
               \/ JobAssigned(m) \/ JobEnds(m) \/ RegistrationLapses(m)
               \/ Boots(m) \/ PowersOff(m) \/ StopCompletes(m) \/ InstanceFails(m)
               \/ DiskFaults(m) \/ OperatorDeletes(m) \/ DestroyedVanishes(m)
        PROVE  age' = age /\ (job[n] = "completed" => job'[n] = "completed")
    BY <2>2 DEF JobAssigned, JobEnds, RegistrationLapses, Boots, PowersOff, StopCompletes,
       InstanceFails, DiskFaults, OperatorDeletes, DestroyedVanishes
  <2>3. ASSUME NEW m \in Names, GrowsOlder(m)
        PROVE  job' = job /\ (age[n] # "young" => age'[n] # "young")
    BY <2>3 DEF GrowsOlder
  <2>4. ASSUME NEW m \in Names PROVE ~LateCreationLands(m)
    BY DEF LateCreationLands
  <2> QED
    BY <1>2, <2>1, <2>2, <2>3, <2>4 DEF World, PlatformStep
<1> QED
  BY <1>1, <1>2, OtherStepEffects DEF Next

\* The listener reports a job as completed only when it is.
LEMMA EventsAreTrue ==
  ASSUME IInv, NInv, YoungAreSettling, [Next]_vars, NEW n \in Names,
         <<n, "completed">> \in inbox'
  PROVE  job'[n] = "completed"
<1> USE DEF IInv, TypeOK, PlatformTypeOK
<1>1. CASE Loop
  <2>1. inbox' \subseteq inbox
    <3>1. Gather \/ Audit \/ Scale => inbox' \subseteq inbox
      BY DEF Gather, StartReconcile, ListInstances, ListDisks, ObserveFails, Audit,
         AuditRunner, AuditRunnerFails, AuditDone, Scale, Reclaim, HoldScale, ScaleDown,
         StartScaleUp, FetchImage, FetchImageFails
    <3>2. Teardown => inbox' = inbox
      BY DEF Teardown, BeginTeardown, LookupRegistration, RemoveRegistration,
         JobStillRunning, DeleteInstance, InstanceGone, AwaitStop, StopInstance, DeleteDisk,
         AwaitDetach, NoDiskLeft, TeardownCallFails
    <3>3. Provision => inbox' = inbox
      BY DEF Provision, RegisterRunner, RegisterRunnerFails, CreateInstance,
         CreateInstanceFails, Provisioning, JoinProvision
    <3> QED
      BY <1>1, <3>1, <3>2, <3>3 DEF Loop
  <2>2. ASSUME NEW m \in Names, Effect(m) PROVE job' = job
    BY <2>2 DEF Effect, Registers, CreatesInstance, CreatesInstanceLate, Unregisters,
       StopsInstance, DeletesInstance, DeletesDisk
  <2> QED
    BY <1>1, <2>1, <2>2, LoopEffects DEF YoungAreSettling
<1>2. CASE Listen
  BY <1>2 DEF Listen, HandleDesiredRunnerCount, HandleJobStarted, HandleJobCompleted,
     YoungAreSettling
<1>3. CASE Clock \/ Restart \/ UNCHANGED vars
  BY <1>3 DEF Clock, AuditComesDue, WindowCloses, Restart, vars, YoungAreSettling
<1>4. CASE Crash
  BY <1>4 DEF Crash, FreshMemory
<1>5. CASE World
  <2>1. inbox' = inbox
    BY <1>5 DEF World, NameIsFreshAgain
  <2>2. job[n] = "completed"
    BY <2>1 DEF YoungAreSettling
  <2>3. ASSUME NEW m \in Names, NameIsFreshAgain(m) PROVE m # n
    BY <2>1, <2>3 DEF NameIsFreshAgain
  <2>4. ASSUME NEW m \in Names, NameIsFreshAgain(m) PROVE job'[n] = "completed"
    BY <2>2, <2>3, <2>4 DEF NameIsFreshAgain
  <2>5. PlatformStep => job'[n] = "completed"
    BY <2>2 DEF PlatformStep, JobAssigned, JobEnds, RegistrationLapses, Boots, PowersOff,
       StopCompletes, InstanceFails, DiskFaults, OperatorDeletes, DestroyedVanishes,
       GrowsOlder, LateCreationLands
  <2> QED
    BY <1>5, <2>4, <2>5 DEF World
<1> QED
  BY <1>1, <1>2, <1>3, <1>4, <1>5 DEF Next

\* The audit looks at runners that are past their grace period.
LEMMA AuditedArePast ==
  ASSUME IInv, NInv, YoungAreSettling, [Next]_vars, NEW n \in Names,
         pc' = "audit", n \in todo'
  PROVE  age'[n] # "young" /\ runners'[n].instance # "absent"
<1> USE DEF IInv, TypeOK
<1>1. CASE ListDisks
  BY <1>1 DEF ListDisks, AuditCandidates, Settled, PastGracePeriod
<1>2. CASE pc = "audit" /\ n \in todo
  <2>1. runners'[n].instance # "absent"
    BY <1>2, StepSees DEF Sees, SeesInstance, Listed, Observed, YoungAreSettling
  <2>2. runners'[n] # EmptyRunner
    BY <2>1 DEF EmptyRunner
  <2> QED
    BY <1>2, <2>1, <2>2, OnlyFreshNamesAreRenewed DEF YoungAreSettling
<1>3. Gather /\ ~ListDisks => pc' # "audit"
  BY DEF Gather, StartReconcile, ListInstances, ObserveFails
<1>4. Audit => pc = "audit" /\ n \in todo
  BY DEF Audit, AuditRunner, AuditRunnerFails, AuditDone
<1>5. Teardown => pc' # "audit"
  BY DEF Teardown, BeginTeardown, LookupRegistration, RemoveRegistration,
     JobStillRunning, DeleteInstance, InstanceGone, AwaitStop, StopInstance, DeleteDisk,
     AwaitDetach, NoDiskLeft, TeardownCallFails, Return
<1>6. Scale \/ Provision => pc' # "audit"
  BY DEF Scale, Reclaim, HoldScale, ScaleDown, StartScaleUp, FetchImage, FetchImageFails,
     EndReconcile, Provision, RegisterRunner, RegisterRunnerFails, CreateInstance,
     CreateInstanceFails, Provisioning, JoinProvision
<1>7. Listen \/ Clock \/ World \/ UNCHANGED vars => pc' = pc /\ todo' = todo
  BY DEF Listen, HandleDesiredRunnerCount, HandleJobStarted, HandleJobCompleted, Clock,
     AuditComesDue, WindowCloses, World, NameIsFreshAgain, vars
<1>8. Crash \/ Restart => pc' # "audit"
  BY DEF Crash, Restart
<1> QED
  BY <1>1, <1>2, <1>3, <1>4, <1>5, <1>6, <1>7, <1>8 DEF Next, Loop

\* If no call fails, no step begins to tear down a young runner before its job is over.
LEMMA YoungInductive ==
  ASSUME "api" \notin Disturbances, IInv, NInv, YoungAreSettling, [Next]_vars
  PROVE  YoungAreSettling'
<1> USE DEF IInv, TypeOK, PlatformTypeOK
<1>1. late' = {}
  <2>1. ASSUME NEW m \in Names, Effect(m) PROVE late' = late
    BY <2>1, NothingFails DEF Effect, Registers, CreatesInstance, CreatesInstanceLate,
       Unregisters, StopsInstance, DeletesInstance, DeletesDisk
  <2>2. World => late' \subseteq late
    BY DEF World, PlatformStep, JobAssigned, JobEnds, RegistrationLapses, GrowsOlder,
       NameIsFreshAgain, Boots, PowersOff, StopCompletes, InstanceFails, DiskFaults,
       OperatorDeletes, DestroyedVanishes, LateCreationLands
  <2> QED
    BY <2>1, <2>2, LoopEffects, OtherStepEffects DEF Next, YoungAreSettling
<1>2. ASSUME NEW n \in Names, TearingDown(runners'[n])
      PROVE  age'[n] # "young" \/ job'[n] = "completed"
  <2>1. runners'[n] # EmptyRunner
    BY <1>2 DEF TearingDown, EmptyRunner
  <2>2. CASE TearingDown(runners[n])
    BY <2>1, <2>2, OnlyFreshNamesAreRenewed DEF YoungAreSettling
  <2>3. CASE ~TearingDown(runners[n])
    <3>1. CASE StartReconcile
      <4>1. PICK r \in Runners :
              /\ r = IF <<n, "started">> \in inbox THEN JobStarted(runners[n]) ELSE runners[n]
              /\ runners'[n] = IF <<n, "completed">> \in inbox THEN JobCompleted(r) ELSE r
        BY <3>1, EventsOf
      <4>2. ~TearingDown(r)
        BY <2>3, <4>1 DEF JobStarted, TearingDown, Runners
      <4>3. <<n, "completed">> \in inbox
        BY <1>2, <4>1, <4>2
      <4> QED
        BY <3>1, <4>3 DEF StartReconcile, YoungAreSettling
    <3>2. CASE Crash
      BY <1>2, <3>2 DEF Crash, FreshMemory, EmptyRunner, TearingDown
    <3>3. CASE Marked(n) \/ ScaledDown(n)
      BY <3>3 DEF Marked, ScaledDown, ScaleDownCandidates, AuditCandidates, Settled,
         PastGracePeriod
    <3>4. CASE Audited(n)
      BY <3>4 DEF Audited, YoungAreSettling
    <3>5. ~GivenUp(n) /\ ~Undecided(n) /\ ~CalledOff(n) /\ ~FoundBusy(n) /\ ~Driven(n)
            /\ ~Finished(n)
      BY <1>2, <2>3 DEF GivenUp, YoungAreSettling, Undecided, CalledOff, FoundBusy, Driven,
         Finished, TearingDown
    <3> QED
      BY <3>1, <3>2, <3>3, <3>4, <3>5, StepDecides DEF Decides
  <2> QED
    BY <2>2, <2>3
<1> QED
  BY <1>1, <1>2, NothingFails, EventsAreTrue, AuditedArePast DEF YoungAreSettling

\* While no call fails, resourceGracePeriod protects a new instance from
\* everything but the end of its job.
THEOREM YoungAreSpared ==
  ASSUME "api" \notin Disturbances
  PROVE  Spec => []YoungInstancesAreSpared
<1>1. Init => YoungAreSettling
  BY DEF Init, PlatformInit, YoungAreSettling, EmptyRunner, TearingDown
<1>2. IInv /\ NInv /\ YoungAreSettling /\ [Next]_vars => YoungAreSettling'
  BY YoungInductive
<1>3. YoungAreSettling => YoungInstancesAreSpared
  BY DEF YoungAreSettling, YoungInstancesAreSpared
<1> QED
  BY Inductive, NamesSafe, <1>1, <1>2, <1>3, PTL DEF Spec

-----------------------------------------------------------------------------
(* Pending scale-downs are called off before anything is created.          *)

Driving == {"act", "lookup", "remove", "instance", "disk"}
Creating == {"image", "provision"}

\* When teardown starts, the target is met as far as it can be by calling off.
PlanHolds ==
  /\ pc \in Driving => Reclaimable(runners) = {} \/ ActiveRunnerCount(runners) >= target
  /\ ReclaimBeforeProvision

\* How the loop gets to the steps after the plan, and what is fixed from there on.
LEMMA Onward ==
  ASSUME IInv, [Next]_vars, pc' \in Driving \union Creating
  PROVE  \/ Reclaim \/ StartScaleUp \/ FetchImage
         \/ /\ pc \in Driving \/ pc' = pc
            /\ pc \in Driving => pc' \in Driving
            /\ pc \in Driving \union Creating
            /\ UNCHANGED <<target, config>>
            /\ \A n \in Names : prov[n] = "unused" => prov'[n] = "unused"
<1> USE DEF IInv, TypeOK, Driving, Creating
<1>1. CASE Gather \/ Audit
  BY <1>1 DEF Gather, StartReconcile, ListInstances, ListDisks, ObserveFails, Audit,
     AuditRunner, AuditRunnerFails, AuditDone
<1>2. CASE Teardown
  <2>1. pc \in Driving /\ pc' \in Driving /\ UNCHANGED <<target, config, prov>>
    BY <1>2 DEF Teardown, BeginTeardown, LookupRegistration, RemoveRegistration,
       JobStillRunning, DeleteInstance, InstanceGone, AwaitStop, StopInstance, DeleteDisk,
       AwaitDetach, NoDiskLeft, TeardownCallFails, Return
  <2> QED
    BY <2>1
<1>3. CASE Scale
  <2>1. HoldScale \/ ScaleDown \/ FetchImageFails => pc' \in {"idle", "drained"}
    BY DEF HoldScale, ScaleDown, FetchImageFails, EndReconcile
  <2> QED
    BY <1>3, <2>1 DEF Scale
<1>4. CASE Provision
  <2>1. JoinProvision => pc' \in {"idle", "drained"}
    BY DEF JoinProvision, EndReconcile
  <2>2. ASSUME NEW m \in Names, NEW status, Provisioning(m, status), prov[m] # "unused"
        PROVE  /\ pc = "provision" /\ pc' = pc /\ UNCHANGED <<target, config>>
               /\ \A n \in Names : prov[n] = "unused" => prov'[n] = "unused"
    BY <2>2 DEF Provisioning
  <2>3. ASSUME NEW m \in Names,
               \/ RegisterRunner(m) \/ RegisterRunnerFails(m)
               \/ CreateInstance(m) \/ CreateInstanceFails(m)
        PROVE  prov[m] # "unused" /\ \E status : Provisioning(m, status)
    BY <2>3 DEF RegisterRunner, RegisterRunnerFails, CreateInstance, CreateInstanceFails,
       HasSlot
  <2> QED
    BY <1>4, <2>1, <2>2, <2>3 DEF Provision
<1>5. CASE Listen \/ Clock \/ World \/ UNCHANGED vars
  <2>1. UNCHANGED <<pc, target, config, prov>>
    BY <1>5 DEF Listen, HandleDesiredRunnerCount, HandleJobStarted, HandleJobCompleted, Clock,
       AuditComesDue, WindowCloses, World, NameIsFreshAgain, vars
  <2> QED
    BY <2>1
<1>6. CASE Crash \/ Restart
  BY <1>6 DEF Crash, Restart
<1> QED
  BY <1>1, <1>2, <1>3, <1>4, <1>5, <1>6 DEF Next, Loop

\* After the plan, runners only stop being reclaimable, and while teardowns are
\* driven none of the active ones is lost.
LEMMA PlanShrinks ==
  ASSUME IInv, [Next]_vars, pc \in Driving \union Creating, pc' \in Driving \union Creating
  PROVE  /\ Reclaimable(runners') \subseteq Reclaimable(runners)
         /\ pc \in Driving => ActiveRunners(runners) \subseteq ActiveRunners(runners')
<1> USE DEF IInv, TypeOK, Driving, Creating
<1>0. pc \in Observed /\ pc' \in Observed /\ pc \in Listed /\ ~Crash /\ ~StartReconcile
  BY DEF Observed, Listed, Crash, StartReconcile
<1>1. ASSUME NEW n \in Names
      PROVE  \/ runners'[n].instance = runners[n].instance
             \/ /\ runners'[n].instance = "absent"
                /\ runners[n].instance = "absent" \/ InstanceHalted(runners[n].instance)
  BY <1>0, StepSees DEF Sees, SeesInstance, Observed, Listed, InstanceHalted
<1>2. ASSUME NEW n \in Names, CanCancelForCapacity(runners'[n].teardown)
      PROVE  runners'[n].teardown = runners[n].teardown
  <2>1. runners'[n].teardown.policy = "cancelable" /\ runners'[n].teardown.waiting
    BY <1>2 DEF CanCancelForCapacity
  <2>2. runners'[n].teardown # NoTeardown
    BY <2>1 DEF NoTeardown
  <2> QED
    BY <1>0, <2>1, <2>2, StepDecides DEF Decides, Undecided, Marked, Audited, CalledOff,
       FoundBusy, Driven, Finished, ScaledDown, GivenUp
<1>3. Reclaimable(runners') \subseteq Reclaimable(runners)
  BY <1>1, <1>2 DEF Reclaimable
<1>4. ASSUME NEW n \in Names, pc \in Driving, ~TearingDown(runners[n])
      PROVE  ~TearingDown(runners'[n])
  <2>1. pc = "disk" /\ n = cur => TearingDown(runners[n])
    BY DEF TeardownInHand, TearingDown, NoTeardown
  <2>2. prov[n] = "unused"
    BY <1>4 DEF ProvisioningIsFresh
  <2> QED
    BY <1>0, <1>4, <2>1, <2>2, StepDecides DEF Decides, Undecided, Marked, Audited, CalledOff,
       FoundBusy, Driven, Finished, ScaledDown, GivenUp, TearingDown
<1>5. pc \in Driving => ActiveRunners(runners) \subseteq ActiveRunners(runners')
  BY <1>1, <1>4 DEF ActiveRunners, Active
<1> QED
  BY <1>3, <1>5

\* Counting the runners of a view, and those chosen among them.
LEMMA Counts ==
  ASSUME NEW S \in SUBSET Names, NEW T \in SUBSET Names
  PROVE  /\ IsFiniteSet(S) /\ Cardinality(S) \in Nat
         /\ S \subseteq T => Cardinality(S) <= Cardinality(T)
         /\ S \subseteq T /\ Cardinality(S) = Cardinality(T) => S = T
         /\ Cardinality(S \union T) <= Cardinality(S) + Cardinality(T)
         /\ S \intersect T = {} => Cardinality(S \union T) = Cardinality(S) + Cardinality(T)
<1>1. IsFiniteSet(S) /\ IsFiniteSet(T)
  BY NamesAssumption, FS_Subset
<1>2. Cardinality(S) \in Nat /\ Cardinality(T) \in Nat
  BY <1>1, FS_CardinalityType
<1>3. /\ S \subseteq T => Cardinality(S) <= Cardinality(T)
      /\ S \subseteq T /\ Cardinality(S) = Cardinality(T) => S = T
  BY <1>1, FS_Subset
<1>4. IsFiniteSet(S \intersect T) /\ Cardinality(S \intersect T) \in Nat
  <2>1. IsFiniteSet(S \intersect T)
    BY <1>1, FS_Subset
  <2> QED
    BY <2>1, FS_CardinalityType
<1>5. Cardinality(S \union T)
        = Cardinality(S) + Cardinality(T) - Cardinality(S \intersect T)
  BY <1>1, FS_Union
<1>6. S \intersect T = {} => Cardinality(S \intersect T) = 0
  BY FS_EmptySet
<1> QED
  BY <1>1, <1>2, <1>3, <1>4, <1>5, <1>6

\* cancelPendingScaleDowns calls off all there is, or as much as the target asks for.
LEMMA ReclaimMeetsTarget ==
  ASSUME IInv, Reclaim
  PROVE  Reclaimable(runners') = {} \/ ActiveRunnerCount(runners') >= target'
<1> USE DEF IInv, TypeOK
<1> DEFINE A == ActiveRunners(runners)
           C == Reclaimable(runners)
           needed == AtLeast(Target - Cardinality(A), 0)
<1>1. PICK chosen \in SUBSET C :
        /\ Cardinality(chosen) = AtMost(needed, Cardinality(C))
        /\ runners' = [n \in Names |->
             IF n \in chosen THEN [runners[n] EXCEPT !.teardown = NoTeardown] ELSE runners[n]]
        /\ target' = Target
  BY DEF Reclaim, kSubset, Missing, ActiveRunnerCount
<1>2. /\ \A n \in chosen : /\ runners'[n].teardown = NoTeardown
                           /\ runners'[n].instance = runners[n].instance
      /\ \A n \in Names \ chosen : runners'[n] = runners[n]
  BY <1>1 DEF Runners, Reclaimable
<1>3. ~CanCancelForCapacity(NoTeardown)
  BY DEF CanCancelForCapacity, NoTeardown
<1>4. Reclaimable(runners') \subseteq C \ chosen
  BY <1>2, <1>3 DEF Reclaimable
<1>5. A \union chosen \subseteq ActiveRunners(runners')
  BY <1>2 DEF ActiveRunners, Active, TearingDown, Reclaimable
<1>6. A \intersect chosen = {}
  BY <1>1, <1>3 DEF ActiveRunners, Active, TearingDown, Reclaimable
<1>7. /\ A \subseteq Names /\ C \subseteq Names /\ chosen \subseteq Names
      /\ A \union chosen \subseteq Names /\ ActiveRunners(runners') \subseteq Names
  BY DEF ActiveRunners, Reclaimable
<1>8. /\ Cardinality(A) \in Nat /\ Cardinality(C) \in Nat /\ Cardinality(chosen) \in Nat
      /\ Cardinality(ActiveRunners(runners')) \in Nat
      /\ Cardinality(A \union chosen) = Cardinality(A) + Cardinality(chosen)
      /\ Cardinality(A \union chosen) <= Cardinality(ActiveRunners(runners'))
      /\ Cardinality(chosen) = Cardinality(C) => chosen = C
  <2>1. Cardinality(A \union chosen) = Cardinality(A) + Cardinality(chosen)
    BY <1>6, <1>7, Counts
  <2>2. Cardinality(A \union chosen) <= Cardinality(ActiveRunners(runners'))
    BY <1>5, <1>7, Counts
  <2>3. Cardinality(chosen) = Cardinality(C) => chosen = C
    BY <1>7, Counts
  <2>4. Cardinality(A) \in Nat /\ Cardinality(C) \in Nat /\ Cardinality(chosen) \in Nat
    BY <1>7, Counts
  <2>5. Cardinality(ActiveRunners(runners')) \in Nat
    BY <1>7, Counts
  <2> QED
    BY <2>1, <2>2, <2>3, <2>4, <2>5
<1>9. Target \in Int
  BY ConstantsAssumption DEF Target, AtMost
<1>10. CASE Cardinality(chosen) = Cardinality(C)
  BY <1>4, <1>8, <1>10
<1>11. CASE Cardinality(chosen) = needed
  <2> HIDE DEF A, C
  <2>1. Cardinality(chosen) >= Target - Cardinality(A)
    BY <1>8, <1>9, <1>11 DEF AtLeast
  <2>2. Cardinality(ActiveRunners(runners')) >= Target
    BY <1>8, <1>9, <2>1
  <2> QED
    BY <1>1, <2>2 DEF ActiveRunnerCount
<1> QED
  BY <1>1, <1>10, <1>11 DEF AtMost

\* What is driven and planned keeps to the plan.
LEMMA PlanInductive ==
  ASSUME IInv, PlanHolds, [Next]_vars
  PROVE  PlanHolds'
<1> USE DEF IInv, TypeOK
<1>1. CASE Reclaim
  BY <1>1, ReclaimMeetsTarget DEF Reclaim, PlanHolds, ReclaimBeforeProvision
<1>2. CASE StartScaleUp
  <2>1. pc = "act" /\ pc' = "image" /\ ActiveRunnerCount(PrunedView) < target
    BY <1>2 DEF StartScaleUp
  <2>2. ActiveRunners(PrunedView) = ActiveRunners(runners)
    BY PrunedTypes DEF ActiveRunners, Active, Gone, EmptyRunner
  <2>3. Cardinality(ActiveRunners(runners)) \in Nat
    BY Counts DEF ActiveRunners
  <2>4. Reclaimable(runners) = {}
    BY <2>1, <2>2, <2>3 DEF PlanHolds, Driving, ActiveRunnerCount
  <2>5. Reclaimable(runners') \subseteq Reclaimable(runners)
    BY <2>1, PlanShrinks DEF Driving, Creating
  <2> QED
    BY <2>1, <2>4, <2>5 DEF PlanHolds, ReclaimBeforeProvision, Driving
<1>3. CASE FetchImage
  BY <1>3 DEF FetchImage, PlanHolds, ReclaimBeforeProvision, Driving
<1>4. CASE pc' \notin Driving \union Creating
  BY <1>4 DEF PlanHolds, ReclaimBeforeProvision, Driving, Creating
<1>5. CASE /\ pc' \in Driving \union Creating /\ target' = target
           /\ pc \in Driving \union Creating
           /\ pc \in Driving \/ pc' = pc
           /\ pc \in Driving => pc' \in Driving
  <2>1. Reclaimable(runners') \subseteq Reclaimable(runners)
    BY <1>5, PlanShrinks
  <2>2. CASE pc \in Driving
    <3>1. ActiveRunners(runners) \subseteq ActiveRunners(runners')
      BY <1>5, <2>2, PlanShrinks
    <3>2. /\ Cardinality(ActiveRunners(runners)) <= Cardinality(ActiveRunners(runners'))
          /\ Cardinality(ActiveRunners(runners)) \in Nat
      BY <3>1, Counts DEF ActiveRunners
    <3>3. Cardinality(ActiveRunners(runners')) \in Nat
      BY Counts DEF ActiveRunners
    <3>4. target \in Int
      OBVIOUS
    <3>5. ReclaimBeforeProvision'
      BY <1>5, <2>2 DEF ReclaimBeforeProvision, Driving
    <3> QED
      BY <1>5, <2>1, <2>2, <3>2, <3>3, <3>4, <3>5 DEF PlanHolds, ActiveRunnerCount
  <2>3. CASE pc \notin Driving
    BY <1>5, <2>1, <2>3 DEF PlanHolds, ReclaimBeforeProvision, Driving, Creating
  <2> QED
    BY <2>2, <2>3
<1> QED
  BY <1>1, <1>2, <1>3, <1>4, <1>5, Onward

\* Whoever is about to be created is needed: no pending scale-down is left that
\* cancelPendingScaleDowns could have called off instead.
THEOREM ReclaimIsFirst == Spec => []ReclaimBeforeProvision
<1>1. Init => PlanHolds
  BY DEF Init, PlanHolds, ReclaimBeforeProvision, Driving
<1>2. IInv /\ PlanHolds /\ [Next]_vars => PlanHolds'
  BY PlanInductive
<1>3. PlanHolds => ReclaimBeforeProvision
  BY DEF PlanHolds
<1> QED
  BY Inductive, <1>1, <1>2, <1>3, PTL DEF Spec

-----------------------------------------------------------------------------
(* The limit of scaleUp.                                                   *)

\* The instances there are, or will be when the goroutines are done.
Planned == {n \in Names : runners[n].instance # "absent" \/ prov[n] # "unused"}

\* Those that were counted and those that were requested fit into the limit.
PlanFits ==
  pc = "provision" /\ (\E n \in Names : prov[n] # "unused") =>
    Cardinality(Planned) <= config.max

\* The goroutines are as many as the counted instances leave room for.
LEMMA RequestFits ==
  ASSUME IInv, FetchImage
  PROVE  PlanFits'
<1> USE DEF IInv, TypeOK
<1>1. PICK chosen \in SUBSET FreshNames :
        /\ Cardinality(chosen) = AtMost(Requested, Cardinality(FreshNames))
        /\ prov' = [n \in Names |-> IF n \in chosen THEN "queued" ELSE "unused"]
  BY DEF FetchImage, kSubset
<1> DEFINE I == {n \in Names : PrunedView[n].instance # "absent"}
<1>2. runners' = runners /\ config' = config
  BY DEF FetchImage
<1>3. \A n \in Names : PrunedView[n].instance = runners[n].instance
  BY PrunedTypes DEF Gone, EmptyRunner
<1>4. Planned' = I \union chosen
  BY <1>1, <1>2, <1>3 DEF Planned, FreshNames
<1>5. I \subseteq Names /\ chosen \subseteq Names /\ FreshNames \subseteq Names
  BY DEF FreshNames
<1>6. /\ Cardinality(I \union chosen) <= Cardinality(I) + Cardinality(chosen)
      /\ Cardinality(I) \in Nat /\ Cardinality(chosen) \in Nat
      /\ Cardinality(FreshNames) \in Nat
  <2>1. Cardinality(I \union chosen) <= Cardinality(I) + Cardinality(chosen)
    BY <1>5, Counts
  <2>2. Cardinality(I) \in Nat /\ Cardinality(chosen) \in Nat
    BY <1>5, Counts
  <2>3. Cardinality(FreshNames) \in Nat
    BY <1>5, Counts
  <2> QED
    BY <2>1, <2>2, <2>3
<1>7. Cardinality(I \union chosen) \in Nat
  <2>1. I \union chosen \subseteq Names
    BY <1>5
  <2> QED
    BY <2>1, Counts
<1>8. config.max \in Nat
  BY ConstantsAssumption
<1>9. ActiveRunnerCount(PrunedView) \in Nat
  BY Counts DEF ActiveRunnerCount, ActiveRunners
<1>10. Cardinality(chosen) <= Requested /\ Requested \in Int
  <2>1. Requested \in Int
    BY <1>6, <1>8, <1>9 DEF Requested, AtMost, AtLeast, InstanceCount
  <2> QED
    BY <1>1, <1>6, <2>1 DEF AtMost
<1>11. CASE chosen = {}
  BY <1>1, <1>11 DEF PlanFits
<1>12. CASE chosen # {}
  <2>1. Cardinality(chosen) # 0
    BY <1>5, <1>12, Counts, FS_EmptySet
  <2>2. Cardinality(I) = InstanceCount(PrunedView)
    BY DEF InstanceCount
  <2> HIDE DEF I
  <2>3. Cardinality(chosen) <= config.max - Cardinality(I)
    BY <1>6, <1>8, <1>9, <1>10, <2>1, <2>2 DEF Requested, AtMost, AtLeast
  <2>4. Cardinality(I \union chosen) <= config.max
    BY <1>6, <1>7, <1>8, <2>3
  <2> QED
    BY <1>2, <1>4, <2>4 DEF PlanFits
<1> QED
  BY <1>11, <1>12

\* While the goroutines run, nobody is added to them or to the view.
LEMMA PlanFitsInductive ==
  ASSUME IInv, PlanFits, [Next]_vars
  PROVE  PlanFits'
<1> USE DEF IInv, TypeOK
<1>1. CASE pc' = "provision" /\ pc = "provision" /\ config' = config
           /\ \A n \in Names : prov[n] = "unused" => prov'[n] = "unused"
  <2>1. \A n \in Names : runners'[n].instance # "absent" => runners[n].instance # "absent"
    BY <1>1, StepSees DEF Sees, SeesInstance
  <2>2. Planned' \subseteq Planned /\ Planned \subseteq Names
    BY <1>1, <2>1 DEF Planned
  <2>3. Cardinality(Planned') <= Cardinality(Planned)
    BY <2>2, Counts
  <2>4. Cardinality(Planned) \in Nat
    BY <2>2, Counts
  <2>5. Cardinality(Planned') \in Nat
    <3>1. Planned' \subseteq Names
      BY <2>2
    <3> QED
      BY <3>1, Counts
  <2>6. config.max \in Nat
    BY ConstantsAssumption
  <2>7. (\E n \in Names : prov'[n] # "unused") => \E n \in Names : prov[n] # "unused"
    BY <1>1
  <2> QED
    BY <1>1, <2>3, <2>4, <2>5, <2>6, <2>7 DEF PlanFits
<1>2. CASE FetchImage
  BY <1>2, RequestFits
<1>3. CASE pc' # "provision"
  BY <1>3 DEF PlanFits
<1>4. pc' = "provision" => ~Reclaim /\ ~StartScaleUp
  BY DEF Reclaim, StartScaleUp
<1> QED
  BY <1>1, <1>2, <1>3, <1>4, Onward DEF Driving, Creating

\* Creating an instance never raises their number above MaxRunners: what scaleUp
\* counted is all there is, and nothing appears but what it requested.
THEOREM CreatesWithinLimit ==
  ASSUME "late" \notin Disturbances
  PROVE  Spec => CreateWithinMax
<1>1. Init => PlanFits
  BY DEF Init, PlanFits
<1>2. IInv /\ PlanFits /\ [Next]_vars => PlanFits'
  BY PlanFitsInductive
<1>3. ASSUME IInv, NInv, AbsencesHold, PlanFits, [Next]_vars,
             Cardinality(Existing') > Cardinality(Existing)
      PROVE  Cardinality(Existing') <= config.max
  <2> USE <1>3 DEF IInv, TypeOK
  <2>1. Existing \subseteq Names /\ Existing' \subseteq Names
    BY DEF Existing
  <2>2. ~(Existing' \subseteq Existing)
    <3>1. Cardinality(Existing) \in Nat
      BY <2>1, Counts
    <3>2. Cardinality(Existing') \in Nat
      BY <2>1, Counts
    <3>3. Existing' \subseteq Existing => Cardinality(Existing') <= Cardinality(Existing)
      BY <2>1, Counts
    <3> QED
      BY <3>1, <3>2, <3>3
  <2>3. \A n \in Existing' \ Existing : prov[n] = "registered"
    BY <2>1, NothingAppears DEF Declines, Existing, AbsencesHold
  <2>4. pc = "provision" /\ \E n \in Names : prov[n] # "unused"
    BY <2>1, <2>2, <2>3 DEF ProvisioningIsFresh
  <2>5. Existing' \subseteq Planned
    <3>1. \A n \in Existing : n \in Planned
      BY <2>1, <2>4 DEF AbsencesHold, Planned, Settles, Listed, Observed
    <3> QED
      BY <2>1, <2>3, <3>1 DEF Planned
  <2>6. Cardinality(Planned) <= config.max
    BY <2>4 DEF PlanFits
  <2>7. Planned \subseteq Names
    BY DEF Planned
  <2>8. Cardinality(Existing') <= Cardinality(Planned)
    BY <2>1, <2>5, <2>7, Counts
  <2>9. Cardinality(Existing') \in Nat
    BY <2>1, Counts
  <2>10. Cardinality(Planned) \in Nat /\ config.max \in Nat
    BY <2>7, Counts, ConstantsAssumption
  <2> QED
    BY <2>6, <2>8, <2>9, <2>10
<1>4. IInv /\ NInv /\ AbsencesHold /\ PlanFits /\ [Next]_vars =>
        [Cardinality(Existing') > Cardinality(Existing) =>
           Cardinality(Existing') <= config.max]_vars
  BY <1>3
<1> QED
  BY Inductive, NamesSafe, AbsencesSafe, <1>1, <1>2, <1>4, PTL DEF Spec, CreateWithinMax

=============================================================================
