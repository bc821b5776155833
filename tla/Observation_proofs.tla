-------------------------- MODULE Observation_proofs --------------------------
(***************************************************************************)
(* What the scaler may conclude from a snapshot that has become stale:     *)
(* which of the things it has read stay true while it acts on them.        *)
(***************************************************************************)
EXTENDS LifecycleRefinement_proofs

USE DEF platformVars, githubVars, oxideVars, inputVars, planVars, workVars, loopVars,
        processVars

-----------------------------------------------------------------------------
(* What stays gone on the platform.                                        *)

\* Under a name that no goroutine is about to create an instance for, and for
\* which no late creation is under way, things only go downhill.
Declines(n) ==
  /\ n \notin late'
  /\ runState[n] = "absent" => runState'[n] = "absent"
  /\ runState[n] \in {"absent", "destroyed"} => runState'[n] \in {"absent", "destroyed"}
  /\ runState[n] = "absent" \/ InstanceHalted(runState[n])
       => runState'[n] = "absent" \/ InstanceHalted(runState'[n])
  /\ disk[n] = "absent" => disk'[n] = "absent"
  /\ disk[n] # "attached" => disk'[n] # "attached"

\* An instance that has halted stays halted, a detached disk stays detached and
\* what is gone stays gone, whatever the process and the world do.
LEMMA NothingAppears ==
  ASSUME IInv, NInv, [Next]_vars, NEW n \in Names, n \notin late, prov[n] # "registered"
  PROVE  Declines(n)
<1> USE DEF IInv, TypeOK, PlatformTypeOK
<1>1. n \notin late'
  BY LateNames
<1> USE <1>1 DEF Declines, InstanceHalted
<1>2. CASE UNCHANGED <<registered, job, oxideVars>>
  BY <1>2
<1>3. ASSUME NEW m \in Names, Effect(m) PROVE Declines(n)
  <2>1. CASE n = m
    BY <1>3, <2>1 DEF Effect, Registers, CreatesInstance, CreatesInstanceLate, Unregisters,
       StopsInstance, DeletesInstance, DeletesDisk
  <2>2. CASE n # m
    BY <1>3, <2>2 DEF Effect, Registers, CreatesInstance, CreatesInstanceLate, Unregisters,
       StopsInstance, DeletesInstance, DeletesDisk
  <2> QED
    BY <2>1, <2>2
<1>4. CASE World
  <2>1. ASSUME NEW m \in Names,
               \/ JobAssigned(m) \/ JobEnds(m) \/ RegistrationLapses(m)
               \/ GrowsOlder(m) \/ NameIsFreshAgain(m)
        PROVE  Declines(n)
    BY <2>1 DEF JobAssigned, JobEnds, RegistrationLapses, GrowsOlder, NameIsFreshAgain
  <2>2. ASSUME NEW m \in Names,
               \/ Boots(m) \/ PowersOff(m) \/ StopCompletes(m) \/ InstanceFails(m)
               \/ DiskFaults(m) \/ OperatorDeletes(m) \/ DestroyedVanishes(m)
        PROVE  Declines(n)
    BY <2>2 DEF Boots, PowersOff, StopCompletes, InstanceFails, DiskFaults,
       OperatorDeletes, DestroyedVanishes
  <2>3. ASSUME NEW m \in Names, LateCreationLands(m) PROVE Declines(n)
    BY <2>3 DEF LateCreationLands
  <2> QED
    BY <1>4, <2>1, <2>2, <2>3 DEF World, PlatformStep
<1> QED
  BY <1>2, <1>3, <1>4, LoopEffects, OtherStepEffects DEF Next

-----------------------------------------------------------------------------
(* The view a reconciliation returns with.                                 *)

\* What it holds of n, compared with the view it was made from.
Concludes(n, view) ==
  /\ view[n] = EmptyRunner =>
       /\ runners[n].instance = "absent" /\ runners[n].disk = "absent"
       /\ prov[n] \notin {"created", "failed"}
  /\ \/ /\ view[n].teardown = runners[n].teardown
        /\ view[n].busy = runners[n].busy \/ (pc = "act" /\ Gone(runners[n]))
        /\ prov[n] # "failed"
     \/ /\ pc = "act" /\ n \in ScaleDownCandidates(runners)
        /\ view[n] = MarkForTeardown(runners[n], "cancelable")
     \/ /\ prov[n] = "failed"
        /\ view[n] = MarkForTeardown(runners[n], "permanent")

Returns == HoldScale \/ ScaleDown \/ FetchImageFails \/ JoinProvision

\* Pruning replaces an entry that is gone by none.
LEMMA PrunedTypes ==
  ASSUME IInv
  PROVE  /\ PrunedView \in [Names -> Runners]
         /\ \A n \in Names : \/ PrunedView[n] = runners[n]
                             \/ PrunedView[n] = EmptyRunner /\ Gone(runners[n])
BY EmptyRunnerType DEF IInv, TypeOK, PrunedView, Pruned

\* A runner that is marked has an entry.
LEMMA MarkedIsNotEmpty ==
  ASSUME NEW r \in Runners, NEW policy \in Policies
  PROVE  MarkForTeardown(r, policy) # EmptyRunner
<1>1. MarkForTeardown(r, policy).teardown # NoTeardown
  BY MarkForTeardownPhase DEF TeardownStates, NoTeardown, Policies
<1> QED
  BY <1>1 DEF EmptyRunner

\* reconcile returns with the pruned view, with that view and new scale-downs,
\* or with what became of its goroutines.
LEMMA ReturnedViews ==
  ASSUME IInv, Returns
  PROVE  \E view \in [Names -> Runners], rq \in BOOLEAN :
           EndReconcile(view, rq) /\ \A n \in Names : Concludes(n, view)
<1> USE DEF IInv, TypeOK
<1>0. {"permanent", "cancelable"} = Policies
  BY DEF Policies
<1>1. \A n \in Names : Gone(runners[n]) =>
         /\ runners[n].instance = "absent" /\ runners[n].disk = "absent"
         /\ runners[n].teardown = NoTeardown
  BY DEF Gone, TearingDown
<1>2. EmptyRunner.teardown = NoTeardown
  BY DEF EmptyRunner
<1>3. pc # "provision" => \A n \in Names : prov[n] = "unused"
  BY DEF ProvisioningIsFresh
<1>4. CASE HoldScale
  <2>1. EndReconcile(PrunedView, requeue) /\ pc = "act"
    BY <1>4 DEF HoldScale
  <2>2. \A n \in Names : Concludes(n, PrunedView)
    BY <1>1, <1>2, <1>3, <2>1, PrunedTypes DEF Concludes, EmptyRunner
  <2> QED
    BY <2>1, <2>2, PrunedTypes
<1>5. CASE ScaleDown
  <2>1. PICK chosen \in SUBSET ScaleDownCandidates(PrunedView) :
          EndReconcile([m \in Names |->
                IF m \in chosen THEN MarkForTeardown(PrunedView[m], "cancelable")
                                ELSE PrunedView[m]],
                requeue \/ chosen # {})
    BY <1>5 DEF ScaleDown, kSubset
  <2>2. pc = "act"
    BY <1>5 DEF ScaleDown
  <2> DEFINE view == [m \in Names |->
                IF m \in chosen THEN MarkForTeardown(PrunedView[m], "cancelable")
                                ELSE PrunedView[m]]
             rq == requeue \/ chosen # {}
  <2>3. view \in [Names -> Runners]
    BY <1>0, PrunedTypes, MarkForTeardownType
  <2>4. \A n \in chosen : n \in ScaleDownCandidates(runners) /\ PrunedView[n] = runners[n]
    BY PrunedTypes DEF ScaleDownCandidates, AuditCandidates, Settled, EmptyRunner
  <2>5. ASSUME NEW n \in Names PROVE Concludes(n, view)
    <3>1. CASE n \in chosen
      <4>1. view[n] = MarkForTeardown(runners[n], "cancelable")
        BY <2>4, <3>1
      <4> QED
        BY <1>0, <2>2, <2>4, <3>1, <4>1, MarkedIsNotEmpty DEF Concludes
    <3>2. CASE n \notin chosen
      <4>1. view[n] = PrunedView[n]
        BY <3>2
      <4> QED
        BY <1>1, <1>2, <1>3, <2>2, <4>1, PrunedTypes DEF Concludes, EmptyRunner
    <3> QED
      BY <3>1, <3>2
  <2>6. EndReconcile(view, rq) /\ rq \in BOOLEAN
    BY <2>1
  <2> HIDE DEF view, rq
  <2> QED
    BY <2>3, <2>5, <2>6
<1>6. CASE FetchImageFails
  <2>1. EndReconcile(runners, TRUE) /\ pc = "image"
    BY <1>6 DEF FetchImageFails
  <2>2. \A n \in Names : Concludes(n, runners)
    BY <1>3, <2>1 DEF Concludes, EmptyRunner
  <2> QED
    BY <2>1, <2>2
<1>7. CASE JoinProvision
  <2> DEFINE view == [n \in Names |-> Provisioned(n)]
             rq == requeue \/ \E n \in Names : prov[n] = "failed"
  <2>1. ASSUME NEW n \in Names
        PROVE  /\ [runners[n] EXCEPT !.instance = "starting"] \in Runners
               /\ [runners[n] EXCEPT !.instance = "starting"] # EmptyRunner
               /\ [runners[n] EXCEPT !.instance = "starting"].teardown = runners[n].teardown
               /\ [runners[n] EXCEPT !.instance = "starting"].busy = runners[n].busy
    BY DEF Runners, RunStates, EmptyRunner
  <2>2. view \in [Names -> Runners]
    BY <1>0, <2>1, MarkForTeardownType DEF Provisioned
  <2>3. ASSUME NEW n \in Names PROVE Concludes(n, view)
    <3>1. view[n] = Provisioned(n) /\ runners[n] \in Runners
      OBVIOUS
    <3>2. prov[n] \in {"unused", "created", "failed"}
      BY <1>7 DEF JoinProvision
    <3> HIDE DEF view
    <3> QED
      BY <1>0, <2>1, <3>1, <3>2, MarkedIsNotEmpty DEF Concludes, Provisioned, EmptyRunner
  <2>4. EndReconcile(view, rq) /\ rq \in BOOLEAN
    BY <1>7 DEF JoinProvision
  <2> HIDE DEF view, rq
  <2> QED
    BY <2>2, <2>3, <2>4
<1> QED
  BY <1>4, <1>5, <1>6, <1>7 DEF Returns

-----------------------------------------------------------------------------
(* Where the snapshots in the view come from.                              *)

\* After the instances were listed, and after the disks were listed as well.
Observed == {"audit", "reclaim", "act", "lookup", "remove", "instance", "disk", "image",
             "provision"}
Listed == Observed \union {"disks"}

\* A goroutine that has registered its runner goes on to the outcome, which stays
\* until the goroutines are joined.
Settles(n) == prov[n] \in {"created", "failed"}
Proceeds(n) ==
  prov'[n] # prov[n] => prov[n] \in {"unused", "queued"}
                        \/ (prov[n] = "registered" /\ Settles(n)')

SeesInstance(n) ==
  \/ /\ runners'[n].instance = runners[n].instance
     /\ pc' \in Listed => pc \in Listed /\ Proceeds(n)
  \/ /\ pc = "instances" /\ UNCHANGED platformVars
     /\ runners'[n].instance = runState[n]
  \/ runners'[n].instance = "absent" /\ pc' \notin Listed
  \/ /\ pc = "instance" /\ n = cur /\ runners'[n].instance = "absent"
     /\ \/ runners[n].instance \in {"absent", "destroyed"} /\ UNCHANGED platformVars
        \/ runners[n].instance \in {"stopped", "failed"} /\ DeletesInstance(n)

SeesDisk(n) ==
  \/ /\ runners'[n].disk = runners[n].disk
     /\ pc' \in Observed => pc \in Observed /\ Proceeds(n)
  \/ /\ pc = "disks" /\ UNCHANGED platformVars
     /\ runners'[n].disk = disk[n]
  \/ runners'[n].disk = "absent" /\ pc' \notin Observed
  \/ pc = "disk" /\ n = cur /\ runners'[n].disk = "absent" /\ DeletesDisk(n)

Sees(n) == SeesInstance(n) /\ SeesDisk(n)

Keeps(n) ==
  /\ runners'[n].instance = runners[n].instance
  /\ runners'[n].disk = runners[n].disk

\* A reconciliation that returns drops the snapshots.
LEMMA ReturnDrops ==
  ASSUME NEW n \in Names, NEW view \in [Names -> Runners], NEW rq, ReturnToRun(view, rq),
         pc' \in {"idle", "drained"}
  PROVE  Sees(n)
BY DEF ReturnToRun, Runners, Sees, SeesInstance, SeesDisk, Observed, Listed

\* Listing: what is read is what is there, and what was read before is still true.
LEMMA GatherSees ==
  ASSUME IInv, Gather, NEW n \in Names
  PROVE  Sees(n)
<1> USE DEF IInv, TypeOK, Sees, SeesInstance, SeesDisk, Observed, Listed, Proceeds
<1>1. CASE StartReconcile
  <2> DEFINE r == IF <<n, "started">> \in inbox THEN JobStarted(runners[n]) ELSE runners[n]
  <2>1. runners'[n] = IF <<n, "completed">> \in inbox THEN JobCompleted(r) ELSE r
    BY <1>1 DEF StartReconcile
  <2>2. r \in Runners /\ r.instance = runners[n].instance /\ r.disk = runners[n].disk
    BY JobEventTypes, SnapshotsAreKept
  <2> HIDE DEF r
  <2>3. JobCompleted(r).instance = r.instance /\ JobCompleted(r).disk = r.disk
    BY <2>2, SnapshotsAreKept
  <2>4. Keeps(n)
    BY <2>1, <2>2, <2>3 DEF Keeps
  <2> QED
    BY <1>1, <2>4 DEF StartReconcile, Keeps
<1>2. CASE ListInstances
  <2>1. /\ runners'[n].instance = runState[n] /\ runners'[n].disk = runners[n].disk
        /\ pc = "instances" /\ pc' = "disks" /\ UNCHANGED platformVars
    BY <1>2 DEF ListInstances, Runners
  <2> QED
    BY <2>1
<1>3. CASE ListDisks
  <2> DEFINE r == [runners[n] EXCEPT !.disk = disk[n]]
             s == MarkedForInstance(n, r)
  <2>1. runners'[n] = MarkedForDisk(n, s)
    BY <1>3 DEF ListDisks
  <2>2. r \in Runners /\ r.instance = runners[n].instance /\ r.disk = disk[n]
    BY DEF Runners, PlatformTypeOK
  <2> HIDE DEF r
  <2>3. s \in Runners /\ s.instance = r.instance /\ s.disk = r.disk
    BY <2>2, MarkForTeardownKeeps, MarkForTeardownType DEF MarkedForInstance, Policies
  <2> HIDE DEF s
  <2>4. MarkedForDisk(n, s).instance = s.instance /\ MarkedForDisk(n, s).disk = s.disk
    BY <2>3, MarkForTeardownKeeps DEF MarkedForDisk, Policies
  <2>5. pc = "disks" /\ UNCHANGED platformVars /\ prov' = prov
    BY <1>3 DEF ListDisks
  <2> QED
    BY <2>1, <2>2, <2>3, <2>4, <2>5 DEF Proceeds
<1>4. CASE ObserveFails
  BY <1>4, ReturnDrops DEF ObserveFails
<1> QED
  BY <1>1, <1>2, <1>3, <1>4 DEF Gather

\* The audit of registrations touches neither instances nor disks.
LEMMA AuditSees ==
  ASSUME IInv, Audit, NEW n \in Names
  PROVE  Sees(n)
<1> USE DEF IInv, TypeOK, Sees, SeesInstance, SeesDisk, Observed, Listed, Settles, Proceeds
<1>1. Keeps(n)
  BY DEF Audit, AuditDone, AuditRunner, AuditRunnerFails, Runners, Keeps
<1>2. pc \in Observed /\ prov' = prov
  BY DEF Audit, AuditDone, AuditRunner, AuditRunnerFails
<1> QED
  BY <1>1, <1>2 DEF Keeps

\* A teardown deletes what it records as deleted, and never claims more.
LEMMA TeardownSees ==
  ASSUME IInv, Teardown, NEW n \in Names
  PROVE  Sees(n)
<1> USE DEF IInv, TypeOK, Sees, SeesInstance, SeesDisk, Observed, Listed, Settles, Proceeds
<1>1. pc \in {"act", "lookup", "remove", "instance", "disk"} /\ prov' = prov
  BY DEF Teardown, BeginTeardown, LookupRegistration, RemoveRegistration, JobStillRunning,
     DeleteInstance, InstanceGone, AwaitStop, StopInstance, DeleteDisk, AwaitDetach,
     NoDiskLeft, TeardownCallFails
<1>2. Keeps(n) => Sees(n)
  BY <1>1 DEF Keeps
<1>3. CASE \E m \in Names : BeginTeardown(m)
  <2>1. PICK m \in Names :
          \E u : runners' = runners \/ runners' = [runners EXCEPT ![m].teardown = u]
    BY <1>3 DEF BeginTeardown
  <2>2. Keeps(n)
    BY <2>1 DEF Runners, Keeps
  <2> QED
    BY <1>2, <2>2
<1>4. CASE LookupRegistration \/ RemoveRegistration \/ JobStillRunning \/ NoDiskLeft
  <2>1. ASSUME LookupRegistration \/ RemoveRegistration \/ NoDiskLeft PROVE Keeps(n)
    <3>1. PICK u : runners' = runners \/ runners' = [runners EXCEPT ![cur].teardown = u]
      BY <2>1 DEF LookupRegistration, RemoveRegistration, NoDiskLeft
    <3> QED
      BY <3>1 DEF Runners, Keeps
  <2>2. ASSUME JobStillRunning PROVE Keeps(n)
    <3>1. runners' = [runners EXCEPT ![cur] = FoundRunningAJob(runners[cur])]
      BY <2>2 DEF JobStillRunning
    <3>2. CASE n # cur
      BY <3>1, <3>2 DEF Keeps
    <3>3. CASE n = cur
      <4>1. runners'[n] = FoundRunningAJob(runners[n]) /\ runners[n] \in Runners
        BY <3>1, <3>3
      <4> QED
        BY <4>1, SnapshotsAreKept DEF Keeps
    <3> QED
      BY <3>2, <3>3
  <2>3. Keeps(n)
    BY <1>4, <2>1, <2>2
  <2> QED
    BY <1>2, <2>3
<1>5. CASE AwaitStop \/ StopInstance \/ AwaitDetach \/ TeardownCallFails
  <2>1. Keeps(n)
    BY <1>5 DEF AwaitStop, StopInstance, AwaitDetach, TeardownCallFails, Keeps
  <2> QED
    BY <1>2, <2>1
<1>6. CASE DeleteInstance \/ InstanceGone
  <2>1. CASE n = cur
    BY <1>1, <1>6, <2>1 DEF DeleteInstance, InstanceGone, Runners
  <2>2. CASE n # cur
    BY <1>2, <1>6, <2>2 DEF DeleteInstance, InstanceGone, Keeps
  <2> QED
    BY <2>1, <2>2
<1>7. CASE DeleteDisk
  <2>1. CASE n = cur
    BY <1>1, <1>7, <2>1 DEF DeleteDisk, Runners
  <2>2. CASE n # cur
    BY <1>2, <1>7, <2>2 DEF DeleteDisk, Keeps
  <2> QED
    BY <2>1, <2>2
<1> QED
  BY <1>3, <1>4, <1>5, <1>6, <1>7 DEF Teardown

\* Scaling changes the policies of teardowns, not what is known of resources.
LEMMA ScaleSees ==
  ASSUME IInv, Scale, NEW n \in Names
  PROVE  Sees(n)
<1> USE DEF IInv, TypeOK, Sees, SeesInstance, SeesDisk, Observed, Listed, Settles, Proceeds
<1>1. CASE HoldScale \/ ScaleDown \/ FetchImageFails
  BY <1>1, ReturnedViews, ReturnDrops DEF Returns, EndReconcile
<1>2. CASE Reclaim
  <2>1. PICK chosen :
          runners' = [m \in Names |->
            IF m \in chosen THEN [runners[m] EXCEPT !.teardown = NoTeardown] ELSE runners[m]]
    BY <1>2 DEF Reclaim
  <2>2. Keeps(n)
    BY <2>1 DEF Runners, Keeps
  <2>3. pc = "reclaim" /\ prov' = prov
    BY <1>2 DEF Reclaim
  <2> QED
    BY <2>2, <2>3 DEF Keeps
<1>3. CASE StartScaleUp
  <2>1. Keeps(n)
    BY <1>3, PrunedTypes DEF StartScaleUp, Gone, EmptyRunner, Keeps
  <2>2. pc = "act" /\ prov' = prov
    BY <1>3 DEF StartScaleUp
  <2> QED
    BY <2>1, <2>2 DEF Keeps
<1>4. CASE FetchImage
  <2>1. pc = "image" /\ runners' = runners
    BY <1>4 DEF FetchImage
  <2>2. prov[n] = "unused"
    BY <2>1 DEF ProvisioningIsFresh
  <2> QED
    BY <2>1, <2>2
<1> QED
  BY <1>1, <1>2, <1>3, <1>4 DEF Scale

\* Provisioning works under names that the snapshot does not know.
LEMMA ProvisionSees ==
  ASSUME IInv, Provision, NEW n \in Names
  PROVE  Sees(n)
<1> USE DEF IInv, TypeOK, Sees, SeesInstance, SeesDisk, Observed, Listed, Settles, Proceeds
<1>1. CASE JoinProvision
  BY <1>1, ReturnedViews, ReturnDrops DEF Returns, EndReconcile
<1>2. ASSUME NEW m \in Names, NEW status, Provisioning(m, status),
             \/ prov[m] = "queued"
             \/ prov[m] = "registered" /\ status \in {"created", "failed"}
      PROVE  Sees(n)
  <2>1. pc = "provision" /\ pc' = pc /\ runners' = runners
    BY <1>2 DEF Provisioning
  <2>2. Proceeds(n)
    BY <1>2 DEF Provisioning
  <2> QED
    BY <2>1, <2>2
<1>3. ASSUME NEW m \in Names,
             \/ RegisterRunner(m) \/ RegisterRunnerFails(m)
             \/ CreateInstance(m) \/ CreateInstanceFails(m)
      PROVE  \E status : /\ Provisioning(m, status)
                         /\ \/ prov[m] = "queued"
                            \/ prov[m] = "registered" /\ status \in {"created", "failed"}
  BY <1>3 DEF RegisterRunner, RegisterRunnerFails, CreateInstance, CreateInstanceFails, HasSlot
<1> QED
  BY <1>1, <1>2, <1>3 DEF Provision

\* While the loop does nothing, resources only go, and a crash forgets the snapshot.
LEMMA RestSees ==
  ASSUME IInv, NEW n \in Names,
         Listen \/ Clock \/ World \/ Crash \/ Restart \/ UNCHANGED vars
  PROVE  Sees(n)
<1> USE DEF IInv, TypeOK, Sees, SeesInstance, SeesDisk, Observed, Listed, Settles, Proceeds
<1>1. CASE UNCHANGED <<runners, pc, prov>>
  BY <1>1
<1>2. Listen \/ World \/ AuditComesDue \/ UNCHANGED vars => UNCHANGED <<runners, pc, prov>>
  BY DEF Listen, HandleDesiredRunnerCount, HandleJobStarted, HandleJobCompleted, World,
     NameIsFreshAgain, AuditComesDue, vars
<1>3. ASSUME NEW m \in Names, WindowCloses(m) PROVE Sees(n)
  <2>1. runners' = [runners EXCEPT ![m].teardown.waiting = FALSE] /\ UNCHANGED <<pc, prov>>
    BY <1>3 DEF WindowCloses
  <2>2. Keeps(n)
    BY <2>1 DEF Runners, Keeps
  <2> QED
    BY <2>1, <2>2 DEF Keeps
<1>4. CASE Crash
  BY <1>4 DEF Crash, FreshMemory, EmptyRunner
<1>5. CASE Restart
  BY <1>5 DEF Restart
<1> QED
  BY <1>1, <1>2, <1>3, <1>4, <1>5 DEF Clock

\* The view takes a snapshot only from the list that has just arrived, drops it
\* when reconcile returns, and strikes out what teardown found or made gone.
LEMMA StepSees ==
  ASSUME IInv, [Next]_vars, NEW n \in Names
  PROVE  Sees(n)
BY GatherSees, AuditSees, TeardownSees, ScaleSees, ProvisionSees, RestSees DEF Next, Loop

-----------------------------------------------------------------------------
(* Deletions on the word of a snapshot.                                    *)

\* What was read as halted or detached, or was deleted a moment ago, is so for good.
SnapshotsHold ==
  /\ instanceDeleted => pc = "disk"
  /\ \A n \in Names :
       /\ InstanceHalted(runners[n].instance) =>
            n \notin late /\ (runState[n] = "absent" \/ InstanceHalted(runState[n]))
       /\ runners[n].instance = "destroyed" => runState[n] \in {"absent", "destroyed"}
       /\ runners[n].disk \in {"detached", "faulted"} \/ (instanceDeleted /\ n = cur) =>
            n \notin late /\ disk[n] # "attached"

\* instanceDeleted is set by the deletion and lives until teardown returns.
LEMMA DeletedFlag ==
  ASSUME IInv, instanceDeleted => pc = "disk", [Next]_vars, instanceDeleted'
  PROVE  /\ pc' = "disk" /\ cur' = cur
         /\ \/ instanceDeleted
            \/ /\ pc = "instance" /\ runners[cur].instance \in {"stopped", "failed"}
               /\ DeletesInstance(cur)
<1>1. CASE Gather \/ Audit \/ Scale \/ Provision
  <2>1. pc # "disk" /\ instanceDeleted' = instanceDeleted
    BY <1>1 DEF Gather, StartReconcile, ListInstances, ListDisks, ObserveFails, Audit,
       AuditRunner, AuditRunnerFails, AuditDone, Scale, Reclaim, HoldScale, ScaleDown,
       StartScaleUp, FetchImage, FetchImageFails, Provision, RegisterRunner,
       RegisterRunnerFails, CreateInstance, CreateInstanceFails, Provisioning,
       JoinProvision, EndReconcile, ReturnToRun
  <2> QED
    BY <2>1
<1>2. CASE Teardown
  BY <1>2 DEF Teardown, BeginTeardown, LookupRegistration, RemoveRegistration,
     JobStillRunning, DeleteInstance, InstanceGone, AwaitStop, StopInstance, DeleteDisk,
     AwaitDetach, NoDiskLeft, TeardownCallFails, Return
<1>3. CASE Listen \/ Clock \/ World \/ UNCHANGED vars
  BY <1>3 DEF Listen, HandleDesiredRunnerCount, HandleJobStarted, HandleJobCompleted, Clock,
     AuditComesDue, WindowCloses, World, NameIsFreshAgain, vars
<1>4. CASE Crash \/ Restart
  BY <1>4 DEF Crash, FreshMemory, Restart
<1> QED
  BY <1>1, <1>2, <1>3, <1>4 DEF Next, Loop

\* An entry that says anything belongs to no goroutine.
LEMMA EntriesAreNotFresh ==
  ASSUME IInv, NEW n \in Names,
         runners[n].instance # "absent" \/ runners[n].disk # "absent"
           \/ runners[n].teardown # NoTeardown
  PROVE  prov[n] = "unused"
BY DEF IInv, ProvisioningIsFresh, EmptyRunner

\* No step makes a snapshot claim what is not so.
LEMMA SnapshotsInductive ==
  ASSUME IInv, NInv, SnapshotsHold, [Next]_vars
  PROVE  SnapshotsHold'
<1> USE DEF IInv, TypeOK, PlatformTypeOK
<1>1. instanceDeleted' => pc' = "disk"
  BY DeletedFlag DEF SnapshotsHold
<1>2. ASSUME NEW n \in Names, InstanceHalted(runners'[n].instance)
      PROVE  /\ n \notin late'
             /\ runState'[n] = "absent" \/ InstanceHalted(runState'[n])
             /\ runners'[n].instance = "destroyed" => runState'[n] \in {"absent", "destroyed"}
  <2>1. CASE runners'[n].instance = runners[n].instance
    <3>1. n \notin late /\ prov[n] = "unused"
      BY <1>2, <2>1, EntriesAreNotFresh DEF SnapshotsHold, InstanceHalted
    <3> QED
      BY <1>2, <2>1, <3>1, NothingAppears DEF SnapshotsHold, Declines
  <2>2. CASE runners'[n].instance = runState[n] /\ UNCHANGED platformVars
    <3>1. n \notin late
      BY <1>2, <2>2 DEF NInv, NamesAreUnspoilt, InstanceHalted
    <3> QED
      BY <1>2, <2>2, <3>1
  <2> QED
    BY <1>2, <2>1, <2>2, StepSees DEF Sees, SeesInstance, InstanceHalted
<1>3. ASSUME NEW n \in Names, runners'[n].disk \in {"detached", "faulted"}
      PROVE  n \notin late' /\ disk'[n] # "attached"
  <2>1. CASE runners'[n].disk = runners[n].disk
    <3>1. n \notin late /\ prov[n] = "unused"
      BY <1>3, <2>1, EntriesAreNotFresh DEF SnapshotsHold
    <3> QED
      BY <1>3, <2>1, <3>1, NothingAppears DEF SnapshotsHold, Declines
  <2>2. CASE runners'[n].disk = disk[n] /\ UNCHANGED platformVars
    BY <1>3, <2>2 DEF NInv, NamesAreUnspoilt
  <2> QED
    BY <1>3, <2>1, <2>2, StepSees DEF Sees, SeesDisk
<1>4. ASSUME NEW n \in Names, instanceDeleted', n = cur'
      PROVE  n \notin late' /\ disk'[n] # "attached"
  <2>1. n = cur
    BY <1>4, DeletedFlag DEF SnapshotsHold
  <2>2. CASE instanceDeleted
    <3>1. n \notin late /\ disk[n] # "attached" /\ prov[n] = "unused"
      BY <2>1, <2>2 DEF SnapshotsHold, ProvisioningIsFresh
    <3> QED
      BY <3>1, NothingAppears DEF Declines
  <2>3. CASE runners[n].instance \in {"stopped", "failed"} /\ DeletesInstance(n)
    BY <2>3 DEF DeletesInstance, SnapshotsHold, InstanceHalted
  <2> QED
    BY <1>4, <2>1, <2>2, <2>3, DeletedFlag DEF SnapshotsHold
<1> QED
  BY <1>1, <1>2, <1>3, <1>4 DEF SnapshotsHold, InstanceHalted

\* The snapshots that a teardown relies on stay true.
THEOREM SnapshotsSafe == Spec => []SnapshotsHold
<1>1. Init => SnapshotsHold
  BY DEF Init, PlatformInit, SnapshotsHold, EmptyRunner, InstanceHalted
<1>2. IInv /\ NInv /\ SnapshotsHold /\ [Next]_vars => SnapshotsHold'
  BY SnapshotsInductive
<1> QED
  BY Inductive, NamesSafe, <1>1, <1>2, PTL DEF Spec

\* The control plane never has to refuse a deletion of teardown: the instance is
\* still halted and the disk still detached when the call is made.
THEOREM DeletionsAreTimely == Spec => []DeletesAreAccepted
<1>1. IInv /\ SnapshotsHold => DeletesAreAccepted
  <2> SUFFICES ASSUME IInv, SnapshotsHold PROVE DeletesAreAccepted
    OBVIOUS
  <2>1. pc \in {"instance", "disk"} => cur \in Names
    BY DEF IInv, TeardownInHand
  <2> QED
    BY <2>1 DEF SnapshotsHold, DeletesAreAccepted, DiskDeletable, InstanceHalted
<1> QED
  BY Inductive, SnapshotsSafe, <1>1, PTL

-----------------------------------------------------------------------------
(* Conclusions from what the lists left out.                               *)

\* While no creation lands late, what the lists did not show is not there,
\* except for what the goroutines have created since.
AbsencesHold ==
  /\ late = {}
  /\ \A n \in Names : ~Settles(n) =>
       /\ pc \in Listed /\ runners[n].instance = "absent" => n \notin Existing
       /\ pc \in Observed /\ runners[n].disk = "absent" => disk[n] = "absent"
  /\ DrainedMeansEmpty

\* No creation is under way when its request has been answered.
LEMMA NoneLate ==
  ASSUME "late" \notin Disturbances, IInv, late = {}, [Next]_vars
  PROVE  late' = {}
<1>1. ASSUME NEW m \in Names, Effect(m) PROVE late' = {}
  BY <1>1 DEF Effect, Registers, CreatesInstance, CreatesInstanceLate, Unregisters,
     StopsInstance, DeletesInstance, DeletesDisk
<1>2. CASE World
  BY <1>2 DEF World, PlatformStep, JobAssigned, JobEnds, RegistrationLapses, GrowsOlder,
     NameIsFreshAgain, Boots, PowersOff, StopCompletes, InstanceFails, DiskFaults,
     OperatorDeletes, DestroyedVanishes, LateCreationLands
<1> QED
  BY <1>1, <1>2, LoopEffects, OtherStepEffects DEF Next

\* Nothing appears under a name whose outcome is still open either.
LEMMA OpenNamesDecline ==
  ASSUME IInv, NInv, late = {}, [Next]_vars, NEW n \in Names, ~Settles(n)', Proceeds(n)
  PROVE  /\ n \notin Existing => n \notin Existing'
         /\ disk[n] = "absent" => disk'[n] = "absent"
<1> USE DEF IInv, TypeOK, PlatformTypeOK
<1>1. CASE prov[n] = "registered"
  <2>1. prov'[n] = "registered"
    BY <1>1 DEF Proceeds
  <2>2. runState[n] = "absent" /\ disk[n] = "absent"
    BY <1>1 DEF NInv, NamesAreUnspoilt, Taken
  <2>3. runState'[n] = "absent" /\ disk'[n] = "absent"
    BY <2>1, <2>2, UnspoiltStays DEF Taken
  <2> QED
    BY <2>3 DEF Existing
<1>2. CASE prov[n] # "registered"
  BY <1>2, NothingAppears DEF Declines, Existing
<1> QED
  BY <1>1, <1>2

\* Drained is reached only from a view without any entry.
LEMMA DrainedFrom ==
  ASSUME IInv, [Next]_vars, pc' = "drained"
  PROVE  \/ pc = "drained"
         \/ /\ UNCHANGED platformVars /\ pc \in Observed /\ config.max = 0
            /\ \A n \in Names : /\ runners[n].instance = "absent" /\ runners[n].disk = "absent"
                                /\ ~Settles(n)
<1>1. CASE Returns
  <2>1. PICK view \in [Names -> Runners], rq \in BOOLEAN :
          EndReconcile(view, rq) /\ \A n \in Names : Concludes(n, view)
    BY <1>1, ReturnedViews
  <2>2. config.max = 0 /\ \A n \in Names : view[n] = EmptyRunner
    BY <2>1 DEF EndReconcile
  <2>3. UNCHANGED platformVars /\ pc \in Observed
    BY <1>1 DEF Returns, HoldScale, ScaleDown, FetchImageFails, JoinProvision, Observed
  <2> QED
    BY <2>1, <2>2, <2>3 DEF Concludes, Settles
<1>2. CASE Gather \/ Audit
  BY <1>2 DEF Gather, StartReconcile, ListInstances, ListDisks, ObserveFails, Audit,
     AuditRunner, AuditRunnerFails, AuditDone
<1>3. CASE Teardown
  BY <1>3 DEF Teardown, BeginTeardown, LookupRegistration, RemoveRegistration,
     JobStillRunning, DeleteInstance, InstanceGone, AwaitStop, StopInstance, DeleteDisk,
     AwaitDetach, NoDiskLeft, TeardownCallFails, Return
<1>4. CASE Scale \/ Provision
  BY <1>1, <1>4 DEF Returns, Scale, Reclaim, StartScaleUp, FetchImage, Provision,
     RegisterRunner, RegisterRunnerFails, CreateInstance, CreateInstanceFails, Provisioning
<1>5. CASE Listen \/ Clock \/ World \/ UNCHANGED vars
  BY <1>5 DEF Listen, HandleDesiredRunnerCount, HandleJobStarted, HandleJobCompleted, Clock,
     AuditComesDue, WindowCloses, World, NameIsFreshAgain, vars
<1>6. CASE Crash \/ Restart
  BY <1>6 DEF Crash, Restart
<1> QED
  BY <1>2, <1>3, <1>4, <1>5, <1>6 DEF Next, Loop

\* Unless creations arrive late, no step makes anything exist that the lists did
\* not show and no goroutine has created.
LEMMA AbsencesInductive ==
  ASSUME "late" \notin Disturbances, IInv, NInv, SnapshotsHold, AbsencesHold, [Next]_vars
  PROVE  AbsencesHold'
<1> USE DEF IInv, TypeOK, PlatformTypeOK
<1>1. ASSUME NEW n \in Names, ~Settles(n)', pc' \in Listed, runners'[n].instance = "absent"
      PROVE  n \notin Existing'
  <2>1. CASE runners[n].instance = "absent" /\ pc \in Listed /\ Proceeds(n)
    <3>1. ~Settles(n)
      BY <1>1, <2>1 DEF Proceeds, Settles
    <3> QED
      BY <1>1, <2>1, <3>1, OpenNamesDecline DEF AbsencesHold
  <2>2. CASE runners'[n].instance = runState[n] /\ UNCHANGED platformVars
    BY <1>1, <2>2 DEF Existing
  <2>3. CASE pc = "instance" /\ n = cur
             /\ runners[n].instance \in {"absent", "destroyed"} /\ UNCHANGED platformVars
    <3>1. prov[n] = "unused" /\ pc \in Listed
      BY <2>3 DEF ProvisioningIsFresh, Listed, Observed
    <3> QED
      BY <2>3, <3>1 DEF AbsencesHold, SnapshotsHold, Settles, Existing
  <2>4. CASE runners[n].instance \in {"stopped", "failed"} /\ DeletesInstance(n)
    BY <2>4 DEF DeletesInstance, Existing, RunStates
  <2> QED
    BY <1>1, <2>1, <2>2, <2>3, <2>4, StepSees DEF Sees, SeesInstance
<1>2. ASSUME NEW n \in Names, ~Settles(n)', pc' \in Observed, runners'[n].disk = "absent"
      PROVE  disk'[n] = "absent"
  <2>1. CASE runners[n].disk = "absent" /\ pc \in Observed /\ Proceeds(n)
    <3>1. ~Settles(n)
      BY <1>2, <2>1 DEF Proceeds, Settles
    <3> QED
      BY <1>2, <2>1, <3>1, OpenNamesDecline DEF AbsencesHold
  <2>2. CASE runners'[n].disk = disk[n] /\ UNCHANGED platformVars
    BY <1>2, <2>2
  <2>3. CASE DeletesDisk(n)
    BY <2>3 DEF DeletesDisk
  <2> QED
    BY <1>2, <2>1, <2>2, <2>3, StepSees DEF Sees, SeesDisk
<1>3. DrainedMeansEmpty'
  <2> SUFFICES ASSUME pc' = "drained", NEW n \in Names
               PROVE  n \notin Existing' /\ disk'[n] = "absent"
    BY DEF DrainedMeansEmpty, Existing
  <2>1. CASE pc = "drained"
    <3>1. n \notin Existing /\ disk[n] = "absent" /\ n \notin late /\ prov[n] # "registered"
      BY <2>1 DEF AbsencesHold, DrainedMeansEmpty, ProvisioningIsFresh
    <3> QED
      BY <3>1, NothingAppears DEF Declines, Existing
  <2>2. CASE /\ UNCHANGED platformVars /\ pc \in Observed
             /\ runners[n].instance = "absent" /\ runners[n].disk = "absent" /\ ~Settles(n)
    BY <2>2 DEF AbsencesHold, Listed, Existing
  <2> QED
    BY <2>1, <2>2, DrainedFrom
<1> QED
  BY <1>1, <1>2, <1>3, NoneLate DEF AbsencesHold

\* What the lists left out is not there, and stays away.
THEOREM AbsencesSafe ==
  ASSUME "late" \notin Disturbances
  PROVE  Spec => []AbsencesHold
<1>1. Init => AbsencesHold
  BY DEF Init, PlatformInit, AbsencesHold, DrainedMeansEmpty, Existing, Listed, Observed
<1>2. IInv /\ NInv /\ SnapshotsHold /\ AbsencesHold /\ [Next]_vars => AbsencesHold'
  BY AbsencesInductive
<1> QED
  BY Inductive, NamesSafe, SnapshotsSafe, <1>1, <1>2, PTL DEF Spec

\* ErrScaleSetDrained is returned only when the scale set has neither instance
\* nor disk left, and none appears afterwards.
THEOREM DrainedIsEmpty ==
  ASSUME "late" \notin Disturbances
  PROVE  Spec => []DrainedMeansEmpty
<1>1. AbsencesHold => DrainedMeansEmpty
  BY DEF AbsencesHold
<1> QED
  BY AbsencesSafe, <1>1, PTL

\* teardown never deletes the disk of an instance that exists.
THEOREM DiskIsLast ==
  ASSUME "late" \notin Disturbances
  PROVE  Spec => DiskGoesLast
<1>1. ASSUME IInv, AbsencesHold, [Next]_vars, NEW n \in Names,
             disk[n] # "absent", disk'[n] = "absent"
      PROVE  runState[n] \in {"absent", "destroyed"}
  <2> USE <1>1 DEF IInv, TypeOK, PlatformTypeOK
  <2>1. ASSUME NEW m \in Names, Effect(m) PROVE pc = "disk" /\ n = cur
    BY <2>1 DEF Effect, Registers, CreatesInstance, CreatesInstanceLate, Unregisters,
       StopsInstance, DeletesInstance, DeletesDisk
  <2>2. ~World
    BY WorldEffects
  <2>3. pc = "disk" /\ n = cur
    BY <2>1, <2>2, LoopEffects, OtherStepEffects DEF Next
  <2>4. runners[n].instance = "absent" /\ prov[n] = "unused" /\ pc \in Listed
    BY <2>3 DEF TeardownInHand, ProvisioningIsFresh, Listed, Observed
  <2> QED
    BY <2>4 DEF AbsencesHold, Settles, Existing
<1>2. IInv /\ AbsencesHold /\ [Next]_vars =>
        [\A n \in Names :
           disk[n] # "absent" /\ disk'[n] = "absent"
             => runState[n] \in {"absent", "destroyed"}]_vars
  BY <1>1
<1> QED
  BY <1>2, Inductive, AbsencesSafe, PTL DEF Spec, DiskGoesLast

=============================================================================
