-------------------------- MODULE Reconciler_proofs --------------------------
(***************************************************************************)
(* Type correctness of the reconciler and the order in which it tears a    *)
(* runner down, for any set of names, any configurations and every         *)
(* combination of disturbances.  All theorems rest on one inductive        *)
(* invariant, IInv.                                                        *)
(***************************************************************************)
EXTENDS Reconciler, RunnerView_proofs

\* GitHub keeps the registration of a runner that runs a job.
JobsNeedRegistrations == \A n \in Names : job[n] = "running" => n \in registered

\* A name is given to a goroutine only if the view knows nothing about it: the
\* registration made under it cannot belong to a runner in deprovisioning.
ProvisioningIsFresh ==
  \A n \in Names : prov[n] # "unused" => pc = "provision" /\ runners[n] = EmptyRunner

\* Where teardown stands in its code agrees with the recorded phase, and the
\* runners it has not visited still have a teardown.
TeardownInHand ==
  /\ pc \in {"lookup", "remove"} =>
       cur \in Names /\ runners[cur].teardown.phase = "removing"
  /\ pc \in {"instance", "disk"} =>
       cur \in Names /\ runners[cur].teardown.phase = "deprovisioning"
  /\ pc = "disk" => runners[cur].instance = "absent"
  /\ pc \notin {"lookup", "remove", "instance", "disk"} => cur = NoName
  /\ pc \in {"act", "lookup", "remove", "instance", "disk"} =>
       \A n \in todo : n # cur /\ TearingDown(runners[n])

IInv ==
  /\ TypeOK
  /\ DeprovisioningIsUnregistered
  /\ JobsNeedRegistrations
  /\ ProvisioningIsFresh
  /\ TeardownInHand

USE DEF platformVars, githubVars, oxideVars, inputVars, planVars, workVars, loopVars,
        processVars

-----------------------------------------------------------------------------
(* The initial states, and what a reconciliation returns with. *)

\* The value of both demands before the first report.
LEMMA UnknownDemand == -1 \in -1 .. MaxDemand
BY ConstantsAssumption

\* The scaler starts with an empty view, on an empty platform.
LEMMA InitInv == Init => IInv
<1> SUFFICES ASSUME Init PROVE IInv
  OBVIOUS
<1> USE DEF Init, PlatformInit
<1>1. PlatformTypeOK
  BY DEF PlatformTypeOK, RunStates, DiskStates
<1>2. runners \in [Names -> Runners] /\ prov \in [Names -> Provisions]
  BY EmptyRunnerType DEF Provisions
<1>3. 0 \in 0 .. MaxRestarts
  BY ConstantsAssumption
<1>4. TypeOK
  BY UnknownDemand, <1>1, <1>2, <1>3 DEF TypeOK, PCs
<1>5. DeprovisioningIsUnregistered /\ JobsNeedRegistrations
  BY DEF DeprovisioningIsUnregistered, JobsNeedRegistrations
<1>6. ProvisioningIsFresh /\ TeardownInHand
  BY DEF ProvisioningIsFresh, TeardownInHand
<1> QED BY <1>4, <1>5, <1>6 DEF IInv

\* Whatever view a reconciliation returns with, dropping its snapshots keeps
\* the invariant, provided the view takes no registration for gone that exists.
LEMMA ReturnToRunInv ==
  ASSUME IInv, NEW view \in [Names -> Runners], NEW rq \in BOOLEAN,
         \A n \in Names : view[n].teardown.phase = "deprovisioning" => n \notin registered,
         ReturnToRun(view, rq), cur = NoName, pc' \in {"idle", "drained"},
         UNCHANGED <<platformVars, inputVars, todo>>
  PROVE  IInv'
<1> USE DEF IInv, ReturnToRun
<1>1. runners' \in [Names -> Runners]
  BY DEF Runners, RunStates, DiskStates
<1>2. \A n \in Names : runners'[n].teardown = view[n].teardown
  BY DEF Runners
<1>3. PlatformTypeOK'
  BY DEF TypeOK, PlatformTypeOK
<1>4. requeue' \in BOOLEAN /\ prov' \in [Names -> Provisions]
  <2>1. requeue' \in BOOLEAN
    OBVIOUS
  <2>2. prov' \in [Names -> Provisions]
    BY DEF Provisions
  <2> QED BY <2>1, <2>2
<1>5. TypeOK'
  BY UnknownDemand, <1>1, <1>3, <1>4 DEF TypeOK, PCs
<1>6. DeprovisioningIsUnregistered' /\ JobsNeedRegistrations'
  BY <1>2 DEF DeprovisioningIsUnregistered, JobsNeedRegistrations
<1>7. ProvisioningIsFresh' /\ TeardownInHand'
  BY DEF ProvisioningIsFresh, TeardownInHand
<1> QED BY <1>5, <1>6, <1>7

\* The same for the last lines of reconcile.
LEMMA EndReconcileInv ==
  ASSUME IInv, NEW view \in [Names -> Runners], NEW rq \in BOOLEAN,
         \A n \in Names : view[n].teardown.phase = "deprovisioning" => n \notin registered,
         EndReconcile(view, rq), cur = NoName,
         UNCHANGED <<platformVars, inputVars>>
  PROVE  IInv'
BY ReturnToRunInv DEF EndReconcile

-----------------------------------------------------------------------------
(* Gather and audit. *)

\* Marking by instance or disk only ever starts a permanent teardown.
LEMMA MarkedTypes ==
  ASSUME NEW n, NEW r \in Runners
  PROVE  /\ MarkedForInstance(n, r) \in Runners
         /\ MarkedForDisk(n, r) \in Runners
         /\ MarkedForInstance(n, r).teardown.phase = "deprovisioning"
              => r.teardown.phase = "deprovisioning"
         /\ MarkedForDisk(n, r).teardown.phase = "deprovisioning"
              => r.teardown.phase = "deprovisioning"
<1>1. "permanent" \in Policies
  BY DEF Policies
<1> QED BY <1>1, MarkForTeardownType, MarkForTeardownPhase
        DEF MarkedForInstance, MarkedForDisk

\* Job events and observation keep the invariant.
LEMMA GatherInv == ASSUME IInv, Gather PROVE IInv'
<1> USE DEF IInv, TypeOK, PlatformTypeOK, DeprovisioningIsUnregistered,
            JobsNeedRegistrations, ProvisioningIsFresh, TeardownInHand
<1>1. CASE StartReconcile
  <2>1. ASSUME NEW n \in Names
        PROVE  /\ runners'[n] \in Runners
               /\ runners'[n].teardown.phase = "deprovisioning"
                    => runners[n].teardown.phase = "deprovisioning"
    <3> DEFINE r == IF <<n, "started">> \in inbox THEN JobStarted(runners[n]) ELSE runners[n]
    <3>1. runners'[n] = IF <<n, "completed">> \in inbox THEN JobCompleted(r) ELSE r
      BY <1>1 DEF StartReconcile
    <3>2. /\ r \in Runners
          /\ r.teardown.phase = "deprovisioning" => runners[n].teardown.phase = "deprovisioning"
      BY JobEventTypes, JobEventsPhase
    <3> HIDE DEF r
    <3> QED BY <3>1, <3>2, JobEventTypes, JobEventsPhase
  <2>2. runners' \in [Names -> Runners]
    BY <1>1, <2>1 DEF StartReconcile
  <2> QED BY <1>1, <2>1, <2>2 DEF StartReconcile, PCs
<1>2. CASE ListInstances
  <2>1. runners' \in [Names -> Runners]
    BY <1>2 DEF ListInstances, Runners
  <2>2. \A n \in Names : runners'[n].teardown = runners[n].teardown
    BY <1>2 DEF ListInstances, Runners
  <2> QED BY <1>2, <2>1, <2>2 DEF ListInstances, PCs
<1>3. CASE ListDisks
  <2>1. ASSUME NEW n \in Names
        PROVE  /\ runners'[n] \in Runners
               /\ runners'[n].teardown.phase = "deprovisioning"
                    => runners[n].teardown.phase = "deprovisioning"
    <3> DEFINE r == [runners[n] EXCEPT !.disk = disk[n]]
    <3>1. runners'[n] = MarkedForDisk(n, MarkedForInstance(n, r))
      BY <1>3 DEF ListDisks
    <3>2. r \in Runners /\ r.teardown = runners[n].teardown
      BY DEF Runners
    <3> HIDE DEF r
    <3> QED BY <3>1, <3>2, MarkedTypes
  <2>2. runners' \in [Names -> Runners]
    BY <1>3, <2>1 DEF ListDisks
  <2>3. todo' \subseteq Names /\ pc' \in {"audit", "reclaim"}
    BY <1>3 DEF ListDisks, AuditCandidates
  <2> QED BY <1>3, <2>1, <2>2, <2>3 DEF ListDisks, PCs
<1>4. CASE ObserveFails
  BY <1>4, ReturnToRunInv DEF ObserveFails
<1> QED BY <1>1, <1>2, <1>3, <1>4 DEF Gather

\* The audit skips to deprovisioning only where GitHub has no registration.
LEMMA AuditInv == ASSUME IInv, Audit PROVE IInv'
<1> USE DEF IInv, TypeOK, PlatformTypeOK, DeprovisioningIsUnregistered,
            JobsNeedRegistrations, ProvisioningIsFresh, TeardownInHand
<1>1. ASSUME NEW n \in Names, AuditRunner(n) PROVE IInv'
  <2> DEFINE t == BeginDeprovisioning(NewTeardown("permanent"))
  <2>1. t \in TeardownStates
    BY BeginTypes, NewTeardownType DEF Policies
  <2> HIDE DEF t
  <2>2. runners' \in [Names -> Runners]
    BY <1>1, <2>1 DEF AuditRunner, Runners, t
  <2>3. \A m \in Names : runners'[m].teardown # runners[m].teardown => m \notin registered
    BY <1>1 DEF AuditRunner, Runners
  <2> QED BY <1>1, <2>2, <2>3 DEF AuditRunner, PCs
<1>2. ASSUME NEW n \in Names, AuditRunnerFails(n) PROVE IInv'
  BY <1>2 DEF AuditRunnerFails, PCs
<1>3. CASE AuditDone
  BY <1>3 DEF AuditDone, PCs
<1> QED BY <1>1, <1>2, <1>3 DEF Audit

-----------------------------------------------------------------------------
(* Teardown *)

\* One runner's entry is replaced while its teardown is driven; the invariant
\* asks of the new entry only that its phase is true.
LEMMA TeardownInv == ASSUME IInv, Teardown PROVE IInv'
<1> USE ConstantsAssumption DEF IInv, TypeOK, PlatformTypeOK, DeprovisioningIsUnregistered,
            JobsNeedRegistrations, ProvisioningIsFresh, TeardownInHand
<1>1. ASSUME NEW n \in Names, BeginTeardown(n) PROVE IInv'
  <2> DEFINE t == runners[n].teardown
  <2>1. t \in TeardownStates
    BY <1>1, TeardownCases DEF BeginTeardown
  <2>2. CASE t.phase = "window" /\ t.waiting
    <3>1. requeue' \in BOOLEAN
      BY <1>1, <2>2 DEF BeginTeardown, Return
    <3> QED BY <1>1, <2>2, <3>1 DEF BeginTeardown, Return, PCs
  <2>3. CASE ~(t.phase = "window" /\ t.waiting)
    <3> DEFINE u == IF t.phase = "window" THEN BeginRemovingRegistration(t) ELSE t
    <3>1. /\ u \in TeardownStates
          /\ u.phase = IF t.phase = "deprovisioning" THEN "deprovisioning" ELSE "removing"
      BY <2>1, BeginTypes DEF BeginRemovingRegistration, TeardownStates, Phases
    <3>2. /\ runners' = [runners EXCEPT ![n].teardown = u]
          /\ pc' = IF t.phase = "deprovisioning" THEN "instance" ELSE "lookup"
          /\ cur' = n /\ todo' = todo \ {n}
      BY <1>1, <2>3 DEF BeginTeardown
    <3> HIDE DEF u
    <3>3. runners' \in [Names -> Runners]
      BY SMTT(20), <3>1, <3>2 DEF Runners
    <3>4. /\ runners'[n].teardown = u
          /\ \A m \in Names \ {n} : runners'[m] = runners[m]
      BY <3>2 DEF Runners
    <3> QED BY <1>1, <2>3, <3>1, <3>2, <3>3, <3>4 DEF BeginTeardown, PCs
  <2> QED BY <2>2, <2>3
<1>2. ASSUME pc \in {"lookup", "remove"}, cur \notin registered', job' = job,
             registered' \subseteq registered, registered \ {cur} \subseteq registered',
             job[cur] # "running", UNCHANGED <<told, oxideVars>>,
             runners' = [runners EXCEPT ![cur].teardown = BeginDeprovisioning(@)],
             pc' = "instance", UNCHANGED <<inputVars, planVars, workVars, requeue>>
      PROVE  IInv'
  <2> DEFINE u == BeginDeprovisioning(runners[cur].teardown)
  <2>1. runners[cur].teardown \in TeardownStates
    BY <1>2, TeardownCases DEF NoTeardown
  <2>2. u \in TeardownStates /\ u.phase = "deprovisioning"
    BY <2>1, BeginTypes DEF BeginDeprovisioning
  <2> HIDE DEF u
  <2>3. runners' = [runners EXCEPT ![cur].teardown = u]
    BY <1>2 DEF u
  <2>4. runners' \in [Names -> Runners]
    BY ZenonT(30), <2>2, <2>3 DEF Runners
  <2>5. /\ runners'[cur].teardown = u
        /\ \A m \in Names \ {cur} : runners'[m] = runners[m]
    BY <1>2, <2>3 DEF Runners
  <2> QED BY <1>2, <2>2, <2>4, <2>5 DEF PCs
<1>3. CASE LookupRegistration
  <2>1. CASE cur \in registered
    BY <1>3, <2>1 DEF LookupRegistration, PCs
  <2>2. CASE cur \notin registered
    BY <1>2, <1>3, <2>2 DEF LookupRegistration
  <2> QED BY <2>1, <2>2
<1>4. CASE RemoveRegistration
  BY <1>2, <1>4 DEF RemoveRegistration, Unregisters
<1>5. CASE JobStillRunning
  <2> DEFINE r == FoundRunningAJob(runners[cur])
  <2>1. requeue' \in BOOLEAN
    BY <1>5 DEF JobStillRunning, Return
  <2>2. r \in Runners /\ r.teardown \in {runners[cur].teardown, NoTeardown}
    BY <1>5, FoundRunningAJobType DEF JobStillRunning
  <2>3. runners' = [runners EXCEPT ![cur] = r]
    BY <1>5 DEF JobStillRunning
  <2>4. r.teardown.phase # "deprovisioning"
    BY <1>5, <2>2 DEF JobStillRunning, NoTeardown
  <2>5. /\ pc = "remove" /\ pc' = "act" /\ cur' = NoName /\ instanceDeleted' = FALSE
        /\ UNCHANGED <<platformVars, inputVars, planVars, todo>>
    BY <1>5 DEF JobStillRunning, Return
  <2> HIDE DEF r
  <2> QED BY <2>1, <2>2, <2>3, <2>4, <2>5 DEF PCs
<1>6. CASE DeleteInstance
  <2>1. PlatformTypeOK'
    BY <1>6 DEF DeleteInstance, DeletesInstance, RunStates, DiskStates
  <2>2. runners' \in [Names -> Runners]
    BY <1>6 DEF DeleteInstance, Runners, RunStates
  <2>3. \A m \in Names : runners'[m].teardown = runners[m].teardown
    BY <1>6 DEF DeleteInstance, Runners
  <2> QED BY <1>6, <2>1, <2>2, <2>3 DEF DeleteInstance, DeletesInstance, PCs, TearingDown
<1>7. CASE InstanceGone
  <2>1. runners' \in [Names -> Runners]
    BY <1>7 DEF InstanceGone, Runners, RunStates
  <2>2. \A m \in Names : runners'[m].teardown = runners[m].teardown
    BY <1>7 DEF InstanceGone, Runners
  <2> QED BY <1>7, <2>1, <2>2 DEF InstanceGone, PCs, TearingDown
<1>8. CASE AwaitStop \/ AwaitDetach
  <2>1. requeue' \in BOOLEAN
    BY <1>8 DEF AwaitStop, AwaitDetach, Return
  <2> QED BY <1>8, <2>1 DEF AwaitStop, AwaitDetach, Return, PCs
<1>9. CASE StopInstance
  <2>1. requeue' \in BOOLEAN
    BY <1>9 DEF StopInstance, Return
  <2>2. PlatformTypeOK'
    BY <1>9 DEF StopInstance, StopsInstance, RunStates
  <2> QED BY ZenonT(30), <1>9, <2>1, <2>2 DEF StopInstance, StopsInstance, Return, PCs
<1>10. ASSUME NEW r \in Runners, r.teardown = NoTeardown, pc = "disk",
              runners' = [runners EXCEPT ![cur] = r],
              Return(FALSE), PlatformTypeOK', UNCHANGED <<registered, job>>,
              UNCHANGED <<inputVars, planVars, todo>>
       PROVE  IInv'
  <2>1. requeue' \in BOOLEAN
    BY <1>10 DEF Return
  <2> QED BY ZenonT(30), <1>10, <2>1 DEF Return, PCs, NoTeardown
<1>11. CASE DeleteDisk
  <2> DEFINE r == [runners[cur] EXCEPT !.disk = "absent", !.teardown = NoTeardown]
  <2>1. r \in Runners /\ r.teardown = NoTeardown
    <3>1. runners[cur] \in Runners
      BY <1>11 DEF DeleteDisk
    <3> QED BY <3>1 DEF Runners, DiskStates
  <2>2. PlatformTypeOK'
    BY <1>11 DEF DeleteDisk, DeletesDisk, DiskStates
  <2>3. runners' = [runners EXCEPT ![cur] = r]
    BY <1>11 DEF DeleteDisk
  <2> QED BY <1>10, <1>11, <2>1, <2>2, <2>3 DEF DeleteDisk, DeletesDisk
<1>12. CASE NoDiskLeft
  <2> DEFINE r == [runners[cur] EXCEPT !.teardown = NoTeardown]
  <2>1. r \in Runners /\ r.teardown = NoTeardown
    BY <1>12 DEF NoDiskLeft, Runners
  <2>2. runners' = [runners EXCEPT ![cur] = r]
    BY <1>12 DEF NoDiskLeft
  <2> QED BY <1>10, <1>12, <2>1, <2>2 DEF NoDiskLeft
<1>13. CASE TeardownCallFails
  <2>1. requeue' \in BOOLEAN
    BY <1>13 DEF TeardownCallFails, Return
  <2>2. /\ PlatformTypeOK' /\ job' = job
        /\ registered' \subseteq registered
        /\ \A n \in Names : job[n] = "running" => n \in registered'
    BY <1>13 DEF TeardownCallFails, Unregisters, DeletesInstance, StopsInstance,
                 DeletesDisk, RunStates, DiskStates
  <2> QED BY <1>13, <2>1, <2>2 DEF TeardownCallFails, Return, PCs
<1> QED BY <1>1, <1>3, <1>4, <1>5, <1>6, <1>7, <1>8, <1>9, <1>11, <1>12, <1>13 DEF Teardown

-----------------------------------------------------------------------------
(* Scale and provision. *)

\* Reclaiming, scaling and the start of a provisioning keep the invariant.
LEMMA ScaleInv == ASSUME IInv, Scale PROVE IInv'
<1> USE DEF IInv, TypeOK, PlatformTypeOK, DeprovisioningIsUnregistered,
            JobsNeedRegistrations, ProvisioningIsFresh, TeardownInHand
<1>1. CASE Reclaim
  <2>1. Target \in Nat \union {-1}
    BY ConstantsAssumption DEF Target, AtMost
  <2>2. PICK chosen \in SUBSET Names :
          /\ runners' = [n \in Names |->
               IF n \in chosen THEN [runners[n] EXCEPT !.teardown = NoTeardown]
                               ELSE runners[n]]
          /\ todo' = {n \in Names \ chosen : TearingDown(runners[n])}
    BY <1>1 DEF Reclaim, kSubset, Reclaimable
  <2>3. runners' \in [Names -> Runners]
    BY <2>2 DEF Runners
  <2>4. /\ \A n \in chosen : runners'[n].teardown = NoTeardown
        /\ \A n \in Names \ chosen : runners'[n] = runners[n]
    BY <2>2 DEF Runners
  <2> QED BY <1>1, <2>1, <2>2, <2>3, <2>4, ConstantsAssumption
          DEF Reclaim, PCs, NoTeardown
<1>2. PrunedView \in [Names -> Runners]
  BY EmptyRunnerType DEF PrunedView, Pruned
<1>3. \A n \in Names : /\ PrunedView[n].teardown.phase = "deprovisioning"
                            => n \notin registered
                       /\ runners[n] = EmptyRunner => PrunedView[n] = EmptyRunner
  BY DEF PrunedView, Pruned, EmptyRunner, NoTeardown
<1> HIDE DEF PrunedView
<1>4. CASE HoldScale
  BY <1>2, <1>3, <1>4, EndReconcileInv DEF HoldScale
<1>5. CASE ScaleDown
  <2>1. PICK chosen \in SUBSET Names :
          EndReconcile([n \in Names |->
                IF n \in chosen THEN MarkForTeardown(PrunedView[n], "cancelable")
                                ELSE PrunedView[n]],
                requeue \/ chosen # {})
    BY <1>5 DEF ScaleDown, kSubset, ScaleDownCandidates, AuditCandidates
  <2> DEFINE view == [n \in Names |->
                       IF n \in chosen THEN MarkForTeardown(PrunedView[n], "cancelable")
                                       ELSE PrunedView[n]]
             rq == requeue \/ chosen # {}
  <2>2. view \in [Names -> Runners]
    BY <1>2, MarkForTeardownType DEF Policies
  <2>3. \A n \in Names : view[n].teardown.phase = "deprovisioning" => n \notin registered
    BY <1>2, <1>3, MarkForTeardownPhase DEF Policies
  <2>4. rq \in BOOLEAN
    OBVIOUS
  <2>5. EndReconcile(view, rq)
    BY <2>1
  <2> HIDE DEF view, rq
  <2> QED BY <1>5, <2>2, <2>3, <2>4, <2>5, EndReconcileInv DEF ScaleDown
<1>6. CASE StartScaleUp
  BY <1>2, <1>3, <1>6, ConstantsAssumption DEF StartScaleUp, PCs
<1>7. CASE FetchImage
  <2>1. PICK chosen \in SUBSET FreshNames :
          prov' = [n \in Names |-> IF n \in chosen THEN "queued" ELSE "unused"]
    BY <1>7 DEF FetchImage, kSubset
  <2>2. prov' \in [Names -> Provisions]
    BY <2>1 DEF Provisions
  <2>3. \A n \in Names : prov'[n] # "unused" => runners[n] = EmptyRunner
    BY <2>1 DEF FreshNames
  <2> QED BY <1>7, <2>2, <2>3, ConstantsAssumption DEF FetchImage, PCs
<1>8. CASE FetchImageFails
  BY <1>8, EndReconcileInv DEF FetchImageFails
<1> QED BY <1>1, <1>4, <1>5, <1>6, <1>7, <1>8 DEF Scale

\* The goroutines and the join of their results keep the invariant.
LEMMA ProvisionInv == ASSUME IInv, Provision PROVE IInv'
<1> USE DEF IInv, TypeOK, PlatformTypeOK, DeprovisioningIsUnregistered,
            JobsNeedRegistrations, ProvisioningIsFresh, TeardownInHand
<1>1. ASSUME NEW n \in Names, NEW status \in Provisions,
             prov[n] # "unused", Provisioning(n, status),
             PlatformTypeOK', job' = job, registered \subseteq registered',
             registered' \subseteq registered \union {n}
      PROVE  IInv'
  <2>1. prov' \in [Names -> Provisions]
    BY <1>1 DEF Provisioning
  <2>2. runners[n].teardown = NoTeardown
    BY <1>1 DEF EmptyRunner
  <2> QED BY <1>1, <2>1, <2>2 DEF Provisioning, PCs, NoTeardown
<1>2. {"registered", "created", "failed"} \subseteq Provisions
  BY DEF Provisions
<1>3. ASSUME NEW n \in Names, RegisterRunner(n) PROVE IInv'
  BY <1>1, <1>2, <1>3 DEF RegisterRunner, HasSlot, Registers
<1>4. ASSUME NEW n \in Names, RegisterRunnerFails(n) PROVE IInv'
  BY <1>1, <1>2, <1>4 DEF RegisterRunnerFails, HasSlot, Registers
<1>5. ASSUME NEW n \in Names, CreateInstance(n) PROVE IInv'
  BY <1>1, <1>2, <1>5 DEF CreateInstance, CreatesInstance, RunStates, DiskStates
<1>6. ASSUME NEW n \in Names, CreateInstanceFails(n) PROVE IInv'
  BY <1>1, <1>2, <1>6
     DEF CreateInstanceFails, CreatesInstance, CreatesInstanceLate, RunStates, DiskStates
<1>7. CASE JoinProvision
  <2> DEFINE view == [n \in Names |-> Provisioned(n)]
             rq == requeue \/ \E n \in Names : prov[n] = "failed"
  <2>1. ASSUME NEW n \in Names
        PROVE  /\ Provisioned(n) \in Runners
               /\ Provisioned(n).teardown.phase = "deprovisioning" => n \notin registered
    <3>1. [runners[n] EXCEPT !.instance = "starting"] \in Runners
      BY DEF Runners, RunStates
    <3>2. [runners[n] EXCEPT !.instance = "starting"].teardown = runners[n].teardown
      BY DEF Runners
    <3> QED BY <3>1, <3>2, MarkForTeardownType, MarkForTeardownPhase DEF Provisioned, Policies
  <2>2. view \in [Names -> Runners]
    BY <2>1
  <2>3. rq \in BOOLEAN
    OBVIOUS
  <2>4. EndReconcile(view, rq)
    BY <1>7 DEF JoinProvision
  <2>5. \A n \in Names : view[n].teardown.phase = "deprovisioning" => n \notin registered
    BY <2>1
  <2> HIDE DEF view, rq
  <2> QED BY <1>7, <2>2, <2>3, <2>4, <2>5, EndReconcileInv DEF JoinProvision
<1> QED BY <1>3, <1>4, <1>5, <1>6, <1>7 DEF Provision

-----------------------------------------------------------------------------
(* The listener, the clock, the process and the platform. *)

\* Callbacks only touch the two fields under the mutex.
LEMMA ListenInv == ASSUME IInv, Listen PROVE IInv'
<1> USE DEF IInv, TypeOK, PlatformTypeOK, DeprovisioningIsUnregistered,
            JobsNeedRegistrations, ProvisioningIsFresh, TeardownInHand
<1>1. ASSUME NEW count \in 0 .. MaxDemand, HandleDesiredRunnerCount(count) PROVE IInv'
  <2>1. desired' \in -1 .. MaxDemand
    BY <1>1, ConstantsAssumption DEF HandleDesiredRunnerCount
  <2> QED BY <1>1, <2>1 DEF HandleDesiredRunnerCount
<1>2. ASSUME NEW n \in Names, HandleJobStarted(n) PROVE IInv'
  BY <1>2 DEF HandleJobStarted
<1>3. ASSUME NEW n \in Names, HandleJobCompleted(n) PROVE IInv'
  BY <1>3 DEF HandleJobCompleted
<1> QED BY <1>1, <1>2, <1>3 DEF Listen

\* The end of a window leaves the phase alone.
LEMMA ClockInv == ASSUME IInv, Clock PROVE IInv'
<1> USE DEF IInv, TypeOK, PlatformTypeOK, DeprovisioningIsUnregistered,
            JobsNeedRegistrations, ProvisioningIsFresh, TeardownInHand
<1>1. CASE AuditComesDue
  BY <1>1 DEF AuditComesDue
<1>2. ASSUME NEW n \in Names, WindowCloses(n) PROVE IInv'
  <2> DEFINE t == runners[n].teardown
             u == [t EXCEPT !.waiting = FALSE]
  <2>1. t \in TeardownStates
    BY <1>2, TeardownCases DEF WindowCloses, NoTeardown
  <2>2. u \in TeardownStates /\ u.phase = t.phase
    BY <2>1 DEF TeardownStates
  <2>3. runners' = [runners EXCEPT ![n].teardown = u]
    BY <1>2 DEF WindowCloses
  <2> HIDE DEF u
  <2>4. runners' \in [Names -> Runners]
    BY <2>2, <2>3 DEF Runners
  <2>5. /\ runners'[n].teardown = u /\ runners'[n].instance = runners[n].instance
        /\ \A m \in Names \ {n} : runners'[m] = runners[m]
    BY <2>3 DEF Runners
  <2>6. runners[n] # EmptyRunner /\ u # NoTeardown
    BY <1>2, <2>2 DEF WindowCloses, EmptyRunner, NoTeardown, TeardownStates, Policies
  <2> QED BY ZenonT(30), <1>2, <2>2, <2>4, <2>5, <2>6 DEF WindowCloses, TearingDown
<1> QED BY <1>1, <1>2 DEF Clock

\* A restart begins with an empty view, which claims nothing.
LEMMA ProcessInv == ASSUME IInv, Crash \/ Restart PROVE IInv'
<1> USE DEF IInv, TypeOK, PlatformTypeOK, DeprovisioningIsUnregistered,
            JobsNeedRegistrations, ProvisioningIsFresh, TeardownInHand
<1>1. CASE Crash
  <2>1. runners' \in [Names -> Runners] /\ prov' \in [Names -> Provisions]
    BY <1>1, EmptyRunnerType DEF Crash, FreshMemory, Provisions
  <2>2. restarts' \in 0 .. MaxRestarts
    BY <1>1, ConstantsAssumption DEF Crash
  <2>3. \A n \in Names : runners'[n].teardown = NoTeardown /\ prov'[n] = "unused"
    BY <1>1 DEF Crash, FreshMemory, EmptyRunner
  <2>4. TypeOK'
    BY <1>1, <2>1, <2>2, UnknownDemand DEF Crash, FreshMemory, PCs
  <2> QED BY <1>1, <2>3, <2>4 DEF Crash, FreshMemory, NoTeardown
<1>2. CASE Restart
  BY <1>2 DEF Restart, PCs
<1> QED BY <1>1, <1>2

\* GitHub and Oxide only ever remove registrations by themselves, and not that
\* of a runner whose job goes on.
LEMMA WorldInv == ASSUME IInv, World PROVE IInv'
<1> USE DEF IInv, TypeOK, PlatformTypeOK, DeprovisioningIsUnregistered,
            JobsNeedRegistrations, ProvisioningIsFresh, TeardownInHand
<1>1. ASSUME PlatformTypeOK', registered' \subseteq registered, JobsNeedRegistrations',
             UNCHANGED processVars
      PROVE  IInv'
  BY <1>1
<1>2. ASSUME NEW n \in Names, JobAssigned(n) \/ JobEnds(n) \/ RegistrationLapses(n)
      PROVE  PlatformTypeOK' /\ registered' \subseteq registered /\ JobsNeedRegistrations'
  BY <1>2 DEF JobAssigned, JobEnds, RegistrationLapses
<1>3. ASSUME NEW n \in Names,
             \/ Boots(n) \/ PowersOff(n) \/ StopCompletes(n) \/ InstanceFails(n)
             \/ DiskFaults(n) \/ OperatorDeletes(n) \/ DestroyedVanishes(n)
             \/ GrowsOlder(n) \/ LateCreationLands(n)
      PROVE  PlatformTypeOK' /\ registered' \subseteq registered /\ JobsNeedRegistrations'
  BY <1>3 DEF Boots, PowersOff, StopCompletes, InstanceFails, DiskFaults, OperatorDeletes,
              DestroyedVanishes, GrowsOlder, LateCreationLands, RunStates, DiskStates
<1>4. ASSUME NEW n \in Names, NameIsFreshAgain(n) PROVE IInv'
  BY <1>1, <1>4 DEF NameIsFreshAgain
<1>5. CASE PlatformStep /\ UNCHANGED processVars
  BY <1>1, <1>2, <1>3, <1>5 DEF PlatformStep
<1> QED BY <1>4, <1>5 DEF World

-----------------------------------------------------------------------------
(* The theorems. *)

\* IInv holds in every state the system reaches.
THEOREM Inductive == Spec => []IInv
<1>1. IInv /\ [Next]_vars => IInv'
  <2> SUFFICES ASSUME IInv, [Next]_vars PROVE IInv'
    OBVIOUS
  <2>1. CASE UNCHANGED vars
    BY <2>1 DEF vars, IInv, TypeOK, PlatformTypeOK, DeprovisioningIsUnregistered,
                JobsNeedRegistrations, ProvisioningIsFresh, TeardownInHand
  <2>2. CASE Next
    BY <2>2, GatherInv, AuditInv, TeardownInv, ScaleInv, ProvisionInv, ListenInv,
       ClockInv, ProcessInv, WorldInv DEF Next, Loop
  <2> QED BY <2>1, <2>2
<1> QED BY InitInv, <1>1, PTL DEF Spec

\* Every variable keeps to its type; the unions of record types say which
\* combinations of policy, phase and window a teardown can have.
THEOREM TypeCorrect == Spec => []TypeOK
BY Inductive, PTL DEF IInv

\* A teardown in deprovisioning really has no registration left, whatever gets
\* lost, fails or crashes and however many names are provisioned meanwhile.
THEOREM DeprovisioningSafe == Spec => []DeprovisioningIsUnregistered
BY Inductive, PTL DEF IInv

-----------------------------------------------------------------------------
(* Who touches the instances and disks. *)

Undisturbed == UNCHANGED <<runState, disk>>

\* The scaler stops and deletes instances only at the instance step of a
\* teardown, and disks only at its disk step, each for the runner in hand.
LEMMA TeardownEffects ==
  ASSUME Teardown
  PROVE  \/ Undisturbed
         \/ pc = "instance" /\ (StopsInstance(cur) \/ DeletesInstance(cur))
         \/ pc = "disk" /\ DeletesDisk(cur)
BY DEF Undisturbed, Teardown, BeginTeardown, LookupRegistration, RemoveRegistration,
       Unregisters, JobStillRunning, DeleteInstance, InstanceGone, AwaitStop, StopInstance,
       DeleteDisk, AwaitDetach, NoDiskLeft, TeardownCallFails

\* Provisioning only ever creates.
LEMMA ProvisionEffects ==
  ASSUME Provision
  PROVE  Undisturbed \/ \E n \in Names : CreatesInstance(n)
BY DEF Undisturbed, Provision, RegisterRunner, RegisterRunnerFails, Registers,
       CreateInstance, CreateInstanceFails, CreatesInstanceLate, JoinProvision

\* No other step of the process touches them at all.
LEMMA OtherEffects ==
  ASSUME \/ Gather \/ Audit \/ Scale \/ Listen \/ Clock \/ Crash \/ Restart
         \/ UNCHANGED vars
  PROVE  Undisturbed
BY DEF Undisturbed, Gather, StartReconcile, ListInstances, ListDisks, ObserveFails, Audit,
       AuditRunner, AuditRunnerFails, AuditDone, Scale, Reclaim, HoldScale, ScaleDown,
       StartScaleUp, FetchImage, FetchImageFails, Listen, HandleDesiredRunnerCount,
       HandleJobStarted, HandleJobCompleted, Clock, AuditComesDue, WindowCloses, Crash,
       Restart, vars

\* What the platform does by itself: it never halts a runner that has a job,
\* except by a fault, and only removes what is destroyed already.
LEMMA WorldEffects ==
  ASSUME IInv, World, NEW n \in Names
  PROVE  /\ job[n] = "running" /\ runState[n] # "stopping" => runState'[n] # "stopping"
         /\ disk[n] # "absent" => disk'[n] # "absent"
         /\ runState[n] \notin {"absent", "destroyed"} => runState'[n] # "absent"
<1> USE DEF IInv, TypeOK, PlatformTypeOK
<1>1. ASSUME NEW m \in Names,
             \/ JobAssigned(m) \/ JobEnds(m) \/ RegistrationLapses(m)
             \/ GrowsOlder(m) \/ NameIsFreshAgain(m)
      PROVE  Undisturbed
  BY <1>1 DEF Undisturbed, JobAssigned, JobEnds, RegistrationLapses, GrowsOlder,
              NameIsFreshAgain
<1>2. ASSUME NEW m \in Names, DiskFaults(m)
      PROVE  runState' = runState /\ (disk[n] # "absent" => disk'[n] # "absent")
  BY <1>2 DEF DiskFaults
<1>3. ASSUME NEW m \in Names,
             \/ Boots(m) \/ PowersOff(m) \/ StopCompletes(m)
             \/ InstanceFails(m) \/ DestroyedVanishes(m)
      PROVE  /\ disk' = disk
             /\ job[n] = "running" /\ runState[n] # "stopping" => runState'[n] # "stopping"
             /\ runState[n] \notin {"absent", "destroyed"} => runState'[n] # "absent"
  BY <1>3 DEF Boots, PowersOff, StopCompletes, InstanceFails, DestroyedVanishes
<1>4. ASSUME NEW m \in Names, OperatorDeletes(m) \/ LateCreationLands(m)
      PROVE  /\ runState[n] # "stopping" => runState'[n] # "stopping"
             /\ disk[n] # "absent" => disk'[n] # "absent"
             /\ runState[n] \notin {"absent", "destroyed"} => runState'[n] # "absent"
  BY <1>4 DEF OperatorDeletes, LateCreationLands
<1> QED BY <1>1, <1>2, <1>3, <1>4 DEF World, PlatformStep, Undisturbed

\* The scaler never stops an instance whose runner has a job that is running:
\* it stops instances in deprovisioning, where the registration is gone, and
\* GitHub lets go of no registration before its job ends.
THEOREM JobsAreSafe == Spec => NeverStopsARunningJob
<1>1. ASSUME IInv, [Next]_vars, NEW n \in Names,
             job[n] = "running", runState[n] # "stopping"
      PROVE  runState'[n] # "stopping"
  <2> USE <1>1 DEF IInv, TypeOK, PlatformTypeOK
  <2>1. CASE Undisturbed
    BY <2>1 DEF Undisturbed
  <2>2. CASE Teardown
    <3>1. pc = "instance" => cur # n
      BY DEF DeprovisioningIsUnregistered, JobsNeedRegistrations, TeardownInHand
    <3> QED BY <2>1, <2>2, <3>1, TeardownEffects
            DEF StopsInstance, DeletesInstance, DeletesDisk
  <2>3. CASE Provision
    BY <2>1, <2>3, ProvisionEffects DEF CreatesInstance
  <2>4. CASE World
    BY <2>4, WorldEffects
  <2> QED BY <2>1, <2>2, <2>3, <2>4, OtherEffects DEF Next, Loop
<1>2. IInv /\ [Next]_vars =>
        [\A n \in Names : job[n] = "running" /\ runState[n] # "stopping"
                           => runState'[n] # "stopping"]_vars
  BY <1>1
<1> QED BY <1>2, Inductive, PTL DEF Spec, NeverStopsARunningJob

\* Neither the instance nor the disk of a registered runner is deleted by the
\* scaler: whatever could still be sent a job keeps what it needs to run it.
THEOREM RegistrationIsFirst == Spec => RegistrationGoesFirst
<1>1. ASSUME IInv, [Next]_vars, NEW n \in registered
      PROVE  /\ disk[n] # "absent" => disk'[n] # "absent"
             /\ runState[n] \notin {"absent", "destroyed"} => runState'[n] # "absent"
  <2> USE <1>1 DEF IInv, TypeOK, PlatformTypeOK
  <2>1. CASE Undisturbed
    BY <2>1 DEF Undisturbed
  <2>2. CASE Teardown
    <3>1. pc \in {"instance", "disk"} => cur # n
      BY DEF DeprovisioningIsUnregistered, TeardownInHand
    <3> QED BY <2>1, <2>2, <3>1, TeardownEffects
            DEF StopsInstance, DeletesInstance, DeletesDisk
  <2>3. CASE Provision
    BY <2>1, <2>3, ProvisionEffects DEF CreatesInstance
  <2>4. CASE World
    BY <2>4, WorldEffects
  <2> QED BY <2>1, <2>2, <2>3, <2>4, OtherEffects DEF Next, Loop
<1>2. IInv /\ [Next]_vars =>
        [\A n \in registered :
           /\ disk[n] # "absent" => disk'[n] # "absent"
           /\ runState[n] \notin {"absent", "destroyed"} => runState'[n] # "absent"]_vars
  BY <1>1
<1> QED BY <1>2, Inductive, PTL DEF Spec, RegistrationGoesFirst

-----------------------------------------------------------------------------
(* What happens to a teardown that has begun. *)

Lasts(n) == Holds(runners[n], runners'[n]) \/ TeardownEnds(n)

\* Dropping the snapshots of a view leaves its teardowns as they are.
LEMMA ReturnedViewLasts ==
  ASSUME NEW n \in Names, NEW view \in [Names -> Runners], NEW rq,
         Holds(runners[n], view[n]),
         ReturnToRun(view, rq)
  PROVE  Lasts(n)
<1>1. runners'[n].teardown = view[n].teardown
  BY DEF ReturnToRun, Runners
<1> QED BY <1>1 DEF Lasts, Holds

\* Observation, marking and the audit.
LEMMA PlanLasts ==
  ASSUME IInv, NEW n \in Names, Gather \/ Audit
  PROVE  Lasts(n)
<1> USE DEF IInv, TypeOK, PlatformTypeOK
<1>1. CASE StartReconcile
  <2> DEFINE r == IF <<n, "started">> \in inbox THEN JobStarted(runners[n]) ELSE runners[n]
  <2>1. runners'[n] = IF <<n, "completed">> \in inbox THEN JobCompleted(r) ELSE r
    BY <1>1 DEF StartReconcile
  <2>2. r \in Runners /\ Holds(runners[n], r)
    BY JobEventTypes, MarksHold DEF Holds, Policies
  <2> HIDE DEF r
  <2>3. Holds(r, JobCompleted(r))
    BY <2>2, MarksHold DEF Policies
  <2> QED BY <2>1, <2>2, <2>3 DEF Lasts, Holds
<1>2. CASE ListInstances
  BY <1>2 DEF ListInstances, Runners, Lasts, Holds
<1>3. CASE ListDisks
  <2> DEFINE r == [runners[n] EXCEPT !.disk = disk[n]]
             s == MarkedForInstance(n, r)
  <2>1. runners'[n] = MarkedForDisk(n, s)
    BY <1>3 DEF ListDisks
  <2>2. r \in Runners /\ r.teardown = runners[n].teardown
    <3>1. runners[n] \in Runners /\ disk[n] \in DiskStates
      OBVIOUS
    <3> QED
      BY <3>1 DEF Runners
  <2> HIDE DEF r
  <2>3. s \in Runners /\ Holds(r, s)
    BY <2>2, MarksHold, MarkedTypes DEF MarkedForInstance, Holds, Policies
  <2> HIDE DEF s
  <2>4. Holds(s, MarkedForDisk(n, s))
    BY <2>3, MarksHold DEF MarkedForDisk, Holds, Policies
  <2> QED BY <2>1, <2>2, <2>3, <2>4 DEF Lasts, Holds
<1>4. CASE ObserveFails
  BY <1>4, ReturnedViewLasts DEF ObserveFails, Holds
<1>5. ASSUME NEW m \in Names, AuditRunner(m) PROVE Lasts(n)
  BY <1>5 DEF AuditRunner, Runners, BeginDeprovisioning, NewTeardown, Lasts, Holds
<1>6. CASE AuditDone \/ \E m \in Names : AuditRunnerFails(m)
  BY <1>6 DEF AuditDone, AuditRunnerFails, Lasts, Holds
<1> QED BY <1>1, <1>2, <1>3, <1>4, <1>5, <1>6 DEF Gather, Audit

\* Driving a teardown: it is dropped when RemoveRunner finds a job and it was
\* cancelable, and when neither instance nor disk is left.
LEMMA TeardownLasts ==
  ASSUME IInv, NEW n \in Names, Teardown
  PROVE  Lasts(n)
<1> USE DEF IInv, TypeOK
<1>1. ASSUME NEW m \in Names, BeginTeardown(m) PROVE Lasts(n)
  <2>1. runners[m].teardown \in TeardownStates
    BY <1>1, TeardownCases DEF TeardownInHand, BeginTeardown
  <2>2. CASE runners' = runners
    BY <2>2 DEF Lasts, Holds
  <2>3. CASE n # m
    BY <1>1, <2>2, <2>3 DEF BeginTeardown, Lasts, Holds
  <2> DEFINE t == runners[n].teardown
             u == IF t.phase = "window" THEN BeginRemovingRegistration(t) ELSE t
  <2>4. CASE n = m /\ runners' = [runners EXCEPT ![n].teardown = u]
    <3>1. runners'[n].teardown = u
      BY <2>4 DEF Runners
    <3> QED BY <2>1, <2>4, <3>1 DEF BeginRemovingRegistration, TeardownStates, Lasts, Holds
  <2>5. runners' = runners \/ runners' = [runners EXCEPT ![m].teardown =
                     IF @.phase = "window" THEN BeginRemovingRegistration(@) ELSE @]
    BY <1>1 DEF BeginTeardown
  <2> QED BY <2>2, <2>3, <2>4, <2>5
<1>2. CASE LookupRegistration \/ RemoveRegistration
  BY <1>2 DEF LookupRegistration, RemoveRegistration, BeginDeprovisioning, Runners,
              Lasts, Holds
<1>3. CASE JobStillRunning
  <2>1. /\ cur \in Names /\ runners[cur].teardown.phase = "removing"
        /\ runners' = [runners EXCEPT ![cur] = FoundRunningAJob(runners[cur])]
    BY <1>3 DEF JobStillRunning, TeardownInHand
  <2>2. Holds(runners[cur], FoundRunningAJob(runners[cur]))
    BY <2>1 DEF FoundRunningAJob, Holds, Runners
  <2> QED BY <2>1, <2>2 DEF Lasts, Holds
<1>4. CASE DeleteInstance \/ InstanceGone
  BY <1>4 DEF DeleteInstance, InstanceGone, Runners, Lasts, Holds
<1>5. CASE DeleteDisk \/ NoDiskLeft
  <2>1. cur \in Names /\ pc = "disk" /\ runners[cur].instance = "absent"
    BY <1>5 DEF DeleteDisk, NoDiskLeft, TeardownInHand
  <2>2. CASE n = cur
    <3>1. Gone(runners'[n])
      BY ZenonT(30), <1>5, <2>1, <2>2 DEF DeleteDisk, NoDiskLeft, Runners, Gone, TearingDown
    <3> QED BY <2>1, <2>2, <3>1 DEF Lasts, TeardownEnds
  <2>3. CASE n # cur
    BY <1>5, <2>3 DEF DeleteDisk, NoDiskLeft, Lasts, Holds
  <2> QED BY <2>2, <2>3
<1>6. CASE AwaitStop \/ StopInstance \/ AwaitDetach \/ TeardownCallFails
  BY <1>6 DEF AwaitStop, StopInstance, AwaitDetach, TeardownCallFails, Lasts, Holds
<1> QED BY <1>1, <1>2, <1>3, <1>4, <1>5, <1>6 DEF Teardown

\* Reclaiming ends windows only; scaling down marks only what has no teardown.
LEMMA ScaleLasts ==
  ASSUME IInv, NEW n \in Names, Scale
  PROVE  Lasts(n)
<1> USE DEF IInv, TypeOK
<1>1. CASE Reclaim
  <2>1. PICK chosen \in SUBSET Reclaimable(runners) :
          runners' = [m \in Names |->
            IF m \in chosen THEN [runners[m] EXCEPT !.teardown = NoTeardown] ELSE runners[m]]
    BY <1>1 DEF Reclaim, kSubset
  <2>2. n \in chosen => runners[n].teardown.policy = "cancelable"
                        /\ runners[n].teardown.phase = "window"
    BY <2>1 DEF Reclaimable, CanCancelForCapacity
  <2> QED BY <2>1, <2>2 DEF Lasts, Holds
<1>2. PrunedView \in [Names -> Runners]
  BY EmptyRunnerType DEF PrunedView, Pruned
<1>3. \/ PrunedView[n] = runners[n]
      \/ PrunedView[n] = EmptyRunner /\ Gone(runners[n])
  BY DEF PrunedView, Pruned
<1>4. Gone(EmptyRunner) /\ EmptyRunner.teardown = NoTeardown
  BY DEF Gone, EmptyRunner, TearingDown
<1>5. Holds(runners[n], PrunedView[n]) /\ Holds(runners[n], runners[n])
  BY <1>3, <1>4 DEF Holds, Gone, TearingDown, NoTeardown
<1>6. \A s \in Runners : Holds(PrunedView[n], s) => Holds(runners[n], s)
  BY <1>3, <1>4 DEF Holds, Gone, TearingDown, NoTeardown
<1> HIDE DEF PrunedView
<1>7. CASE HoldScale
  BY <1>2, <1>5, <1>7, ReturnedViewLasts DEF HoldScale, EndReconcile
<1>8. CASE ScaleDown
  <2>1. PICK chosen :
          EndReconcile([m \in Names |->
                IF m \in chosen THEN MarkForTeardown(PrunedView[m], "cancelable")
                                ELSE PrunedView[m]],
                requeue \/ chosen # {})
    BY <1>8 DEF ScaleDown
  <2> DEFINE view == [m \in Names |->
                IF m \in chosen THEN MarkForTeardown(PrunedView[m], "cancelable")
                                ELSE PrunedView[m]]
  <2>2. view \in [Names -> Runners]
    BY <1>2, MarkForTeardownType DEF Policies
  <2>3. \/ view[n] = PrunedView[n]
        \/ view[n] \in Runners /\ Holds(PrunedView[n], view[n])
    BY <1>2, <2>2, MarksHold DEF Policies
  <2>4. Holds(runners[n], view[n])
    BY <1>5, <1>6, <2>3
  <2> HIDE DEF view
  <2>5. ReturnToRun(view, (requeue \/ chosen # {}) \/ \E m \in Names : TearingDown(view[m]))
    BY <2>1 DEF EndReconcile, view
  <2> QED BY <2>2, <2>4, <2>5, ReturnedViewLasts
<1>9. CASE StartScaleUp
  BY <1>5, <1>9 DEF StartScaleUp, Lasts
<1>10. CASE FetchImage
  BY <1>5, <1>10 DEF FetchImage, Lasts
<1>11. CASE FetchImageFails
  BY <1>5, <1>11, ReturnedViewLasts DEF FetchImageFails, EndReconcile
<1> QED BY <1>1, <1>7, <1>8, <1>9, <1>10, <1>11 DEF Scale

\* Provisioning, the callbacks, the clock, the platform and a restart.
LEMMA RestLasts ==
  ASSUME IInv, NEW n \in Names,
         Provision \/ Listen \/ Clock \/ World \/ Restart \/ UNCHANGED vars
  PROVE  Lasts(n)
<1> USE DEF IInv, TypeOK
<1>1. CASE JoinProvision
  <2> DEFINE view == [m \in Names |-> Provisioned(m)]
  <2>1. ASSUME NEW m \in Names
        PROVE  Provisioned(m) \in Runners /\ Holds(runners[m], Provisioned(m))
    <3>1. /\ [runners[m] EXCEPT !.instance = "starting"] \in Runners
          /\ Holds(runners[m], [runners[m] EXCEPT !.instance = "starting"])
      BY DEF Runners, RunStates, Holds
    <3> QED BY <3>1, MarkForTeardownType, MarksHold DEF Provisioned, Policies, Holds
  <2>2. view \in [Names -> Runners] /\ Holds(runners[n], view[n])
    BY <2>1
  <2>3. PICK rq : ReturnToRun(view, rq)
    BY <1>1 DEF JoinProvision, EndReconcile
  <2> HIDE DEF view
  <2> QED BY <2>2, <2>3, ReturnedViewLasts
<1>2. ASSUME NEW m \in Names, WindowCloses(m) PROVE Lasts(n)
  BY <1>2 DEF WindowCloses, Runners, TeardownStates, NoTeardown, Lasts, Holds
<1>3. CASE runners' = runners
  BY <1>3 DEF Lasts, Holds
<1>4. Listen \/ World \/ Restart \/ AuditComesDue \/ UNCHANGED vars => runners' = runners
  BY DEF Listen, HandleDesiredRunnerCount, HandleJobStarted, HandleJobCompleted, World,
         NameIsFreshAgain, Restart, AuditComesDue, vars
<1>5. Provision => JoinProvision \/ runners' = runners
  BY DEF Provision, RegisterRunner, RegisterRunnerFails, CreateInstance,
         CreateInstanceFails, Provisioning
<1> QED BY <1>1, <1>2, <1>3, <1>4, <1>5 DEF Clock

\* A permanent teardown stays permanent and one in deprovisioning stays there
\* until it has left nothing of the runner: a job event that arrives late, new
\* demand and failing calls leave it alone, and only a crash forgets it.
THEOREM NoRegress == Spec => TeardownNeverRegresses
<1>1. ASSUME IInv, [Next]_vars, pc' # "down", NEW n \in Names
      PROVE  Lasts(n)
  BY <1>1, PlanLasts, TeardownLasts, ScaleLasts, RestLasts DEF Next, Loop, Crash
<1>2. IInv /\ [Next]_vars =>
        [\A n \in Names :
           LET t == runners[n].teardown
               after == runners'[n].teardown
           IN  pc' # "down" /\ ~TeardownEnds(n) =>
                 /\ t.phase = "deprovisioning" => after.phase = "deprovisioning"
                 /\ t.policy = "permanent" => after.policy = "permanent"]_vars
  BY <1>1 DEF Lasts, Holds
<1> QED BY <1>2, Inductive, PTL DEF Spec, TeardownNeverRegresses

-----------------------------------------------------------------------------
(* No pending work without a deadline. *)

\* A process that is not running has no view.
Scheduled ==
  /\ PendingWorkIsScheduled
  /\ pc = "down" => \A n \in Names : runners[n] = EmptyRunner

\* The last lines of reconcile ask for another run while a teardown is left.
LEMMA EndSchedules ==
  ASSUME NEW view \in [Names -> Runners], NEW rq, EndReconcile(view, rq)
  PROVE  Scheduled'
<1>1. \A n \in Names : runners'[n].teardown = view[n].teardown
  BY DEF EndReconcile, ReturnToRun, Runners
<1>2. requeue' = (rq \/ \E n \in Names : TearingDown(view[n]))
  BY DEF EndReconcile, ReturnToRun
<1>3. pc' \in {"idle", "drained"}
  BY DEF EndReconcile
<1>4. ASSUME ~requeue', NEW n \in Names PROVE ~TearingDown(runners'[n])
  BY <1>1, <1>2, <1>4 DEF TearingDown
<1> QED BY <1>3, <1>4 DEF Scheduled, PendingWorkIsScheduled

\* Between two reconciliations the loop never waits for its ticker alone while
\* a runner is being torn down.
THEOREM NothingIsForgotten == Spec => []PendingWorkIsScheduled
<1>1. Init => Scheduled
  BY DEF Init, Scheduled, PendingWorkIsScheduled, EmptyRunner, TearingDown
<1>2. ASSUME IInv, Scheduled, [Next]_vars PROVE Scheduled'
  <2> USE <1>2 DEF IInv, TypeOK
  <2>1. CASE pc' \notin {"idle", "down"}
    BY <2>1 DEF Scheduled, PendingWorkIsScheduled
  <2>2. CASE UNCHANGED <<pc, requeue, runners>>
    BY <2>2 DEF Scheduled, PendingWorkIsScheduled
  <2>3. Listen \/ World \/ AuditComesDue \/ UNCHANGED vars
          => UNCHANGED <<pc, requeue, runners>>
    BY DEF Listen, HandleDesiredRunnerCount, HandleJobStarted, HandleJobCompleted, World,
           NameIsFreshAgain, AuditComesDue, vars
  <2>4. ASSUME NEW n \in Names, WindowCloses(n) PROVE Scheduled'
    <3>1. runners[n].teardown # NoTeardown /\ runners[n] # EmptyRunner
      BY <2>4 DEF WindowCloses, NoTeardown, EmptyRunner
    <3>2. pc' = pc /\ requeue' = requeue
      BY <2>4 DEF WindowCloses
    <3> QED BY <3>1, <3>2 DEF Scheduled, PendingWorkIsScheduled, TearingDown
  <2>5. CASE ObserveFails
    BY <2>5 DEF ObserveFails, ReturnToRun, Scheduled, PendingWorkIsScheduled
  <2>6. StartReconcile \/ ListInstances \/ ListDisks \/ Audit \/ Teardown \/ Reclaim
          \/ StartScaleUp \/ FetchImage => pc' \notin {"idle", "down"}
    BY DEF StartReconcile, ListInstances, ListDisks, Audit, AuditRunner, AuditRunnerFails,
           AuditDone, Reclaim, StartScaleUp, FetchImage, Teardown, BeginTeardown,
           LookupRegistration, RemoveRegistration, JobStillRunning, DeleteInstance,
           InstanceGone, AwaitStop, StopInstance, DeleteDisk, AwaitDetach, NoDiskLeft,
           TeardownCallFails, Return
  <2>7. PrunedView \in [Names -> Runners]
    BY EmptyRunnerType DEF PrunedView, Pruned
  <2>8. CASE HoldScale \/ FetchImageFails
    BY <2>7, <2>8, EndSchedules DEF HoldScale, FetchImageFails
  <2>9. CASE ScaleDown
    <3>1. PICK chosen :
            EndReconcile([m \in Names |->
                  IF m \in chosen THEN MarkForTeardown(PrunedView[m], "cancelable")
                                  ELSE PrunedView[m]],
                  requeue \/ chosen # {})
      BY <2>9 DEF ScaleDown
    <3> DEFINE view == [m \in Names |->
                  IF m \in chosen THEN MarkForTeardown(PrunedView[m], "cancelable")
                                  ELSE PrunedView[m]]
    <3>2. view \in [Names -> Runners]
      BY <2>7, MarkForTeardownType DEF Policies
    <3> HIDE DEF view
    <3>3. EndReconcile(view, requeue \/ chosen # {})
      BY <3>1 DEF view
    <3> QED BY <3>2, <3>3, EndSchedules
  <2>10. CASE Provision
    <3>1. Provision => JoinProvision \/ UNCHANGED <<pc, requeue, runners>>
      BY DEF Provision, RegisterRunner, RegisterRunnerFails, CreateInstance,
             CreateInstanceFails, Provisioning
    <3>2. CASE JoinProvision
      <4> DEFINE view == [m \in Names |-> Provisioned(m)]
      <4>1. \A m \in Names : [runners[m] EXCEPT !.instance = "starting"] \in Runners
        BY DEF Runners, RunStates
      <4>2. view \in [Names -> Runners]
        BY <4>1, MarkForTeardownType DEF Provisioned, Policies
      <4>3. PICK rq : EndReconcile(view, rq)
        BY <3>2 DEF JoinProvision
      <4> HIDE DEF view
      <4> QED BY <4>2, <4>3, EndSchedules
    <3> QED BY <2>2, <2>10, <3>1, <3>2
  <2>11. CASE Crash
    BY <2>11 DEF Crash, FreshMemory, Scheduled, PendingWorkIsScheduled
  <2>12. CASE Restart
    BY <2>12 DEF Restart, Scheduled, PendingWorkIsScheduled, EmptyRunner, TearingDown
  <2> QED
    BY <2>1, <2>2, <2>3, <2>4, <2>5, <2>6, <2>8, <2>9, <2>10, <2>11, <2>12
       DEF Next, Loop, Gather, Scale, Clock
<1>3. IInv /\ Scheduled /\ [Next]_vars => Scheduled'
  BY <1>2
<1>4. Scheduled => PendingWorkIsScheduled
  BY DEF Scheduled
<1> QED BY <1>1, <1>3, <1>4, Inductive, PTL DEF Spec

=============================================================================
