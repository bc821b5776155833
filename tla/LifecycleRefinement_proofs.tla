--------------------- MODULE LifecycleRefinement_proofs ---------------------
(***************************************************************************)
(* The reconciler implements RunnerLifecycle, for any set of names, any    *)
(* configurations and every combination of disturbances.                   *)
(***************************************************************************)
EXTENDS LifecycleRefinement, Reconciler_proofs

Taken == {"queued", "registered"}   \* a goroutine has still to create the instance

\* Nothing is ever created under a name that has left something behind, and only
\* one creation is under way for a name.
NamesAreUnspoilt ==
  \A n \in Names :
    /\ n \in late \/ prov[n] \in Taken => runState[n] = "absent" /\ disk[n] = "absent"
    /\ prov[n] \in Taken => n \notin late

\* Only an operator takes away the instance of a runner at work.
JobsNeedInstances ==
  \A n \in Names : job[n] = "running" => n \in Existing \/ "operator" \in Disturbances

NInv == NamesAreUnspoilt /\ JobsNeedInstances

USE DEF platformVars, githubVars, oxideVars, inputVars, planVars, workVars, loopVars,
        processVars

-----------------------------------------------------------------------------
(* What the process does to the platform, and to the names it has taken.   *)

\* The effect of one of the scaler's calls on the platform, with what is known
\* of the runner it is made for.
Effect(n) ==
  \/ prov[n] = "queued" /\ prov'[n] \in {"registered", "failed"} /\ Registers(n)
  \/ /\ prov[n] = "registered" /\ prov'[n] \in {"created", "failed"}
     /\ CreatesInstance(n) \/ (prov'[n] = "failed" /\ CreatesInstanceLate(n))
  \/ pc = "remove" /\ n = cur /\ Unregisters(n)
  \/ pc = "instance" /\ n = cur /\ (StopsInstance(n) \/ DeletesInstance(n))
  \/ pc = "disk" /\ n = cur /\ DeletesDisk(n)

\* The loop changes the platform by its calls only, one runner at a time.
LEMMA LoopEffects ==
  ASSUME IInv, Loop
  PROVE  UNCHANGED platformVars \/ \E n \in Names : Effect(n)
<1>1. CASE Gather \/ Audit \/ Scale
  BY <1>1 DEF Gather, StartReconcile, ListInstances, ListDisks, ObserveFails, Audit,
     AuditRunner, AuditRunnerFails, AuditDone, Scale, Reclaim, HoldScale, ScaleDown,
     StartScaleUp, FetchImage, FetchImageFails
<1>2. CASE Teardown
  <2>1. pc \in {"remove", "instance", "disk"} => cur \in Names
    BY DEF IInv, TeardownInHand
  <2> QED
    BY <1>2, <2>1 DEF Effect, Teardown, BeginTeardown, LookupRegistration,
       RemoveRegistration, JobStillRunning, DeleteInstance, InstanceGone, AwaitStop,
       StopInstance, DeleteDisk, AwaitDetach, NoDiskLeft, TeardownCallFails
<1>3. CASE Provision
  <2>1. CASE JoinProvision
    BY <2>1 DEF JoinProvision
  <2>2. ASSUME NEW n \in Names,
               \/ RegisterRunner(n) \/ RegisterRunnerFails(n)
               \/ CreateInstance(n) \/ CreateInstanceFails(n)
        PROVE  UNCHANGED platformVars \/ Effect(n)
    BY <2>2 DEF Effect, RegisterRunner, RegisterRunnerFails, CreateInstance,
       CreateInstanceFails, Provisioning, HasSlot, Taken, IInv, TypeOK
  <2> QED
    BY <1>3, <2>1, <2>2 DEF Provision
<1> QED
  BY <1>1, <1>2, <1>3 DEF Loop

\* Nothing else of the process touches the platform, except that the listener
\* takes events from it.
LEMMA OtherStepEffects ==
  ASSUME Listen \/ Clock \/ Crash \/ Restart \/ UNCHANGED vars
  PROVE  UNCHANGED <<registered, job, oxideVars>>
BY DEF Listen, HandleDesiredRunnerCount, HandleJobStarted, HandleJobCompleted, Clock,
       AuditComesDue, WindowCloses, Crash, Restart, vars

\* A goroutine gets a name that is fresh.
LEMMA TakenNames ==
  ASSUME IInv, [Next]_vars, NEW n \in Names, prov'[n] \in Taken
  PROVE  prov[n] \in Taken \/ (n \in FreshNames /\ UNCHANGED platformVars)
<1> USE DEF IInv, TypeOK, Taken
<1>1. CASE Gather \/ Audit
  BY <1>1 DEF Gather, StartReconcile, ListInstances, ListDisks, ObserveFails, ReturnToRun,
     Audit, AuditRunner, AuditRunnerFails, AuditDone
<1>2. CASE Teardown
  BY <1>2 DEF Teardown, BeginTeardown, LookupRegistration, RemoveRegistration,
     JobStillRunning, DeleteInstance, InstanceGone, AwaitStop, StopInstance, DeleteDisk,
     AwaitDetach, NoDiskLeft, TeardownCallFails
<1>3. CASE Scale
  <2>1. CASE FetchImage
    <3>1. PICK chosen \in kSubset(AtMost(Requested, Cardinality(FreshNames)), FreshNames) :
            prov' = [m \in Names |-> IF m \in chosen THEN "queued" ELSE "unused"]
      BY <2>1 DEF FetchImage
    <3>2. chosen \subseteq FreshNames
      BY <3>1 DEF kSubset
    <3> QED
      BY <2>1, <3>1, <3>2 DEF FetchImage
  <2>2. CASE Reclaim \/ HoldScale \/ ScaleDown \/ StartScaleUp \/ FetchImageFails
    BY <2>2 DEF Reclaim, HoldScale, ScaleDown, StartScaleUp, FetchImageFails, EndReconcile,
       ReturnToRun
  <2> QED
    BY <1>3, <2>1, <2>2 DEF Scale
<1>4. CASE Provision
  <2>1. CASE JoinProvision
    BY <2>1 DEF JoinProvision, EndReconcile, ReturnToRun
  <2>2. ASSUME NEW m \in Names,
               \/ RegisterRunner(m) \/ RegisterRunnerFails(m)
               \/ CreateInstance(m) \/ CreateInstanceFails(m)
        PROVE  prov[n] \in Taken
    BY <2>2 DEF RegisterRunner, RegisterRunnerFails, CreateInstance, CreateInstanceFails,
       Provisioning, HasSlot
  <2> QED
    BY <1>4, <2>1, <2>2 DEF Provision
<1>5. CASE Listen \/ Clock \/ Restart \/ UNCHANGED vars
  BY <1>5 DEF Listen, HandleDesiredRunnerCount, HandleJobStarted, HandleJobCompleted, Clock,
     AuditComesDue, WindowCloses, Restart, vars
<1>6. CASE Crash
  BY <1>6 DEF Crash, FreshMemory
<1>7. CASE World
  BY <1>7 DEF World, NameIsFreshAgain
<1> QED
  BY <1>1, <1>2, <1>3, <1>4, <1>5, <1>6, <1>7 DEF Next, Loop

-----------------------------------------------------------------------------
(* The strengthening.                                                      *)

\* What has neither instance nor disk gets none but by a creation.
LEMMA UnspoiltStays ==
  ASSUME IInv, NInv, [Next]_vars, NEW n \in Names,
         runState[n] = "absent", disk[n] = "absent",
         n \in late => n \in late', prov[n] = "registered" => prov'[n] \in Taken
  PROVE  runState'[n] = "absent" /\ disk'[n] = "absent"
<1> USE DEF IInv, TypeOK, PlatformTypeOK, NInv, NamesAreUnspoilt, Taken
<1>1. ASSUME NEW m \in Names, Effect(m) PROVE runState'[n] = "absent" /\ disk'[n] = "absent"
  BY <1>1 DEF Effect, Registers, CreatesInstance, CreatesInstanceLate, Unregisters,
     StopsInstance, DeletesInstance, DeletesDisk
<1>2. CASE World
  <2>1. ASSUME NEW m \in Names,
               \/ JobAssigned(m) \/ JobEnds(m) \/ RegistrationLapses(m)
               \/ GrowsOlder(m) \/ NameIsFreshAgain(m)
        PROVE  runState' = runState /\ disk' = disk
    BY <2>1 DEF JobAssigned, JobEnds, RegistrationLapses, GrowsOlder, NameIsFreshAgain
  <2>2. ASSUME NEW m \in Names,
               \/ Boots(m) \/ PowersOff(m) \/ StopCompletes(m) \/ InstanceFails(m)
               \/ DiskFaults(m) \/ OperatorDeletes(m) \/ DestroyedVanishes(m)
        PROVE  runState'[n] = "absent" /\ disk'[n] = "absent"
    BY <2>2 DEF Boots, PowersOff, StopCompletes, InstanceFails, DiskFaults,
       OperatorDeletes, DestroyedVanishes
  <2>3. ASSUME NEW m \in Names, LateCreationLands(m)
        PROVE  runState'[n] = "absent" /\ disk'[n] = "absent"
    BY <2>3 DEF LateCreationLands
  <2> QED
    BY <1>2, <2>1, <2>2, <2>3 DEF World, PlatformStep
<1> QED
  BY <1>1, <1>2, LoopEffects, OtherStepEffects DEF Next

\* Creations that are still under way are added by the goroutine of that name.
LEMMA LateNames ==
  ASSUME IInv, NInv, [Next]_vars, NEW n \in Names, n \in late'
  PROVE  n \in late \/ (prov[n] = "registered" /\ prov'[n] \notin Taken
                        /\ runState' = runState /\ disk' = disk)
<1>1. ASSUME NEW m \in Names, Effect(m)
      PROVE  late' = late \/ (/\ late' = late \union {m} /\ prov[m] = "registered"
                              /\ prov'[m] \notin Taken /\ runState' = runState /\ disk' = disk)
  BY <1>1 DEF Effect, Registers, CreatesInstance, CreatesInstanceLate, Unregisters,
     StopsInstance, DeletesInstance, DeletesDisk, Taken
<1>2. CASE World
  BY <1>2 DEF World, PlatformStep, JobAssigned, JobEnds, RegistrationLapses, GrowsOlder,
     NameIsFreshAgain, Boots, PowersOff, StopCompletes, InstanceFails, DiskFaults,
     OperatorDeletes, DestroyedVanishes, LateCreationLands
<1> QED
  BY <1>1, <1>2, LoopEffects, OtherStepEffects DEF Next

\* No step takes a name under which something is left, or puts something under a
\* name that is free.
LEMMA UnspoiltInductive ==
  ASSUME IInv, NInv, [Next]_vars
  PROVE  NamesAreUnspoilt'
<1> USE DEF NInv, NamesAreUnspoilt
<1>1. ASSUME NEW n \in Names, prov'[n] \in Taken
      PROVE  runState'[n] = "absent" /\ disk'[n] = "absent" /\ n \notin late'
  <2>1. CASE n \in FreshNames /\ UNCHANGED platformVars
    BY <2>1 DEF FreshNames
  <2>2. CASE prov[n] \in Taken
    BY <1>1, <2>2, UnspoiltStays, LateNames
  <2> QED
    BY <1>1, <2>1, <2>2, TakenNames
<1>2. ASSUME NEW n \in Names, n \in late' PROVE runState'[n] = "absent" /\ disk'[n] = "absent"
  <2>1. CASE n \in late
    <3>1. prov[n] # "registered"
      BY <2>1 DEF Taken
    <3> QED
      BY <1>2, <2>1, <3>1, UnspoiltStays
  <2>2. CASE prov[n] = "registered" /\ runState' = runState /\ disk' = disk
    BY <2>2 DEF Taken
  <2> QED
    BY <1>2, <2>1, <2>2, LateNames
<1> QED
  BY <1>1, <1>2

\* The scaler deletes no instance whose runner has a job: its registration is
\* gone by then, and with a job it would not be.
LEMMA JobsInductive ==
  ASSUME IInv, NInv, [Next]_vars
  PROVE  JobsNeedInstances'
<1> USE DEF IInv, TypeOK, PlatformTypeOK, NInv, JobsNeedInstances, Existing
<1> SUFFICES ASSUME NEW n \in Names, job'[n] = "running", "operator" \notin Disturbances
             PROVE  runState'[n] \notin {"absent", "destroyed"}
  OBVIOUS
<1>1. ASSUME NEW m \in Names, Effect(m) PROVE runState'[n] \notin {"absent", "destroyed"}
  <2>1. job' = job
    BY <1>1 DEF Effect, Registers, CreatesInstance, CreatesInstanceLate, Unregisters,
       StopsInstance, DeletesInstance, DeletesDisk
  <2>2. pc = "instance" => cur # n
    BY <2>1 DEF DeprovisioningIsUnregistered, JobsNeedRegistrations, TeardownInHand
  <2> QED
    BY <1>1, <2>1, <2>2 DEF Effect, Registers, CreatesInstance, CreatesInstanceLate,
       Unregisters, StopsInstance, DeletesInstance, DeletesDisk
<1>2. CASE World
  <2>1. ASSUME NEW m \in Names, JobAssigned(m)
        PROVE  runState'[n] \notin {"absent", "destroyed"}
    BY <2>1 DEF JobAssigned
  <2>2. ASSUME NEW m \in Names,
               \/ JobEnds(m) \/ RegistrationLapses(m) \/ GrowsOlder(m)
               \/ NameIsFreshAgain(m) \/ DiskFaults(m)
        PROVE  runState'[n] \notin {"absent", "destroyed"}
    BY <2>2 DEF JobEnds, RegistrationLapses, GrowsOlder, NameIsFreshAgain, DiskFaults
  <2>3. ASSUME NEW m \in Names,
               \/ Boots(m) \/ PowersOff(m) \/ StopCompletes(m) \/ InstanceFails(m)
               \/ OperatorDeletes(m) \/ DestroyedVanishes(m) \/ LateCreationLands(m)
        PROVE  runState'[n] \notin {"absent", "destroyed"}
    BY <2>3 DEF Boots, PowersOff, StopCompletes, InstanceFails, OperatorDeletes,
       DestroyedVanishes, LateCreationLands
  <2> QED
    BY <1>2, <2>1, <2>2, <2>3 DEF World, PlatformStep
<1> QED
  BY <1>1, <1>2, LoopEffects, OtherStepEffects DEF Next

-----------------------------------------------------------------------------
(* The steps of the reconciler as steps of RunnerLifecycle.                *)

\* A step that changes what there is under one name is a step of the lifecycle
\* if the stage of that name moves along one of its arrows.
LEMMA OneMoves ==
  ASSUME NEW n \in Names,
         \A m \in Names \ {n} : Stage(m)' = Stage(m),
         \/ Stage(n)' = Stage(n)
         \/ Stage(n) = "unused" /\ Stage(n)' \in {"registered", "retired"}
         \/ Stage(n) = "registered" /\ Stage(n)' \in {"ready", "unused"}
         \/ Stage(n) = "ready" /\ Stage(n)' \in {"working", "retired"}
         \/ Stage(n) = "stranded" /\ Stage(n)' = "leftover"
         \/ Stage(n) = "working" /\ Stage(n)' = "retired"
         \/ Stage(n) = "retired" /\ Stage(n)' \in {"leftover", "unused"}
         \/ Stage(n) = "leftover" /\ Stage(n)' = "unused"
         \/ /\ "operator" \in Disturbances
            /\ \/ Stage(n) = "working" /\ Stage(n)' \in {"leftover", "unused"}
               \/ Stage(n) = "ready" /\ Stage(n)' \in {"stranded", "registered"}
  PROVE  [Lifecycle!Next]_stages
<1>1. stages' = [stages EXCEPT ![n] = Stage(n)'] /\ stages[n] = Stage(n)
  BY DEF stages
<1>2. ASSUME NEW from, NEW to, Stage(n) \in from, Stage(n)' \in to
      PROVE  Lifecycle!Moves(n, from, to)
  BY <1>1, <1>2 DEF Lifecycle!Moves
<1>3. CASE Stage(n)' = Stage(n)
  BY <1>1, <1>3 DEF stages
<1>4. CASE Stage(n)' # Stage(n)
  <2>1. \/ Lifecycle!Register(n) \/ Lifecycle!Create(n) \/ Lifecycle!Assign(n)
        \/ Lifecycle!Finish(n) \/ Lifecycle!Unregister(n) \/ Lifecycle!DeleteInstance(n)
        \/ Lifecycle!DeleteDisk(n) \/ Lifecycle!Interfere(n)
    BY <1>2, <1>4 DEF Lifecycle!Register, Lifecycle!Create, Lifecycle!Assign,
       Lifecycle!Finish, Lifecycle!Unregister, Lifecycle!DeleteInstance,
       Lifecycle!DeleteDisk, Lifecycle!Interfere
  <2> QED
    BY <2>1 DEF Lifecycle!Next
<1> QED
  BY <1>3, <1>4

\* The scaler's calls.
LEMMA CallsFollow ==
  ASSUME IInv, NInv, NEW n \in Names, Effect(n)
  PROVE  [Lifecycle!Next]_stages
<1> USE DEF IInv, TypeOK, PlatformTypeOK, Stage, StageOf, Existing
<1>1. CASE prov[n] \in Taken /\ Registers(n)
  BY <1>1, OneMoves DEF Registers, NInv, NamesAreUnspoilt, JobsNeedRegistrations
<1>2. CASE prov[n] \in Taken /\ CreatesInstance(n)
  BY <1>2, OneMoves DEF CreatesInstance, NInv, NamesAreUnspoilt
<1>3. CASE CreatesInstanceLate(n)
  BY <1>3, OneMoves DEF CreatesInstanceLate
<1>4. CASE Unregisters(n)
  BY <1>4, OneMoves DEF Unregisters
<1>5. CASE pc = "instance" /\ n = cur /\ StopsInstance(n)
  BY <1>5, OneMoves DEF StopsInstance
<1>6. n = cur /\ pc \in {"instance", "disk"} => n \notin registered /\ job[n] # "running"
  BY DEF DeprovisioningIsUnregistered, JobsNeedRegistrations, TeardownInHand
<1>7. CASE pc = "instance" /\ n = cur /\ DeletesInstance(n)
  BY <1>6, <1>7, OneMoves DEF DeletesInstance
<1>8. CASE pc = "disk" /\ n = cur /\ DeletesDisk(n)
  BY <1>6, <1>8, OneMoves DEF DeletesDisk
<1> QED
  BY <1>1, <1>2, <1>3, <1>4, <1>5, <1>7, <1>8 DEF Effect, Taken

\* What GitHub, Oxide and operators do by themselves.
LEMMA WorldFollows ==
  ASSUME IInv, NInv, World
  PROVE  [Lifecycle!Next]_stages
<1> USE DEF IInv, TypeOK, PlatformTypeOK, Stage, StageOf, Existing
<1>1. ASSUME NEW n \in Names, JobAssigned(n) PROVE [Lifecycle!Next]_stages
  BY <1>1, OneMoves DEF JobAssigned
<1>2. ASSUME NEW n \in Names, JobEnds(n) PROVE [Lifecycle!Next]_stages
  BY <1>2, OneMoves DEF JobEnds, NInv, JobsNeedInstances
<1>3. ASSUME NEW n \in Names, RegistrationLapses(n) PROVE [Lifecycle!Next]_stages
  BY <1>3, OneMoves DEF RegistrationLapses
<1>4. ASSUME NEW n \in Names, Boots(n) \/ PowersOff(n) \/ StopCompletes(n) \/ InstanceFails(n)
      PROVE  [Lifecycle!Next]_stages
  BY <1>4, OneMoves DEF Boots, PowersOff, StopCompletes, InstanceFails
<1>5. ASSUME NEW n \in Names, DiskFaults(n) \/ DestroyedVanishes(n) \/ GrowsOlder(n)
      PROVE  [Lifecycle!Next]_stages
  BY <1>5, OneMoves DEF DiskFaults, DestroyedVanishes, GrowsOlder
<1>6. ASSUME NEW n \in Names, OperatorDeletes(n) PROVE [Lifecycle!Next]_stages
  BY <1>6, OneMoves DEF OperatorDeletes
<1>7. ASSUME NEW n \in Names, LateCreationLands(n) PROVE [Lifecycle!Next]_stages
  BY <1>7, OneMoves DEF LateCreationLands, NInv, NamesAreUnspoilt
<1>8. ASSUME NEW n \in Names, NameIsFreshAgain(n) PROVE [Lifecycle!Next]_stages
  BY <1>8, OneMoves DEF NameIsFreshAgain
<1> QED
  BY <1>1, <1>2, <1>3, <1>4, <1>5, <1>6, <1>7, <1>8 DEF World, PlatformStep

\* Every step of the reconciler and of the world is a step of the runners' lives.
LEMMA StepsFollow ==
  ASSUME IInv, NInv, [Next]_vars
  PROVE  [Lifecycle!Next]_stages
<1>1. CASE UNCHANGED <<registered, job, oxideVars>>
  BY <1>1 DEF stages, Stage, StageOf, Existing
<1> QED
  BY <1>1, CallsFollow, WorldFollows, LoopEffects, OtherStepEffects DEF Next

\* At first nothing has a name.
LEMMA InitNames == Init => NInv
BY DEF Init, PlatformInit, NInv, NamesAreUnspoilt, JobsNeedInstances, Taken

\* No name is used twice at the same time.
THEOREM NamesSafe == Spec => []NInv
<1>1. IInv /\ NInv /\ [Next]_vars => NInv'
  BY UnspoiltInductive, JobsInductive DEF NInv
<1> QED
  BY Inductive, InitNames, <1>1, PTL DEF Spec

\* Every runner lives the life of RunnerLifecycle.
THEOREM LifecycleImplemented == Spec => ImplementsLifecycle
<1>1. Init => Lifecycle!Init
  <2> SUFFICES ASSUME Init PROVE Lifecycle!Init
    OBVIOUS
  <2>1. \A n \in Names : Stage(n) = "unused"
    BY DEF Init, PlatformInit, Stage, StageOf, Existing
  <2> QED
    BY <2>1 DEF Lifecycle!Init, stages
<1>2. IInv /\ NInv /\ [Next]_vars => [Lifecycle!Next]_stages
  BY StepsFollow
<1> QED
  BY Inductive, NamesSafe, <1>1, <1>2, PTL DEF Spec, ImplementsLifecycle, Lifecycle!Spec

=============================================================================
