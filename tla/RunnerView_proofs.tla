-------------------------- MODULE RunnerView_proofs --------------------------
(***************************************************************************)
(* What the operators of RunnerView preserve, for every runner.            *)
(***************************************************************************)
EXTENDS RunnerView, TLAPS

\* An entry that state.runner(name) has just created is a runner.
LEMMA EmptyRunnerType == EmptyRunner \in Runners
BY DEF EmptyRunner, Runners, RunStates, DiskStates

\* A teardown is "none" or one of the policies, and then it is a real one.
LEMMA TeardownCases ==
  ASSUME NEW r \in Runners
  PROVE  \/ r.teardown = NoTeardown /\ ~TearingDown(r)
         \/ r.teardown \in TeardownStates /\ TearingDown(r)
BY DEF Runners, TearingDown, NoTeardown, TeardownStates, Policies

\* The two transitions of a teardown's phase yield well-formed teardowns.
LEMMA BeginTypes ==
  ASSUME NEW t \in TeardownStates
  PROVE  /\ BeginRemovingRegistration(t) \in TeardownStates
         /\ BeginDeprovisioning(t) \in TeardownStates
BY DEF TeardownStates, BeginRemovingRegistration, BeginDeprovisioning, Phases

\* A new teardown is well-formed under either policy.
LEMMA NewTeardownType ==
  ASSUME NEW policy \in Policies
  PROVE  NewTeardown(policy) \in TeardownStates
BY DEF NewTeardown, TeardownStates, Policies, Phases

\* An upgraded teardown is well-formed; the window ends with the upgrade.
LEMMA UpgradedTeardownType ==
  ASSUME NEW t \in TeardownStates, NEW policy \in Policies
  PROVE  UpgradedTeardown(t, policy) \in TeardownStates
BY DEF UpgradedTeardown, BeginRemovingRegistration, TeardownStates, Policies, Phases

\* markForTeardown changes a runner's teardown into a well-formed one.
LEMMA MarkForTeardownType ==
  ASSUME NEW r \in Runners, NEW policy \in Policies
  PROVE  MarkForTeardown(r, policy) \in Runners
<1>1. CASE TearingDown(r)
  <2>1. UpgradedTeardown(r.teardown, policy) \in TeardownStates
    BY <1>1, TeardownCases, UpgradedTeardownType
  <2> QED BY <1>1, <2>1 DEF MarkForTeardown, Runners
<1>2. CASE ~TearingDown(r)
  BY <1>2, NewTeardownType DEF MarkForTeardown, Runners
<1> QED BY <1>1, <1>2

\* Job events map runners to runners.
LEMMA JobEventTypes ==
  ASSUME NEW r \in Runners
  PROVE  JobStarted(r) \in Runners /\ JobCompleted(r) \in Runners
<1>1. JobStarted(r) \in Runners BY DEF JobStarted, Runners
<1> QED BY <1>1, MarkForTeardownType DEF JobCompleted, Policies

\* RemoveRunner's refusal keeps the teardown or drops it, and nothing else.
LEMMA FoundRunningAJobType ==
  ASSUME NEW r \in Runners
  PROVE  /\ FoundRunningAJob(r) \in Runners
         /\ FoundRunningAJob(r).teardown \in {r.teardown, NoTeardown}
<1> DEFINE u == IF r.teardown.policy = "cancelable" THEN NoTeardown ELSE r.teardown
<1>1. FoundRunningAJob(r) = [r EXCEPT !.busy = TRUE, !.teardown = u]
  BY DEF FoundRunningAJob, Runners
<1>2. u \in {r.teardown, NoTeardown}
  OBVIOUS
<1> HIDE DEF u
<1> QED BY <1>1, <1>2 DEF Runners

\* That refusal, and the job events, leave the snapshots alone.
LEMMA SnapshotsAreKept ==
  ASSUME NEW r \in Runners
  PROVE  /\ JobStarted(r).instance = r.instance /\ JobStarted(r).disk = r.disk
         /\ JobCompleted(r).instance = r.instance /\ JobCompleted(r).disk = r.disk
         /\ FoundRunningAJob(r).instance = r.instance /\ FoundRunningAJob(r).disk = r.disk
<1>1. JobStarted(r).instance = r.instance /\ JobStarted(r).disk = r.disk
  BY DEF JobStarted, Runners
<1>2. FoundRunningAJob(r).instance = r.instance /\ FoundRunningAJob(r).disk = r.disk
  BY DEF FoundRunningAJob, Runners
<1> QED
  BY <1>1, <1>2 DEF JobCompleted, MarkForTeardown, Runners

\* markForTeardown only touches the teardown.
LEMMA MarkForTeardownKeeps ==
  ASSUME NEW r \in Runners, NEW policy \in Policies
  PROVE  LET m == MarkForTeardown(r, policy)
         IN  m.instance = r.instance /\ m.disk = r.disk /\ m.busy = r.busy
BY DEF MarkForTeardown, Runners

\* markForTeardown, applied to any runner, leaves it with a teardown, and
\* never makes a registration count as gone.
LEMMA MarkForTeardownPhase ==
  ASSUME NEW r \in Runners, NEW policy \in Policies
  PROVE  LET m == MarkForTeardown(r, policy)
         IN  /\ m.teardown \in TeardownStates
             /\ m.teardown.phase = "deprovisioning" => r.teardown.phase = "deprovisioning"
<1> DEFINE u == IF TearingDown(r) THEN UpgradedTeardown(r.teardown, policy)
                                  ELSE NewTeardown(policy)
<1>1. MarkForTeardown(r, policy).teardown = u
  BY DEF MarkForTeardown, Runners
<1>2. u \in TeardownStates
  BY TeardownCases, UpgradedTeardownType, NewTeardownType
<1>3. ASSUME NEW t \in TeardownStates, UpgradedTeardown(t, policy).phase = "deprovisioning"
      PROVE  t.phase = "deprovisioning"
  BY <1>3 DEF UpgradedTeardown, BeginRemovingRegistration, TeardownStates
<1>4. u.phase = "deprovisioning" => r.teardown.phase = "deprovisioning"
  BY <1>3, TeardownCases DEF NewTeardown
<1> QED BY <1>1, <1>2, <1>4

\* Nor do the job events.
LEMMA JobEventsPhase ==
  ASSUME NEW r \in Runners
  PROVE  /\ JobStarted(r).teardown.phase = "deprovisioning"
              => r.teardown.phase = "deprovisioning"
         /\ JobCompleted(r).teardown.phase = "deprovisioning"
              => r.teardown.phase = "deprovisioning"
<1>1. JobStarted(r).teardown.phase = "deprovisioning" => r.teardown.phase = "deprovisioning"
  BY DEF JobStarted, Runners, NoTeardown
<1> QED BY <1>1, MarkForTeardownPhase DEF JobCompleted, Policies

\* s is as far in its teardown as r.
Holds(r, s) ==
  /\ r.teardown.phase = "deprovisioning" => s.teardown.phase = "deprovisioning"
  /\ r.teardown.policy = "permanent" => s.teardown.policy = "permanent"

\* No mark and no job event takes a teardown back to an earlier phase or to a
\* weaker policy, once it is permanent or deprovisioning.
LEMMA MarksHold ==
  ASSUME NEW r \in Runners, NEW policy \in Policies
  PROVE  /\ Holds(r, MarkForTeardown(r, policy))
         /\ Holds(r, JobStarted(r))
         /\ Holds(r, JobCompleted(r))
<1>1. Holds(r, JobStarted(r))
  BY DEF Holds, JobStarted, CanCancelForJob, Runners
<1>2. ASSUME NEW p \in Policies PROVE Holds(r, MarkForTeardown(r, p))
  <2>1. CASE TearingDown(r)
    <3> DEFINE t == r.teardown
               u == UpgradedTeardown(t, p)
    <3>1. t \in TeardownStates
      BY <2>1, TeardownCases
    <3>2. MarkForTeardown(r, p).teardown = u
      BY <2>1 DEF MarkForTeardown, Runners
    <3>3. /\ t.phase = "deprovisioning" => u.phase = "deprovisioning"
          /\ t.policy = "permanent" => u.policy = "permanent"
      BY <3>1 DEF UpgradedTeardown, BeginRemovingRegistration, TeardownStates
    <3> HIDE DEF u
    <3> QED BY <3>2, <3>3 DEF Holds
  <2>2. CASE ~TearingDown(r)
    BY <2>2 DEF TearingDown, NoTeardown, Holds
  <2> QED BY <2>1, <2>2
<1>3. Holds(r, JobCompleted(r))
  BY <1>2 DEF JobCompleted, Policies
<1> QED BY <1>1, <1>2, <1>3

Removing == [policy |-> "permanent", phase |-> "removing", waiting |-> FALSE]

\* Once upgraded, a teardown that a job could have called off is exactly what
\* a new permanent one would have been.
LEMMA UpgradeToPermanent ==
  ASSUME NEW t \in TeardownStates, CanCancelForJob(t)
  PROVE  UpgradedTeardown(t, "permanent") = Removing /\ t # NoTeardown
<1>1. PICK f \in Phases, w \in BOOLEAN :
        t = [policy |-> "cancelable", phase |-> f, waiting |-> w]
  BY DEF CanCancelForJob, TeardownStates
<1>2. t # NoTeardown
  BY <1>1 DEF NoTeardown
<1>3. CASE f = "window"
  <2> DEFINE upgraded == [policy |-> "permanent", phase |-> "window", waiting |-> w]
  <2>1. [t EXCEPT !.policy = "permanent"] = upgraded
    BY <1>1, <1>3
  <2>2. BeginRemovingRegistration(upgraded) = Removing
    BY DEF BeginRemovingRegistration, Removing
  <2> QED BY <1>1, <1>2, <1>3, <2>1, <2>2 DEF UpgradedTeardown
<1>4. CASE f = "removing"
  <2>1. w = FALSE
    BY <1>1, <1>4 DEF TeardownStates
  <2> QED BY <1>1, <1>2, <1>4, <2>1 DEF UpgradedTeardown, Removing
<1>5. f # "deprovisioning"
  BY <1>1 DEF CanCancelForJob
<1> QED BY <1>2, <1>3, <1>4, <1>5 DEF Phases

\* The events of one runner may be applied in any order and any number of
\* times: processJobEvents reaches the same entry whatever the order in which
\* the listener enqueued them, so the inbox can be modelled as a set.
THEOREM JobEventsCommute ==
  ASSUME NEW r \in Runners
  PROVE  /\ JobStarted(JobCompleted(r)) = JobCompleted(JobStarted(r))
         /\ JobStarted(JobStarted(r)) = JobStarted(r)
         /\ JobCompleted(JobCompleted(r)) = JobCompleted(r)
<1> DEFINE t == r.teardown
           removing == [policy |-> "permanent", phase |-> "removing", waiting |-> FALSE]
           With(u) == [r EXCEPT !.teardown = u]
           BusyWith(u) == [r EXCEPT !.busy = TRUE, !.teardown = u]
<1>1. /\ r = With(t) /\ JobStarted(r) = BusyWith(IF CanCancelForJob(t) THEN NoTeardown ELSE t)
      /\ \A u : JobStarted(With(u)) = BusyWith(IF CanCancelForJob(u) THEN NoTeardown ELSE u)
      /\ \A u : JobStarted(BusyWith(u)) = BusyWith(IF CanCancelForJob(u) THEN NoTeardown ELSE u)
  BY DEF JobStarted, Runners
<1> DEFINE Completed(u) == IF u # NoTeardown THEN UpgradedTeardown(u, "permanent") ELSE removing
<1>2. /\ \A u : JobCompleted(With(u)) = With(Completed(u))
      /\ \A u : JobCompleted(BusyWith(u)) = BusyWith(Completed(u))
  BY DEF JobCompleted, MarkForTeardown, TearingDown, NewTeardown, Runners
<1>3. t = NoTeardown \/ t \in TeardownStates
  BY DEF Runners
<1>4. ~CanCancelForJob(NoTeardown) /\ ~CanCancelForJob(removing)
  BY DEF CanCancelForJob, NoTeardown
<1>5. Completed(NoTeardown) = removing /\ Completed(removing) = removing
  BY DEF UpgradedTeardown, NoTeardown
<1>6. CASE t = NoTeardown
  <2> HIDE DEF With, BusyWith, Completed, removing, t
  <2> QED BY <1>1, <1>2, <1>4, <1>5, <1>6
<1>7. CASE t \in TeardownStates /\ CanCancelForJob(t)
  <2>1. Completed(t) = removing /\ t # NoTeardown
    BY <1>7, UpgradeToPermanent DEF Removing
  <2> HIDE DEF With, BusyWith, Completed, removing, t
  <2> QED BY <1>1, <1>2, <1>4, <1>5, <1>7, <2>1
<1>8. CASE t \in TeardownStates /\ ~CanCancelForJob(t)
  <2>1. /\ ~CanCancelForJob(Completed(t))
        /\ Completed(Completed(t)) = Completed(t)
    BY <1>8 DEF UpgradedTeardown, CanCancelForJob, BeginRemovingRegistration,
                TeardownStates, Policies, Phases, NoTeardown
  <2> HIDE DEF With, BusyWith, Completed, removing, t
  <2> QED BY <1>1, <1>2, <1>8, <2>1
<1> QED BY <1>3, <1>6, <1>7, <1>8

=============================================================================
