----------------------------- MODULE RunnerView -----------------------------
(***************************************************************************)
(* The scaler's in-memory record of one runner (internal/scaler/runner.go) *)
(* and of its teardown (internal/scaler/teardown.go), as values and the    *)
(* operators that read and change them.  The map state.runners is a total  *)
(* function over the names: EmptyRunner stands for a name with no entry,   *)
(* which is what state.runner(name) creates on demand.                     *)
(***************************************************************************)

RunStates ==
  {"absent", "starting", "running", "stopping", "stopped", "failed", "destroyed"}
  \* "absent" is a nil instance; "starting" also stands for creating, and
  \* "running" for the states (rebooting, migrating, ...) treated like it.

DiskStates == {"absent", "attached", "detached", "faulted"}
  \* "attached" also stands for the transient states that block deletion.

Policies == {"permanent", "cancelable"}
Phases == {"window", "removing", "deprovisioning"}

NoTeardown == [policy |-> "none", phase |-> "none", waiting |-> FALSE]
  \* A nil *teardownState.

\* waiting: registrationRemovalAfter lies in the future.  Only a cancelable
\* teardown has a window, and only a window has a time to wait for.
TeardownStates ==
  {t \in [policy : Policies, phase : Phases, waiting : BOOLEAN] :
    /\ t.waiting => t.phase = "window"
    /\ t.phase = "window" => t.policy = "cancelable"}

Runners ==
  [instance : RunStates, disk : DiskStates, busy : BOOLEAN,
   teardown : TeardownStates \union {NoTeardown}]

EmptyRunner ==
  [instance |-> "absent", disk |-> "absent", busy |-> FALSE, teardown |-> NoTeardown]

-----------------------------------------------------------------------------
(* Reading a runner. *)

InstanceHalted(state) == state \in {"stopped", "failed", "destroyed"}

TearingDown(r) == r.teardown # NoTeardown

Active(r) ==
  /\ r.instance # "absent"
  /\ ~InstanceHalted(r.instance)
  /\ ~TearingDown(r)

Gone(r) == r.instance = "absent" /\ r.disk = "absent" /\ ~TearingDown(r)

CanCancelForCapacity(t) ==
  t.policy = "cancelable" /\ t.phase = "window" /\ t.waiting

\* Seeded fault: a teardown is called off after its registration is gone.
Faulty_CanCancelForJob(t) == t.policy = "cancelable"

CanCancelForJob(t) == t.policy = "cancelable" /\ t.phase # "deprovisioning"

-----------------------------------------------------------------------------
(* Changing a runner. *)

BeginRemovingRegistration(t) ==
  [policy |-> t.policy, phase |-> "removing", waiting |-> FALSE]

BeginDeprovisioning(t) ==
  [policy |-> t.policy, phase |-> "deprovisioning", waiting |-> FALSE]

\* Seeded fault: a permanent teardown takes the registration for gone.
Faulty_NewTeardown(policy) ==
  IF policy = "cancelable"
  THEN [policy |-> policy, phase |-> "window", waiting |-> TRUE]
  ELSE [policy |-> policy, phase |-> "deprovisioning", waiting |-> FALSE]

NewTeardown(policy) ==
  IF policy = "cancelable"
  THEN [policy |-> policy, phase |-> "window", waiting |-> TRUE]
  ELSE [policy |-> policy, phase |-> "removing", waiting |-> FALSE]

\* An existing teardown is only ever changed by an upgrade to permanent.
UpgradedTeardown(t, policy) ==
  LET upgraded == [t EXCEPT !.policy = policy]
  IN  IF ~(t.policy = "cancelable" /\ policy = "permanent") THEN t
      ELSE IF t.phase = "window" THEN BeginRemovingRegistration(upgraded)
      ELSE upgraded

MarkForTeardown(r, policy) ==
  [r EXCEPT !.teardown = IF TearingDown(r) THEN UpgradedTeardown(@, policy)
                                           ELSE NewTeardown(policy)]

JobStarted(r) ==
  [r EXCEPT !.busy = TRUE,
            !.teardown = IF CanCancelForJob(@) THEN NoTeardown ELSE @]

JobCompleted(r) == MarkForTeardown(r, "permanent")

\* RemoveRunner answered JobStillRunningError: it calls off what it can.
FoundRunningAJob(r) ==
  [r EXCEPT !.busy = TRUE,
            !.teardown = IF @.policy = "cancelable" THEN NoTeardown ELSE @]

Pruned(r) == IF Gone(r) THEN EmptyRunner ELSE r

=============================================================================
