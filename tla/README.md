# A TLA+ model of the Oxide GitHub runner scale set controller

The controller keeps a GitHub Actions *runner scale set* supplied with
ephemeral runners, each of them one instance on Oxide.  It is a single Go
process with almost no state of its own: everything it must not forget is read
back from Oxide and GitHub.  What makes it hard is what lies between two reads.
This directory models the scaler (`internal/scaler`), the part that
decides which runners are created and which are torn down, together with the two
services it works against; the loop that decides when it does so; the process
around it (`controller.go`, `scaleset.go`, `main.go`); and what is made of its
configuration (`internal/config`).

1. [The system](#the-system)
2. [The modules and how they correspond to the code](#the-modules-and-how-they-correspond-to-the-code)
3. [Modelling decisions](#modelling-decisions)
4. [Properties](#properties)
5. [Runs](#runs)
6. [Fairness](#fairness)
7. [What is proved](#what-is-proved)
8. [Disagreements between code and documentation](#disagreements-between-code-and-documentation)
9. [What is not modelled](#what-is-not-modelled)
10. [Plan](#plan)

## The system

### Parts, state and operations

| part | source | state | operations |
|---|---|---|---|
| runner view | `runner.go`, first half of `teardown.go` | `reconcileState.runners`: per name the observed instance and disk, `busy`, and a `*teardownState` (policy, phase, end of its cancellation window) | reading: `active`, `gone`, `instanceHalted`, `canCancelFor...`; changing: `markForTeardown`, `begin...`, `cancelFor...`, `prune` |
| reconcile loop | `reconcile.go` | demand taken from the listener, time of the last audit, deadline of the next reconciliation | `Run` (wake channel, retry timer, ticker); `reconcile` = gather, plan, act |
| teardown | `teardown.go` | none beyond the view | the three markings (instances, disks, registrations) and `teardown`, which drives one runner: registration, instance, disk |
| capacity | `capacity.go` | none | `scaleUp`, `scaleDown`, `cancelPendingScaleDowns` |
| provisioning | `provision.go` | the goroutines of one batch and a semaphore of five | register with GitHub, create the instance, wait for all |
| listener callbacks | `handler.go` | desired count, inbox of job events, wake channel, all shared with the loop under a mutex | `HandleDesiredRunnerCount`, `HandleJobStarted`, `HandleJobCompleted` |
| scaler construction, names | `scaler.go`, `config.go` (in `internal/scaler`) | the two limits, the name prefix | `New`, `newRunnerName`, validation |
| controller | `controller.go`, `scaleset.go` | scale set, message session, two goroutines | adopt or create the scale set, run listener and scaler as peers, stop them in order, delete a drained scale set |
| configuration, entry point | `internal/config`, `main.go`, `version.go` | the loaded configuration | fill in from the environment, validate, normalize; signals, exit code |
| runner image | `packer/` | none | the guest powers itself off when the runner process exits |
| GitHub, Oxide | external | registrations, jobs, events; instances, disks | seen through `ScaleSetClient` and `OxideClient` (`scaler.go`) |

### Interactions

The listener (a library goroutine) calls the three handlers, which write the
desired count or append to the inbox under a mutex and signal a channel of
capacity one.  The reconcile loop takes both under the same mutex at the start
of a reconciliation and works from there on its own: it lists the instances and
the disks, joins the lists by name, marks runners for teardown, and then makes
GitHub and Oxide calls one by one, in `provisionRunners` several at once.
GitHub and Oxide change on their own between any two of these calls, and the
handlers run between them as well.  Around both stands `controller.Run`: it
adopts the scale set, opens the message session without which there is no
listener, starts listener and scaler as peers with a context each, waits for a
signal or for one of them to end, stops the other, closes the session, and
deletes the scale set if the scaler said it had drained.  The only thing that ties an entry of the
view, a registration, an instance and a disk together is their common name.

### What is hard

- **Stale state.**  A reconciliation lists everything once and then acts on
  that snapshot for minutes: the instance may have stopped, failed or been
  deleted since, a job may have been assigned after the runner was judged idle.
- **Order.**  A teardown must remove the registration first (or GitHub could
  still assign a job to a runner whose instance is being stopped), then the
  instance, then the disk, over several reconciliations and through failures
  of each call whose effect is not known.
- **Irrevocability.**  A scale-down can be called off for new demand until its
  window closes and for a job until its registration is gone, and not after.
- **Forgetting.**  `busy`, the teardowns and the job events are in memory only.
  A restart between any two calls drops them; what is left must be recognised.
- **Counting.**  `MaxRunners` covers halted instances and those being torn
  down; demand is only compared with live ones.
- **Lateness.**  Events may be lost, late or out of order; a creation that
  timed out may still happen.
- **Handing over.**  Processes come one after the other, and may overlap or
  die with a session open; what one leaves behind the next has to find, under a
  prefix made from a URL that somebody may spell differently.
- **Waking up.**  A full wake channel swallows tokens, a wake-up replaces the
  deadline of the last reconciliation, a failed observation cuts one short, and
  `select` may prefer any ready case to a canceled context.
- **Progress.**  Every path through `reconcile` has to leave a deadline, or a
  half-done teardown waits for the ticker; an audit that skips a runner must
  come back to it.

`PROJECT.json` lists each of these hazards at its line with the properties that
are aimed at it.

### What makes each part correct

- *Runner view*: a teardown only moves forward; which ones may be called off is
  decided by policy, phase and window; job events of one runner commute.
- *Teardown*: registration, then instance, then disk; no running job is ever hit;
  no deletion is requested that the control plane must refuse; dead runners go
  away in the end.
- *Capacity*: at most `MaxRunners` instances; scale-downs are reclaimed before
  anything new is created; busy and very young runners are not scaled down.
- *Provisioning*: an attempt that failed at any point leaves a teardown behind.
- *Reconcile loop*: pending work always has a deadline; demand gets served; a
  scale set with `MaxRunners` 0 drains, and "drained" means empty.
- *Handlers and loop*: a wake-up is never lost; of several deadlines the
  earliest is kept; pending work is revisited within a retry delay; canceling
  the context ends the loop.
- *Controller*: one scaler per scale set even if processes overlap; the
  listener ends before the scaler is stopped; a scale set is deleted only after
  its scaler has found nothing left of it, and after its session has been closed;
  success means what it says; signals are obeyed; draining succeeds in the end,
  whatever crashes left behind.
- *Configuration*: the environment fills gaps and nothing else; what is accepted
  is carried out to the letter; a scope has one namespace however it is spelled;
  labels follow the configuration and are not updated needlessly.

## The modules and how they correspond to the code

```
RunnerView ──► Platform ──► Reconciler ──► MCReconciler
     │                        │   │             │
     │                        │   └─► LifecycleRefinement ──► MCLifecycle
     │                        │          │      ┆ (INSTANCE)
     │                        │          │   RunnerLifecycle
     └─► RunnerView_proofs ──► Reconciler_proofs ──► LifecycleRefinement_proofs
                                                               │
                               Decisions_proofs ◄── Observation_proofs

WakeLoop ──► WakeLoop_proofs
Controller ──► MCController, Controller_proofs
Configuration ──► MCConfiguration, Configuration_proofs
```

`Reconciler` is what one reconciliation does, `WakeLoop` when the next one
comes, `Controller` what surrounds the loop.  Each abstracts the others to
what it needs of them: `Reconciler` reconciles again at any time (`WF(Loop)`,
which `KeepsReconciling` of `WakeLoop` justifies), `WakeLoop` knows of a
reconciliation only the work it leaves and the deadlines it asks for, and
`Controller` knows of the scaler only that it holds resources, that it drains
(which `DrainCompletes` of `Reconciler` justifies) when no resource is listed,
and that a creation it gave up on may land after that, or after its process.

**`RunnerView`** – pure operators: the values of a `runner` and its
`teardownState`, and every function of `runner.go` and `teardown.go` that reads
or changes one.  `NewTeardown`, `UpgradedTeardown` and `MarkForTeardown` are
`markForTeardown`; `JobStarted` and `JobCompleted` are the two cases of
`processJobEvents`.

**`Platform`** – what is outside the process, modelled from how the code uses
it.  GitHub: `registered`, `job` (each ephemeral runner gets at most one) and
`told` (the last event delivered about it).  Oxide: `runState`, `disk`, `age`
and `late` (creations that were accepted and are not visible yet).  Its actions
are steps the services take by themselves; its last section holds the effects
of the API calls, which the actions of `Reconciler` use.

**`Reconciler`** – the scaler.  One API call is one action, so anything may
happen between two calls:

| code | actions and operators |
|---|---|
| `processJobEvents` | `StartReconcile` |
| `observeRunners` | `ListInstances`, `ListDisks`, `ObserveFails` |
| `markInstancesForTeardown`, `markDisksForTeardown` | `MarkedForInstance`, `MarkedForDisk`, applied in `ListDisks` |
| `markRegistrationsForTeardown` | `AuditCandidates`, `AuditRunner`, `AuditRunnerFails`, `AuditDone` |
| target, `cancelPendingScaleDowns` | `Target`, `Reclaimable`, `Reclaim` |
| the loop over `teardown` | `BeginTeardown`, `LookupRegistration`, `RemoveRegistration`, `JobStillRunning`, `DeleteInstance`, `InstanceGone`, `AwaitStop`, `StopInstance`, `DeleteDisk`, `AwaitDetach`, `NoDiskLeft`, `TeardownCallFails` |
| `prune`, end of `reconcile` | `PrunedView`, `HoldScale`, `EndReconcile`, `ReturnToRun` |
| `scaleDown` | `ScaleDownCandidates`, `OldestFirst`, `ScaleDown` |
| `scaleUp` | `Requested`, `StartScaleUp`, `FetchImage`, `FetchImageFails` |
| `provisionRunners`, `provisionRunner` | `RegisterRunner(Fails)`, `CreateInstance(Fails)`, `Provisioned`, `JoinProvision` |
| handlers | `HandleDesiredRunnerCount`, `HandleJobStarted`, `HandleJobCompleted` |
| time | `WindowCloses` (`registrationRemovalAfter`), `AuditComesDue` (`githubAuditInterval`), `GrowsOlder` (`resourceGracePeriod`, `provisioningTimeout`) |
| process | `Crash`, `Restart` |

`pc` says which call comes next; `runners` is `reconcileState.runners`; `demand`
and `auditDue` are the other two fields of `reconcileState`; `desired` and
`inbox` are what the handlers share with the loop; `target`, `todo`, `cur` and
`instanceDeleted` are local variables of `reconcile` and `teardown`; `prov[n]`
is the goroutine that provisions `n`; `requeue` is whether
`reconcileResult.nextReconcile` is set.

Operators named `Faulty_...` are not part of the model: each is the definition
that follows it with a plausible bug, and shows that some property would notice
that bug.

**`RunnerLifecycle`** – the abstract specification: under each name a runner
goes through seven stages, made of what GitHub and Oxide know of it.  It says
what the doc of `teardown` and of the package promise, and nothing of views,
snapshots, phases, retries or processes.  **`LifecycleRefinement`** gives the
mapping (`Stage`: registration, instance, disk and job of a name) and states
`ImplementsLifecycle`.

**`WakeLoop`** – `Scaler.Run` and the handlers' `wake`, with time in ticks:

| code | actions and operators |
|---|---|
| `enqueueJobEvent`, `HandleDesiredRunnerCount`, `wake` | `Record`, `Wake` (two steps: the mutex is released in between) |
| `Run` | `Enter`, `SelectDone`, `SelectWake`, `SelectDeadline`, `SelectTicker`, `Recheck` |
| `runReconcile`, `reconcile` | `StartReconcile`, `ObserveFails`, `Plan`, `Drive`, `EndReconcile`, `ScaleUp`, `ScaleDown`, `Drained` |
| `requestReconcile`, `nextReconcileAfter` | `Earlier`, `RequestReconcile`, `Sooner` |
| time, the context | `TimePasses`, `Cancel` |

`unread` is what lies in `desiredRunnerCount` and `jobEvents`, `asked[w]` remembers
the deadline requested for a runner, `budget` is what is left of `reconcileTimeout`.

**`Controller`** – one or more processes of one configured scale set:

| code | actions and operators |
|---|---|
| `run`, `ensureScaleSet` | `Start`, `Adopt`, `NotFound`, `UpdateLabels`, `CreateScaleSet`, `EnsureFails`, `EnsureRefused` |
| `Run` up to the peers | `OpenSession`, `SessionRefused`, `SessionFails`, `NewListenerFails`, `StartPeers` |
| the goroutines | `MessageArrives`, `MessageHandled`, `ListenerCanceled`, `ListenerFails`; `ScalerProvisions`, `CreationGivenUp`, `ScalerRemoves`, `ScalerDrained`, `ScalerCanceled` |
| `runListenerAndScaler` | the three cases of its `select` and the waits after them |
| the deferred cleanup | closing the session, deleting the scale set, each with failure |
| outside | `Signal`, `Crash`, `SessionExpires`, `CreationLands` |

`pc[p]` is where `Run` stands, `listenerCtx` and `scalerCtx` are the two cancel
functions, `err` is whether the error it is going to return is set.

**`Configuration`** – `Load` with the environment, `Validate` and
`canonicalGitHubScope`, then what the values become: labels on GitHub
(`EnsureScaleSet`), limits of the scaler (`NewScaler`), sizes of an instance
(`CreateInstance`), over several starts.

**`MC...`** – configurations, symmetry and reductions for TLC.
**`..._proofs`** – lemmas, theorems and proofs.  Those about `Reconciler` are four
layers: its types and the order of a teardown (`Reconciler_proofs`), the life of a
name (`LifecycleRefinement_proofs`), what a snapshot still says of the platform
(`Observation_proofs`), and whom the scaler decides to tear down or to add
(`Decisions_proofs`).

## Modelling decisions

*The view.*  The Go map has entries on demand; here every name has one, and
`EmptyRunner` stands for "no entry".  The two agree because every reader skips an
entry without instance, disk and teardown, and `prune` deletes it.  Where the
code keeps an instance and a disk in the view between two reconciliations,
`ReturnToRun` drops them: the next observation overwrites both before anything
in the code reads them, and if it fails the reconciliation ends there.  No
property reads them in between either: `TeardownNeverRegresses` lets a teardown
end in its own last step only (`TeardownEnds`), where the snapshot is there, and
not where a job event is applied, where the view looks empty.

*Observation.*  The code lists the instances, then the disks, then joins.
Nothing reads the view in between, so `ListInstances` enters its result at once.

*Teardown.*  The states `creating` and `starting` are one, as are all states
that the code treats like `running`; the disk states that block deletion are
`attached`.  `teardown` returns a deadline; here it is one Boolean, and which of
several deadlines wins is a matter of `WakeLoop`.

*Time.*  One `age` per name stands for the creation times of instance and disk:
younger than `resourceGracePeriod` (5 minutes), than `provisioningTimeout` (10
minutes), or older.  A name only ages while something is called by it.  The code
counts `provisioningTimeout` from the last change of the run state, if it is
known; an instance that was created long ago and changed state since is one that
has not aged beyond `aged` yet.  The
cancellation window of a scale-down is a Boolean that turns false at any moment.
`githubAuditInterval` passes while the loop rests, since only one place reads it.

*Audit.*  Its candidates are computed when its loop starts, because no step of
the loop makes another runner a candidate or takes one away.  A registration
that is found under a name but belongs to another scale set ends the lookup with
an error, exactly as a call that fails.

*Job events.*  The inbox is a list in the code and a set here, applied "started
before completed".  That is sound because the events of one runner commute and
are idempotent, which `JobEventsCommute` proves for every entry.  GitHub
delivers an event at most once and at any later time; a process that crashes with events
in its inbox loses them.  Events with an empty name are ignored by the code and
would be stuttering steps.

*Failing calls* (disturbance `api`).  Every call may fail, with or without
having taken effect; a `reconcileTimeout` or a cancelled context looks like a
series of such failures.  With `late`, a failed creation may take effect at any
later time.  `faults` lets instances fail and disks fault, `operator` lets
somebody delete halted instances behind the scaler's back, `crash` ends the
process between any two steps and starts another, perhaps with other limits.

*Names.*  `newRunnerName` is random, so a name is never used twice.  To keep
`Names` finite, `NameIsFreshAgain` forgets what happened under a name that
nothing refers to any more.  How many names there are bounds how many runners
exist at once; `FetchImage` starts as many goroutines as names are left.

*Guest.*  The image powers the guest off when the runner process exits, which
may be before any job or after its only one, and not during a job.  A job on an
instance that fails ends because GitHub gives it up; so it may end at any time.

*The abstract life of a runner.*  A creation may land after its registration was
removed (`Create` from `unused`), a faulted disk may be deleted before the
instance is (`DeleteInstance` to `unused`), and a job on a failed instance ends
in whatever stage the instance has reached.  These are the only departures from
the straight line, and each is there because TLC found the behaviour in
`Reconciler`.  What is not there: a registration that comes back to an instance
or a disk, an instance that is taken from under a job, a second instance under
a name.

*Time in `WakeLoop`.*  A time is the number of ticks left until it, and all of
them count down together; the delays keep their order (poll ≤ cancellation
window ≤ retry < ticker), not their ratios.  Time stops for steps that the
code takes at once and passes while it waits or while a reconciliation runs, at
most until `reconcileTimeout`.  Which runners are torn down, and whether a call
fails, is free.

*Processes.*  `Controller` has one scale set name; ids are given out by GitHub
and never reused, for which an id that nothing refers to stands.  Resources are
one Boolean per id.  A creation whose call failed, or was cut off by a stop or a
crash, may land at any later time or never (`late`): while its scale set exists or
after it was deleted, whoever runs by then.  GitHub refuses a session while another one is open, and
drops the session of a process that died; it does not drop the session of one
that is alive, since its listener polls.  Closing and deleting use a context
without cancellation, so that a signal does not make them fail.  The lookup of a
runner group is one more call before the first and fails as that one does.

*Texts* in `Configuration` are words (members of `Words`) with two accidents of
spelling, capitals and padding; a URL is a record of scheme, host, port and path.  The widths
(2^64, `MaxInt32`, `MaxUint16`, 1 GiB) are constants with their order kept and
scaled down for TLC; `uint` has the width of `uint64`, as on the two
architectures that are released.  VPC, subnet, image and runner group are trimmed and required exactly as the
project is, and left out.

## Properties

Every property has a comment in its module that says what it is about.

- `TypeOK`, the type invariant, also says that only cancelable teardowns have a
  window and that a phase comes with a policy.
- `DeprovisioningIsUnregistered`: the phase `deprovisioning` means "the
  registration is known to be gone", also across lost answers.
- `NeverStopsARunningJob`: no step stops the instance under a running job.
- `RegistrationGoesFirst`, `DiskGoesLast`: the order of a teardown, as seen by
  the platform.
- `DeletesAreAccepted`: what is deleted on the word of an old snapshot
  can be deleted by then.
- `TeardownNeverRegresses`: what may be called off, and until when: once it is
  permanent or in deprovisioning, a teardown outlasts late job events, new demand
  and failing calls until it is done.
- `BusyRunnersAreSpared`, `YoungInstancesAreSpared`: whom a scale-down and the
  markings leave alone.
- `ReclaimBeforeProvision`, `CreateWithinMax`: capacity.
- `NoOrphanRegistration`: failed provisioning leaves a teardown.
- `PendingWorkIsScheduled`: the loop never rests on a teardown without a deadline.
- `DrainedMeansEmpty`, `DrainCompletes`: draining.
- `DeadRunnersAreReaped`, `DemandIsServed`: progress.
- `ImplementsLifecycle`: the reconciler, through whatever happens to it, is an
  implementation of `RunnerLifecycle`.
- `NoLostWakeup`, `EarliestDeadlineKept`, `PendingWorkIsSoonRevisited`,
  `KeepsReconciling`, `CancelStops`: the loop.
- `OneScalerPerScaleSet`, `MessagesMeetALiveScaler`, `SessionClosesFirst`,
  `SuccessMeansDone`, `SignalsAreObeyed`, `DrainSucceeds`: the process.
- `NoOrphanedResources`: no process leaves resources to a scale set that is gone,
  whatever fails or dies.  What landed late is exempt, because there the code
  does leave something (see `late_drain` [below](#disagreements-between-code-and-documentation)).
- `EnvironmentOnlyFillsGaps`, `AcceptedIsCarriedOut`, `OneNamespacePerScope`,
  `LabelsFollowConfiguration`: the configuration.

## Runs

| run | names | limits | disturbances | checks |
|---|---|---|---|---|
| `teardown` | 1 | max 0 or 1 | api, crash, faults, operator | the safety properties of a teardown; the reconciler implements `RunnerLifecycle` |
| `capacity` | 2 | max 1 or 2, demand ≤ 2 | none | counting, reclaiming, sparing |
| `provisioning` | 2 | min = max = 2 | api, late | two goroutines of which any may fail: no orphan, and creations that land late |
| `drain` | 1 | max 0 or 1 | api, crash | draining and reaping, under fairness |
| `recovery` | 1 | max 1 | api, faults | reaping and serving demand, under fairness |
| `hard_limit` | 2 | max 1 | api, late | *violated*, see below |
| `forgotten_job` | 1 | max 1 | crash | *violated*, see below |
| `late_drain` | 1 | max 0 or 1 | api, late, crash | *violated*, see below |

| run | instance | checks |
|---|---|---|
| `wake_loop` | 2 runners, 2 callers, retry 3, ticker 4, timeout 3 ticks | safety and, under fairness, progress of the loop |
| `lifecycle` | 1 process started again and again, 3 ids, two sets of labels; api, crash, signal, creations of two scale sets that land late | safety and progress of a process and its successors |
| `overlap` | 2 processes at a time, 3 ids; api, crash, signal | one scaler; messages meet a live scaler |
| `configuration` | 2 starts; GitHub and Oxide secrets missing, blank or given in both places; numbers on both sides of every limit; 60 URLs, spellings of 8 scopes among them; 8 label lists | the environment only fills gaps; accepted means carried out; one namespace per scope; labels |

**Bounds.**  `teardown` treats runners one by one and shares nothing between
them but the deadline, so one name shows every interleaving of one runner's
teardown with the platform, the handlers and a crash; one restart is enough
because a process starts from an empty view whatever the one before it knew, and
the platform may already be in any state it can reach with a process running.
With `Draining` the restart may turn a scale set that grows into one that
drains.  `capacity` needs two runners for the counts to differ from one
another, a limit below and one at the number of names, and demand that can both
exceed and undercut the live runners.  `provisioning` keeps `MinRunners` at two, so
that each reconciliation that finds fewer starts two goroutines, and gives both
a slot (`ProvisionConcurrency` 2), so that their calls interleave; in `capacity`
there is one slot for two goroutines, and one of them waits for the semaphore.
`MaxDemand`, `MaxRestarts` and the size of `Names` are the only bounds of
`Reconciler`.  One name is also enough for the refinement, whose mapping is per name; its
theorem holds for every number of names, and with `late`, which this run leaves
out because of `DiskGoesLast`.  `wake_loop` has two pieces of work because a
minimum of deadlines needs two, with delays chosen so that poll, retry and ticker
can each come first, and two callers whose tokens compete for one place.
`lifecycle` lets two scale sets lose resources to late creations
(`LateIds`), one after the other, and has a third id because what they lost keeps
their ids in use for ever; there is no bound on starts.  `overlap` has three ids
because two processes may hold on to one each, and no late creations: neither of its
properties is about resources.  `Configuration` is bounded by
the sequence `Starts` of its inputs: two starts compare every spelling with every
other.  With 64 for 2^64 and 4 for a GiB all conversions can wrap around.

**Reductions.**  `NamesSymmetry` is used in runs of safety properties only.
`ListenAtRest` (an action constraint in `capacity` and `provisioning`) lets the
handlers run only while the loop rests: of all actions only `StartReconcile`
reads `desired` or `inbox`, so a call that arrives earlier is indistinguishable
from one that arrives when the loop comes to rest.  `BusyRunnersAreSpared`
reads the inbox too, but only to exempt runners whose event is still in it; the run `forgotten_job` and
the run `teardown` have no such constraint.

**Deadlock.**  Checked except in `teardown`, `drain` and `late_drain`, where a
process that drained its scale set returns and nothing else need ever happen; in
`wake_loop`, where a loop whose context was canceled has ended; and in
`configuration`, which ends when the last process has stopped.

**What is left out of a run on purpose.**  `DiskGoesLast` is checked without
`late`: a faulted disk may be deleted although attached, and if its creation
landed after the snapshot that showed no instance, the disk goes first.  The
teardown is driven again and takes the instance too, so only the order is lost.
`YoungInstancesAreSpared` is checked while no call fails, because a creation
that seems to have failed is torn down at once, however young.

## Fairness

`FairSpec` assumes, and the code or its environment justifies:

- `WF(Loop)`: the loop runs again at the latest when the five-minute ticker
  fires, and a reconciliation goes on (its calls return by `reconcileTimeout`).
- `SF(AuditComesDue)`: ten minutes pass although the loop is at rest only for
  moments at a time.
- `WF` on the first report of demand: the listener passes the statistics of a
  new session to the handler before anything else.
- `WF` on job events: GitHub delivers what it has to say while the process is
  up (a crash may still lose it).
- `WF` on the platform: stopping instances stop, destroyed ones leave the list,
  jobs end, time passes, old offline registrations lapse.
- `WF(Restart)`: the supervisor restarts the process.
- `WF` on `NameIsFreshAgain`: new names keep being available.

`WakeLoop` assumes `WF(Run)`, `WF(Wake)` of a caller that has recorded, and
`WF(TimePasses)`.  It assumes no fairness between the cases of `select`: that
`CancelStops` holds nevertheless is due to `Recheck`.  `Controller` assumes that
the supervisor starts the process again and each goroutine goes on, that messages
get handled, canceled contexts noticed, sessions that nobody polls expired, and,
in a process that is to drain, that its scaler gets there.  Its liveness
properties hold whatever calls fail (`SignalsAreObeyed`), or once no call fails and nobody
interrupts the draining process any more (`DrainSucceeds`).

In `Reconciler` nothing makes an instance boot, a job arrive or the demand change.  Two premises
stand in the properties themselves: `OutagesEnd` (from some point on no call
fails) and, for `DeadRunnersAreReaped`, `DemandSettles`.  The second is needed:
`markRegistrationsForTeardown` skips runners that are being torn down, so when
demand keeps rising and falling, every audit may meet a runner that lost its
registration in a scale-down that is called off after the audit.

## What is proved

Each theorem holds for every value of the constants that their assumptions allow:
all sets of names, callers and processes, all bounds and delays, every
combination of disturbances.

| module | theorem | what |
|---|---|---|
| `Reconciler_proofs` | `TypeCorrect` | `Spec => []TypeOK` |
| | `DeprovisioningSafe` | `Spec => []DeprovisioningIsUnregistered` |
| | `JobsAreSafe` | `Spec => NeverStopsARunningJob` |
| | `RegistrationIsFirst` | `Spec => RegistrationGoesFirst` |
| | `NoRegress` | `Spec => TeardownNeverRegresses` |
| | `NothingIsForgotten` | `Spec => []PendingWorkIsScheduled` |
| `LifecycleRefinement_proofs` | `NamesSafe` | `Spec => []NInv`, the invariant of names |
| | `LifecycleImplemented` | `Spec => ImplementsLifecycle` |
| `Observation_proofs` | `SnapshotsSafe` | `Spec => []SnapshotsHold` |
| | `DeletionsAreTimely` | `Spec => []DeletesAreAccepted` |
| | `AbsencesSafe` | without `late`: `Spec => []AbsencesHold` |
| | `DrainedIsEmpty` | without `late`: `Spec => []DrainedMeansEmpty` |
| | `DiskIsLast` | without `late`: `Spec => DiskGoesLast` |
| `Decisions_proofs` | `RegistrationsAreOwned` | without `operator`: `Spec => [](restarts = 0 => NoOrphanRegistration)` |
| | `BusyAreSpared` | `Spec => [](restarts = 0 => BusyRunnersAreSpared)` |
| | `YoungAreSpared` | without `api`: `Spec => []YoungInstancesAreSpared` |
| | `ReclaimIsFirst` | `Spec => []ReclaimBeforeProvision` |
| | `CreatesWithinLimit` | without `late`: `Spec => CreateWithinMax` |
| `RunnerView_proofs` | `JobEventsCommute` | the order and repetition of job events make no difference |
| `WakeLoop_proofs` | `TypeCorrect` | `Spec => []TypeOK` |
| | `NewsIsAnnounced` | `Spec => []NoLostWakeup` |
| | `EarliestIsKept` | `Spec => []EarliestDeadlineKept` |
| | `WorkIsRevisited` | `Spec => []PendingWorkIsSoonRevisited` |
| `Controller_proofs` | `TypeCorrect` | `Spec => []TypeOK` |
| | `OneScaler` | `Spec => []OneScalerPerScaleSet` |
| | `LiveScaler` | `Spec => []MessagesMeetALiveScaler` |
| | `NothingIsOrphaned` | `~Overlap /\ Spec => []NoOrphanedResources` |
| | `SessionIsFirst` | `~Overlap /\ Spec => SessionClosesFirst` |
| | `NilMeansDone` | `~Overlap /\ Spec => []SuccessMeansDone` |
| `Configuration_proofs` | `TypeSafe` | `Spec => []TypeOK` |
| | `AcceptedIsKept` | `Spec => []AcceptedIsCarriedOut` |
| | `FilesComeFirst` | `Spec => []EnvironmentOnlyFillsGaps` |
| | `NamespacesAreKept` | `Spec => []OneNamespacePerScope` |
| | `LabelsAreSet` | `Spec => LabelsFollowConfiguration` |

**Assumptions.**  In `Reconciler`, `ConstantsAssumption` (each configuration has natural limits
with `min <= max`, as `Config` validates; the bounds are naturals; at least one
provisioning slot), `NamesAssumption` (at any time only finitely many names are
used, without which instances cannot be counted) and `DisturbancesAssumption`
(only the named disturbances).  In `WakeLoop`, `DelaysAssumption`: delays are
naturals, and neither the poll delay nor the cancellation window is longer than
the retry delay (5 and 5 against 15 seconds in the code).  In
`Controller`, `ConstantsAssumption` and `ProcessesAssumption`, which only keep
names of different things apart and say which values are allowed.  In `Configuration`, `SizesAssumption` (an `int32`
fits into an `int`, a `uint16` and a GiB into a `uint64`, and no image fills the
last GiB that can be named), `WordsAssumption` (the texts that the code puts in by
itself are texts), `StartsAssumption` (files and environments have the types
that the decoder and `url.Parse` return, and `None` is none of them) and
`ExistingAssumption` (GitHub keeps no label of a scale set twice).  TLC
evaluates all of them in the runs.

**Hypotheses.**  Some theorems are about part of the disturbances only, and each
of these limits is one of the code, not of the proof:

- *without `late`*: a creation that lands after its request was answered with an
  error is in no snapshot.  The runs `late_drain` and `hard_limit` show what
  that does to `DrainedMeansEmpty` and to the number of instances, and
  [the runs](#runs) what it does to `DiskGoesLast`.  `NothingIsOrphaned` has no
  such hypothesis; there the exception is in the property, and covers only what
  has itself landed late;
- *`restarts = 0`*: a new process knows neither jobs nor teardowns of the former
  one (`forgotten_job`), and a registration left by a crash is left to GitHub.
  The invariants hold until the first crash;
- *without `operator`* (`NoOrphanRegistration`): if somebody deletes a halted
  instance before the scaler does, its registration is found with the disk once
  that is past its grace period, or by the next audit;
- *without `api`* (`YoungInstancesAreSpared`): what seems to have failed is torn
  down at once;
- *`~Overlap`*: two processes may create and delete the same scale set, and one
  may open a session between the other's closing and its deletion.

**Order of a teardown** (`Reconciler_proofs`).  All but the last of its theorems rest on one inductive invariant, `IInv`:

- `TypeOK`;
- `DeprovisioningIsUnregistered`, the fact wanted;
- `JobsNeedRegistrations`: a running job has a registration.  It turns "not
  registered" into "no job runs", which is why stopping is safe;
- `ProvisioningIsFresh`: a goroutine only ever registers a name whose entry is
  empty.  Without it, registering could break
  `DeprovisioningIsUnregistered`;
- `TeardownInHand`: the place where `teardown` stands agrees with the recorded
  phase of the runner it drives.  Without it the calls that stop and delete
  would not be known to happen in `deprovisioning` only, and the runners still
  in `todo` would not be known to have a teardown.

`Inductive` joins one lemma for each group of actions (`GatherInv`, `AuditInv`,
`TeardownInv`, `ScaleInv`, `ProvisionInv`, `ListenInv`, `ClockInv`,
`ProcessInv`, `WorldInv`), each with a step per action.  The action properties follow from
`IInv` in the state before a step: `TeardownEffects`, `ProvisionEffects`,
`OtherEffects` and `WorldEffects` say what each group may do to an instance and
a disk; `ReturnedViewLasts`, `PlanLasts`, `TeardownLasts`, `ScaleLasts` and
`RestLasts` what it may do to a teardown: it lasts, or this is its last step.  `NothingIsForgotten` uses
`EndSchedules`: each return from a reconciliation leaves a deadline or no
teardown.

**Refinement** (`LifecycleRefinement_proofs`).  `LifecycleImplemented` uses `IInv` and a
second invariant, `NInv`.
`NamesAreUnspoilt`: a name that a goroutine has taken, or whose creation is still
on its way, has neither instance nor disk, and never both kinds of creation at
once; so a creation always starts from `registered` or `unused`.
`JobsNeedInstances`: only an operator can take the instance from under a job.
Every action is then an `Effect` of at most one call on one name (`LoopEffects`,
`OtherStepEffects`) or a step of the world, `CallsFollow` and `WorldFollows` map
each to its arrow of `RunnerLifecycle`, and `OneMoves` says that all other names
stutter.

**Snapshots** (`Observation_proofs`).  What makes stale reads harmless is that some
facts last.  `NothingAppears`: under a name that no goroutine is creating and for
which no creation is under way, an instance that has halted stays halted, a
detached disk stays detached, and what is gone stays gone.  `SnapshotsHold` is
those facts, for whatever the view claims, and it is inductive together with
`IInv` and `NInv`: an entry that the view reads as halted belongs to no goroutine.
`AbsencesHold` adds the converse, that what the lists did not show does not
exist.  That is true only without late creations, and not of names for which a
goroutine of this reconciliation has an outcome (`Settles`).

**Decisions** (`Decisions_proofs`).  Every step makes one of nine kinds of decision
about a runner (`Decides`: nothing, marked, audited, called off, found busy, driven
on, finished, scaled down, given up); `GatherDecides` to `RestDecides` show it
group by group, and the three invariants after them each look at the kinds
instead of the actions:

- `OrphansAreMarked`: a registration without an instance has a permanent teardown
  or a goroutine that is responsible for it;
- `BusyIsKnown`, with `WorkNeedsDisk`: the entry of a runner at work is busy, and
  no observation drops it, because its disk is always listed;
- `YoungAreSettling`: what is torn down while young has finished its job, and no
  audit has it on its list.

For capacity, `PlanHolds` says that after `Reclaim` the target is met or nothing
can be called off any more, and driving teardowns does not change this: no runner
becomes reclaimable by it, and none that counts as active is lost (`PlanShrinks`).
`PlanFits` bounds by `MaxRunners` the set of names that were counted or given to a
goroutine (`RequestFits`, with the library's theorems about cardinalities); by
`AbsencesHold` there are no instances but under these names.

**`WakeLoop`.**  `NoLostWakeup` and `EarliestDeadlineKept` are inductive
together with the types.  `PendingWorkIsSoonRevisited` is not: it needs to know
of the middle of a reconciliation that every runner already visited has left a
deadline, and that no window is longer than `CancellationDelay`, which
`WorkIsScheduled` adds.

**`Controller`.**  `PeersHoldTheSession`: peers run only inside `Run`'s middle
part, and there the process owns the session of its scale set; since a session
has one owner, `OneScaler` follows.  `ListenerEndsFirst`: the scaler's context is
canceled only after the listener's goroutine returned, hence `LiveScaler`.  For
`NothingIsOrphaned`, `OneActs` follows a process from adoption to deletion: one
process is up, what it adopted is the current scale set, and what it deletes it
has drained, so that only what landed since can be there.  `HoldersAreUp`, the
converse of `PeersHoldTheSession`, says that whoever holds a session has not come
past closing it; with `OneActs` that gives `SessionIsFirst`.

`NilMeansDone` follows the error that `Run` returns: on every path on which it is
not set (`NilIsEarned`) the process has been signaled, or its scaler reported
that it drained and the deferred cleanup has not failed since.

**`Configuration`.**  `StartHolds` says what the memory of a process contains at
each step: the normalized form of a filled-in file that is valid.  From there
the numbers follow by arithmetic: `BytesFit` (nothing up to `MaxByteCountGiB`
wraps around) and `ImageFits` (rounding up), both from `Division`; `AcceptedTwice`
says that `scaler.New` accepts whatever `Load` accepted, because `TrimSpace` is
idempotent.  `OnlyGapsAreFilled`: on a complete file `applyEnvFallbacks` is
the identity, whatever the environment.  `CanonicalMeansSame` is the heart of
`NamespacesAreKept`: on valid URLs, equality of canonical forms *is* equality of
scopes, in both directions.  `LabelsAreSet` needs that no list of labels names one
twice (`LabelsAreDistinct`, `LabelsHold`); only then does comparing sorted lists
decide about sets (`BagsOfDistinct`).

**Timeouts.**  A leaf that cites `SMTT` or `ZenonT` is one that takes a prover more
than two seconds.

**Only model-checked.**  The liveness properties (`DrainCompletes`,
`DeadRunnersAreReaped`, `DemandIsServed`, `KeepsReconciling`, `CancelStops`,
`SignalsAreObeyed`, `DrainSucceeds`), which need fairness and `ENABLED` and are
beyond this prover.  Every invariant and every action property of a passing run
has a theorem.  That the runs check them too is not idle: TLC also finds that
each can be violated by a plausible mistake.

## Disagreements between code and documentation

- **`hard_limit`.**  `Config.MaxRunners` is documented as "a hard limit to
  manage resource capacity".  `scaleUp` counts the instances of the last
  observation.  If a creation fails for the client and takes effect later, it is
  not counted, its name is torn down, a replacement is created, and then there
  are two instances under a limit of one.  The view finds and counts it
  at the next observation.  Without late creations, `CreateWithinMax` holds.
- **`forgotten_job`.**  The comment on `runner` says that all of its state,
  naming "whether GitHub assigned a job", is rebuilt from Oxide and GitHub, and
  `scaleDown` that busy runners are never candidates.  `busy` comes from events
  and refused removals only; after a restart a busy runner is marked for
  scale-down.  Its job is safe all the same (`NeverStopsARunningJob`): GitHub
  refuses to remove the registration and the scale-down is called off.

- **`late_drain`.**  `ErrScaleSetDrained` is documented to mean that "all
  resources owned by the scale set have been removed".  `reconcile` returns it
  when one observation shows nothing.  A creation that the former process gave up
  on, which is what happens to calls in flight when it is stopped as the README
  asks before a drain, is in no observation yet.  The scale set is reported as
  drained and deleted, and the instance appears under a prefix that no process
  lists any more.  Without late creations `DrainedMeansEmpty` holds (`teardown`);
  that nothing else is orphaned this way, and nothing in any other way, is
  `NoOrphanedResources` (`lifecycle`).

## What is not modelled

- The active-runner metric and what the handler returns to the listener; paging;
  logging and its options; the parser of the YAML file; building the clients;
  flags and version; the image build.
- The fields of a creation request other than its sizes, and the user data: they
  are constant texts.
- The hash in the name prefix, taken to be injective.
- The validation of a GitHub App's fields, which the code leaves to the library.
- Creation times beyond three ages, and instances without one.
- Sessions that expire while their process polls; GitHub promises otherwise.
- Processes that overlap *and* delete: `NoOrphanedResources`, `SessionClosesFirst`
  and `SuccessMeansDone` are stated for one process at a time, as `README.adoc` asks
  for ("Run only one active process for a given scale set").  With an
  overlap, a process may create the scale set anew that another is deleting.

A registration left by a crash between registering and creating is in no later
view, and the code leaves it to GitHub, which drops registrations that stay
offline (`RegistrationLapses`).  What `ImplementsLifecycle` says is that nothing
is ever created under its name.

## Plan

1. *Done*: `RunnerView`, `Platform`, `Reconciler`; `WakeLoop`; `Controller`;
   `RunnerLifecycle` and its refinement; `Configuration`; their runs and theorems.
2. *Done*: a theorem for every invariant and every action property of the passing
   runs.
3. Weaker hypotheses: `NoOrphanRegistration` and `BusyRunnersAreSpared` after a
   restart, for runners that the present process has created or was told of.
4. That each of `Reconciler`, `WakeLoop` and `Controller` justifies what the others
   assume of it, as one composed specification.
