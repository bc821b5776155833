------------------------------ MODULE WakeLoop ------------------------------
(***************************************************************************)
(* When the scaler reconciles: Scaler.Run (internal/scaler/reconcile.go)   *)
(* waits for the wake channel, the deadline that the last reconciliation   *)
(* asked for, or the ticker, whichever comes first, while the listener's   *)
(* goroutine records news (internal/scaler/handler.go).  What a            *)
(* reconciliation does is module Reconciler; here it only leaves work and  *)
(* asks for deadlines.  A time is the number of ticks that are left until  *)
(* it; the ticks of module time are about five seconds.                    *)
(***************************************************************************)
EXTENDS Integers, FiniteSets

CONSTANTS
  Callers,            \* goroutines that call the handlers
  Work,               \* pieces of work: runners that may be torn down
  CancellationDelay,  \* scaleDownCancellationDelay
  PollDelay,          \* teardownPollDelay
  RetryDelay,         \* reconcileRetryDelay
  Interval,           \* reconcileInterval
  Timeout             \* reconcileTimeout

ASSUME DelaysAssumption ==
  /\ CancellationDelay \in Nat /\ PollDelay \in Nat
  /\ RetryDelay \in Nat /\ Interval \in Nat /\ Timeout \in Nat
  /\ CancellationDelay <= RetryDelay /\ PollDelay <= RetryDelay

VARIABLES
  unread,         \* desiredRunnerCount or jobEvents hold news the loop has not taken
  caller,         \* where each call of a handler stands
  wakeCh,         \* tokens in the wake channel, whose capacity is 1
  ctxDone,        \* the context of Run was canceled
  pc,             \* where Run stands
  nextReconcile,  \* reconcileResult.nextReconcile
  tickerIn,       \* time until the interval ticker fires
  budget,         \* time until reconcileCtx expires
  pending,        \* the runners with a teardown
  window,         \* time until their registrationRemovalAfter
  asked,          \* the deadline this reconciliation was asked for, by runner
  todo            \* the runners the teardown loop has not visited

listenerVars == <<unread, caller, wakeCh>>
resultVars == <<nextReconcile, asked>>
workVars == <<pending, window, todo>>
timeVars == <<tickerIn, budget>>
vars == <<unread, caller, wakeCh, ctxDone, pc, nextReconcile, tickerIn, budget,
          pending, window, asked, todo>>

None == -1      \* a zero time.Time
Times == Nat \union {None}

TypeOK ==
  /\ unread \in BOOLEAN
  /\ caller \in [Callers -> {"idle", "recorded"}]
  /\ wakeCh \in 0 .. 1
  /\ ctxDone \in BOOLEAN
  /\ pc \in {"enter", "start", "gather", "act", "select", "recheck",
             "drained", "stopped"}
  /\ nextReconcile \in Times
  /\ tickerIn \in Nat
  /\ budget \in Nat
  /\ pending \subseteq Work
  /\ window \in [Work -> Nat]
  /\ asked \in [Work -> Times]
  /\ todo \subseteq Work

-----------------------------------------------------------------------------
(* The handlers, called by the listener. *)

\* Both enqueueJobEvent and HandleDesiredRunnerCount write under the mutex
\* and call wake after they have released it.
Record(c) ==
  /\ caller[c] = "idle"
  /\ caller' = [caller EXCEPT ![c] = "recorded"]
  /\ unread' = TRUE
  /\ UNCHANGED <<wakeCh, ctxDone, pc, resultVars, workVars, timeVars>>

\* Seeded fault: an unbuffered channel takes the token only from a waiting loop.
Faulty_Wake(c) ==
  /\ caller[c] = "recorded"
  /\ caller' = [caller EXCEPT ![c] = "idle"]
  /\ wakeCh' = IF pc = "select" THEN 1 ELSE wakeCh
  /\ UNCHANGED <<unread, ctxDone, pc, resultVars, workVars, timeVars>>

\* The send does not block: a full channel swallows the token.
Wake(c) ==
  /\ caller[c] = "recorded"
  /\ caller' = [caller EXCEPT ![c] = "idle"]
  /\ wakeCh' = 1
  /\ UNCHANGED <<unread, ctxDone, pc, resultVars, workVars, timeVars>>

-----------------------------------------------------------------------------
(* One reconciliation, as far as it concerns the time of the next one. *)

Earlier(a, b) == IF a = None \/ (b # None /\ b < a) THEN b ELSE a

\* Seeded fault: the last request wins.
Faulty_RequestReconcile(at) == nextReconcile' = at

RequestReconcile(at) == nextReconcile' = Earlier(nextReconcile, at)

Asks(w, at) ==
  /\ RequestReconcile(at)
  /\ asked' = [asked EXCEPT ![w] = at]

\* The first check of Run, before the initial reconciliation.
Enter ==
  /\ pc = "enter"
  /\ pc' = IF ctxDone THEN "stopped" ELSE "start"
  /\ UNCHANGED <<listenerVars, ctxDone, resultVars, workVars, timeVars>>

\* runReconcile: the context gets its timeout, the result is empty, and
\* processJobEvents takes the news.  Events start and call off teardowns.
StartReconcile ==
  /\ pc = "start"
  /\ budget' = Timeout
  /\ nextReconcile' = None
  /\ asked' = [w \in Work |-> None]
  /\ unread' = FALSE
  /\ \E started, completed \in SUBSET Work :
       /\ unread \/ started \union completed = {}
       /\ pending' = (pending \ started) \union completed
       /\ window' = [w \in Work |-> IF w \in started \union completed THEN 0 ELSE window[w]]
  /\ pc' = "gather"
  /\ UNCHANGED <<caller, wakeCh, ctxDone, tickerIn, todo>>

\* The ticker is reset, and Run waits again.
Wait == pc' = "select" /\ tickerIn' = Interval

\* Seeded fault: nothing is asked for when the observation fails.
Faulty_ObserveFails ==
  /\ pc = "gather"
  /\ Wait
  /\ UNCHANGED <<listenerVars, ctxDone, resultVars, workVars, budget>>

ObserveFails ==
  /\ pc = "gather"
  /\ RequestReconcile(RetryDelay)
  /\ Wait
  /\ UNCHANGED <<listenerVars, ctxDone, asked, workVars, budget>>

\* Observation, marking, audit, and the scale-downs that are called off.
Plan ==
  /\ pc = "gather"
  /\ budget > 0 /\ ~ctxDone
  /\ \E marked \in SUBSET (Work \ pending),
        reclaimed \in SUBSET {w \in pending : window[w] > 0} :
       /\ pending' = (pending \ reclaimed) \union marked
       /\ window' = [w \in Work |-> IF w \in reclaimed THEN 0 ELSE window[w]]
  /\ \E auditRetry \in {None, RetryDelay} : RequestReconcile(auditRetry)
  /\ todo' = pending'
  /\ pc' = "act"
  /\ UNCHANGED <<listenerVars, ctxDone, asked, timeVars>>

\* teardown of a runner: it waits for its window, or finishes, or asks to be
\* polled or retried.
Drive(w) ==
  /\ pc = "act"
  /\ w \in todo
  /\ todo' = todo \ {w}
  /\ \/ window[w] > 0 /\ Asks(w, window[w]) /\ UNCHANGED pending
     \/ window[w] = 0 /\ pending' = pending \ {w} /\ UNCHANGED resultVars
     \/ /\ window[w] = 0
        /\ \E delay \in {PollDelay, RetryDelay} : Asks(w, delay)
        /\ UNCHANGED pending
  /\ UNCHANGED <<listenerVars, ctxDone, pc, window, timeVars>>

\* The end of reconcile: whatever is pending is retried when nobody asked.
EndReconcile(at) ==
  /\ LET requested == Earlier(nextReconcile, at)
     IN  nextReconcile' = IF requested = None /\ pending' # {} THEN RetryDelay ELSE requested
  /\ Wait

\* scaleUp, or nothing to scale: failed attempts become teardowns to retry, and
\* so does an image that cannot be fetched.
ScaleUp ==
  /\ pc = "act" /\ todo = {}
  /\ \E failed \in SUBSET (Work \ pending), at \in {None, RetryDelay} :
       /\ failed # {} => at = RetryDelay
       /\ pending' = pending \union failed
       /\ EndReconcile(at)
  /\ UNCHANGED <<listenerVars, ctxDone, window, asked, todo, budget>>

\* scaleDown opens the windows of the runners it chooses.
ScaleDown ==
  /\ pc = "act" /\ todo = {}
  /\ \E chosen \in SUBSET (Work \ pending) :
       /\ chosen # {}
       /\ pending' = pending \union chosen
       /\ window' = [w \in Work |-> IF w \in chosen THEN CancellationDelay ELSE window[w]]
       /\ asked' = [w \in Work |-> IF w \in chosen THEN CancellationDelay ELSE asked[w]]
  /\ EndReconcile(CancellationDelay)
  /\ UNCHANGED <<listenerVars, ctxDone, todo, budget>>

\* reconcile returns ErrScaleSetDrained, and Run with it.
Drained ==
  /\ pc = "act" /\ todo = {} /\ pending = {}
  /\ pc' = "drained"
  /\ UNCHANGED <<listenerVars, ctxDone, resultVars, workVars, timeVars>>

-----------------------------------------------------------------------------
(* The select of Run. *)

Selected(next) ==
  /\ pc = "select"
  /\ pc' = next
  /\ UNCHANGED <<unread, caller, ctxDone, resultVars, workVars, timeVars>>

SelectDone == ctxDone /\ Selected("stopped") /\ UNCHANGED wakeCh
SelectWake == wakeCh = 1 /\ Selected("recheck") /\ wakeCh' = 0
SelectDeadline == nextReconcile = 0 /\ Selected("recheck") /\ UNCHANGED wakeCh

\* Seeded fault: a tick is not worth a reconciliation.
Faulty_SelectTicker == tickerIn = 0 /\ Selected("select") /\ UNCHANGED wakeCh

SelectTicker == tickerIn = 0 /\ Selected("recheck") /\ UNCHANGED wakeCh

\* Seeded fault: the select is trusted to prefer the context.
Faulty_Recheck ==
  /\ pc = "recheck"
  /\ pc' = "start"
  /\ UNCHANGED <<listenerVars, ctxDone, resultVars, workVars, timeVars>>

\* The select may choose any ready case, so the context is checked again.
Recheck ==
  /\ pc = "recheck"
  /\ pc' = IF ctxDone THEN "stopped" ELSE "start"
  /\ UNCHANGED <<listenerVars, ctxDone, resultVars, workVars, timeVars>>

-----------------------------------------------------------------------------
(* Time, and the cancellation of the context. *)

Over == pc \in {"drained", "stopped"}

Cancel ==
  /\ ~ctxDone /\ ~Over
  /\ ctxDone' = TRUE
  /\ UNCHANGED <<listenerVars, pc, resultVars, workVars, timeVars>>

NothingReady == ~ctxDone /\ wakeCh = 0 /\ nextReconcile # 0 /\ tickerIn # 0

\* Seeded fault: what has passed, or was never set, goes on counting.
Faulty_Sooner(t) == t - 1

Sooner(t) == IF t > 0 THEN t - 1 ELSE t

\* Time passes while a reconciliation waits for its calls, which fail once its
\* context has expired, and while no case of the select is ready.
TimePasses ==
  /\ \/ pc \in {"gather", "act"} /\ budget > 0
     \/ pc = "select" /\ NothingReady
  /\ nextReconcile' = Sooner(nextReconcile)
  /\ asked' = [w \in Work |-> Sooner(asked[w])]
  /\ window' = [w \in Work |-> Sooner(window[w])]
  /\ tickerIn' = IF pc = "select" THEN Sooner(tickerIn) ELSE tickerIn
  /\ budget' = Sooner(budget)
  /\ UNCHANGED <<listenerVars, ctxDone, pc, pending, todo>>

-----------------------------------------------------------------------------
Init ==
  /\ unread = FALSE
  /\ caller = [c \in Callers |-> "idle"]
  /\ wakeCh = 0
  /\ ctxDone = FALSE
  /\ pc = "enter"
  /\ nextReconcile = None
  /\ tickerIn = Interval
  /\ budget = 0
  /\ pending = {}
  /\ window = [w \in Work |-> 0]
  /\ asked = [w \in Work |-> None]
  /\ todo = {}

Reconcile ==
  \/ StartReconcile \/ ObserveFails \/ Plan
  \/ \E w \in Work : Drive(w)
  \/ ScaleUp \/ ScaleDown \/ Drained

Run == Enter \/ Reconcile \/ SelectDone \/ SelectWake \/ SelectDeadline \/ SelectTicker \/ Recheck

Listen == \E c \in Callers : Record(c) \/ Wake(c)

Next == Run \/ Listen \/ Cancel \/ TimePasses

Spec == Init /\ [][Next]_vars

\* Goroutines that can go on do so, and time does not stand still.  Nothing
\* says that the select ever picks one of several ready cases.
Fairness ==
  /\ WF_vars(Run)
  /\ WF_vars(TimePasses)
  /\ \A c \in Callers : WF_vars(Wake(c))

FairSpec == Spec /\ Fairness

-----------------------------------------------------------------------------
(* Safety *)

\* wake drops its token when the channel is full, and news is written before
\* the token is sent: still, news that the loop has not taken always has a
\* token in the channel, a caller about to send one, or a reconciliation that
\* is about to take it.
NoLostWakeup ==
  unread =>
    \/ wakeCh = 1
    \/ \E c \in Callers : caller[c] = "recorded"
    \/ pc \in {"enter", "recheck", "start", "drained", "stopped"}

\* Of all the deadlines a reconciliation was asked for, Run waits for the
\* earliest, counted from the moment of the request (reconcileResult).
EarliestDeadlineKept ==
  \A w \in Work :
    asked[w] # None => nextReconcile # None /\ nextReconcile <= asked[w]

\* Whatever made a reconciliation start early or end early: when it is over and
\* a teardown is pending, the next one is no more than a retry away.
PendingWorkIsSoonRevisited ==
  pc = "select" /\ pending # {} => nextReconcile \in 0 .. RetryDelay

-----------------------------------------------------------------------------
(* Liveness *)

\* Run reconciles again and again, also when nobody calls and nothing is pending:
\* what nothing announces (a lost event, a faulted disk) is found in the end.
KeepsReconciling == []<>(pc = "start" \/ Over)

\* Canceling the context ends Run, although the select may prefer other cases.
CancelStops == ctxDone ~> Over

=============================================================================
