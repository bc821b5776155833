----------------------------- MODULE Controller -----------------------------
(***************************************************************************)
(* The life of a controller process (controller.go, scaleset.go, main.go): *)
(* it adopts or creates the scale set, opens a message session, runs the   *)
(* listener and the scaler as peers until one of them or the process is to *)
(* end, closes the session, and deletes a scale set that has drained.      *)
(* What the scaler does in between is module Reconciler; here it only      *)
(* holds or removes Oxide resources under the id of its scale set, and may *)
(* give up on a creation that lands later, when its process is gone.       *)
(***************************************************************************)
EXTENDS FiniteSets

CONSTANTS
  Processes,      \* processes that are started for the one configured scale set
  Ids,            \* ids that GitHub gives to scale sets
  NoId,
  Labels,         \* the sets of labels a configuration may ask for
  Configs,        \* the configurations a process may be started with
  Overlap,        \* whether a process may be started while another one runs
  LateIds,        \* bound: scale sets of which a creation may land late
  Disturbances    \* the kinds of failure this instance of the model allows

ASSUME ConstantsAssumption ==
  /\ NoId \notin Ids
  /\ Configs \subseteq [drain : BOOLEAN, labels : Labels]
  /\ Overlap \in BOOLEAN
  /\ LateIds \subseteq Ids
  /\ Disturbances \subseteq {"api", "crash", "signal"}

\* No process has the name of a state that a session without one is in.
ASSUME ProcessesAssumption == Processes \intersect {"free", "stale"} = {}

VARIABLES
  current,        \* GitHub: the scale set with the configured name and group
  labels,         \* GitHub: its labels
  session,        \* GitHub: who holds the message session of a scale set
  resources,      \* Oxide: ids under whose prefix there are instances or disks
  late,           \* Oxide: what became of creations the scaler gave up on, per id
  pc,             \* where Run stands in each process
  config,         \* maxRunners = 0, and the labels
  scaleSet,       \* runnerScaleSet.ID
  ctxDone,        \* SIGINT or SIGTERM was received
  listener,       \* the goroutine that runs the listener, and how it ended
  listenerCtx,    \* cancelListener was called
  scaler,         \* the goroutine that runs the scaler, and how it ended
  scalerCtx,      \* cancelScaler was called
  deleteScaleSet, \* the local of Run of that name
  err             \* the error that Run is going to return is not nil

githubVars == <<current, labels, session>>
oxideVars == <<resources, late>>
platformVars == <<githubVars, oxideVars>>
peerVars == <<listener, listenerCtx, scaler, scalerCtx>>
resultVars == <<deleteScaleSet, err>>
startVars == <<config, scaleSet>>
vars == <<current, labels, session, resources, late, pc, config, scaleSet, ctxDone,
          listener, listenerCtx, scaler, scalerCtx, deleteScaleSet, err>>

Down == {"down", "exited"}          \* killed (or never started); run has returned
Ensuring == {"lookup", "update", "create"}
Running == {"select", "stopListener", "awaitListener", "awaitScaler"}
PCs == Down \union Ensuring \union Running \union 
       {"session", "listener", "close", "delete", "return"}

TypeOK ==
  /\ current \in Ids \union {NoId}
  /\ labels \in Labels
  /\ session \in [Ids -> Processes \union {"free", "stale"}]
  /\ resources \subseteq Ids
  /\ late \in [Ids -> {"none", "underway", "landed"}]
  /\ pc \in [Processes -> PCs]
  /\ config \in [Processes -> Configs]
  /\ scaleSet \in [Processes -> Ids \union {NoId}]
  /\ \A p \in Processes : pc[p] \notin Down \union {"lookup", "create"} => scaleSet[p] \in Ids
  /\ ctxDone \in [Processes -> BOOLEAN]
  /\ listener \in [Processes -> {"off", "polling", "handling", "canceled", "failed"}]
  /\ listenerCtx \in [Processes -> BOOLEAN]
  /\ scaler \in [Processes -> {"off", "running", "canceled", "drained"}]
  /\ scalerCtx \in [Processes -> BOOLEAN]
  /\ deleteScaleSet \in [Processes -> BOOLEAN]
  /\ err \in [Processes -> BOOLEAN]

Goto(p, there) == pc' = [pc EXCEPT ![p] = there]

\* A call may fail in an outage, and does once the context is canceled.
MayFail(p) == "api" \in Disturbances \/ ctxDone[p]

-----------------------------------------------------------------------------
(* run, and ensureScaleSet. *)

Start(p) ==
  /\ pc[p] \in Down
  /\ Overlap \/ \A q \in Processes : pc[q] \in Down
  /\ config' \in {[config EXCEPT ![p] = c] : c \in Configs}
  /\ Goto(p, "lookup")
  /\ scaleSet' = [scaleSet EXCEPT ![p] = NoId]
  /\ ctxDone' = [ctxDone EXCEPT ![p] = FALSE]
  /\ err' = [err EXCEPT ![p] = FALSE]
  /\ UNCHANGED <<platformVars, peerVars, deleteScaleSet>>

\* The scale set is found, and its labels are the configured ones or not.
Adopt(p) ==
  /\ pc[p] = "lookup"
  /\ current # NoId
  /\ scaleSet' = [scaleSet EXCEPT ![p] = current]
  /\ Goto(p, IF labels = config[p].labels THEN "session" ELSE "update")
  /\ UNCHANGED <<platformVars, config, ctxDone, peerVars, resultVars>>

NotFound(p) ==
  /\ pc[p] = "lookup"
  /\ current = NoId
  /\ Goto(p, "create")
  /\ UNCHANGED <<platformVars, startVars, ctxDone, peerVars, resultVars>>

UpdatesLabels(p) ==
  /\ current = scaleSet[p]
  /\ labels' = config[p].labels
  /\ UNCHANGED <<current, session, oxideVars>>

UpdateLabels(p) ==
  /\ pc[p] = "update"
  /\ UpdatesLabels(p)
  /\ Goto(p, "session")
  /\ UNCHANGED <<startVars, ctxDone, peerVars, resultVars>>

\* GitHub never gives out an id twice: one that nothing refers to any more
\* stands for one that was never used.
FreshIds ==
  {id \in Ids : /\ id # current
                /\ id \notin resources
                /\ late[id] # "underway"
                /\ session[id] = "free"
                /\ \A p \in Processes : pc[p] \in Down \/ scaleSet[p] # id}

\* Names are unique in a group.
CreatesScaleSet(p, id) ==
  /\ current = NoId
  /\ id \in FreshIds
  /\ current' = id
  /\ labels' = config[p].labels
  /\ UNCHANGED <<session, oxideVars>>

\* Seeded fault: the new scale set is not returned.
Faulty_CreateScaleSet(p) ==
  /\ pc[p] = "create"
  /\ \E id \in Ids : CreatesScaleSet(p, id)
  /\ Goto(p, "session")
  /\ UNCHANGED <<startVars, ctxDone, peerVars, resultVars>>

CreateScaleSet(p) ==
  /\ pc[p] = "create"
  /\ \E id \in Ids : CreatesScaleSet(p, id) /\ scaleSet' = [scaleSet EXCEPT ![p] = id]
  /\ Goto(p, "session")
  /\ UNCHANGED <<config, ctxDone, peerVars, resultVars>>

\* run returns 1.
ExitFailure(p) ==
  /\ Goto(p, "exited")
  /\ err' = [err EXCEPT ![p] = TRUE]
  /\ UNCHANGED <<startVars, ctxDone, peerVars, deleteScaleSet>>

\* A call of ensureScaleSet (the group and the scale set are looked up in one
\* step) fails, with or without effect.
EnsureFails(p) ==
  /\ pc[p] \in Ensuring
  /\ MayFail(p)
  /\ \/ UNCHANGED platformVars
     \/ pc[p] = "update" /\ UpdatesLabels(p)
     \/ pc[p] = "create" /\ \E id \in Ids : CreatesScaleSet(p, id)
  /\ ExitFailure(p)

\* GitHub refuses the call, because another process was faster.
EnsureRefused(p) ==
  /\ \/ pc[p] = "update" /\ current # scaleSet[p]
     \/ pc[p] = "create" /\ current # NoId
  /\ UNCHANGED platformVars
  /\ ExitFailure(p)

-----------------------------------------------------------------------------
(* The message session. *)

OpenSession(p) ==
  /\ pc[p] = "session"
  /\ scaleSet[p] = current
  /\ session[scaleSet[p]] = "free"
  /\ session' = [session EXCEPT ![scaleSet[p]] = p]
  /\ Goto(p, "listener")
  /\ UNCHANGED <<current, labels, oxideVars, startVars, ctxDone, peerVars, resultVars>>

\* A scale set has one session at a time.
SessionRefused(p) ==
  /\ pc[p] = "session"
  /\ scaleSet[p] # current \/ session[scaleSet[p]] # "free"
  /\ UNCHANGED platformVars
  /\ ExitFailure(p)

\* A session whose answer is lost is one that nobody closes.
SessionFails(p) ==
  /\ pc[p] = "session"
  /\ MayFail(p)
  /\ \/ UNCHANGED session
     \/ /\ scaleSet[p] = current
        /\ session[scaleSet[p]] = "free"
        /\ session' = [session EXCEPT ![scaleSet[p]] = "stale"]
  /\ UNCHANGED <<current, labels, oxideVars>>
  /\ ExitFailure(p)

\* GitHub gives up a session that nobody polls any more.
SessionExpires(id) ==
  /\ session[id] = "stale"
  /\ session' = [session EXCEPT ![id] = "free"]
  /\ UNCHANGED <<current, labels, oxideVars, pc, startVars, ctxDone, peerVars, resultVars>>

-----------------------------------------------------------------------------
(* Listener and scaler, two goroutines. *)

\* listener.New fails: the cleanup runs all the same.
NewListenerFails(p) ==
  /\ pc[p] = "listener"
  /\ "api" \in Disturbances
  /\ err' = [err EXCEPT ![p] = TRUE]
  /\ Goto(p, "close")
  /\ UNCHANGED <<platformVars, startVars, ctxDone, peerVars, deleteScaleSet>>

\* runListenerAndScaler: both contexts are cut off from the process's context.
StartPeers(p) ==
  /\ pc[p] = "listener"
  /\ listener' = [listener EXCEPT ![p] = "polling"]
  /\ scaler' = [scaler EXCEPT ![p] = "running"]
  /\ Goto(p, "select")
  /\ UNCHANGED <<platformVars, startVars, ctxDone, listenerCtx, scalerCtx, resultVars>>

ListenerBecomes(p, state) ==
  /\ listener' = [listener EXCEPT ![p] = state]
  /\ UNCHANGED <<platformVars, pc, startVars, ctxDone, listenerCtx, scaler, scalerCtx, resultVars>>

MessageArrives(p) == listener[p] = "polling" /\ ~listenerCtx[p] /\ ListenerBecomes(p, "handling")

\* A message is handled to its end, whatever becomes of the context.
MessageHandled(p) == listener[p] = "handling" /\ ListenerBecomes(p, "polling")

ListenerCanceled(p) == listener[p] = "polling" /\ listenerCtx[p] /\ ListenerBecomes(p, "canceled")

ListenerFails(p) ==
  /\ "api" \in Disturbances
  /\ listener[p] \in {"polling", "handling"}
  /\ ListenerBecomes(p, "failed")

ScalerBecomes(p, state) ==
  /\ scaler' = [scaler EXCEPT ![p] = state]
  /\ UNCHANGED <<platformVars, pc, startVars, ctxDone, listener, listenerCtx, scalerCtx, resultVars>>

ScalerCanceled(p) == scaler[p] = "running" /\ scalerCtx[p] /\ ScalerBecomes(p, "canceled")

\* ErrScaleSetDrained, when nothing is listed; also when the context is
\* canceled in the meantime.  What has yet to land is not listed.
ScalerDrained(p) ==
  /\ scaler[p] = "running"
  /\ config[p].drain
  /\ scaleSet[p] \notin resources
  /\ ScalerBecomes(p, "drained")

\* A creation needs a runner registration in the scale set.
ScalerCreates(p) ==
  /\ scaler[p] = "running"
  /\ ~config[p].drain
  /\ scaleSet[p] = current
  /\ UNCHANGED <<githubVars, pc, startVars, ctxDone, peerVars, resultVars>>

ScalerProvisions(p) ==
  /\ ScalerCreates(p)
  /\ resources' = resources \union {scaleSet[p]}
  /\ UNCHANGED late

\* The call fails, or is cut off when the scaler is stopped or the process dies,
\* although the creation was accepted.
CreationGivenUp(p) ==
  /\ ScalerCreates(p)
  /\ scaleSet[p] \in LateIds
  /\ late' = [late EXCEPT ![scaleSet[p]] = "underway"]
  /\ UNCHANGED resources

\* It takes effect, whoever runs by then and whether the scale set still exists.
CreationLands(id) ==
  /\ late[id] = "underway"
  /\ late' = [late EXCEPT ![id] = "landed"]
  /\ resources' = resources \union {id}
  /\ UNCHANGED <<githubVars, pc, startVars, ctxDone, peerVars, resultVars>>

\* The last instance or disk is removed, one that landed late among them.
ScalerRemoves(p) ==
  /\ scaler[p] = "running"
  /\ scaleSet[p] \in resources
  /\ resources' = resources \ {scaleSet[p]}
  /\ late' = [late EXCEPT ![scaleSet[p]] = IF @ = "landed" THEN "none" ELSE @]
  /\ UNCHANGED <<githubVars, pc, startVars, ctxDone, peerVars, resultVars>>

-----------------------------------------------------------------------------
(* The select of runListenerAndScaler, with its three ends. *)

ListenerEnded(p) == listener[p] \in {"canceled", "failed"}
ScalerEnded(p) == scaler[p] \in {"canceled", "drained"}

CancelListener(p) ==
  listenerCtx' = [listenerCtx EXCEPT ![p] = TRUE] /\ UNCHANGED <<listener, scaler, scalerCtx>>
CancelScaler(p) ==
  scalerCtx' = [scalerCtx EXCEPT ![p] = TRUE] /\ UNCHANGED <<listener, scaler, listenerCtx>>

Selected(p) == pc[p] = "select" /\ UNCHANGED <<platformVars, startVars, ctxDone, resultVars>>

\* Seeded fault: nobody tells the listener.
Faulty_SelectDone(p) ==
  Selected(p) /\ ctxDone[p] /\ Goto(p, "stopListener") /\ UNCHANGED peerVars

SelectDone(p) == Selected(p) /\ ctxDone[p] /\ CancelListener(p) /\ Goto(p, "stopListener")

\* Seeded fault: the scaler is not waited for.
Faulty_SelectListener(p) ==
  Selected(p) /\ ListenerEnded(p) /\ CancelScaler(p) /\ Goto(p, "close")

SelectListener(p) == Selected(p) /\ ListenerEnded(p) /\ CancelScaler(p) /\ Goto(p, "awaitScaler")

\* Seeded fault: the error of the scaler is dropped.
Faulty_SelectScaler(p) == Selected(p) /\ ScalerEnded(p) /\ CancelListener(p) /\ Goto(p, "close")

SelectScaler(p) == Selected(p) /\ ScalerEnded(p) /\ CancelListener(p) /\ Goto(p, "awaitListener")

\* Seeded fault: the scaler is canceled without waiting for the listener.
Faulty_StopListener(p) ==
  /\ pc[p] = "stopListener"
  /\ CancelScaler(p)
  /\ Goto(p, IF ListenerEnded(p) THEN "awaitScaler" ELSE "stopListener")
  /\ UNCHANGED <<platformVars, startVars, ctxDone, resultVars>>

\* After a signal: the listener is awaited, and the scaler canceled after it.
StopListener(p) ==
  /\ pc[p] = "stopListener"
  /\ ListenerEnded(p)
  /\ CancelScaler(p)
  /\ Goto(p, "awaitScaler")
  /\ UNCHANGED <<platformVars, startVars, ctxDone, resultVars>>

\* Seeded fault: every process with the drain configuration deletes.
Faulty_EvaluateResults(p) ==
  /\ deleteScaleSet' = [deleteScaleSet EXCEPT ![p] = config[p].drain]
  /\ err' = [err EXCEPT ![p] = scaler[p] # "drained" /\ listener[p] = "failed"]

\* What Run makes of the two results.
EvaluateResults(p) ==
  /\ deleteScaleSet' = [deleteScaleSet EXCEPT ![p] = scaler[p] = "drained"]
  /\ err' = [err EXCEPT ![p] = scaler[p] # "drained" /\ listener[p] = "failed"]

\* Seeded fault: a drained scale set is deleted without closing its session first.
Faulty_PeersReturn(p) ==
  /\ pc[p] \in {"awaitScaler", "awaitListener"}
  /\ ListenerEnded(p) /\ ScalerEnded(p)
  /\ EvaluateResults(p)
  /\ Goto(p, IF deleteScaleSet'[p] THEN "delete" ELSE "close")
  /\ UNCHANGED <<platformVars, startVars, ctxDone, peerVars>>

PeersReturn(p) ==
  /\ pc[p] \in {"awaitScaler", "awaitListener"}
  /\ ListenerEnded(p) /\ ScalerEnded(p)
  /\ EvaluateResults(p)
  /\ Goto(p, "close")
  /\ UNCHANGED <<platformVars, startVars, ctxDone, peerVars>>

-----------------------------------------------------------------------------
(* The deferred cleanup, under a context that is never canceled. *)

ClosesSession(p) ==
  session' = [session EXCEPT ![scaleSet[p]] = IF @ = p THEN "free" ELSE @]

LeavesSession(p) ==
  session' = [session EXCEPT ![scaleSet[p]] = IF @ = p THEN "stale" ELSE @]

Closed(p) ==
  /\ pc[p] = "close"
  /\ Goto(p, IF deleteScaleSet[p] THEN "delete" ELSE "return")
  /\ UNCHANGED <<current, labels, oxideVars, startVars, ctxDone, peerVars, deleteScaleSet>>

CloseSession(p) == Closed(p) /\ ClosesSession(p) /\ UNCHANGED err

\* Seeded fault: the error is logged and dropped.
Faulty_CloseFails(p) ==
  /\ "api" \in Disturbances
  /\ Closed(p)
  /\ ClosesSession(p) \/ LeavesSession(p)
  /\ UNCHANGED err

CloseFails(p) ==
  /\ "api" \in Disturbances
  /\ Closed(p)
  /\ ClosesSession(p) \/ LeavesSession(p)
  /\ err' = [err EXCEPT ![p] = TRUE]

Deleted(p) ==
  /\ pc[p] = "delete"
  /\ Goto(p, "return")
  /\ UNCHANGED <<labels, session, oxideVars, startVars, ctxDone, peerVars, deleteScaleSet>>

DeleteScaleSet(p) ==
  Deleted(p) /\ current = scaleSet[p] /\ current' = NoId /\ UNCHANGED err

\* In an outage, or because the scale set is gone.
DeleteFails(p) ==
  /\ Deleted(p)
  /\ \/ current # scaleSet[p] /\ UNCHANGED current
     \/ "api" \in Disturbances /\ current = scaleSet[p] /\ current' \in {current, NoId}
  /\ err' = [err EXCEPT ![p] = TRUE]

-----------------------------------------------------------------------------
(* The process. *)

\* Whatever goroutines are left end with the process.
Ends(p) ==
  /\ listener' = [listener EXCEPT ![p] = "off"]
  /\ listenerCtx' = [listenerCtx EXCEPT ![p] = FALSE]
  /\ scaler' = [scaler EXCEPT ![p] = "off"]
  /\ scalerCtx' = [scalerCtx EXCEPT ![p] = FALSE]
  /\ deleteScaleSet' = [deleteScaleSet EXCEPT ![p] = FALSE]
  /\ UNCHANGED <<current, labels, oxideVars, startVars, ctxDone, err>>

\* Run returns, and main exits with 1 if there is an error.
Exit(p) == pc[p] = "return" /\ Goto(p, "exited") /\ Ends(p) /\ UNCHANGED session

Signal(p) ==
  /\ "signal" \in Disturbances
  /\ pc[p] \notin Down
  /\ ~ctxDone[p]
  /\ ctxDone' = [ctxDone EXCEPT ![p] = TRUE]
  /\ UNCHANGED <<platformVars, pc, startVars, peerVars, resultVars>>

Crash(p) ==
  /\ "crash" \in Disturbances
  /\ pc[p] \notin Down
  /\ Goto(p, "down")
  /\ session' = [id \in Ids |-> IF session[id] = p THEN "stale" ELSE session[id]]
  /\ Ends(p)

-----------------------------------------------------------------------------
\* There may be a scale set already, made by a former process or by hand.
Init ==
  /\ current \in Ids \union {NoId}
  /\ labels \in Labels
  /\ session = [id \in Ids |-> "free"]
  /\ resources \in SUBSET (Ids \intersect {current})
  /\ late = [id \in Ids |-> "none"]
  /\ pc = [p \in Processes |-> "down"]
  /\ config \in [Processes -> Configs]
  /\ scaleSet = [p \in Processes |-> NoId]
  /\ ctxDone = [p \in Processes |-> FALSE]
  /\ listener = [p \in Processes |-> "off"]
  /\ listenerCtx = [p \in Processes |-> FALSE]
  /\ scaler = [p \in Processes |-> "off"]
  /\ scalerCtx = [p \in Processes |-> FALSE]
  /\ deleteScaleSet = [p \in Processes |-> FALSE]
  /\ err = [p \in Processes |-> FALSE]

Ensure(p) ==
  Start(p) \/ Adopt(p) \/ NotFound(p) \/ UpdateLabels(p) \/ CreateScaleSet(p)
  \/ EnsureFails(p) \/ EnsureRefused(p)
  \/ OpenSession(p) \/ SessionRefused(p) \/ SessionFails(p)

Run(p) ==
  NewListenerFails(p) \/ StartPeers(p)
  \/ SelectDone(p) \/ SelectListener(p) \/ SelectScaler(p)
  \/ StopListener(p) \/ PeersReturn(p)
  \/ CloseSession(p) \/ CloseFails(p) \/ DeleteScaleSet(p) \/ DeleteFails(p) \/ Exit(p)

Listen(p) ==
  MessageArrives(p) \/ MessageHandled(p) \/ ListenerCanceled(p) \/ ListenerFails(p)

Scale(p) ==
  ScalerCanceled(p) \/ ScalerDrained(p)
  \/ ScalerProvisions(p) \/ CreationGivenUp(p) \/ ScalerRemoves(p)

Next ==
  \/ \E p \in Processes :
       Ensure(p) \/ Run(p) \/ Listen(p) \/ Scale(p) \/ Signal(p) \/ Crash(p)
  \/ \E id \in Ids : SessionExpires(id) \/ CreationLands(id)

Spec == Init /\ [][Next]_vars

\* A process is started again, goes on, and so do its goroutines: messages are
\* handled, a canceled context is noticed, and a scaler that drains gets there
\* (DrainCompletes of module Reconciler).  Sessions nobody polls expire.
Fairness ==
  /\ \A p \in Processes :
       /\ WF_vars(Ensure(p) \/ Run(p))
       /\ WF_vars(MessageHandled(p))
       /\ WF_vars(ListenerCanceled(p))
       /\ WF_vars(ScalerCanceled(p))
       /\ WF_vars(ScalerDrained(p))
       /\ WF_vars(config[p].drain /\ ScalerRemoves(p))
  /\ \A id \in Ids : WF_vars(SessionExpires(id))

FairSpec == Spec /\ Fairness

-----------------------------------------------------------------------------
(* Safety *)

\* "Run only one active process for a given scale set" (README.adoc): also when
\* an operator starts a second one, or starts one before another has ended, no
\* two of them scale the same scale set, because a scaler runs only while its
\* process holds the session.
OneScalerPerScaleSet ==
  \A p, q \in Processes :
    scaler[p] = "running" /\ scaler[q] = "running" /\ scaleSet[p] = scaleSet[q] => p = q

\* What the listener is handling when the process is told to stop still meets a
\* scaler that was not told to stop (runListenerAndScaler).
MessagesMeetALiveScaler ==
  \A p \in Processes : listener[p] = "handling" => ~scalerCtx[p]

\* One process at a time: what a prefix marks on Oxide belongs to the scale set
\* that exists, so that the next process will find it, unless a creation that a
\* scaler gave up on has landed under it.  The cleanup of Run deletes a scale set
\* only after its scaler has found nothing left, and no process leaves resources
\* to a scale set that is gone.  The exception is one of the code: an empty list
\* does not show what has yet to land (see DrainedMeansEmpty of Reconciler).
NoOrphanedResources ==
  \A id \in resources : id = current \/ late[id] = "landed"

\* One process at a time: the cleanup of Run closes the message session before it
\* deletes the scale set, so that no scale set is deleted under the session of a
\* process that is alive (one that could not be closed has been given up).
SessionClosesFirst ==
  [][\A id \in Ids : current = id /\ current' # id => session[id] \notin Processes]_vars

\* One process at a time: Run returns no error, so that the process exits with 0,
\* only if it was told to stop or has drained its scale set and deleted it; and
\* either way its session is closed.
SuccessMeansDone ==
  \A p \in Processes :
    pc[p] = "return" /\ ~err[p] =>
      /\ ctxDone[p] \/ (config[p].drain /\ current # scaleSet[p])
      /\ session[scaleSet[p]] = "free"

-----------------------------------------------------------------------------
(* Liveness *)

CallFails ==
  \E p \in Processes :
    \/ EnsureFails(p) \/ SessionFails(p) \/ NewListenerFails(p) \/ ListenerFails(p)
    \/ CloseFails(p) \/ DeleteFails(p)

Interrupted == \E p \in Processes : Signal(p) \/ Crash(p)

\* A signal ends the process, wherever it stands and whatever the calls answer.
SignalsAreObeyed == \A p \in Processes : ctxDone[p] ~> pc[p] \in Down

\* A process that is started with the drain configuration again and again, until
\* it exits with success, deletes its scale set in the end, whatever crashes and
\* outages left behind: stale sessions, drained scale sets, half a deletion.
DrainSucceeds ==
  (/\ <>[][~CallFails /\ ~Interrupted]_vars
   /\ <>[](\A p \in Processes : config[p].drain))
    => <>(\E p \in Processes : pc[p] = "exited" /\ ~err[p] /\ current = NoId)

=============================================================================
