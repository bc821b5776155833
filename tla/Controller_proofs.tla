-------------------------- MODULE Controller_proofs --------------------------
(***************************************************************************)
(* At most one process scales a scale set, and a process that stops lets   *)
(* its listener finish before its scaler, for any number of processes that *)
(* are started, signaled and killed at any time, overlapping or not.  If   *)
(* they do not overlap, nothing is orphaned but what lands late, sessions  *)
(* are closed before scale sets are deleted, and a process that ends       *)
(* without an error has done what it was told to.                          *)
(***************************************************************************)
EXTENDS Controller, TLAPS

\* The goroutines of a process exist only while it runs them, and then it
\* holds the session of its scale set.
PeersHoldTheSession ==
  \A p \in Processes :
    /\ scaler[p] = "running" \/ listener[p] \in {"polling", "handling"}
         => pc[p] \in Running
    /\ pc[p] \in Running \union {"listener", "close"} => session[scaleSet[p]] = p

\* A process gives up its session before it does anything else but run them.
HoldersAreUp ==
  \A p \in Processes : \A id \in Ids : session[id] = p =>
    scaleSet[p] = id /\ pc[p] \in Running \union {"listener", "close"}

\* The scaler is told to stop only after the listener has ended.
ListenerEndsFirst ==
  \A p \in Processes :
    /\ scalerCtx[p] => ListenerEnded(p)
    /\ pc[p] \notin Running \union {"close", "delete", "return"} => ~scalerCtx[p]

IInv == TypeOK /\ PeersHoldTheSession /\ HoldersAreUp /\ ListenerEndsFirst

-----------------------------------------------------------------------------
\* The labels of a configuration.
LEMMA ConfiguredLabels ==
  ASSUME TypeOK, NEW p \in Processes
  PROVE  config[p].labels \in Labels
<1>1. config[p] \in [drain : BOOLEAN, labels : Labels]
  BY ConstantsAssumption DEF TypeOK
<1> QED
  BY <1>1

\* Every step keeps the types.  That a scaler works on an id, and not on none,
\* is because its process has adopted a scale set.
LEMMA TypeInductive == IInv /\ [Next]_vars => TypeOK'
<1> SUFFICES ASSUME IInv, [Next]_vars PROVE TypeOK'
  OBVIOUS
<1> USE ConstantsAssumption DEF IInv, TypeOK, PCs, Down, Ensuring, Running, vars,
        githubVars, oxideVars, platformVars, peerVars, resultVars, startVars,
        PeersHoldTheSession
<1>1. ASSUME NEW p \in Processes, Start(p) PROVE TypeOK'
  BY <1>1 DEF Start, Goto
<1>2. ASSUME NEW p \in Processes, Adopt(p) PROVE TypeOK'
  BY <1>2 DEF Adopt, Goto
<1>3. ASSUME NEW p \in Processes, NotFound(p) PROVE TypeOK'
  BY <1>3 DEF NotFound, Goto
<1>4. ASSUME NEW p \in Processes, UpdateLabels(p) PROVE TypeOK'
  BY <1>4, ConfiguredLabels DEF UpdateLabels, UpdatesLabels, Goto
<1>5. ASSUME NEW p \in Processes, CreateScaleSet(p) PROVE TypeOK'
  BY <1>5, ConfiguredLabels DEF CreateScaleSet, CreatesScaleSet, Goto
<1>6. ASSUME NEW p \in Processes, EnsureFails(p) PROVE TypeOK'
  BY <1>6, ConfiguredLabels DEF EnsureFails, MayFail, ExitFailure, UpdatesLabels, CreatesScaleSet, Goto
<1>7. ASSUME NEW p \in Processes, EnsureRefused(p) PROVE TypeOK'
  BY <1>7 DEF EnsureRefused, ExitFailure, Goto
<1>8. ASSUME NEW p \in Processes, OpenSession(p) PROVE TypeOK'
  BY <1>8 DEF OpenSession, Goto
<1>9. ASSUME NEW p \in Processes, SessionRefused(p) PROVE TypeOK'
  BY <1>9 DEF SessionRefused, ExitFailure, Goto
<1>10. ASSUME NEW p \in Processes, SessionFails(p) PROVE TypeOK'
  BY <1>10 DEF SessionFails, MayFail, ExitFailure, Goto
<1>11. ASSUME NEW p \in Processes, NewListenerFails(p) PROVE TypeOK'
  BY <1>11 DEF NewListenerFails, Goto
<1>12. ASSUME NEW p \in Processes, StartPeers(p) PROVE TypeOK'
  BY <1>12 DEF StartPeers, Goto
<1>13. ASSUME NEW p \in Processes, SelectDone(p) PROVE TypeOK'
  BY <1>13 DEF SelectDone, Selected, CancelListener, Goto
<1>14. ASSUME NEW p \in Processes, SelectListener(p) PROVE TypeOK'
  BY <1>14 DEF SelectListener, Selected, CancelScaler, ListenerEnded, Goto
<1>15. ASSUME NEW p \in Processes, SelectScaler(p) PROVE TypeOK'
  BY <1>15 DEF SelectScaler, Selected, CancelListener, ScalerEnded, Goto
<1>16. ASSUME NEW p \in Processes, StopListener(p) PROVE TypeOK'
  BY <1>16 DEF StopListener, CancelScaler, ListenerEnded, Goto
<1>17. ASSUME NEW p \in Processes, PeersReturn(p) PROVE TypeOK'
  BY <1>17 DEF PeersReturn, EvaluateResults, ListenerEnded, ScalerEnded, Goto
<1>18. ASSUME NEW p \in Processes, CloseSession(p) PROVE TypeOK'
  <2> HIDE DEF PeersHoldTheSession
  <2>1. session' \in [Ids -> Processes \union {"free", "stale"}]
    BY <1>18 DEF CloseSession, ClosesSession
  <2> QED
    BY <1>18, <2>1 DEF CloseSession, Closed, Goto
<1>19. ASSUME NEW p \in Processes, CloseFails(p) PROVE TypeOK'
  <2> HIDE DEF PeersHoldTheSession
  <2>1. session' \in [Ids -> Processes \union {"free", "stale"}]
    <3>1. CASE ClosesSession(p)
      BY <3>1 DEF ClosesSession
    <3>2. CASE LeavesSession(p)
      BY <3>2 DEF LeavesSession
    <3> QED
      BY <1>19, <3>1, <3>2 DEF CloseFails
  <2> QED
    BY <1>19, <2>1 DEF CloseFails, Closed, Goto
<1>20. ASSUME NEW p \in Processes, DeleteScaleSet(p) PROVE TypeOK'
  BY <1>20 DEF DeleteScaleSet, Deleted, Goto
<1>21. ASSUME NEW p \in Processes, DeleteFails(p) PROVE TypeOK'
  BY SMTT(20), <1>21 DEF DeleteFails, Deleted, Goto
<1>22. ASSUME NEW p \in Processes, Exit(p) PROVE TypeOK'
  BY <1>22 DEF Exit, Ends, Goto
<1>23. ASSUME NEW p \in Processes, MessageArrives(p) PROVE TypeOK'
  BY <1>23 DEF MessageArrives, ListenerBecomes
<1>24. ASSUME NEW p \in Processes, MessageHandled(p) PROVE TypeOK'
  BY <1>24 DEF MessageHandled, ListenerBecomes
<1>25. ASSUME NEW p \in Processes, ListenerCanceled(p) PROVE TypeOK'
  BY <1>25 DEF ListenerCanceled, ListenerBecomes
<1>26. ASSUME NEW p \in Processes, ListenerFails(p) PROVE TypeOK'
  BY <1>26 DEF ListenerFails, ListenerBecomes
<1>27. ASSUME NEW p \in Processes, ScalerCanceled(p) PROVE TypeOK'
  BY <1>27 DEF ScalerCanceled, ScalerBecomes
<1>28. ASSUME NEW p \in Processes, ScalerDrained(p) PROVE TypeOK'
  BY <1>28 DEF ScalerDrained, ScalerBecomes
<1>29. ASSUME NEW p \in Processes, ScalerProvisions(p) PROVE TypeOK'
  BY <1>29 DEF ScalerProvisions, ScalerCreates
<1>30. ASSUME NEW p \in Processes, ScalerRemoves(p) PROVE TypeOK'
  BY <1>30 DEF ScalerRemoves
<1>31. ASSUME NEW p \in Processes, Signal(p) PROVE TypeOK'
  BY <1>31 DEF Signal
<1>32. ASSUME NEW p \in Processes, Crash(p) PROVE TypeOK'
  BY <1>32 DEF Crash, Ends, Goto
<1>33. ASSUME NEW id \in Ids, SessionExpires(id) PROVE TypeOK'
  BY <1>33 DEF SessionExpires
<1>34. ASSUME NEW p \in Processes, CreationGivenUp(p) PROVE TypeOK'
  BY <1>34 DEF CreationGivenUp, ScalerCreates
<1>35. ASSUME NEW id \in Ids, CreationLands(id) PROVE TypeOK'
  BY <1>35 DEF CreationLands
<1>36. CASE UNCHANGED vars
  BY <1>36
<1> QED
  BY <1>1, <1>2, <1>3, <1>4, <1>5, <1>6, <1>7, <1>8, <1>9, <1>10, <1>11,
     <1>12, <1>13, <1>14, <1>15, <1>16, <1>17, <1>18, <1>19, <1>20, <1>21,
     <1>22, <1>23, <1>24, <1>25, <1>26, <1>27, <1>28, <1>29, <1>30, <1>31,
     <1>32, <1>33, <1>34, <1>35, <1>36 DEF Next, Ensure, Run, Listen, Scale

\* Sessions are given out when they are free, and given up by their holders.
LEMMA SessionInductive == IInv /\ [Next]_vars => (PeersHoldTheSession /\ HoldersAreUp)'
<1> SUFFICES ASSUME IInv, [Next]_vars PROVE (PeersHoldTheSession /\ HoldersAreUp)'
  OBVIOUS
<1> USE ProcessesAssumption DEF IInv, TypeOK, PCs, Down, Ensuring, Running, vars,
        githubVars, oxideVars, platformVars, peerVars, resultVars, startVars,
        PeersHoldTheSession, HoldersAreUp, ListenerEnded, ScalerEnded
<1>1. ASSUME NEW p \in Processes, Start(p) PROVE (PeersHoldTheSession /\ HoldersAreUp)'
  BY <1>1 DEF Start, Goto
<1>2. ASSUME NEW p \in Processes, Adopt(p) PROVE (PeersHoldTheSession /\ HoldersAreUp)'
  BY <1>2 DEF Adopt, Goto
<1>3. ASSUME NEW p \in Processes, NotFound(p) PROVE (PeersHoldTheSession /\ HoldersAreUp)'
  BY <1>3 DEF NotFound, Goto
<1>4. ASSUME NEW p \in Processes, UpdateLabels(p) PROVE (PeersHoldTheSession /\ HoldersAreUp)'
  BY <1>4 DEF UpdateLabels, UpdatesLabels, Goto
<1>5. ASSUME NEW p \in Processes, CreateScaleSet(p) PROVE (PeersHoldTheSession /\ HoldersAreUp)'
  BY <1>5 DEF CreateScaleSet, CreatesScaleSet, Goto
<1>6. ASSUME NEW p \in Processes, EnsureFails(p) PROVE (PeersHoldTheSession /\ HoldersAreUp)'
  BY <1>6 DEF EnsureFails, MayFail, ExitFailure, UpdatesLabels, CreatesScaleSet, Goto
<1>7. ASSUME NEW p \in Processes, EnsureRefused(p) PROVE (PeersHoldTheSession /\ HoldersAreUp)'
  BY <1>7 DEF EnsureRefused, ExitFailure, Goto
<1>8. ASSUME NEW p \in Processes, OpenSession(p) PROVE (PeersHoldTheSession /\ HoldersAreUp)'
  BY <1>8 DEF OpenSession, Goto
<1>9. ASSUME NEW p \in Processes, SessionRefused(p) PROVE (PeersHoldTheSession /\ HoldersAreUp)'
  BY <1>9 DEF SessionRefused, ExitFailure, Goto
<1>10. ASSUME NEW p \in Processes, SessionFails(p) PROVE (PeersHoldTheSession /\ HoldersAreUp)'
  BY <1>10 DEF SessionFails, MayFail, ExitFailure, Goto
<1>11. ASSUME NEW p \in Processes, NewListenerFails(p) PROVE (PeersHoldTheSession /\ HoldersAreUp)'
  BY <1>11 DEF NewListenerFails, Goto
<1>12. ASSUME NEW p \in Processes, StartPeers(p) PROVE (PeersHoldTheSession /\ HoldersAreUp)'
  BY <1>12 DEF StartPeers, Goto
<1>13. ASSUME NEW p \in Processes, SelectDone(p) PROVE (PeersHoldTheSession /\ HoldersAreUp)'
  BY <1>13 DEF SelectDone, Selected, CancelListener, Goto
<1>14. ASSUME NEW p \in Processes, SelectListener(p) PROVE (PeersHoldTheSession /\ HoldersAreUp)'
  BY <1>14 DEF SelectListener, Selected, CancelScaler, ListenerEnded, Goto
<1>15. ASSUME NEW p \in Processes, SelectScaler(p) PROVE (PeersHoldTheSession /\ HoldersAreUp)'
  BY <1>15 DEF SelectScaler, Selected, CancelListener, ScalerEnded, Goto
<1>16. ASSUME NEW p \in Processes, StopListener(p) PROVE (PeersHoldTheSession /\ HoldersAreUp)'
  BY <1>16 DEF StopListener, CancelScaler, ListenerEnded, Goto
<1>17. ASSUME NEW p \in Processes, PeersReturn(p) PROVE (PeersHoldTheSession /\ HoldersAreUp)'
  BY <1>17 DEF PeersReturn, EvaluateResults, ListenerEnded, ScalerEnded, Goto
<1>18. ASSUME NEW p \in Processes, CloseSession(p) PROVE (PeersHoldTheSession /\ HoldersAreUp)'
  BY <1>18 DEF CloseSession, Closed, ClosesSession, Goto
<1>19. ASSUME NEW p \in Processes, CloseFails(p) PROVE (PeersHoldTheSession /\ HoldersAreUp)'
  BY <1>19 DEF CloseFails, Closed, ClosesSession, LeavesSession, Goto
<1>20. ASSUME NEW p \in Processes, DeleteScaleSet(p) PROVE (PeersHoldTheSession /\ HoldersAreUp)'
  BY <1>20 DEF DeleteScaleSet, Deleted, Goto
<1>21. ASSUME NEW p \in Processes, DeleteFails(p) PROVE (PeersHoldTheSession /\ HoldersAreUp)'
  BY <1>21 DEF DeleteFails, Deleted, Goto
<1>22. ASSUME NEW p \in Processes, Exit(p) PROVE (PeersHoldTheSession /\ HoldersAreUp)'
  BY <1>22 DEF Exit, Ends, Goto
<1>23. ASSUME NEW p \in Processes, MessageArrives(p) PROVE (PeersHoldTheSession /\ HoldersAreUp)'
  BY <1>23 DEF MessageArrives, ListenerBecomes
<1>24. ASSUME NEW p \in Processes, MessageHandled(p) PROVE (PeersHoldTheSession /\ HoldersAreUp)'
  BY <1>24 DEF MessageHandled, ListenerBecomes
<1>25. ASSUME NEW p \in Processes, ListenerCanceled(p) PROVE (PeersHoldTheSession /\ HoldersAreUp)'
  BY <1>25 DEF ListenerCanceled, ListenerBecomes
<1>26. ASSUME NEW p \in Processes, ListenerFails(p) PROVE (PeersHoldTheSession /\ HoldersAreUp)'
  BY <1>26 DEF ListenerFails, ListenerBecomes
<1>27. ASSUME NEW p \in Processes, ScalerCanceled(p) PROVE (PeersHoldTheSession /\ HoldersAreUp)'
  BY <1>27 DEF ScalerCanceled, ScalerBecomes
<1>28. ASSUME NEW p \in Processes, ScalerDrained(p) PROVE (PeersHoldTheSession /\ HoldersAreUp)'
  BY <1>28 DEF ScalerDrained, ScalerBecomes
<1>29. ASSUME NEW p \in Processes, ScalerProvisions(p) PROVE (PeersHoldTheSession /\ HoldersAreUp)'
  BY <1>29 DEF ScalerProvisions, ScalerCreates
<1>30. ASSUME NEW p \in Processes, ScalerRemoves(p) PROVE (PeersHoldTheSession /\ HoldersAreUp)'
  BY <1>30 DEF ScalerRemoves
<1>31. ASSUME NEW p \in Processes, Signal(p) PROVE (PeersHoldTheSession /\ HoldersAreUp)'
  BY <1>31 DEF Signal
<1>32. ASSUME NEW p \in Processes, Crash(p) PROVE (PeersHoldTheSession /\ HoldersAreUp)'
  BY <1>32 DEF Crash, Ends, Goto
<1>33. ASSUME NEW id \in Ids, SessionExpires(id) PROVE (PeersHoldTheSession /\ HoldersAreUp)'
  BY <1>33 DEF SessionExpires
<1>34. ASSUME NEW p \in Processes, CreationGivenUp(p) PROVE (PeersHoldTheSession /\ HoldersAreUp)'
  BY <1>34 DEF CreationGivenUp, ScalerCreates
<1>35. ASSUME NEW id \in Ids, CreationLands(id) PROVE (PeersHoldTheSession /\ HoldersAreUp)'
  BY <1>35 DEF CreationLands
<1>36. CASE UNCHANGED vars
  BY <1>36
<1> QED
  BY <1>1, <1>2, <1>3, <1>4, <1>5, <1>6, <1>7, <1>8, <1>9, <1>10, <1>11,
     <1>12, <1>13, <1>14, <1>15, <1>16, <1>17, <1>18, <1>19, <1>20, <1>21,
     <1>22, <1>23, <1>24, <1>25, <1>26, <1>27, <1>28, <1>29, <1>30, <1>31,
     <1>32, <1>33, <1>34, <1>35, <1>36 DEF Next, Ensure, Run, Listen, Scale

\* A listener that has ended stays so until its process has, too.
LEMMA ListenerInductive == IInv /\ [Next]_vars => ListenerEndsFirst'
<1> SUFFICES ASSUME IInv, [Next]_vars PROVE ListenerEndsFirst'
  OBVIOUS
<1> USE DEF IInv, TypeOK, PCs, Down, Ensuring, Running, vars,
        githubVars, oxideVars, platformVars, peerVars, resultVars, startVars,
        ListenerEndsFirst, ListenerEnded, ScalerEnded
<1>1. ASSUME NEW p \in Processes, Start(p) PROVE ListenerEndsFirst'
  BY <1>1 DEF Start, Goto
<1>2. ASSUME NEW p \in Processes, Adopt(p) PROVE ListenerEndsFirst'
  BY <1>2 DEF Adopt, Goto
<1>3. ASSUME NEW p \in Processes, NotFound(p) PROVE ListenerEndsFirst'
  BY <1>3 DEF NotFound, Goto
<1>4. ASSUME NEW p \in Processes, UpdateLabels(p) PROVE ListenerEndsFirst'
  BY <1>4 DEF UpdateLabels, UpdatesLabels, Goto
<1>5. ASSUME NEW p \in Processes, CreateScaleSet(p) PROVE ListenerEndsFirst'
  BY <1>5 DEF CreateScaleSet, CreatesScaleSet, Goto
<1>6. ASSUME NEW p \in Processes, EnsureFails(p) PROVE ListenerEndsFirst'
  BY <1>6 DEF EnsureFails, MayFail, ExitFailure, UpdatesLabels, CreatesScaleSet, Goto
<1>7. ASSUME NEW p \in Processes, EnsureRefused(p) PROVE ListenerEndsFirst'
  BY <1>7 DEF EnsureRefused, ExitFailure, Goto
<1>8. ASSUME NEW p \in Processes, OpenSession(p) PROVE ListenerEndsFirst'
  BY <1>8 DEF OpenSession, Goto
<1>9. ASSUME NEW p \in Processes, SessionRefused(p) PROVE ListenerEndsFirst'
  BY <1>9 DEF SessionRefused, ExitFailure, Goto
<1>10. ASSUME NEW p \in Processes, SessionFails(p) PROVE ListenerEndsFirst'
  BY <1>10 DEF SessionFails, MayFail, ExitFailure, Goto
<1>11. ASSUME NEW p \in Processes, NewListenerFails(p) PROVE ListenerEndsFirst'
  BY <1>11 DEF NewListenerFails, Goto
<1>12. ASSUME NEW p \in Processes, StartPeers(p) PROVE ListenerEndsFirst'
  BY <1>12 DEF StartPeers, Goto
<1>13. ASSUME NEW p \in Processes, SelectDone(p) PROVE ListenerEndsFirst'
  BY <1>13 DEF SelectDone, Selected, CancelListener, Goto
<1>14. ASSUME NEW p \in Processes, SelectListener(p) PROVE ListenerEndsFirst'
  BY <1>14 DEF SelectListener, Selected, CancelScaler, ListenerEnded, Goto
<1>15. ASSUME NEW p \in Processes, SelectScaler(p) PROVE ListenerEndsFirst'
  BY <1>15 DEF SelectScaler, Selected, CancelListener, ScalerEnded, Goto
<1>16. ASSUME NEW p \in Processes, StopListener(p) PROVE ListenerEndsFirst'
  BY <1>16 DEF StopListener, CancelScaler, ListenerEnded, Goto
<1>17. ASSUME NEW p \in Processes, PeersReturn(p) PROVE ListenerEndsFirst'
  BY <1>17 DEF PeersReturn, EvaluateResults, ListenerEnded, ScalerEnded, Goto
<1>18. ASSUME NEW p \in Processes, CloseSession(p) PROVE ListenerEndsFirst'
  BY <1>18 DEF CloseSession, Closed, ClosesSession, Goto
<1>19. ASSUME NEW p \in Processes, CloseFails(p) PROVE ListenerEndsFirst'
  BY <1>19 DEF CloseFails, Closed, ClosesSession, LeavesSession, Goto
<1>20. ASSUME NEW p \in Processes, DeleteScaleSet(p) PROVE ListenerEndsFirst'
  BY <1>20 DEF DeleteScaleSet, Deleted, Goto
<1>21. ASSUME NEW p \in Processes, DeleteFails(p) PROVE ListenerEndsFirst'
  BY <1>21 DEF DeleteFails, Deleted, Goto
<1>22. ASSUME NEW p \in Processes, Exit(p) PROVE ListenerEndsFirst'
  BY <1>22 DEF Exit, Ends, Goto
<1>23. ASSUME NEW p \in Processes, MessageArrives(p) PROVE ListenerEndsFirst'
  BY <1>23 DEF MessageArrives, ListenerBecomes
<1>24. ASSUME NEW p \in Processes, MessageHandled(p) PROVE ListenerEndsFirst'
  BY <1>24 DEF MessageHandled, ListenerBecomes
<1>25. ASSUME NEW p \in Processes, ListenerCanceled(p) PROVE ListenerEndsFirst'
  BY <1>25 DEF ListenerCanceled, ListenerBecomes
<1>26. ASSUME NEW p \in Processes, ListenerFails(p) PROVE ListenerEndsFirst'
  BY <1>26 DEF ListenerFails, ListenerBecomes
<1>27. ASSUME NEW p \in Processes, ScalerCanceled(p) PROVE ListenerEndsFirst'
  BY <1>27 DEF ScalerCanceled, ScalerBecomes
<1>28. ASSUME NEW p \in Processes, ScalerDrained(p) PROVE ListenerEndsFirst'
  BY <1>28 DEF ScalerDrained, ScalerBecomes
<1>29. ASSUME NEW p \in Processes, ScalerProvisions(p) PROVE ListenerEndsFirst'
  BY <1>29 DEF ScalerProvisions, ScalerCreates
<1>30. ASSUME NEW p \in Processes, ScalerRemoves(p) PROVE ListenerEndsFirst'
  BY <1>30 DEF ScalerRemoves
<1>31. ASSUME NEW p \in Processes, Signal(p) PROVE ListenerEndsFirst'
  BY <1>31 DEF Signal
<1>32. ASSUME NEW p \in Processes, Crash(p) PROVE ListenerEndsFirst'
  BY <1>32 DEF Crash, Ends, Goto
<1>33. ASSUME NEW id \in Ids, SessionExpires(id) PROVE ListenerEndsFirst'
  BY <1>33 DEF SessionExpires
<1>34. ASSUME NEW p \in Processes, CreationGivenUp(p) PROVE ListenerEndsFirst'
  BY <1>34 DEF CreationGivenUp, ScalerCreates
<1>35. ASSUME NEW id \in Ids, CreationLands(id) PROVE ListenerEndsFirst'
  BY <1>35 DEF CreationLands
<1>36. CASE UNCHANGED vars
  BY <1>36
<1> QED
  BY <1>1, <1>2, <1>3, <1>4, <1>5, <1>6, <1>7, <1>8, <1>9, <1>10, <1>11,
     <1>12, <1>13, <1>14, <1>15, <1>16, <1>17, <1>18, <1>19, <1>20, <1>21,
     <1>22, <1>23, <1>24, <1>25, <1>26, <1>27, <1>28, <1>29, <1>30, <1>31,
     <1>32, <1>33, <1>34, <1>35, <1>36 DEF Next, Ensure, Run, Listen, Scale

-----------------------------------------------------------------------------
\* Nothing runs at first.
LEMMA InitHolds == Init => IInv
BY ProcessesAssumption DEF Init, IInv, TypeOK, PCs, Down, Ensuring, Running, PeersHoldTheSession,
       HoldersAreUp, ListenerEndsFirst

\* The invariant holds in every state.
LEMMA Invariance == Spec => []IInv
<1>1. IInv /\ [Next]_vars => IInv'
  BY TypeInductive, SessionInductive, ListenerInductive DEF IInv
<1> QED
  BY InitHolds, <1>1, PTL DEF Spec

\* Type correctness of Controller.
THEOREM TypeCorrect == Spec => []TypeOK
<1>1. IInv => TypeOK
  BY DEF IInv
<1> QED
  BY Invariance, <1>1, PTL

\* At most one process scales a scale set, because the session is exclusive and
\* is closed only after the scaler has ended (runListenerAndScaler, Run).
THEOREM OneScaler == Spec => []OneScalerPerScaleSet
<1>1. IInv => OneScalerPerScaleSet
  BY DEF IInv, PeersHoldTheSession, OneScalerPerScaleSet
<1> QED
  BY Invariance, <1>1, PTL

\* A message that is being handled meets a scaler that was not told to stop.
THEOREM LiveScaler == Spec => []MessagesMeetALiveScaler
<1>1. IInv => MessagesMeetALiveScaler
  BY DEF IInv, ListenerEndsFirst, ListenerEnded, MessagesMeetALiveScaler
<1> QED
  BY Invariance, <1>1, PTL

-----------------------------------------------------------------------------
(* One process at a time.                                                  *)

\* Processes do not overlap, the one that has adopted a scale set is alone in
\* changing it, and an id that is not current marks nothing but what landed late.
\* A scaler that has drained its scale set was the last one to add to it.
OneActs ==
  /\ \A p, q \in Processes : pc[p] \notin Down /\ pc[q] \notin Down => p = q
  /\ \A p \in Processes :
       /\ pc[p] \notin Down \union {"lookup", "create", "return"} => scaleSet[p] = current
       /\ pc[p] = "create" => current = NoId
       /\ scaler[p] # "off" => pc[p] \in Running \union {"close", "delete", "return"}
       /\ deleteScaleSet[p] => scaler[p] = "drained"
       /\ scaler[p] = "drained" /\ scaleSet[p] \in resources => late[scaleSet[p]] = "landed"
       /\ pc[p] = "delete" => deleteScaleSet[p]
  /\ NoOrphanedResources

\* Deletion is the only step but a late landing that could leave resources
\* without a scale set.
LEMMA OneActsInductive == ~Overlap /\ IInv /\ OneActs /\ [Next]_vars => OneActs'
<1> SUFFICES ASSUME ~Overlap, IInv, OneActs, [Next]_vars PROVE OneActs'
  OBVIOUS
<1> USE ConstantsAssumption DEF IInv, TypeOK, PCs, Down, Ensuring, Running, vars,
        githubVars, oxideVars, platformVars, peerVars, resultVars, startVars,
        PeersHoldTheSession, OneActs, NoOrphanedResources, ScalerEnded
<1>1. ASSUME NEW p \in Processes, Start(p) PROVE OneActs'
  BY <1>1 DEF Start, Goto
<1>2. ASSUME NEW p \in Processes, Adopt(p) PROVE OneActs'
  BY <1>2 DEF Adopt, Goto
<1>3. ASSUME NEW p \in Processes, NotFound(p) PROVE OneActs'
  BY <1>3 DEF NotFound, Goto
<1>4. ASSUME NEW p \in Processes, UpdateLabels(p) PROVE OneActs'
  BY SMTT(20), <1>4 DEF UpdateLabels, UpdatesLabels, Goto
<1>5. ASSUME NEW p \in Processes, CreateScaleSet(p) PROVE OneActs'
  BY SMTT(20), <1>5 DEF CreateScaleSet, CreatesScaleSet, Goto
<1>6. ASSUME NEW p \in Processes, EnsureFails(p) PROVE OneActs'
  BY <1>6 DEF EnsureFails, MayFail, ExitFailure, UpdatesLabels, CreatesScaleSet, Goto
<1>7. ASSUME NEW p \in Processes, EnsureRefused(p) PROVE OneActs'
  BY <1>7 DEF EnsureRefused, ExitFailure, Goto
<1>8. ASSUME NEW p \in Processes, OpenSession(p) PROVE OneActs'
  BY <1>8 DEF OpenSession, Goto
<1>9. ASSUME NEW p \in Processes, SessionRefused(p) PROVE OneActs'
  BY <1>9 DEF SessionRefused, ExitFailure, Goto
<1>10. ASSUME NEW p \in Processes, SessionFails(p) PROVE OneActs'
  BY <1>10 DEF SessionFails, MayFail, ExitFailure, Goto
<1>11. ASSUME NEW p \in Processes, NewListenerFails(p) PROVE OneActs'
  BY <1>11 DEF NewListenerFails, Goto
<1>12. ASSUME NEW p \in Processes, StartPeers(p) PROVE OneActs'
  BY <1>12 DEF StartPeers, Goto
<1>13. ASSUME NEW p \in Processes, SelectDone(p) PROVE OneActs'
  BY <1>13 DEF SelectDone, Selected, CancelListener, Goto
<1>14. ASSUME NEW p \in Processes, SelectListener(p) PROVE OneActs'
  BY <1>14 DEF SelectListener, Selected, CancelScaler, ListenerEnded, Goto
<1>15. ASSUME NEW p \in Processes, SelectScaler(p) PROVE OneActs'
  BY <1>15 DEF SelectScaler, Selected, CancelListener, ScalerEnded, Goto
<1>16. ASSUME NEW p \in Processes, StopListener(p) PROVE OneActs'
  BY <1>16 DEF StopListener, CancelScaler, ListenerEnded, Goto
<1>17. ASSUME NEW p \in Processes, PeersReturn(p) PROVE OneActs'
  BY <1>17 DEF PeersReturn, EvaluateResults, ListenerEnded, ScalerEnded, Goto
<1>18. ASSUME NEW p \in Processes, CloseSession(p) PROVE OneActs'
  BY <1>18 DEF CloseSession, Closed, ClosesSession, Goto
<1>19. ASSUME NEW p \in Processes, CloseFails(p) PROVE OneActs'
  BY <1>19 DEF CloseFails, Closed, ClosesSession, LeavesSession, Goto
<1>20. ASSUME NEW p \in Processes, DeleteScaleSet(p) PROVE OneActs'
  BY <1>20 DEF DeleteScaleSet, Deleted, Goto
<1>21. ASSUME NEW p \in Processes, DeleteFails(p) PROVE OneActs'
  BY <1>21 DEF DeleteFails, Deleted, Goto
<1>22. ASSUME NEW p \in Processes, Exit(p) PROVE OneActs'
  BY <1>22 DEF Exit, Ends, Goto
<1>23. ASSUME NEW p \in Processes, MessageArrives(p) PROVE OneActs'
  BY <1>23 DEF MessageArrives, ListenerBecomes
<1>24. ASSUME NEW p \in Processes, MessageHandled(p) PROVE OneActs'
  BY <1>24 DEF MessageHandled, ListenerBecomes
<1>25. ASSUME NEW p \in Processes, ListenerCanceled(p) PROVE OneActs'
  BY <1>25 DEF ListenerCanceled, ListenerBecomes
<1>26. ASSUME NEW p \in Processes, ListenerFails(p) PROVE OneActs'
  BY <1>26 DEF ListenerFails, ListenerBecomes
<1>27. ASSUME NEW p \in Processes, ScalerCanceled(p) PROVE OneActs'
  BY <1>27 DEF ScalerCanceled, ScalerBecomes
<1>28. ASSUME NEW p \in Processes, ScalerDrained(p) PROVE OneActs'
  BY <1>28 DEF ScalerDrained, ScalerBecomes
<1>29. ASSUME NEW p \in Processes, ScalerProvisions(p) PROVE OneActs'
  BY <1>29 DEF ScalerProvisions, ScalerCreates
<1>30. ASSUME NEW p \in Processes, ScalerRemoves(p) PROVE OneActs'
  BY <1>30 DEF ScalerRemoves
<1>31. ASSUME NEW p \in Processes, Signal(p) PROVE OneActs'
  BY <1>31 DEF Signal
<1>32. ASSUME NEW p \in Processes, Crash(p) PROVE OneActs'
  BY <1>32 DEF Crash, Ends, Goto
<1>33. ASSUME NEW id \in Ids, SessionExpires(id) PROVE OneActs'
  BY <1>33 DEF SessionExpires
<1>34. ASSUME NEW p \in Processes, CreationGivenUp(p) PROVE OneActs'
  BY SMTT(20), <1>34 DEF CreationGivenUp, ScalerCreates
<1>35. ASSUME NEW id \in Ids, CreationLands(id) PROVE OneActs'
  BY <1>35 DEF CreationLands
<1>36. CASE UNCHANGED vars
  BY <1>36
<1> QED
  BY <1>1, <1>2, <1>3, <1>4, <1>5, <1>6, <1>7, <1>8, <1>9, <1>10, <1>11,
     <1>12, <1>13, <1>14, <1>15, <1>16, <1>17, <1>18, <1>19, <1>20, <1>21,
     <1>22, <1>23, <1>24, <1>25, <1>26, <1>27, <1>28, <1>29, <1>30, <1>31,
     <1>32, <1>33, <1>34, <1>35, <1>36 DEF Next, Ensure, Run, Listen, Scale

\* Without overlapping processes, what the prefix of a scale set marks on Oxide
\* belongs to the scale set that exists, whatever fails, dies or is told to stop,
\* unless a creation that a scaler gave up on has landed under it: a scale set is
\* deleted only after its scaler has found nothing left (Run, controller.go).
THEOREM NothingIsOrphaned == ~Overlap /\ Spec => []NoOrphanedResources
<1> SUFFICES ASSUME ~Overlap PROVE Spec => []NoOrphanedResources
  OBVIOUS
<1>1. Init => OneActs
  BY ConstantsAssumption DEF Init, OneActs, Down, Running, NoOrphanedResources
<1>2. IInv /\ OneActs /\ [Next]_vars => OneActs'
  BY OneActsInductive
<1>3. OneActs => NoOrphanedResources
  BY DEF OneActs
<1> QED
  BY Invariance, <1>1, <1>2, <1>3, PTL DEF Spec

\* A scale set goes only when a process deletes it.
LEMMA CurrentChanges ==
  ASSUME [Next]_vars, current # NoId, current' # current
  PROVE  \E p \in Processes : DeleteScaleSet(p) \/ DeleteFails(p)
<1> USE DEF vars, githubVars, oxideVars, platformVars
<1>1. ASSUME NEW p \in Processes, Ensure(p) PROVE FALSE
  BY <1>1 DEF Ensure, Start, Adopt, NotFound, UpdateLabels, UpdatesLabels, CreateScaleSet,
              CreatesScaleSet, EnsureFails, EnsureRefused, OpenSession, SessionRefused,
              SessionFails
<1>2. ASSUME NEW p \in Processes, Listen(p) \/ Scale(p) \/ Signal(p) \/ Crash(p) PROVE FALSE
  BY <1>2 DEF Listen, MessageArrives, MessageHandled, ListenerCanceled, ListenerFails,
              ListenerBecomes, Scale, ScalerCanceled, ScalerDrained, ScalerBecomes,
              ScalerProvisions, CreationGivenUp, ScalerCreates, ScalerRemoves, Signal,
              Crash, Ends
<1>3. ASSUME NEW p \in Processes, Run(p) PROVE DeleteScaleSet(p) \/ DeleteFails(p)
  BY <1>3 DEF Run, NewListenerFails, StartPeers, SelectDone, SelectListener, SelectScaler,
              Selected, StopListener, PeersReturn, CloseSession, CloseFails, Closed, Exit, Ends
<1>4. ASSUME NEW id \in Ids, SessionExpires(id) \/ CreationLands(id) PROVE FALSE
  BY <1>4 DEF SessionExpires, CreationLands
<1> QED
  BY <1>1, <1>2, <1>3, <1>4 DEF Next

\* Without overlapping processes, the session of a scale set is closed, or given
\* up, before the scale set is deleted: whoever holds a session has not come to
\* the deletion yet, and nobody else is up (the deferred cleanup of Run).
THEOREM SessionIsFirst == ~Overlap /\ Spec => SessionClosesFirst
<1> SUFFICES ASSUME ~Overlap PROVE Spec => SessionClosesFirst
  OBVIOUS
<1>1. Init => OneActs
  BY ConstantsAssumption DEF Init, OneActs, Down, Running, NoOrphanedResources
<1>2. IInv /\ OneActs /\ [Next]_vars => OneActs'
  BY OneActsInductive
<1>3. ASSUME IInv, OneActs, [Next]_vars, NEW id \in Ids, current = id, current' # id
      PROVE  session[id] \notin Processes
  <2>1. current # NoId
    BY <1>3, ConstantsAssumption
  <2>2. PICK p \in Processes : DeleteScaleSet(p) \/ DeleteFails(p)
    BY <1>3, <2>1, CurrentChanges
  <2>3. pc[p] = "delete"
    BY <2>2 DEF DeleteScaleSet, DeleteFails, Deleted
  <2>4. ASSUME NEW q \in Processes, session[id] = q PROVE FALSE
    <3>1. pc[q] \in Running \union {"listener", "close"}
      BY <1>3, <2>4 DEF IInv, HoldersAreUp
    <3>2. p = q
      BY <1>3, <2>3, <3>1 DEF OneActs, Down, Running
    <3> QED BY <2>3, <3>1, <3>2 DEF Running
  <2> QED BY <2>4
<1>4. IInv /\ OneActs /\ [Next]_vars =>
        [\A id \in Ids : current = id /\ current' # id => session[id] \notin Processes]_vars
  BY <1>3
<1> QED
  BY Invariance, <1>1, <1>2, <1>4, PTL DEF Spec, SessionClosesFirst

-----------------------------------------------------------------------------
(* What a nil error of Run means.                                          *)

\* Each context is canceled for a reason, an end without an error has one of two
\* reasons, and a session that was closed without an error is free.
EarnsNil(p) ==
  /\ listener[p] = "canceled" => listenerCtx[p]
  /\ scaler[p] = "canceled" => scalerCtx[p]
  /\ scaler[p] = "drained" => config[p].drain
  /\ pc[p] = "select" => ~scalerCtx[p]
  /\ listenerCtx[p] => /\ ctxDone[p] \/ scaler[p] = "drained"
                       /\ pc[p] \in Running \union {"close", "delete", "return"}
  /\ pc[p] \in {"close", "delete", "return"} /\ ~err[p] => deleteScaleSet[p] \/ ctxDone[p]
  /\ pc[p] \in {"delete", "return"} /\ ~err[p] => session[scaleSet[p]] = "free"
  /\ pc[p] = "return" /\ deleteScaleSet[p] /\ ~err[p] => current # scaleSet[p]

NilIsEarned == \A p \in Processes : EarnsNil(p)

\* While one process acts, the others are down and keep what they ended with.
LEMMA OthersKeep ==
  ASSUME TypeOK, OneActs, NilIsEarned, NEW p \in Processes, NEW q \in Processes, q # p,
         pc[p] \notin Down, NEW there, Goto(p, there),
         UNCHANGED <<config, ctxDone, listener, listenerCtx, scaler, scalerCtx>>
  PROVE  EarnsNil(q)'
<1>1. pc[q] \in Down
  BY DEF OneActs
<1>2. pc'[q] = pc[q]
  BY DEF Goto, TypeOK
<1>3. EarnsNil(q)
  BY DEF NilIsEarned
<1> QED
  BY <1>1, <1>2, <1>3 DEF EarnsNil, Down, Running

\* An error is never forgotten, and what a nil error rests on is not undone.
LEMMA NilIsEarnedInductive ==
  ~Overlap /\ IInv /\ OneActs /\ NilIsEarned /\ [Next]_vars => NilIsEarned'
<1> SUFFICES ASSUME ~Overlap, IInv, OneActs, NilIsEarned, [Next]_vars PROVE NilIsEarned'
  OBVIOUS
<1> USE ConstantsAssumption DEF IInv, TypeOK, PCs, Down, Ensuring, Running, vars,
        githubVars, oxideVars, platformVars, peerVars, resultVars, startVars,
        PeersHoldTheSession, ListenerEndsFirst, OneActs, NilIsEarned, EarnsNil, ListenerEnded,
        ScalerEnded
<1>1. ASSUME NEW p \in Processes, Start(p) PROVE NilIsEarned'
  BY <1>1 DEF Start, Goto
<1>2. ASSUME NEW p \in Processes, Adopt(p) PROVE NilIsEarned'
  BY <1>2 DEF Adopt, Goto
<1>3. ASSUME NEW p \in Processes, NotFound(p) PROVE NilIsEarned'
  BY <1>3 DEF NotFound, Goto
<1>4. ASSUME NEW p \in Processes, UpdateLabels(p) PROVE NilIsEarned'
  BY <1>4 DEF UpdateLabels, UpdatesLabels, Goto
<1>5. ASSUME NEW p \in Processes, CreateScaleSet(p) PROVE NilIsEarned'
  <2>1. pc[p] \notin Down /\ \E there : Goto(p, there)
    BY <1>5 DEF CreateScaleSet, CreatesScaleSet
  <2>2. UNCHANGED <<config, ctxDone, listener, listenerCtx, scaler, scalerCtx>>
    BY <1>5 DEF CreateScaleSet, CreatesScaleSet
  <2>3. ASSUME NEW q \in Processes, q # p PROVE EarnsNil(q)'
    <3> HIDE DEF TypeOK, OneActs, NilIsEarned, EarnsNil, Down
    <3> QED
      BY <2>1, <2>2, <2>3, OthersKeep DEF IInv
  <2>4. EarnsNil(p)'
    <3>1. pc[p] = "create" /\ pc'[p] = "session" /\ EarnsNil(p)
      BY <1>5 DEF CreateScaleSet, Goto
    <3> HIDE DEF TypeOK, OneActs, NilIsEarned
    <3> QED
      BY <2>2, <3>1
  <2> HIDE DEF EarnsNil, TypeOK, OneActs
  <2> QED
    BY <2>3, <2>4 DEF NilIsEarned
<1>6. ASSUME NEW p \in Processes, EnsureFails(p) PROVE NilIsEarned'
  <2>1. pc[p] \notin Down /\ \E there : Goto(p, there)
    BY <1>6 DEF EnsureFails, ExitFailure, UpdatesLabels, CreatesScaleSet
  <2>2. UNCHANGED <<config, ctxDone, listener, listenerCtx, scaler, scalerCtx>>
    BY <1>6 DEF EnsureFails, ExitFailure, UpdatesLabels, CreatesScaleSet
  <2>3. ASSUME NEW q \in Processes, q # p PROVE EarnsNil(q)'
    <3> HIDE DEF TypeOK, OneActs, NilIsEarned, EarnsNil, Down
    <3> QED
      BY <2>1, <2>2, <2>3, OthersKeep DEF IInv
  <2>4. EarnsNil(p)'
    <3>1. pc[p] \in Ensuring /\ pc'[p] = "exited" /\ EarnsNil(p)
      BY <1>6 DEF EnsureFails, ExitFailure, Goto
    <3> HIDE DEF TypeOK, OneActs, NilIsEarned
    <3> QED
      BY <2>2, <3>1
  <2> HIDE DEF EarnsNil, TypeOK, OneActs
  <2> QED
    BY <2>3, <2>4 DEF NilIsEarned
<1>7. ASSUME NEW p \in Processes, EnsureRefused(p) PROVE NilIsEarned'
  BY <1>7 DEF EnsureRefused, ExitFailure, Goto
<1>8. ASSUME NEW p \in Processes, OpenSession(p) PROVE NilIsEarned'
  <2>1. pc[p] \notin Down /\ \E there : Goto(p, there)
    BY <1>8 DEF OpenSession
  <2>2. UNCHANGED <<config, ctxDone, listener, listenerCtx, scaler, scalerCtx>>
    BY <1>8 DEF OpenSession
  <2>3. ASSUME NEW q \in Processes, q # p PROVE EarnsNil(q)'
    <3> HIDE DEF TypeOK, OneActs, NilIsEarned, EarnsNil, Down
    <3> QED
      BY <2>1, <2>2, <2>3, OthersKeep DEF IInv
  <2>4. EarnsNil(p)'
    BY <1>8 DEF OpenSession, Goto
  <2> HIDE DEF EarnsNil, TypeOK, OneActs
  <2> QED
    BY <2>3, <2>4 DEF NilIsEarned
<1>9. ASSUME NEW p \in Processes, SessionRefused(p) PROVE NilIsEarned'
  BY <1>9 DEF SessionRefused, ExitFailure, Goto
<1>10. ASSUME NEW p \in Processes, SessionFails(p) PROVE NilIsEarned'
  <2>1. pc[p] \notin Down /\ \E there : Goto(p, there)
    BY <1>10 DEF SessionFails, MayFail, ExitFailure
  <2>2. UNCHANGED <<config, ctxDone, listener, listenerCtx, scaler, scalerCtx>>
    BY <1>10 DEF SessionFails, MayFail, ExitFailure
  <2>3. ASSUME NEW q \in Processes, q # p PROVE EarnsNil(q)'
    <3> HIDE DEF TypeOK, OneActs, NilIsEarned, EarnsNil, Down
    <3> QED
      BY <2>1, <2>2, <2>3, OthersKeep DEF IInv
  <2>4. EarnsNil(p)'
    <3>1. pc[p] = "session" /\ pc'[p] = "exited" /\ EarnsNil(p)
      <4>1. pc[p] = "session" /\ pc' = [pc EXCEPT ![p] = "exited"]
        BY <1>10 DEF SessionFails, ExitFailure, Goto
      <4> QED
        BY <4>1
    <3> HIDE DEF TypeOK, OneActs, NilIsEarned
    <3> QED
      BY <2>2, <3>1
  <2> HIDE DEF EarnsNil, TypeOK, OneActs
  <2> QED
    BY <2>3, <2>4 DEF NilIsEarned
<1>11. ASSUME NEW p \in Processes, NewListenerFails(p) PROVE NilIsEarned'
  BY <1>11 DEF NewListenerFails, Goto
<1>12. ASSUME NEW p \in Processes, StartPeers(p) PROVE NilIsEarned'
  BY <1>12 DEF StartPeers, Goto
<1>13. ASSUME NEW p \in Processes, SelectDone(p) PROVE NilIsEarned'
  BY <1>13 DEF SelectDone, Selected, CancelListener, Goto
<1>14. ASSUME NEW p \in Processes, SelectListener(p) PROVE NilIsEarned'
  BY <1>14 DEF SelectListener, Selected, CancelScaler, ListenerEnded, Goto
<1>15. ASSUME NEW p \in Processes, SelectScaler(p) PROVE NilIsEarned'
  BY <1>15 DEF SelectScaler, Selected, CancelListener, ScalerEnded, Goto
<1>16. ASSUME NEW p \in Processes, StopListener(p) PROVE NilIsEarned'
  BY <1>16 DEF StopListener, CancelScaler, ListenerEnded, Goto
<1>17. ASSUME NEW p \in Processes, PeersReturn(p) PROVE NilIsEarned'
  BY <1>17 DEF PeersReturn, EvaluateResults, ListenerEnded, ScalerEnded, Goto
<1>18. ASSUME NEW p \in Processes, CloseSession(p) PROVE NilIsEarned'
  <2>1. pc[p] \notin Down /\ \E there : Goto(p, there)
    BY <1>18 DEF CloseSession, Closed, ClosesSession
  <2>2. UNCHANGED <<config, ctxDone, listener, listenerCtx, scaler, scalerCtx>>
    BY <1>18 DEF CloseSession, Closed, ClosesSession
  <2>3. ASSUME NEW q \in Processes, q # p PROVE EarnsNil(q)'
    <3> HIDE DEF TypeOK, OneActs, NilIsEarned, EarnsNil, Down
    <3> QED
      BY <2>1, <2>2, <2>3, OthersKeep DEF IInv
  <2>4. EarnsNil(p)'
    <3>1. /\ pc[p] = "close" /\ pc'[p] = IF deleteScaleSet[p] THEN "delete" ELSE "return"
          /\ EarnsNil(p) /\ UNCHANGED <<err, deleteScaleSet, scaleSet>>
      BY <1>18 DEF CloseSession, Closed, Goto
    <3>2. scaleSet[p] \in Ids /\ session[scaleSet[p]] = p
      BY <3>1
    <3>3. session'[scaleSet[p]] = "free"
      <4> HIDE DEF PeersHoldTheSession, OneActs, NilIsEarned, EarnsNil
      <4> QED
        BY <1>18, <3>2 DEF CloseSession, ClosesSession
    <3> HIDE DEF TypeOK, OneActs, NilIsEarned
    <3> QED
      BY <2>2, <3>1, <3>3
  <2> HIDE DEF EarnsNil, TypeOK, OneActs
  <2> QED
    BY <2>3, <2>4 DEF NilIsEarned
<1>19. ASSUME NEW p \in Processes, CloseFails(p) PROVE NilIsEarned'
  <2>1. pc[p] \notin Down /\ \E there : Goto(p, there)
    BY <1>19 DEF CloseFails, Closed, ClosesSession, LeavesSession
  <2>2. UNCHANGED <<config, ctxDone, listener, listenerCtx, scaler, scalerCtx>>
    BY <1>19 DEF CloseFails, Closed, ClosesSession, LeavesSession
  <2>3. ASSUME NEW q \in Processes, q # p PROVE EarnsNil(q)'
    <3> HIDE DEF TypeOK, OneActs, NilIsEarned, EarnsNil, Down
    <3> QED
      BY <2>1, <2>2, <2>3, OthersKeep DEF IInv
  <2>4. EarnsNil(p)'
    BY <1>19 DEF CloseFails, Closed, ClosesSession, LeavesSession, Goto
  <2> HIDE DEF EarnsNil, TypeOK, OneActs
  <2> QED
    BY <2>3, <2>4 DEF NilIsEarned
<1>20. ASSUME NEW p \in Processes, DeleteScaleSet(p) PROVE NilIsEarned'
  <2>1. pc[p] \notin Down /\ \E there : Goto(p, there)
    BY <1>20 DEF DeleteScaleSet, Deleted
  <2>2. UNCHANGED <<config, ctxDone, listener, listenerCtx, scaler, scalerCtx>>
    BY <1>20 DEF DeleteScaleSet, Deleted
  <2>3. ASSUME NEW q \in Processes, q # p PROVE EarnsNil(q)'
    <3> HIDE DEF TypeOK, OneActs, NilIsEarned, EarnsNil, Down
    <3> QED
      BY <2>1, <2>2, <2>3, OthersKeep DEF IInv
  <2>4. EarnsNil(p)'
    <3>1. /\ pc[p] = "delete" /\ pc'[p] = "return" /\ EarnsNil(p)
          /\ UNCHANGED <<session, err, deleteScaleSet, scaleSet>>
      BY <1>20 DEF DeleteScaleSet, Deleted, Goto
    <3>2. current' # scaleSet[p]
      BY <1>20 DEF DeleteScaleSet, Deleted
    <3> HIDE DEF TypeOK, OneActs, NilIsEarned
    <3> QED
      BY <2>2, <3>1, <3>2
  <2> HIDE DEF EarnsNil, TypeOK, OneActs
  <2> QED
    BY <2>3, <2>4 DEF NilIsEarned
<1>21. ASSUME NEW p \in Processes, DeleteFails(p) PROVE NilIsEarned'
  <2>1. pc[p] \notin Down /\ \E there : Goto(p, there)
    BY <1>21 DEF DeleteFails, Deleted
  <2>2. UNCHANGED <<config, ctxDone, listener, listenerCtx, scaler, scalerCtx>>
    BY <1>21 DEF DeleteFails, Deleted
  <2>3. ASSUME NEW q \in Processes, q # p PROVE EarnsNil(q)'
    <3> HIDE DEF TypeOK, OneActs, NilIsEarned, EarnsNil, Down
    <3> QED
      BY <2>1, <2>2, <2>3, OthersKeep DEF IInv
  <2>4. EarnsNil(p)'
    BY <1>21 DEF DeleteFails, Deleted, Goto
  <2> HIDE DEF EarnsNil, TypeOK, OneActs
  <2> QED
    BY <2>3, <2>4 DEF NilIsEarned
<1>22. ASSUME NEW p \in Processes, Exit(p) PROVE NilIsEarned'
  BY <1>22 DEF Exit, Ends, Goto
<1>23. ASSUME NEW p \in Processes, MessageArrives(p) PROVE NilIsEarned'
  BY <1>23 DEF MessageArrives, ListenerBecomes
<1>24. ASSUME NEW p \in Processes, MessageHandled(p) PROVE NilIsEarned'
  BY <1>24 DEF MessageHandled, ListenerBecomes
<1>25. ASSUME NEW p \in Processes, ListenerCanceled(p) PROVE NilIsEarned'
  BY <1>25 DEF ListenerCanceled, ListenerBecomes
<1>26. ASSUME NEW p \in Processes, ListenerFails(p) PROVE NilIsEarned'
  BY <1>26 DEF ListenerFails, ListenerBecomes
<1>27. ASSUME NEW p \in Processes, ScalerCanceled(p) PROVE NilIsEarned'
  BY <1>27 DEF ScalerCanceled, ScalerBecomes
<1>28. ASSUME NEW p \in Processes, ScalerDrained(p) PROVE NilIsEarned'
  BY <1>28 DEF ScalerDrained, ScalerBecomes
<1>29. ASSUME NEW p \in Processes, ScalerProvisions(p) PROVE NilIsEarned'
  BY <1>29 DEF ScalerProvisions, ScalerCreates
<1>30. ASSUME NEW p \in Processes, ScalerRemoves(p) PROVE NilIsEarned'
  BY <1>30 DEF ScalerRemoves
<1>31. ASSUME NEW p \in Processes, Signal(p) PROVE NilIsEarned'
  BY <1>31 DEF Signal
<1>32. ASSUME NEW p \in Processes, Crash(p) PROVE NilIsEarned'
  <2>1. ASSUME NEW q \in Processes, q # p PROVE EarnsNil(q)'
    <3>1. pc'[q] = pc[q] /\ pc[q] \in Down
      BY <1>32, <2>1 DEF Crash, Goto
    <3>2. /\ listener'[q] = listener[q] /\ listenerCtx'[q] = listenerCtx[q]
          /\ scaler'[q] = scaler[q] /\ scalerCtx'[q] = scalerCtx[q]
          /\ config' = config /\ ctxDone' = ctxDone
      BY <1>32, <2>1 DEF Crash, Ends
    <3>3. EarnsNil(q)
      BY DEF NilIsEarned
    <3> HIDE DEF TypeOK, OneActs, NilIsEarned
    <3> QED
      BY <3>1, <3>2, <3>3
  <2>2. EarnsNil(p)'
    BY <1>32 DEF Crash, Ends, Goto
  <2> HIDE DEF EarnsNil, TypeOK, OneActs
  <2> QED
    BY <2>1, <2>2 DEF NilIsEarned
<1>33. ASSUME NEW id \in Ids, SessionExpires(id) PROVE NilIsEarned'
  BY <1>33 DEF SessionExpires
<1>34. ASSUME NEW p \in Processes, CreationGivenUp(p) PROVE NilIsEarned'
  BY <1>34 DEF CreationGivenUp, ScalerCreates
<1>35. ASSUME NEW id \in Ids, CreationLands(id) PROVE NilIsEarned'
  BY <1>35 DEF CreationLands
<1>36. CASE UNCHANGED vars
  BY <1>36
<1> QED
  BY <1>1, <1>2, <1>3, <1>4, <1>5, <1>6, <1>7, <1>8, <1>9, <1>10, <1>11,
     <1>12, <1>13, <1>14, <1>15, <1>16, <1>17, <1>18, <1>19, <1>20, <1>21,
     <1>22, <1>23, <1>24, <1>25, <1>26, <1>27, <1>28, <1>29, <1>30, <1>31,
     <1>32, <1>33, <1>34, <1>35, <1>36 DEF Next, Ensure, Run, Listen, Scale

\* A process that runs alone returns no error only if it was told to stop, or has
\* drained and deleted its scale set, and has closed its session (Run, main).
THEOREM NilMeansDone == ~Overlap /\ Spec => []SuccessMeansDone
<1> SUFFICES ASSUME ~Overlap PROVE Spec => []SuccessMeansDone
  OBVIOUS
<1>1. Init => OneActs /\ NilIsEarned
  BY ConstantsAssumption DEF Init, OneActs, Down, Running, NoOrphanedResources, NilIsEarned, EarnsNil
<1>2. IInv /\ OneActs /\ [Next]_vars => OneActs'
  BY OneActsInductive
<1>3. IInv /\ OneActs /\ NilIsEarned /\ [Next]_vars => NilIsEarned'
  BY NilIsEarnedInductive
<1>4. OneActs /\ NilIsEarned => SuccessMeansDone
  BY DEF OneActs, NilIsEarned, EarnsNil, SuccessMeansDone
<1> QED
  BY Invariance, <1>1, <1>2, <1>3, <1>4, PTL DEF Spec

=============================================================================
