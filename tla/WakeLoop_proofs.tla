--------------------------- MODULE WakeLoop_proofs ---------------------------
(***************************************************************************)
(* No news is lost and no deadline is forgotten, for any number of         *)
(* callers, pieces of work and any delays.                                 *)
(***************************************************************************)
EXTENDS WakeLoop, TLAPS

\* Nobody asks for more than a retry, a window is never longer than it was
\* opened, and what a reconciliation leaves pending has asked for its end.
WorkIsScheduled ==
  /\ nextReconcile \in {None} \union 0 .. RetryDelay
  /\ \A w \in Work : window[w] <= CancellationDelay
  /\ pc = "act" /\ pending \ todo # {} => nextReconcile # None
  /\ pc = "select" /\ pending # {} => nextReconcile # None

IInv == TypeOK /\ NoLostWakeup /\ EarliestDeadlineKept /\ WorkIsScheduled

-----------------------------------------------------------------------------
\* Every step keeps the types.
LEMMA TypeInductive == TypeOK /\ [Next]_vars => TypeOK'
<1> SUFFICES ASSUME TypeOK, [Next]_vars PROVE TypeOK'
  OBVIOUS
<1> USE DelaysAssumption DEF TypeOK, Times, None, vars, listenerVars, resultVars, workVars, timeVars
<1>1. CASE Enter
  BY <1>1 DEF Enter
<1>2. CASE StartReconcile
  <2>1. pending' \subseteq Work /\ window' \in [Work -> Nat]
    <3>1. PICK started, completed \in SUBSET Work :
            /\ pending' = (pending \ started) \union completed
            /\ window' = [w \in Work |-> IF w \in started \union completed THEN 0 ELSE window[w]]
      BY <1>2 DEF StartReconcile
    <3> QED
      BY <3>1
  <2>2. asked' \in [Work -> Times] /\ nextReconcile' \in Times /\ budget' \in Nat
    BY <1>2 DEF StartReconcile
  <2> QED
    BY <1>2, <2>1, <2>2 DEF StartReconcile
<1>3. CASE ObserveFails
  BY <1>3 DEF ObserveFails, RequestReconcile, Earlier, Wait
<1>4. CASE Plan
  BY <1>4 DEF Plan, RequestReconcile, Earlier
<1>5. ASSUME NEW w \in Work, Drive(w) PROVE TypeOK'
  BY <1>5 DEF Drive, Asks, RequestReconcile, Earlier
<1>6. CASE ScaleUp
  BY <1>6 DEF ScaleUp, EndReconcile, Earlier, Wait
<1>7. CASE ScaleDown
  BY <1>7 DEF ScaleDown, EndReconcile, Earlier, Wait
<1>8. CASE Drained
  BY <1>8 DEF Drained
<1>9. CASE SelectDone
  BY <1>9 DEF SelectDone, Selected
<1>10. CASE SelectWake
  BY <1>10 DEF SelectWake, Selected
<1>11. CASE SelectDeadline
  BY <1>11 DEF SelectDeadline, Selected
<1>12. CASE SelectTicker
  BY <1>12 DEF SelectTicker, Selected
<1>13. CASE Recheck
  BY <1>13 DEF Recheck
<1>14. ASSUME NEW c \in Callers, Record(c) PROVE TypeOK'
  BY <1>14 DEF Record
<1>15. ASSUME NEW c \in Callers, Wake(c) PROVE TypeOK'
  BY <1>15 DEF Wake
<1>16. CASE Cancel
  BY <1>16 DEF Cancel, Over
<1>17. CASE TimePasses
  BY <1>17 DEF TimePasses, Sooner, NothingReady
<1>18. CASE UNCHANGED vars
  BY <1>18
<1> QED
  BY <1>1, <1>2, <1>3, <1>4, <1>5, <1>6, <1>7, <1>8, <1>9, <1>10, <1>11,
     <1>12, <1>13, <1>14, <1>15, <1>16, <1>17, <1>18 DEF Next, Run,
     Reconcile, Listen

\* News is written before the token is sent, and taken after it was received.
LEMMA WakeupInductive == TypeOK /\ NoLostWakeup /\ [Next]_vars => NoLostWakeup'
<1> SUFFICES ASSUME TypeOK, NoLostWakeup, [Next]_vars PROVE NoLostWakeup'
  OBVIOUS
<1> USE DelaysAssumption DEF TypeOK, Times, None, vars, listenerVars, resultVars, workVars, timeVars,
        NoLostWakeup
<1>1. CASE Enter
  BY <1>1 DEF Enter
<1>2. CASE StartReconcile
  BY <1>2 DEF StartReconcile
<1>3. CASE ObserveFails
  BY <1>3 DEF ObserveFails, RequestReconcile, Earlier, Wait
<1>4. CASE Plan
  BY <1>4 DEF Plan, RequestReconcile, Earlier
<1>5. ASSUME NEW w \in Work, Drive(w) PROVE NoLostWakeup'
  BY <1>5 DEF Drive, Asks, RequestReconcile, Earlier
<1>6. CASE ScaleUp
  BY <1>6 DEF ScaleUp, EndReconcile, Earlier, Wait
<1>7. CASE ScaleDown
  BY <1>7 DEF ScaleDown, EndReconcile, Earlier, Wait
<1>8. CASE Drained
  BY <1>8 DEF Drained
<1>9. CASE SelectDone
  BY <1>9 DEF SelectDone, Selected
<1>10. CASE SelectWake
  BY <1>10 DEF SelectWake, Selected
<1>11. CASE SelectDeadline
  BY <1>11 DEF SelectDeadline, Selected
<1>12. CASE SelectTicker
  BY <1>12 DEF SelectTicker, Selected
<1>13. CASE Recheck
  BY <1>13 DEF Recheck
<1>14. ASSUME NEW c \in Callers, Record(c) PROVE NoLostWakeup'
  BY <1>14 DEF Record
<1>15. ASSUME NEW c \in Callers, Wake(c) PROVE NoLostWakeup'
  BY <1>15 DEF Wake
<1>16. CASE Cancel
  BY <1>16 DEF Cancel, Over
<1>17. CASE TimePasses
  BY <1>17 DEF TimePasses, Sooner, NothingReady
<1>18. CASE UNCHANGED vars
  BY <1>18
<1> QED
  BY <1>1, <1>2, <1>3, <1>4, <1>5, <1>6, <1>7, <1>8, <1>9, <1>10, <1>11,
     <1>12, <1>13, <1>14, <1>15, <1>16, <1>17, <1>18 DEF Next, Run,
     Reconcile, Listen

\* A later request never replaces an earlier one, and time passes for both.
LEMMA DeadlineInductive == TypeOK /\ EarliestDeadlineKept /\ [Next]_vars => EarliestDeadlineKept'
<1> SUFFICES ASSUME TypeOK, EarliestDeadlineKept, [Next]_vars PROVE EarliestDeadlineKept'
  OBVIOUS
<1> USE DelaysAssumption DEF TypeOK, Times, None, vars, listenerVars, resultVars, workVars, timeVars,
        EarliestDeadlineKept
<1>1. CASE Enter
  BY <1>1 DEF Enter
<1>2. CASE StartReconcile
  BY <1>2 DEF StartReconcile
<1>3. CASE ObserveFails
  BY <1>3 DEF ObserveFails, RequestReconcile, Earlier, Wait
<1>4. CASE Plan
  BY <1>4 DEF Plan, RequestReconcile, Earlier
<1>5. ASSUME NEW w \in Work, Drive(w) PROVE EarliestDeadlineKept'
  BY <1>5 DEF Drive, Asks, RequestReconcile, Earlier
<1>6. CASE ScaleUp
  BY <1>6 DEF ScaleUp, EndReconcile, Earlier, Wait
<1>7. CASE ScaleDown
  BY <1>7 DEF ScaleDown, EndReconcile, Earlier, Wait
<1>8. CASE Drained
  BY <1>8 DEF Drained
<1>9. CASE SelectDone
  BY <1>9 DEF SelectDone, Selected
<1>10. CASE SelectWake
  BY <1>10 DEF SelectWake, Selected
<1>11. CASE SelectDeadline
  BY <1>11 DEF SelectDeadline, Selected
<1>12. CASE SelectTicker
  BY <1>12 DEF SelectTicker, Selected
<1>13. CASE Recheck
  BY <1>13 DEF Recheck
<1>14. ASSUME NEW c \in Callers, Record(c) PROVE EarliestDeadlineKept'
  BY <1>14 DEF Record
<1>15. ASSUME NEW c \in Callers, Wake(c) PROVE EarliestDeadlineKept'
  BY <1>15 DEF Wake
<1>16. CASE Cancel
  BY <1>16 DEF Cancel, Over
<1>17. CASE TimePasses
  BY <1>17 DEF TimePasses, Sooner, NothingReady
<1>18. CASE UNCHANGED vars
  BY <1>18
<1> QED
  BY <1>1, <1>2, <1>3, <1>4, <1>5, <1>6, <1>7, <1>8, <1>9, <1>10, <1>11,
     <1>12, <1>13, <1>14, <1>15, <1>16, <1>17, <1>18 DEF Next, Run,
     Reconcile, Listen

\* Every visit of the teardown loop ends a teardown or asks for another visit.
LEMMA WorkInductive == TypeOK /\ WorkIsScheduled /\ [Next]_vars => WorkIsScheduled'
<1> SUFFICES ASSUME TypeOK, WorkIsScheduled, [Next]_vars PROVE WorkIsScheduled'
  OBVIOUS
<1> USE DelaysAssumption DEF TypeOK, Times, None, vars, listenerVars, resultVars, workVars, timeVars,
        WorkIsScheduled
<1>1. CASE Enter
  BY <1>1 DEF Enter
<1>2. CASE StartReconcile
  BY <1>2 DEF StartReconcile
<1>3. CASE ObserveFails
  BY <1>3 DEF ObserveFails, RequestReconcile, Earlier, Wait
<1>4. CASE Plan
  BY <1>4 DEF Plan, RequestReconcile, Earlier
<1>5. ASSUME NEW w \in Work, Drive(w) PROVE WorkIsScheduled'
  BY <1>5 DEF Drive, Asks, RequestReconcile, Earlier
<1>6. CASE ScaleUp
  BY <1>6 DEF ScaleUp, EndReconcile, Earlier, Wait
<1>7. CASE ScaleDown
  BY <1>7 DEF ScaleDown, EndReconcile, Earlier, Wait
<1>8. CASE Drained
  BY <1>8 DEF Drained
<1>9. CASE SelectDone
  BY <1>9 DEF SelectDone, Selected
<1>10. CASE SelectWake
  BY <1>10 DEF SelectWake, Selected
<1>11. CASE SelectDeadline
  BY <1>11 DEF SelectDeadline, Selected
<1>12. CASE SelectTicker
  BY <1>12 DEF SelectTicker, Selected
<1>13. CASE Recheck
  BY <1>13 DEF Recheck
<1>14. ASSUME NEW c \in Callers, Record(c) PROVE WorkIsScheduled'
  BY <1>14 DEF Record
<1>15. ASSUME NEW c \in Callers, Wake(c) PROVE WorkIsScheduled'
  BY <1>15 DEF Wake
<1>16. CASE Cancel
  BY <1>16 DEF Cancel, Over
<1>17. CASE TimePasses
  BY <1>17 DEF TimePasses, Sooner, NothingReady
<1>18. CASE UNCHANGED vars
  BY <1>18
<1> QED
  BY <1>1, <1>2, <1>3, <1>4, <1>5, <1>6, <1>7, <1>8, <1>9, <1>10, <1>11,
     <1>12, <1>13, <1>14, <1>15, <1>16, <1>17, <1>18 DEF Next, Run,
     Reconcile, Listen

-----------------------------------------------------------------------------
\* The invariant holds in every state, for any intervals and any bounds.
LEMMA Invariance == Spec => []IInv
<1>1. Init => IInv
  <2> SUFFICES ASSUME Init PROVE IInv
    OBVIOUS
  <2>1. TypeOK
    <3>1. asked \in [Work -> Times] /\ nextReconcile \in Times
      BY DEF Init, Times
    <3>2. window \in [Work -> Nat] /\ tickerIn \in Nat /\ budget \in Nat /\ wakeCh \in 0 .. 1
      BY DelaysAssumption DEF Init
    <3>3. caller \in [Callers -> {"idle", "recorded"}] /\ pc = "enter"
      BY DEF Init
    <3> QED
      BY <3>1, <3>2, <3>3 DEF Init, TypeOK
  <2>2. NoLostWakeup /\ EarliestDeadlineKept
    BY DEF Init, NoLostWakeup, EarliestDeadlineKept, None
  <2>3. WorkIsScheduled
    BY DelaysAssumption DEF Init, WorkIsScheduled, None
  <2> QED
    BY <2>1, <2>2, <2>3 DEF IInv
<1>2. IInv /\ [Next]_vars => IInv'
  BY TypeInductive, WakeupInductive, DeadlineInductive, WorkInductive DEF IInv
<1> QED
  BY <1>1, <1>2, PTL DEF Spec

\* Type correctness of WakeLoop.
THEOREM TypeCorrect == Spec => []TypeOK
<1>1. IInv => TypeOK
  BY DEF IInv
<1> QED
  BY Invariance, <1>1, PTL

\* News that the loop has not taken always has something that will make it look:
\* a full channel swallows only tokens that another one stands for (wake).
THEOREM NewsIsAnnounced == Spec => []NoLostWakeup
<1>1. IInv => NoLostWakeup
  BY DEF IInv
<1> QED
  BY Invariance, <1>1, PTL

\* Run waits for the earliest deadline it was asked for (requestReconcile).
THEOREM EarliestIsKept == Spec => []EarliestDeadlineKept
<1>1. IInv => EarliestDeadlineKept
  BY DEF IInv
<1> QED
  BY Invariance, <1>1, PTL

\* A teardown that is pending after a reconciliation is at most a retry away.
THEOREM WorkIsRevisited == Spec => []PendingWorkIsSoonRevisited
<1>1. IInv => PendingWorkIsSoonRevisited
  BY DEF IInv, WorkIsScheduled, PendingWorkIsSoonRevisited
<1> QED
  BY Invariance, <1>1, PTL

=============================================================================
