---------------------- MODULE RecordingDeliveryProofs ----------------------
(***************************************************************************)
(* Proofs about the journal, delivery and shutdown of RecordingController: *)
(* the rest of the inductive invariant, on top of the control invariant.   *)
(***************************************************************************)
EXTENDS RecordingControllerProofs

-----------------------------------------------------------------------------

\* A take leaves no trace before it is drawn.
LEMMA FreshStep ==
  TypeOK /\ ControlInv /\ FreshInv /\ [Next]_vars => FreshInv'
<1> SUFFICES ASSUME TypeOK, ControlInv, FreshInv, [Next]_vars PROVE FreshInv'
  OBVIOUS
<1> USE BoundsAssumption DEF TypeOK, TypeTake, TypeId, TypeCtl, TypeBus,
         TypeDlv, TypeStop, TypeTail, TypeStart, TypeHold, Takes, NoTake,
         Starters, Dispositions, ControlInv, LockInv, StateInv, OwnerInv,
         Starting, Recording, Admitted, ctlVars, takeVars, idVars, holdVars,
         busVars, dlvVars, stopVars, tailVars, gestVars, envVars
<1>1. ASSUME NEW g \in sleeping, HoldLease(g) PROVE FreshInv'
  BY <1>1 DEF HoldLease, FreshInv
<1>2. CASE HoldFail
  BY <1>2 DEF HoldFail, UnwindHold, EndBus, FreshInv
<1>3. CASE HoldOpen
  BY <1>3 DEF HoldOpen, FreshInv
<1>4. CASE HoldSuperseded
  BY <1>4 DEF HoldSuperseded, UnwindHold, EndBus, FreshInv
<1>5. ASSUME NEW s \in Starters, ToggleLease(s) PROVE FreshInv'
  BY <1>5 DEF ToggleLease, FreshInv
<1>6. ASSUME NEW s \in Starters, ToggleFail(s) PROVE FreshInv'
  BY <1>6 DEF ToggleFail, ReturnStart, GestureDone, EndBus, FreshInv
<1>7. ASSUME NEW s \in Starters, ToggleOpen(s) PROVE FreshInv'
  BY <1>7 DEF ToggleOpen, FreshInv
<1>8. CASE SettlePreempted
  BY <1>8 DEF SettlePreempted, Record, Detach, FreshInv
<1>9. CASE SettleCanvas
  BY <1>9 DEF SettleCanvas, DeliverText, Record, FreshInv
<1>10. CASE TerminalPending
  BY <1>10 DEF TerminalPending, Detach, FreshInv
<1>11. CASE TerminalDeliver
  BY <1>11 DEF TerminalDeliver, DeliverText, Record, FreshInv
<1>12. CASE SettleReset
  BY <1>12 DEF SettleReset, EndBus, FreshInv
<1>13. CASE Recover
  BY <1>13 DEF Recover, FreshInv
<1>14. ASSUME NEW t \in Takes, TailFinish(t) PROVE FreshInv'
  BY <1>14 DEF TailFinish, FreshInv
<1>15. CASE UNCHANGED <<sessionId, nTakes, busPhase, published, tails, own,
            handoffs>>
  BY <1>15 DEF FreshInv
<1> QED
  BY <1>1, <1>2, <1>3, <1>4, <1>5, <1>6, <1>7, <1>8, <1>9, <1>10, <1>11, <1>12,
       <1>13, <1>14, <1>15 DEF Next, HoldTasks, ToggleStarts, Settlement,
       Consumer, Surfaces, vars, HoldDrop, HoldRefused, HoldConfirm, HoldArm,
       HoldExit, ToggleRefused, ToggleAborted, ToggleArm, SettleRefused,
       SettleAdmit, SettleBusy, SettleClose, SettleFinals, TerminalFailed,
       SettleIdle, SettleDone, TakeGesture, CancelHold, AwaitRetired,
       AwaitRefused, RouteIgnored, RouteHold, RouteStop, RouteToggle,
       ScheduleHold, GestureStop, GestureClosed, Tap, ComposerPress,
       ExternalStop, StopOwned, RequestShutdown, ShutdownSettled,
       ReserveIdleRestart, ReturnStart, GestureDone, CaptureGate,
       BumpGeneration, LatchAfterCancel, Unfinished, Preempt, IsStop,
       GestureMove, GestureEnd, SlotFree, AdmitStop, RegisterStop, Input

\* Every step keeps each started Bus with exactly one owner.
LEMMA JournalStep ==
  TypeOK /\ ControlInv /\ FreshInv /\ JournalInv /\ [Next]_vars => JournalInv'
<1> SUFFICES ASSUME TypeOK, ControlInv, FreshInv, JournalInv, [Next]_vars PROVE JournalInv'
  OBVIOUS
<1> USE BoundsAssumption DEF FreshInv, TypeOK, TypeTake, TypeId, TypeCtl,
         TypeBus, TypeDlv, TypeStop, TypeTail, TypeStart, TypeHold, Takes,
         NoTake, Starters, Dispositions, ControlInv, LockInv, StateInv,
         OwnerInv, Starting, Recording, Admitted, ctlVars, takeVars, idVars,
         holdVars, busVars, dlvVars, stopVars, tailVars, gestVars, envVars
<1>1. ASSUME NEW g \in sleeping, HoldLease(g) PROVE JournalInv'
  BY <1>1 DEF HoldLease, JournalInv, StartedBusIsOwned, TailKeepsLease
<1>2. CASE HoldFail
  BY <1>2 DEF HoldFail, UnwindHold, EndBus, JournalInv, StartedBusIsOwned,
       TailKeepsLease
<1>3. CASE HoldOpen
  BY <1>3 DEF HoldOpen, JournalInv, StartedBusIsOwned, TailKeepsLease
<1>4. CASE HoldSuperseded
  <2>1. StartedBusIsOwned' /\ TailKeepsLease'
    BY <1>4 DEF HoldSuperseded, UnwindHold, EndBus, JournalInv,
         StartedBusIsOwned, TailKeepsLease
  <2>2. (\A t \in Takes : published[t] # "none" <=> busPhase[t] = "ended")'
    BY <1>4 DEF HoldSuperseded, UnwindHold, EndBus, JournalInv
  <2>3. sessionId' = NoTake /\ ~Starting'
    BY <1>4 DEF HoldSuperseded, UnwindHold
  <2> QED
    BY <2>1, <2>2, <2>3 DEF JournalInv
<1>5. CASE HoldArm
  BY <1>5 DEF HoldArm, JournalInv, StartedBusIsOwned, TailKeepsLease
<1>6. ASSUME NEW s \in Starters, ToggleLease(s) PROVE JournalInv'
  BY <1>6 DEF ToggleLease, JournalInv, StartedBusIsOwned, TailKeepsLease
<1>7. ASSUME NEW s \in Starters, ToggleFail(s) PROVE JournalInv'
  BY <1>7 DEF ToggleFail, ReturnStart, GestureDone, EndBus, JournalInv,
       StartedBusIsOwned, TailKeepsLease
<1>8. ASSUME NEW s \in Starters, ToggleOpen(s) PROVE JournalInv'
  BY <1>8 DEF ToggleOpen, JournalInv, StartedBusIsOwned, TailKeepsLease
<1>9. ASSUME NEW s \in Starters, ToggleArm(s) PROVE JournalInv'
  BY <1>9 DEF ToggleArm, ReturnStart, GestureDone, JournalInv,
       StartedBusIsOwned, TailKeepsLease
<1>10. CASE SettleRefused
  BY <1>10 DEF SettleRefused, CaptureGate, JournalInv, StartedBusIsOwned,
       TailKeepsLease
<1>11. CASE SettleAdmit
  BY <1>11 DEF SettleAdmit, CaptureGate, BumpGeneration, LatchAfterCancel,
       Unfinished, JournalInv, StartedBusIsOwned, TailKeepsLease
<1>12. CASE SettleBusy
  BY <1>12 DEF SettleBusy, JournalInv, StartedBusIsOwned, TailKeepsLease
<1>13. CASE SettleClose
  BY <1>13 DEF SettleClose, JournalInv, StartedBusIsOwned, TailKeepsLease
<1>14. CASE SettlePreempted
  BY <1>14 DEF SettlePreempted, Record, Detach, JournalInv, StartedBusIsOwned,
       TailKeepsLease
<1>15. CASE SettleFinals
  BY <1>15 DEF SettleFinals, JournalInv, StartedBusIsOwned, TailKeepsLease
<1>16. CASE SettleCanvas
  BY <1>16 DEF SettleCanvas, DeliverText, Record, JournalInv,
       StartedBusIsOwned, TailKeepsLease
<1>17. CASE TerminalPending
  BY <1>17 DEF TerminalPending, Detach, JournalInv, StartedBusIsOwned,
       TailKeepsLease
<1>18. CASE TerminalFailed
  BY <1>18 DEF TerminalFailed, JournalInv, StartedBusIsOwned, TailKeepsLease
<1>19. CASE TerminalDeliver
  BY <1>19 DEF TerminalDeliver, DeliverText, Record, JournalInv,
       StartedBusIsOwned, TailKeepsLease
<1>20. CASE SettleReset
  BY <1>20 DEF SettleReset, EndBus, JournalInv, StartedBusIsOwned,
       TailKeepsLease
<1>21. CASE SettleIdle
  BY <1>21 DEF SettleIdle, JournalInv, StartedBusIsOwned, TailKeepsLease
<1>22. CASE SettleDone
  BY <1>22 DEF SettleDone, JournalInv, StartedBusIsOwned, TailKeepsLease
<1>23. CASE Recover
  BY <1>23 DEF Recover, JournalInv, StartedBusIsOwned, TailKeepsLease
<1>24. CASE GestureStop
  BY <1>24 DEF GestureStop, SlotFree, AdmitStop, RegisterStop, GestureDone,
       JournalInv, StartedBusIsOwned, TailKeepsLease
<1>25. CASE ExternalStop
  BY <1>25 DEF ExternalStop, SlotFree, AdmitStop, RegisterStop, Input,
       JournalInv, StartedBusIsOwned, TailKeepsLease
<1>26. ASSUME NEW t \in Takes, StopOwned(t) PROVE JournalInv'
  BY <1>26 DEF StopOwned, RegisterStop, Input, SlotFree, JournalInv,
       StartedBusIsOwned, TailKeepsLease
<1>27. ASSUME NEW t \in Takes, TailFinish(t) PROVE JournalInv'
  BY <1>27, SMTT(20) DEF TailFinish, JournalInv, StartedBusIsOwned,
       TailKeepsLease
<1>28. CASE UNCHANGED <<sessionId, activeBus, settlePc, tails, tailLeases,
            busPhase, published, serialLock, mic>>
  BY <1>28 DEF JournalInv, StartedBusIsOwned, TailKeepsLease
<1> QED
  BY <1>1, <1>2, <1>3, <1>4, <1>5, <1>6, <1>7, <1>8, <1>9, <1>10, <1>11, <1>12,
       <1>13, <1>14, <1>15, <1>16, <1>17, <1>18, <1>19, <1>20, <1>21, <1>22,
       <1>23, <1>24, <1>25, <1>26, <1>27, <1>28 DEF Next, HoldTasks,
       ToggleStarts, Settlement, Consumer, Surfaces, vars, HoldDrop,
       HoldRefused, HoldConfirm, HoldExit, ToggleRefused, ToggleAborted,
       TakeGesture, CancelHold, AwaitRetired, AwaitRefused, RouteIgnored,
       RouteHold, RouteStop, RouteToggle, ScheduleHold, GestureClosed, Tap,
       ComposerPress, RequestShutdown, ShutdownSettled, ReserveIdleRestart,
       ReturnStart, GestureDone, Preempt, IsStop, BumpGeneration,
       LatchAfterCancel, Unfinished, GestureMove, GestureEnd, Input

\* Every step keeps delivery to one handoff and its record truthful.
LEMMA DeliveryStep ==
  TypeOK /\ ControlInv /\ FreshInv /\ JournalInv /\ DeliveryInv /\ [Next]_vars => DeliveryInv'
<1> SUFFICES ASSUME TypeOK, ControlInv, FreshInv, JournalInv, DeliveryInv, [Next]_vars PROVE DeliveryInv'
  OBVIOUS
<1> USE BoundsAssumption DEF FreshInv, TypeOK, TypeTake, TypeId, TypeCtl,
         TypeBus, TypeDlv, TypeStop, TypeTail, TypeStart, TypeHold, Takes,
         NoTake, Starters, Dispositions, ControlInv, LockInv, StateInv,
         OwnerInv, Starting, Recording, Admitted, ctlVars, takeVars, idVars,
         holdVars, busVars, dlvVars, stopVars, tailVars, gestVars, envVars
<1>1. ASSUME NEW g \in sleeping, HoldLease(g) PROVE DeliveryInv'
  BY <1>1 DEF HoldLease, DeliveryInv, DeliveredOnce, PublishedMatches,
       JournalInv
<1>2. CASE HoldFail
  BY <1>2 DEF HoldFail, UnwindHold, EndBus, DeliveryInv, DeliveredOnce,
       PublishedMatches, JournalInv
<1>3. CASE HoldSuperseded
  BY <1>3 DEF HoldSuperseded, UnwindHold, EndBus, DeliveryInv, DeliveredOnce,
       PublishedMatches, JournalInv
<1>4. ASSUME NEW s \in Starters, ToggleAborted(s) PROVE DeliveryInv'
  BY <1>4 DEF ToggleAborted, ReturnStart, GestureDone, DeliveryInv,
       DeliveredOnce, PublishedMatches, JournalInv
<1>5. ASSUME NEW s \in Starters, ToggleLease(s) PROVE DeliveryInv'
  BY <1>5 DEF ToggleLease, DeliveryInv, DeliveredOnce, PublishedMatches,
       JournalInv
<1>6. ASSUME NEW s \in Starters, ToggleFail(s) PROVE DeliveryInv'
  BY <1>6 DEF ToggleFail, ReturnStart, GestureDone, EndBus, DeliveryInv,
       DeliveredOnce, PublishedMatches, JournalInv
<1>7. CASE SettleRefused
  BY <1>7 DEF SettleRefused, CaptureGate, DeliveryInv, DeliveredOnce,
       PublishedMatches, JournalInv
<1>8. CASE SettleAdmit
  BY <1>8 DEF SettleAdmit, CaptureGate, BumpGeneration, LatchAfterCancel,
       Unfinished, DeliveryInv, DeliveredOnce, PublishedMatches, JournalInv
<1>9. CASE SettleBusy
  BY <1>9 DEF SettleBusy, DeliveryInv, DeliveredOnce, PublishedMatches,
       JournalInv
<1>10. CASE SettleClose
  BY <1>10 DEF SettleClose, DeliveryInv, DeliveredOnce, PublishedMatches,
       JournalInv
<1>11. CASE SettlePreempted
  BY <1>11 DEF SettlePreempted, Record, Detach, DeliveryInv, DeliveredOnce,
       PublishedMatches, JournalInv
<1>12. CASE SettleFinals
  BY <1>12 DEF SettleFinals, DeliveryInv, DeliveredOnce, PublishedMatches,
       JournalInv
<1>13. CASE SettleCanvas
  \* A delivery step records for the stopping take and hands off at most once.
  <2>1. \/ UNCHANGED dlvVars
        \/ /\ disposition' \in Dispositions
           /\ own' = [own EXCEPT ![settleId] = disposition']
           /\ handoffs' \in {handoffs, [handoffs EXCEPT ![settleId] = @ + 1]}
        \/ UNCHANGED <<disposition, own, handoffs>>
    BY <1>13 DEF SettleCanvas, DeliverText, Record
  <2>2. settleId = sessionId /\ sessionId \in Takes /\ published[sessionId] = "none"
    BY <1>13 DEF SettleCanvas, JournalInv
  <2>3. DeliveredOnce' /\ PublishedMatches'
    <3>1. UNCHANGED dlvVars \/ handoffs[sessionId] = 0
      BY <1>13, <2>2 DEF SettleCanvas, DeliveryInv
    <3>2. DeliveredOnce'
      BY <2>1, <2>2, <3>1 DEF DeliveryInv, DeliveredOnce
    <3>3. published' = published
      BY <1>13 DEF SettleCanvas
    <3>4. PublishedMatches'
      BY <2>1, <2>2, <3>3 DEF DeliveryInv, PublishedMatches
    <3> QED
      BY <3>2, <3>4
  <2>4. /\ (initial # "none" => settlePc \in {"terminal", "reset"})'
        /\ (sessionId # NoTake /\ settlePc # "reset" /\ initial = "none"
              => handoffs[sessionId] = 0)'
    BY <1>13, <2>1, <2>2 DEF SettleCanvas, DeliverText, DeliveryInv
  <2>5. (sessionId # NoTake /\ own[sessionId] # "Unattempted" =>
          settlePc \in {"terminal", "reset"} /\ disposition = own[sessionId])'
    BY <1>13, <2>1, <2>2 DEF SettleCanvas, DeliveryInv
  <2>6. (\A t \in Takes :
          tails[t] # "none" /\ own[t] # "Unattempted" => tails[t] = own[t])'
    BY <1>13, <2>1, <2>2 DEF SettleCanvas, DeliveryInv, JournalInv
  <2> QED
    BY <2>3, <2>4, <2>5, <2>6 DEF DeliveryInv
<1>14. CASE TerminalPending
  BY <1>14 DEF TerminalPending, Detach, DeliveryInv, DeliveredOnce,
       PublishedMatches, JournalInv
<1>15. CASE TerminalFailed
  BY <1>15 DEF TerminalFailed, DeliveryInv, DeliveredOnce, PublishedMatches,
       JournalInv
<1>16. CASE TerminalDeliver
  \* A delivery step records for the stopping take and hands off at most once.
  <2>1. \/ UNCHANGED dlvVars
        \/ /\ disposition' \in Dispositions
           /\ own' = [own EXCEPT ![settleId] = disposition']
           /\ handoffs' \in {handoffs, [handoffs EXCEPT ![settleId] = @ + 1]}
        \/ UNCHANGED <<disposition, own, handoffs>>
    BY <1>16 DEF TerminalDeliver, DeliverText, Record
  <2>2. settleId = sessionId /\ sessionId \in Takes /\ published[sessionId] = "none"
    BY <1>16 DEF TerminalDeliver, JournalInv
  <2>3. DeliveredOnce' /\ PublishedMatches'
    <3>1. UNCHANGED dlvVars \/ handoffs[sessionId] = 0
      BY <1>16, <2>2 DEF TerminalDeliver, DeliveryInv
    <3>2. DeliveredOnce'
      BY <2>1, <2>2, <3>1 DEF DeliveryInv, DeliveredOnce
    <3>3. published' = published
      BY <1>16 DEF TerminalDeliver
    <3>4. PublishedMatches'
      BY <2>1, <2>2, <3>3 DEF DeliveryInv, PublishedMatches
    <3> QED
      BY <3>2, <3>4
  <2>4. /\ (initial # "none" => settlePc \in {"terminal", "reset"})'
        /\ (sessionId # NoTake /\ settlePc # "reset" /\ initial = "none"
              => handoffs[sessionId] = 0)'
    BY <1>16, <2>1, <2>2 DEF TerminalDeliver, DeliverText, DeliveryInv
  <2>5. (sessionId # NoTake /\ own[sessionId] # "Unattempted" =>
          settlePc \in {"terminal", "reset"} /\ disposition = own[sessionId])'
    BY <1>16, <2>1, <2>2 DEF TerminalDeliver, DeliveryInv
  <2>6. (\A t \in Takes :
          tails[t] # "none" /\ own[t] # "Unattempted" => tails[t] = own[t])'
    BY <1>16, <2>1, <2>2 DEF TerminalDeliver, DeliveryInv, JournalInv
  <2> QED
    BY <2>3, <2>4, <2>5, <2>6 DEF DeliveryInv
<1>17. CASE SettleReset
  BY <1>17 DEF SettleReset, EndBus, DeliveryInv, DeliveredOnce,
       PublishedMatches, JournalInv
<1>18. CASE SettleIdle
  BY <1>18 DEF SettleIdle, DeliveryInv, DeliveredOnce, PublishedMatches,
       JournalInv
<1>19. CASE SettleDone
  BY <1>19 DEF SettleDone, DeliveryInv, DeliveredOnce, PublishedMatches,
       JournalInv
<1>20. CASE Recover
  BY <1>20 DEF Recover, DeliveryInv, DeliveredOnce, PublishedMatches,
       JournalInv
<1>21. CASE GestureStop
  BY <1>21 DEF GestureStop, SlotFree, AdmitStop, RegisterStop, GestureDone,
       DeliveryInv, DeliveredOnce, PublishedMatches, JournalInv
<1>22. CASE ExternalStop
  BY <1>22 DEF ExternalStop, SlotFree, AdmitStop, RegisterStop, Input,
       DeliveryInv, DeliveredOnce, PublishedMatches, JournalInv
<1>23. ASSUME NEW t \in Takes, StopOwned(t) PROVE DeliveryInv'
  BY <1>23 DEF StopOwned, RegisterStop, Input, SlotFree, DeliveryInv,
       DeliveredOnce, PublishedMatches, JournalInv
<1>24. ASSUME NEW t \in Takes, TailFinish(t) PROVE DeliveryInv'
  BY <1>24, SMTT(20) DEF TailFinish, DeliveryInv, DeliveredOnce,
       PublishedMatches, JournalInv
<1>25. CASE UNCHANGED <<sessionId, settlePc, tails, published, initial,
            handoffs, own, disposition>>
  BY <1>25 DEF DeliveryInv, DeliveredOnce, PublishedMatches, JournalInv
<1> QED
  BY <1>1, <1>2, <1>3, <1>4, <1>5, <1>6, <1>7, <1>8, <1>9, <1>10, <1>11, <1>12,
       <1>13, <1>14, <1>15, <1>16, <1>17, <1>18, <1>19, <1>20, <1>21, <1>22,
       <1>23, <1>24, <1>25 DEF Next, HoldTasks, ToggleStarts, Settlement,
       Consumer, Surfaces, vars, HoldDrop, HoldRefused, HoldOpen, HoldConfirm,
       HoldArm, HoldExit, ToggleRefused, ToggleOpen, ToggleArm, TakeGesture,
       CancelHold, AwaitRetired, AwaitRefused, RouteIgnored, RouteHold,
       RouteStop, RouteToggle, ScheduleHold, GestureClosed, Tap, ComposerPress,
       RequestShutdown, ShutdownSettled, ReserveIdleRestart, ReturnStart,
       GestureDone, Preempt, IsStop, BumpGeneration, LatchAfterCancel,
       Unfinished, GestureMove, GestureEnd, Input

\* A settled answer closes admission and stays true.
LEMMA QuietStep ==
  TypeOK /\ ControlInv /\ QuietInv /\ [Next]_vars => QuietInv'
<1> SUFFICES ASSUME TypeOK, ControlInv, QuietInv, [Next]_vars PROVE QuietInv'
  OBVIOUS
<1> USE BoundsAssumption DEF TypeOK, TypeTake, TypeId, TypeCtl, TypeBus,
         TypeDlv, TypeStop, TypeTail, TypeStart, TypeHold, Takes, NoTake,
         Starters, Dispositions, ControlInv, LockInv, StateInv, OwnerInv,
         Starting, Recording, Admitted, ctlVars, takeVars, idVars, holdVars,
         busVars, dlvVars, stopVars, tailVars, gestVars, envVars
<1>1. ASSUME NEW g \in sleeping, HoldLease(g) PROVE QuietInv'
  BY <1>1 DEF HoldLease, QuietInv, QuiescedStays, WorkIsQuiescent, SlotFree
<1>2. CASE HoldFail
  BY <1>2 DEF HoldFail, UnwindHold, EndBus, QuietInv, QuiescedStays,
       WorkIsQuiescent, SlotFree
<1>3. CASE HoldOpen
  BY <1>3 DEF HoldOpen, QuietInv, QuiescedStays, WorkIsQuiescent, SlotFree
<1>4. CASE HoldSuperseded
  BY <1>4 DEF HoldSuperseded, UnwindHold, EndBus, QuietInv, QuiescedStays,
       WorkIsQuiescent, SlotFree
<1>5. CASE HoldArm
  BY <1>5 DEF HoldArm, QuietInv, QuiescedStays, WorkIsQuiescent, SlotFree
<1>6. ASSUME NEW s \in Starters, ToggleLease(s) PROVE QuietInv'
  BY <1>6 DEF ToggleLease, QuietInv, QuiescedStays, WorkIsQuiescent, SlotFree
<1>7. ASSUME NEW s \in Starters, ToggleFail(s) PROVE QuietInv'
  BY <1>7 DEF ToggleFail, ReturnStart, GestureDone, EndBus, QuietInv,
       QuiescedStays, WorkIsQuiescent, SlotFree
<1>8. ASSUME NEW s \in Starters, ToggleOpen(s) PROVE QuietInv'
  BY <1>8 DEF ToggleOpen, QuietInv, QuiescedStays, WorkIsQuiescent, SlotFree
<1>9. ASSUME NEW s \in Starters, ToggleArm(s) PROVE QuietInv'
  BY <1>9 DEF ToggleArm, ReturnStart, GestureDone, QuietInv, QuiescedStays,
       WorkIsQuiescent, SlotFree
<1>10. CASE SettleBusy
  BY <1>10 DEF SettleBusy, QuietInv, QuiescedStays, WorkIsQuiescent, SlotFree
<1>11. CASE SettleClose
  BY <1>11 DEF SettleClose, QuietInv, QuiescedStays, WorkIsQuiescent, SlotFree
<1>12. CASE SettlePreempted
  BY <1>12 DEF SettlePreempted, Record, Detach, QuietInv, QuiescedStays,
       WorkIsQuiescent, SlotFree
<1>13. CASE TerminalPending
  BY <1>13 DEF TerminalPending, Detach, QuietInv, QuiescedStays,
       WorkIsQuiescent, SlotFree
<1>14. CASE SettleReset
  BY <1>14 DEF SettleReset, EndBus, QuietInv, QuiescedStays, WorkIsQuiescent,
       SlotFree
<1>15. CASE SettleIdle
  BY <1>15 DEF SettleIdle, QuietInv, QuiescedStays, WorkIsQuiescent, SlotFree
<1>16. CASE Recover
  BY <1>16 DEF Recover, QuietInv, QuiescedStays, WorkIsQuiescent, SlotFree
<1>17. CASE RequestShutdown
  BY <1>17 DEF RequestShutdown, Input, QuietInv, QuiescedStays,
       WorkIsQuiescent, SlotFree
<1>18. CASE ShutdownSettled
  BY <1>18 DEF ShutdownSettled, QuietInv, QuiescedStays, WorkIsQuiescent,
       SlotFree
<1>19. CASE ReserveIdleRestart
  BY <1>19 DEF ReserveIdleRestart, Input, QuietInv, QuiescedStays,
       WorkIsQuiescent, SlotFree
<1>20. ASSUME NEW t \in Takes, TailFinish(t) PROVE QuietInv'
  BY <1>20 DEF TailFinish, QuietInv, QuiescedStays, WorkIsQuiescent, SlotFree
<1>21. CASE UNCHANGED <<quiesced, shutdown, sessionId, mic, state, tails>>
  BY <1>21 DEF QuietInv, QuiescedStays, WorkIsQuiescent, SlotFree
<1> QED
  BY <1>1, <1>2, <1>3, <1>4, <1>5, <1>6, <1>7, <1>8, <1>9, <1>10, <1>11, <1>12,
       <1>13, <1>14, <1>15, <1>16, <1>17, <1>18, <1>19, <1>20, <1>21 DEF Next,
       HoldTasks, ToggleStarts, Settlement, Consumer, Surfaces, vars, HoldDrop,
       HoldRefused, HoldConfirm, HoldExit, ToggleRefused, ToggleAborted,
       SettleRefused, SettleAdmit, SettleFinals, SettleCanvas, TerminalFailed,
       TerminalDeliver, SettleDone, TakeGesture, CancelHold, AwaitRetired,
       AwaitRefused, RouteIgnored, RouteHold, RouteStop, RouteToggle,
       ScheduleHold, GestureStop, GestureClosed, Tap, ComposerPress,
       ExternalStop, StopOwned, ReturnStart, GestureDone, CaptureGate,
       BumpGeneration, LatchAfterCancel, Unfinished, DeliverText, Record,
       Preempt, IsStop, GestureMove, GestureEnd, SlotFree, AdmitStop,
       RegisterStop, Input

LEMMA LifecycleInit == Init => LifecycleInv
<1> SUFFICES ASSUME Init PROVE LifecycleInv
  OBVIOUS
<1>1. ControlInv
  BY ControlInit
<1>2. FreshInv /\ JournalInv
  BY BoundsAssumption DEF Init, FreshInv, JournalInv, StartedBusIsOwned,
     TailKeepsLease, Starting, Starters, Takes, NoTake
<1>3. DeliveryInv
  BY BoundsAssumption DEF Init, DeliveryInv, DeliveredOnce, PublishedMatches,
     Takes, NoTake
<1>4. QuietInv
  BY DEF Init, QuietInv
<1> QED
  BY <1>1, <1>2, <1>3, <1>4 DEF LifecycleInv

\* The whole inductive invariant holds of the controller.
THEOREM LifecycleInvariant == Spec => []LifecycleInv
<1>1. Init => TypeOK /\ LifecycleInv
  BY ControlInit, LifecycleInit
<1>2. TypeOK /\ LifecycleInv /\ [Next]_vars => (TypeOK /\ LifecycleInv)'
  BY TypeStep, ControlStep, FreshStep, JournalStep, DeliveryStep, QuietStep
     DEF LifecycleInv
<1> QED
  BY <1>1, <1>2, PTL DEF Spec

\* deliver_stop_transcript never hands a take to a destination twice.
THEOREM SingleDelivery == Spec => []DeliveredOnce
<1>1. LifecycleInv => DeliveredOnce
  BY DEF LifecycleInv, DeliveryInv
<1> QED
  BY <1>1, LifecycleInvariant, PTL

\* Every session_started line has an owner that will end it.
THEOREM BusOwnership == Spec => []StartedBusIsOwned
<1>1. LifecycleInv => StartedBusIsOwned
  BY DEF LifecycleInv, JournalInv
<1> QED
  BY <1>1, LifecycleInvariant, PTL

\* The audio of a retired tail stays leased until the tail has drained.
THEOREM TailLease == Spec => []TailKeepsLease
<1>1. LifecycleInv => TailKeepsLease
  BY DEF LifecycleInv, JournalInv
<1> QED
  BY <1>1, LifecycleInvariant, PTL

\* The terminal line of a take states what its own stop recorded.
THEOREM TruthfulTerminal == Spec => []PublishedMatches
<1>1. LifecycleInv => PublishedMatches
  BY DEF LifecycleInv, DeliveryInv
<1> QED
  BY <1>1, LifecycleInvariant, PTL

\* After capture_shutdown_settled or reserve_idle_restart said yes, no capture
\* starts again.
THEOREM QuiescenceIsFinal == Spec => []QuiescedStays
<1>1. LifecycleInv => QuiescedStays
  BY DEF LifecycleInv, QuietInv, QuiescedStays
<1> QED
  BY <1>1, LifecycleInvariant, PTL

-----------------------------------------------------------------------------
(* What a step may never do. *)

\* Only an empty slot takes an identity.
LEMMA SlotStep ==
  TypeOK /\ LifecycleInv /\ [Next]_vars => SlotFreedFirst
<1> SUFFICES ASSUME TypeOK, LifecycleInv, [Next]_vars PROVE SlotFreedFirst
  OBVIOUS
<1> USE BoundsAssumption DEF LifecycleInv, TypeOK, TypeCtl, TypeTake, NoTake,
         Starters, ControlInv, LockInv, StateInv, OwnerInv, Starting,
         Recording, Admitted, ctlVars, takeVars, idVars, holdVars, busVars,
         dlvVars, stopVars, tailVars, gestVars, envVars
<1>1. ASSUME NEW g \in sleeping, HoldLease(g) PROVE SlotFreedFirst
  BY <1>1 DEF HoldLease, SlotFreedFirst
<1>2. CASE HoldFail
  BY <1>2 DEF HoldFail, UnwindHold, EndBus, SlotFreedFirst
<1>3. CASE HoldSuperseded
  BY <1>3 DEF HoldSuperseded, UnwindHold, EndBus, SlotFreedFirst
<1>4. ASSUME NEW s \in Starters, ToggleLease(s) PROVE SlotFreedFirst
  BY <1>4 DEF ToggleLease, SlotFreedFirst
<1>5. ASSUME NEW s \in Starters, ToggleFail(s) PROVE SlotFreedFirst
  BY <1>5 DEF ToggleFail, ReturnStart, GestureDone, EndBus, SlotFreedFirst
<1>6. CASE SettleReset
  BY <1>6 DEF SettleReset, EndBus, SlotFreedFirst
<1>7. CASE Recover
  BY <1>7 DEF Recover, SlotFreedFirst
<1>8. CASE UNCHANGED <<sessionId>>
  BY <1>8 DEF SlotFreedFirst
<1> QED
  BY <1>1, <1>2, <1>3, <1>4, <1>5, <1>6, <1>7, <1>8 DEF Next, HoldTasks,
       ToggleStarts, Settlement, Consumer, Surfaces, vars, HoldDrop,
       HoldRefused, HoldOpen, HoldConfirm, HoldArm, HoldExit, ToggleRefused,
       ToggleAborted, ToggleOpen, ToggleArm, SettleRefused, SettleAdmit,
       SettleBusy, SettleClose, SettlePreempted, SettleFinals, SettleCanvas,
       TerminalPending, TerminalFailed, TerminalDeliver, SettleIdle,
       SettleDone, TakeGesture, CancelHold, AwaitRetired, AwaitRefused,
       RouteIgnored, RouteHold, RouteStop, RouteToggle, ScheduleHold,
       GestureStop, GestureClosed, Tap, ComposerPress, ExternalStop, StopOwned,
       RequestShutdown, ShutdownSettled, ReserveIdleRestart, TailFinish,
       ReturnStart, GestureDone, CaptureGate, BumpGeneration, LatchAfterCancel,
       Unfinished, Record, Detach, DeliverText, Preempt, IsStop, GestureMove,
       GestureEnd, SlotFree, AdmitStop, RegisterStop, Input

\* The microphone is closed by its own stop.
LEMMA StopStep ==
  TypeOK /\ LifecycleInv /\ [Next]_vars => StopNamesOwn
<1> SUFFICES ASSUME TypeOK, LifecycleInv, [Next]_vars PROVE StopNamesOwn
  OBVIOUS
<1> USE BoundsAssumption DEF LifecycleInv, TypeOK, TypeCtl, TypeTake, NoTake,
         Starters, ControlInv, LockInv, StateInv, OwnerInv, Starting,
         Recording, Admitted, ctlVars, takeVars, idVars, holdVars, busVars,
         dlvVars, stopVars, tailVars, gestVars, envVars
<1>1. CASE HoldFail
  BY <1>1 DEF HoldFail, UnwindHold, EndBus, StopNamesOwn
<1>2. CASE HoldOpen
  BY <1>2 DEF HoldOpen, StopNamesOwn
<1>3. CASE HoldSuperseded
  BY <1>3 DEF HoldSuperseded, UnwindHold, EndBus, StopNamesOwn
<1>4. ASSUME NEW s \in Starters, ToggleOpen(s) PROVE StopNamesOwn
  BY <1>4 DEF ToggleOpen, StopNamesOwn
<1>5. CASE SettleClose
  BY <1>5 DEF SettleClose, StopNamesOwn
<1>6. CASE Recover
  BY <1>6 DEF Recover, StopNamesOwn
<1>7. CASE UNCHANGED <<mic>>
  BY <1>7 DEF StopNamesOwn
<1> QED
  BY <1>1, <1>2, <1>3, <1>4, <1>5, <1>6, <1>7 DEF Next, HoldTasks,
       ToggleStarts, Settlement, Consumer, Surfaces, vars, HoldDrop,
       HoldRefused, HoldLease, HoldConfirm, HoldArm, HoldExit, ToggleRefused,
       ToggleAborted, ToggleLease, ToggleFail, ToggleArm, SettleRefused,
       SettleAdmit, SettleBusy, SettlePreempted, SettleFinals, SettleCanvas,
       TerminalPending, TerminalFailed, TerminalDeliver, SettleReset,
       SettleIdle, SettleDone, TakeGesture, CancelHold, AwaitRetired,
       AwaitRefused, RouteIgnored, RouteHold, RouteStop, RouteToggle,
       ScheduleHold, GestureStop, GestureClosed, Tap, ComposerPress,
       ExternalStop, StopOwned, RequestShutdown, ShutdownSettled,
       ReserveIdleRestart, TailFinish, ReturnStart, GestureDone, EndBus,
       CaptureGate, BumpGeneration, LatchAfterCancel, Unfinished, Record,
       Detach, DeliverText, Preempt, IsStop, GestureMove, GestureEnd, SlotFree,
       AdmitStop, RegisterStop, Input

\* An ended Bus is left alone.
LEMMA TerminalLineStep ==
  TypeOK /\ LifecycleInv /\ [Next]_vars => TerminalLineKept
<1> SUFFICES ASSUME TypeOK, LifecycleInv, [Next]_vars PROVE TerminalLineKept
  OBVIOUS
<1> USE BoundsAssumption DEF LifecycleInv, JournalInv, TypeOK, TypeBus,
         TypeTake, Takes, NoTake, Starters, ControlInv, LockInv, StateInv,
         OwnerInv, Starting, Recording, Admitted, ctlVars, takeVars, idVars,
         holdVars, busVars, dlvVars, stopVars, tailVars, gestVars, envVars
<1>1. CASE HoldFail
  BY <1>1 DEF HoldFail, UnwindHold, EndBus, TerminalLineKept
<1>2. CASE HoldOpen
  BY <1>2 DEF HoldOpen, TerminalLineKept
<1>3. CASE HoldSuperseded
  BY <1>3 DEF HoldSuperseded, UnwindHold, EndBus, TerminalLineKept
<1>4. ASSUME NEW s \in Starters, ToggleFail(s) PROVE TerminalLineKept
  BY <1>4 DEF ToggleFail, ReturnStart, GestureDone, EndBus, TerminalLineKept
<1>5. ASSUME NEW s \in Starters, ToggleOpen(s) PROVE TerminalLineKept
  BY <1>5 DEF ToggleOpen, TerminalLineKept
<1>6. CASE SettleReset
  BY <1>6 DEF SettleReset, EndBus, TerminalLineKept
<1>7. ASSUME NEW t \in Takes, TailFinish(t) PROVE TerminalLineKept
  BY <1>7 DEF TailFinish, TerminalLineKept
<1>8. CASE UNCHANGED <<busPhase, published>>
  BY <1>8 DEF TerminalLineKept
<1> QED
  BY <1>1, <1>2, <1>3, <1>4, <1>5, <1>6, <1>7, <1>8 DEF Next, HoldTasks,
       ToggleStarts, Settlement, Consumer, Surfaces, vars, HoldDrop,
       HoldRefused, HoldLease, HoldConfirm, HoldArm, HoldExit, ToggleRefused,
       ToggleAborted, ToggleLease, ToggleArm, SettleRefused, SettleAdmit,
       SettleBusy, SettleClose, SettlePreempted, SettleFinals, SettleCanvas,
       TerminalPending, TerminalFailed, TerminalDeliver, SettleIdle,
       SettleDone, TakeGesture, CancelHold, AwaitRetired, AwaitRefused,
       Recover, RouteIgnored, RouteHold, RouteStop, RouteToggle, ScheduleHold,
       GestureStop, GestureClosed, Tap, ComposerPress, ExternalStop, StopOwned,
       RequestShutdown, ShutdownSettled, ReserveIdleRestart, ReturnStart,
       GestureDone, CaptureGate, BumpGeneration, LatchAfterCancel, Unfinished,
       Record, Detach, DeliverText, Preempt, IsStop, GestureMove, GestureEnd,
       SlotFree, AdmitStop, RegisterStop, Input

\* The one delivery step is for a take that is not on its tail.
LEMMA RetiredStep ==
  TypeOK /\ LifecycleInv /\ [Next]_vars => RetiredIsSilent
<1> SUFFICES ASSUME TypeOK, LifecycleInv, [Next]_vars PROVE RetiredIsSilent
  OBVIOUS
<1> USE BoundsAssumption DEF LifecycleInv, JournalInv, TypeOK, TypeDlv,
         TypeTake, TypeStop, Takes, NoTake, Starters, ControlInv, LockInv,
         StateInv, OwnerInv, Starting, Recording, Admitted, ctlVars, takeVars,
         idVars, holdVars, busVars, dlvVars, stopVars, tailVars, gestVars,
         envVars
<1>1. CASE SettleCanvas
  BY <1>1 DEF SettleCanvas, DeliverText, Record, RetiredIsSilent
<1>2. CASE TerminalDeliver
  BY <1>2 DEF TerminalDeliver, DeliverText, Record, RetiredIsSilent
<1>3. CASE UNCHANGED <<handoffs>>
  BY <1>3 DEF RetiredIsSilent
<1> QED
  BY <1>1, <1>2, <1>3 DEF Next, HoldTasks, ToggleStarts, Settlement, Consumer,
       Surfaces, vars, HoldDrop, HoldRefused, HoldLease, HoldFail, HoldOpen,
       HoldSuperseded, HoldConfirm, HoldArm, HoldExit, ToggleRefused,
       ToggleAborted, ToggleLease, ToggleFail, ToggleOpen, ToggleArm,
       SettleRefused, SettleAdmit, SettleBusy, SettleClose, SettlePreempted,
       SettleFinals, TerminalPending, TerminalFailed, SettleReset, SettleIdle,
       SettleDone, TakeGesture, CancelHold, AwaitRetired, AwaitRefused,
       Recover, RouteIgnored, RouteHold, RouteStop, RouteToggle, ScheduleHold,
       GestureStop, GestureClosed, Tap, ComposerPress, ExternalStop, StopOwned,
       RequestShutdown, ShutdownSettled, ReserveIdleRestart, TailFinish,
       UnwindHold, EndBus, ReturnStart, GestureDone, CaptureGate,
       BumpGeneration, LatchAfterCancel, Unfinished, Record, Detach, Preempt,
       IsStop, GestureMove, GestureEnd, SlotFree, AdmitStop, RegisterStop,
       Input

\* Two takes never meet in the session slot.
THEOREM SlotExclusion == Spec => SlotNotHijacked
<1>1. TypeOK /\ LifecycleInv /\ [Next]_vars => [SlotFreedFirst]_vars
  BY SlotStep
<1> QED
  BY <1>1, TypeCorrect, LifecycleInvariant, PTL DEF Spec, SlotNotHijacked

\* A stop closes the capture it was registered for and no other.
THEOREM StopIdentity == Spec => StopNamesCapture
<1>1. TypeOK /\ LifecycleInv /\ [Next]_vars => [StopNamesOwn]_vars
  BY StopStep
<1> QED
  BY <1>1, TypeCorrect, LifecycleInvariant, PTL DEF Spec, StopNamesCapture

\* The terminal line of a take is written once.
THEOREM TerminalLineOnce == Spec => TerminalLineFinal
<1>1. TypeOK /\ LifecycleInv /\ [Next]_vars => [TerminalLineKept]_vars
  BY TerminalLineStep
<1> QED
  BY <1>1, TypeCorrect, LifecycleInvariant, PTL DEF Spec, TerminalLineFinal

\* A detached tail never delivers.
THEOREM RetiredSilence == Spec => RetiredNeverDelivers
<1>1. TypeOK /\ LifecycleInv /\ [Next]_vars => [RetiredIsSilent]_vars
  BY RetiredStep
<1> QED
  BY <1>1, TypeCorrect, LifecycleInvariant, PTL DEF Spec, RetiredNeverDelivers

=============================================================================
