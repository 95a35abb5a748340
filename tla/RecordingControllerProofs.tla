--------------------- MODULE RecordingControllerProofs ---------------------
(***************************************************************************)
(* Proofs about RecordingController: its types, who is inside serial_lock, *)
(* who owns the microphone and the session slot.  For every number of      *)
(* inputs and of takes.                                                    *)
(***************************************************************************)
EXTENDS RecordingController, TLAPS

\* An input leaves a session.
LEMMA InputTyped ==
  ASSUME inputs \in Session, NEW i, Input(i) PROVE inputs' \in Session
BY BoundsAssumption DEF Input, Session

-----------------------------------------------------------------------------
(* The control invariant: one step per action, and under it one per part    *)
(* the action can disturb.                                                  *)

\* Every step keeps the control state of the capture consistent.
LEMMA ControlStep ==
  TypeOK /\ ControlInv /\ [Next]_vars => ControlInv'
<1> SUFFICES ASSUME TypeOK, ControlInv, [Next]_vars PROVE ControlInv'
  OBVIOUS
<1> USE BoundsAssumption DEF ControlInv, TypeOK, TypeCtl, TypeTake, TypeId,
         TypeHold, TypeStart, Takes, NoTake, Starters, ctlVars, takeVars,
         idVars, holdVars, busVars, dlvVars, stopVars, tailVars, gestVars,
         envVars
<1>1. ASSUME NEW g \in sleeping, HoldLease(g) PROVE ControlInv'
  <2>1. LockInv'
    BY <1>1 DEF HoldLease, LockInv, StateInv, Starting, Recording
  <2>2. OwnerInv'
    BY <1>1 DEF HoldLease, LockInv, StateInv, OwnerInv, Starting, Recording,
         Admitted
  <2> QED
    BY <1>1, <2>1, <2>2 DEF HoldLease, StateInv, Recording
<1>2. CASE HoldFail
  <2>1. LockInv'
    BY <1>2 DEF HoldFail, UnwindHold, EndBus, LockInv, StateInv, Starting,
         Recording
  <2>2. OwnerInv'
    BY <1>2 DEF HoldFail, UnwindHold, EndBus, LockInv, StateInv, OwnerInv,
         Starting, Recording, Admitted
  <2> QED
    BY <1>2, <2>1, <2>2 DEF HoldFail, UnwindHold, EndBus, StateInv, Recording
<1>3. CASE HoldOpen
  <2>1. LockInv'
    BY <1>3 DEF HoldOpen, LockInv, StateInv, Starting, Recording
  <2>2. OwnerInv'
    BY <1>3 DEF HoldOpen, LockInv, StateInv, OwnerInv, Starting, Recording,
         Admitted
  <2> QED
    BY <1>3, <2>1, <2>2 DEF HoldOpen, StateInv, Recording
<1>4. CASE HoldSuperseded
  <2>1. LockInv'
    BY <1>4 DEF HoldSuperseded, UnwindHold, EndBus, LockInv, StateInv,
         Starting, Recording
  <2>2. OwnerInv'
    BY <1>4 DEF HoldSuperseded, UnwindHold, EndBus, LockInv, StateInv,
         OwnerInv, Starting, Recording, Admitted
  <2> QED
    BY <1>4, <2>1, <2>2 DEF HoldSuperseded, UnwindHold, EndBus, StateInv,
         Recording
<1>5. CASE HoldConfirm
  <2>1. LockInv'
    BY <1>5 DEF HoldConfirm, LockInv, StateInv, Starting, Recording
  <2>2. OwnerInv'
    BY <1>5 DEF HoldConfirm, LockInv, StateInv, OwnerInv, Starting, Recording,
         Admitted
  <2> QED
    BY <1>5, <2>1, <2>2 DEF HoldConfirm, StateInv, Recording
<1>6. CASE HoldArm
  <2>1. LockInv'
    BY <1>6 DEF HoldArm, LockInv, StateInv, Starting, Recording
  <2>2. StateInv'
    BY <1>6 DEF HoldArm, LockInv, StateInv, Starting, Recording
  <2>3. OwnerInv'
    BY <1>6 DEF HoldArm, LockInv, StateInv, OwnerInv, Starting, Recording,
         Admitted
  <2> QED
    BY <2>1, <2>2, <2>3
<1>7. ASSUME NEW s \in Starters, ToggleRefused(s) PROVE ControlInv'
  <2>1. LockInv'
    BY <1>7 DEF ToggleRefused, ReturnStart, GestureDone, LockInv, StateInv,
         Starting, Recording
  <2>2. OwnerInv'
    BY <1>7 DEF ToggleRefused, ReturnStart, GestureDone, LockInv, StateInv,
         OwnerInv, Starting, Recording, Admitted
  <2> QED
    BY <1>7, <2>1, <2>2 DEF ToggleRefused, ReturnStart, GestureDone, StateInv,
         Recording
<1>8. ASSUME NEW s \in Starters, ToggleAborted(s) PROVE ControlInv'
  <2>1. LockInv'
    BY <1>8 DEF ToggleAborted, ReturnStart, GestureDone, LockInv, StateInv,
         Starting, Recording
  <2>2. OwnerInv'
    BY <1>8 DEF ToggleAborted, ReturnStart, GestureDone, LockInv, StateInv,
         OwnerInv, Starting, Recording, Admitted
  <2> QED
    BY <1>8, <2>1, <2>2 DEF ToggleAborted, ReturnStart, GestureDone, StateInv,
         Recording
<1>9. ASSUME NEW s \in Starters, ToggleLease(s) PROVE ControlInv'
  <2>1. LockInv'
    BY <1>9 DEF ToggleLease, LockInv, StateInv, Starting, Recording
  <2>2. OwnerInv'
    BY <1>9 DEF ToggleLease, LockInv, StateInv, OwnerInv, Starting, Recording,
         Admitted
  <2> QED
    BY <1>9, <2>1, <2>2 DEF ToggleLease, StateInv, Recording
<1>10. ASSUME NEW s \in Starters, ToggleFail(s) PROVE ControlInv'
  <2>1. LockInv'
    BY <1>10 DEF ToggleFail, ReturnStart, GestureDone, EndBus, LockInv,
         StateInv, Starting, Recording
  <2>2. StateInv'
    BY <1>10 DEF ToggleFail, ReturnStart, GestureDone, EndBus, LockInv,
         StateInv, Starting, Recording
  <2>3. OwnerInv'
    BY <1>10 DEF ToggleFail, ReturnStart, GestureDone, EndBus, LockInv,
         StateInv, OwnerInv, Starting, Recording, Admitted
  <2> QED
    BY <2>1, <2>2, <2>3
<1>11. ASSUME NEW s \in Starters, ToggleOpen(s) PROVE ControlInv'
  <2>1. LockInv'
    BY <1>11 DEF ToggleOpen, LockInv, StateInv, Starting, Recording
  <2>2. OwnerInv'
    BY <1>11 DEF ToggleOpen, LockInv, StateInv, OwnerInv, Starting, Recording,
         Admitted
  <2> QED
    BY <1>11, <2>1, <2>2 DEF ToggleOpen, StateInv, Recording
<1>12. ASSUME NEW s \in Starters, ToggleArm(s) PROVE ControlInv'
  <2>1. LockInv'
    BY <1>12 DEF ToggleArm, ReturnStart, GestureDone, LockInv, StateInv,
         Starting, Recording
  <2>2. StateInv'
    BY <1>12 DEF ToggleArm, ReturnStart, GestureDone, LockInv, StateInv,
         Starting, Recording
  <2>3. OwnerInv'
    BY <1>12 DEF ToggleArm, ReturnStart, GestureDone, LockInv, StateInv,
         OwnerInv, Starting, Recording, Admitted
  <2> QED
    BY <2>1, <2>2, <2>3
<1>13. CASE SettleRefused
  <2>1. LockInv'
    BY <1>13 DEF SettleRefused, CaptureGate, LockInv, StateInv, Starting,
         Recording
  <2>2. StateInv'
    BY <1>13 DEF SettleRefused, CaptureGate, LockInv, StateInv, Starting,
         Recording
  <2>3. OwnerInv'
    BY <1>13 DEF SettleRefused, CaptureGate, LockInv, StateInv, OwnerInv,
         Starting, Recording, Admitted
  <2> QED
    BY <2>1, <2>2, <2>3
<1>14. CASE SettleAdmit
  <2>1. LockInv'
    BY <1>14 DEF SettleAdmit, CaptureGate, BumpGeneration, LatchAfterCancel,
         Unfinished, LockInv, StateInv, Starting, Recording
  <2>2. StateInv'
    BY <1>14 DEF SettleAdmit, CaptureGate, BumpGeneration, LatchAfterCancel,
         Unfinished, LockInv, StateInv, Starting, Recording
  <2>3. OwnerInv'
    BY <1>14 DEF SettleAdmit, CaptureGate, BumpGeneration, LatchAfterCancel,
         Unfinished, LockInv, StateInv, OwnerInv, Starting, Recording, Admitted
  <2> QED
    BY <2>1, <2>2, <2>3
<1>15. CASE SettleBusy
  <2>1. LockInv'
    BY <1>15 DEF SettleBusy, LockInv, StateInv, Starting, Recording
  <2>2. StateInv'
    BY <1>15 DEF SettleBusy, LockInv, StateInv, Starting, Recording
  <2>3. OwnerInv'
    BY <1>15 DEF SettleBusy, LockInv, StateInv, OwnerInv, Starting, Recording,
         Admitted
  <2> QED
    BY <2>1, <2>2, <2>3
<1>16. CASE SettleClose
  <2>1. LockInv'
    BY <1>16 DEF SettleClose, LockInv, StateInv, Starting, Recording
  <2>2. StateInv'
    BY <1>16 DEF SettleClose, LockInv, StateInv, Starting, Recording
  <2>3. OwnerInv'
    BY <1>16 DEF SettleClose, LockInv, StateInv, OwnerInv, Starting, Recording,
         Admitted
  <2> QED
    BY <2>1, <2>2, <2>3
<1>17. CASE SettlePreempted
  <2>1. LockInv'
    BY <1>17 DEF SettlePreempted, Record, Detach, LockInv, StateInv, Starting,
         Recording
  <2>2. StateInv'
    BY <1>17 DEF SettlePreempted, Record, Detach, LockInv, StateInv, Starting,
         Recording
  <2>3. OwnerInv'
    BY <1>17 DEF SettlePreempted, Record, Detach, LockInv, StateInv, OwnerInv,
         Starting, Recording, Admitted
  <2> QED
    BY <2>1, <2>2, <2>3
<1>18. CASE SettleFinals
  <2>1. LockInv'
    BY <1>18 DEF SettleFinals, LockInv, StateInv, Starting, Recording
  <2>2. StateInv'
    BY <1>18 DEF SettleFinals, LockInv, StateInv, Starting, Recording
  <2>3. OwnerInv'
    BY <1>18 DEF SettleFinals, LockInv, StateInv, OwnerInv, Starting,
         Recording, Admitted
  <2> QED
    BY <2>1, <2>2, <2>3
<1>19. CASE SettleCanvas
  <2>1. LockInv'
    BY <1>19 DEF SettleCanvas, DeliverText, Record, LockInv, StateInv,
         Starting, Recording
  <2>2. StateInv'
    BY <1>19 DEF SettleCanvas, DeliverText, Record, LockInv, StateInv,
         Starting, Recording
  <2>3. OwnerInv'
    BY <1>19 DEF SettleCanvas, DeliverText, Record, LockInv, StateInv,
         OwnerInv, Starting, Recording, Admitted
  <2> QED
    BY <2>1, <2>2, <2>3
<1>20. CASE TerminalPending
  <2>1. LockInv'
    BY <1>20 DEF TerminalPending, Detach, LockInv, StateInv, Starting,
         Recording
  <2>2. StateInv'
    BY <1>20 DEF TerminalPending, Detach, LockInv, StateInv, Starting,
         Recording
  <2>3. OwnerInv'
    BY <1>20 DEF TerminalPending, Detach, LockInv, StateInv, OwnerInv,
         Starting, Recording, Admitted
  <2> QED
    BY <2>1, <2>2, <2>3
<1>21. CASE TerminalFailed
  <2>1. LockInv'
    BY <1>21 DEF TerminalFailed, LockInv, StateInv, Starting, Recording
  <2>2. StateInv'
    BY <1>21 DEF TerminalFailed, LockInv, StateInv, Starting, Recording
  <2>3. OwnerInv'
    BY <1>21 DEF TerminalFailed, LockInv, StateInv, OwnerInv, Starting,
         Recording, Admitted
  <2> QED
    BY <2>1, <2>2, <2>3
<1>22. CASE TerminalDeliver
  <2>1. LockInv'
    BY <1>22 DEF TerminalDeliver, DeliverText, Record, LockInv, StateInv,
         Starting, Recording
  <2>2. StateInv'
    BY <1>22 DEF TerminalDeliver, DeliverText, Record, LockInv, StateInv,
         Starting, Recording
  <2>3. OwnerInv'
    BY <1>22 DEF TerminalDeliver, DeliverText, Record, LockInv, StateInv,
         OwnerInv, Starting, Recording, Admitted
  <2> QED
    BY <2>1, <2>2, <2>3
<1>23. CASE SettleReset
  <2>1. LockInv'
    BY <1>23 DEF SettleReset, EndBus, LockInv, StateInv, Starting, Recording
  <2>2. StateInv'
    BY <1>23 DEF SettleReset, EndBus, LockInv, StateInv, Starting, Recording
  <2>3. OwnerInv'
    BY <1>23 DEF SettleReset, EndBus, LockInv, StateInv, OwnerInv, Starting,
         Recording, Admitted
  <2> QED
    BY <2>1, <2>2, <2>3
<1>24. CASE SettleIdle
  <2>1. LockInv'
    BY <1>24 DEF SettleIdle, LockInv, StateInv, Starting, Recording
  <2>2. StateInv'
    BY <1>24 DEF SettleIdle, LockInv, StateInv, Starting, Recording
  <2>3. OwnerInv'
    BY <1>24 DEF SettleIdle, LockInv, StateInv, OwnerInv, Starting, Recording,
         Admitted
  <2> QED
    BY <2>1, <2>2, <2>3
<1>25. CASE SettleDone
  <2>1. LockInv'
    BY <1>25 DEF SettleDone, LockInv, StateInv, Starting, Recording
  <2>2. StateInv'
    BY <1>25 DEF SettleDone, LockInv, StateInv, Starting, Recording
  <2>3. OwnerInv'
    BY <1>25 DEF SettleDone, LockInv, StateInv, OwnerInv, Starting, Recording,
         Admitted
  <2> QED
    BY <2>1, <2>2, <2>3
<1>26. CASE TakeGesture
  <2>1. LockInv'
    BY <1>26 DEF TakeGesture, Preempt, IsStop, LockInv, StateInv, Starting,
         Recording
  <2> QED
    BY <1>26, <2>1 DEF TakeGesture, Preempt, IsStop, StateInv, Recording,
         OwnerInv, Starting
<1>27. CASE CancelHold
  <2>1. LockInv'
    BY <1>27 DEF CancelHold, GestureDone, BumpGeneration, LatchAfterCancel,
         Unfinished, LockInv, StateInv, Starting, Recording
  <2> QED
    BY <1>27, <2>1 DEF CancelHold, GestureDone, BumpGeneration,
         LatchAfterCancel, Unfinished, StateInv, Recording, OwnerInv, Starting
<1>28. CASE AwaitRetired
  <2>1. LockInv'
    BY <1>28 DEF AwaitRetired, GestureMove, LockInv, StateInv, Starting,
         Recording
  <2> QED
    BY <1>28, <2>1 DEF AwaitRetired, GestureMove, StateInv, Recording,
         OwnerInv, Starting
<1>29. CASE AwaitRefused
  <2>1. LockInv'
    BY <1>29 DEF AwaitRefused, GestureEnd, GestureDone, LockInv, StateInv,
         Starting, Recording
  <2> QED
    BY <1>29, <2>1 DEF AwaitRefused, GestureEnd, GestureDone, StateInv,
         Recording, OwnerInv, Starting
<1>30. CASE Recover
  <2>1. LockInv'
    BY <1>30 DEF Recover, LockInv, StateInv, Starting, Recording
  <2>2. OwnerInv'
    BY <1>30 DEF Recover, LockInv, StateInv, OwnerInv, Starting, Recording,
         Admitted
  <2> QED
    BY <1>30, <2>1, <2>2 DEF Recover, StateInv, Recording
<1>31. CASE RouteIgnored
  <2>1. LockInv'
    BY <1>31 DEF RouteIgnored, GestureEnd, GestureDone, LockInv, StateInv,
         Starting, Recording
  <2> QED
    BY <1>31, <2>1 DEF RouteIgnored, GestureEnd, GestureDone, StateInv,
         Recording, OwnerInv, Starting
<1>32. CASE RouteHold
  <2>1. LockInv'
    BY <1>32 DEF RouteHold, GestureMove, LockInv, StateInv, Starting, Recording
  <2> QED
    BY <1>32, <2>1 DEF RouteHold, GestureMove, StateInv, Recording, OwnerInv,
         Starting
<1>33. CASE RouteStop
  <2>1. LockInv'
    BY <1>33 DEF RouteStop, GestureMove, LockInv, StateInv, Starting, Recording
  <2> QED
    BY <1>33, <2>1 DEF RouteStop, GestureMove, StateInv, Recording, OwnerInv,
         Starting
<1>34. CASE RouteToggle
  <2>1. LockInv'
    BY <1>34 DEF RouteToggle, Preempt, LockInv, StateInv, Starting, Recording
  <2>2. OwnerInv'
    BY <1>34 DEF RouteToggle, Preempt, LockInv, StateInv, OwnerInv, Starting,
         Recording, Admitted
  <2> QED
    BY <1>34, <2>1, <2>2 DEF RouteToggle, Preempt, StateInv, Recording
<1>35. CASE ScheduleHold
  <2>1. LockInv'
    BY <1>35 DEF ScheduleHold, GestureDone, BumpGeneration, LatchAfterCancel,
         Unfinished, LockInv, StateInv, Starting, Recording
  <2> QED
    BY <1>35, <2>1 DEF ScheduleHold, GestureDone, BumpGeneration,
         LatchAfterCancel, Unfinished, StateInv, Recording, OwnerInv, Starting
<1>36. CASE GestureStop
  <2>1. LockInv'
    BY <1>36 DEF GestureStop, SlotFree, AdmitStop, RegisterStop, GestureDone,
         LockInv, StateInv, Starting, Recording
  <2>2. StateInv'
    BY <1>36 DEF GestureStop, SlotFree, AdmitStop, RegisterStop, GestureDone,
         LockInv, StateInv, Starting, Recording
  <2>3. OwnerInv'
    BY <1>36 DEF GestureStop, SlotFree, AdmitStop, RegisterStop, GestureDone,
         LockInv, StateInv, OwnerInv, Starting, Recording, Admitted
  <2> QED
    BY <2>1, <2>2, <2>3
<1>37. CASE GestureClosed
  <2>1. LockInv'
    BY <1>37 DEF GestureClosed, GestureEnd, GestureDone, LockInv, StateInv,
         Starting, Recording
  <2> QED
    BY <1>37, <2>1 DEF GestureClosed, GestureEnd, GestureDone, StateInv,
         Recording, OwnerInv, Starting
<1>38. CASE ComposerPress
  <2>1. LockInv'
    BY <1>38 DEF ComposerPress, Preempt, Input, LockInv, StateInv, Starting,
         Recording
  <2>2. OwnerInv'
    BY <1>38 DEF ComposerPress, Preempt, Input, LockInv, StateInv, OwnerInv,
         Starting, Recording, Admitted
  <2> QED
    BY <1>38, <2>1, <2>2 DEF ComposerPress, Preempt, Input, StateInv, Recording
<1>39. CASE ExternalStop
  <2>1. LockInv'
    BY <1>39 DEF ExternalStop, SlotFree, AdmitStop, RegisterStop, Input,
         LockInv, StateInv, Starting, Recording
  <2>2. StateInv'
    BY <1>39 DEF ExternalStop, SlotFree, AdmitStop, RegisterStop, Input,
         LockInv, StateInv, Starting, Recording
  <2>3. OwnerInv'
    BY <1>39 DEF ExternalStop, SlotFree, AdmitStop, RegisterStop, Input,
         LockInv, StateInv, OwnerInv, Starting, Recording, Admitted
  <2> QED
    BY <2>1, <2>2, <2>3
<1>40. ASSUME NEW t \in Takes, StopOwned(t) PROVE ControlInv'
  <2>1. LockInv'
    BY <1>40 DEF StopOwned, RegisterStop, Input, SlotFree, LockInv, StateInv,
         Starting, Recording
  <2>2. StateInv'
    BY <1>40 DEF StopOwned, RegisterStop, Input, SlotFree, LockInv, StateInv,
         Starting, Recording
  <2>3. OwnerInv'
    BY <1>40 DEF StopOwned, RegisterStop, Input, SlotFree, LockInv, StateInv,
         OwnerInv, Starting, Recording, Admitted
  <2> QED
    BY <2>1, <2>2, <2>3
<1>41. CASE UNCHANGED <<serialLock, holdPc, startPc, settlePc, startInFlight,
            state, gPc, sessionId, settleId, stopping, leases, mic, activeBus>>
  BY <1>41 DEF LockInv, StateInv, Starting, Recording, OwnerInv, Admitted
<1> QED
  BY <1>1, <1>2, <1>3, <1>4, <1>5, <1>6, <1>7, <1>8, <1>9, <1>10, <1>11, <1>12,
       <1>13, <1>14, <1>15, <1>16, <1>17, <1>18, <1>19, <1>20, <1>21, <1>22,
       <1>23, <1>24, <1>25, <1>26, <1>27, <1>28, <1>29, <1>30, <1>31, <1>32,
       <1>33, <1>34, <1>35, <1>36, <1>37, <1>38, <1>39, <1>40, <1>41 DEF Next,
       HoldTasks, ToggleStarts, Settlement, Consumer, Surfaces, vars, HoldDrop,
       HoldRefused, HoldExit, Tap, RequestShutdown, ShutdownSettled,
       ReserveIdleRestart, TailFinish, Preempt, Input

\* Every step keeps the types.
LEMMA TypeStep ==
  TypeOK /\ ControlInv /\ [Next]_vars => TypeOK'
<1> SUFFICES ASSUME TypeOK, ControlInv, [Next]_vars PROVE TypeOK'
  OBVIOUS
<1> USE BoundsAssumption DEF TypeOK, Takes, NoTake, Starters, Kinds, Gestures,
         Dispositions, Outcomes, ctlVars, takeVars, idVars, holdVars, busVars,
         dlvVars, stopVars, tailVars, gestVars, envVars
<1>1. ASSUME NEW g \in sleeping, HoldDrop(g) PROVE TypeOK'
  <2>1. TypeHold'
    BY <1>1 DEF HoldDrop, TypeHold
  <2> QED
    BY <1>1, <2>1 DEF HoldDrop, TypeCtl, TypeTake, TypeId, TypeStart, TypeBus,
         TypeDlv, TypeStop, TypeTail, TypeGest, TypeEnv
<1>2. ASSUME NEW g \in sleeping, HoldRefused(g) PROVE TypeOK'
  <2>1. TypeHold'
    BY <1>2 DEF HoldRefused, TypeHold
  <2> QED
    BY <1>2, <2>1 DEF HoldRefused, TypeCtl, TypeTake, TypeId, TypeStart,
         TypeBus, TypeDlv, TypeStop, TypeTail, TypeGest, TypeEnv
<1>3. ASSUME NEW g \in sleeping, HoldLease(g) PROVE TypeOK'
  <2>1. TypeCtl'
    BY <1>3 DEF HoldLease, TypeCtl
  <2>2. TypeTake'
    BY <1>3 DEF HoldLease, TypeTake, TypeId
  <2>3. TypeId'
    BY <1>3 DEF HoldLease, TypeId, TypeTake
  <2>4. TypeHold'
    BY <1>3 DEF HoldLease, TypeHold
  <2> QED
    BY <1>3, <2>1, <2>2, <2>3, <2>4 DEF HoldLease, TypeStart, TypeBus, TypeDlv,
         TypeStop, TypeTail, TypeGest, TypeEnv
<1>4. CASE HoldFail
  <2>1. TypeCtl'
    BY <1>4 DEF HoldFail, UnwindHold, EndBus, TypeCtl
  <2>2. TypeTake'
    BY <1>4 DEF HoldFail, UnwindHold, EndBus, TypeTake, TypeId
  <2>3. TypeHold'
    BY <1>4 DEF HoldFail, UnwindHold, EndBus, TypeHold
  <2>4. TypeBus'
    BY <1>4 DEF HoldFail, UnwindHold, EndBus, TypeBus, TypeTake, TypeDlv
  <2> QED
    BY <1>4, <2>1, <2>2, <2>3, <2>4 DEF HoldFail, UnwindHold, EndBus, TypeId,
         TypeStart, TypeDlv, TypeStop, TypeTail, TypeGest, TypeEnv
<1>5. CASE HoldOpen
  <2>1. TypeTake'
    BY <1>5 DEF HoldOpen, TypeTake, TypeId
  <2>2. TypeHold'
    BY <1>5 DEF HoldOpen, TypeHold
  <2>3. TypeBus'
    BY <1>5 DEF HoldOpen, TypeBus, TypeTake, TypeDlv
  <2> QED
    BY <1>5, <2>1, <2>2, <2>3 DEF HoldOpen, TypeCtl, TypeId, TypeStart,
         TypeDlv, TypeStop, TypeTail, TypeGest, TypeEnv
<1>6. CASE HoldSuperseded
  <2>1. TypeCtl'
    BY <1>6 DEF HoldSuperseded, UnwindHold, EndBus, TypeCtl
  <2>2. TypeTake'
    BY <1>6 DEF HoldSuperseded, UnwindHold, EndBus, TypeTake, TypeId
  <2>3. TypeHold'
    BY <1>6 DEF HoldSuperseded, UnwindHold, EndBus, TypeHold
  <2>4. TypeBus'
    BY <1>6 DEF HoldSuperseded, UnwindHold, EndBus, TypeBus, TypeTake, TypeDlv
  <2> QED
    BY <1>6, <2>1, <2>2, <2>3, <2>4 DEF HoldSuperseded, UnwindHold, EndBus,
         TypeId, TypeStart, TypeDlv, TypeStop, TypeTail, TypeGest, TypeEnv
<1>7. CASE HoldConfirm
  <2>1. TypeHold'
    BY <1>7 DEF HoldConfirm, TypeHold
  <2> QED
    BY <1>7, <2>1 DEF HoldConfirm, TypeCtl, TypeTake, TypeId, TypeStart,
         TypeBus, TypeDlv, TypeStop, TypeTail, TypeGest, TypeEnv
<1>8. CASE HoldArm
  <2>1. TypeCtl'
    BY <1>8 DEF HoldArm, TypeCtl
  <2>2. TypeHold'
    BY <1>8 DEF HoldArm, TypeHold
  <2> QED
    BY <1>8, <2>1, <2>2 DEF HoldArm, TypeTake, TypeId, TypeStart, TypeBus,
         TypeDlv, TypeStop, TypeTail, TypeGest, TypeEnv
<1>9. ASSUME NEW g \in exiting, HoldExit(g) PROVE TypeOK'
  <2>1. TypeHold'
    BY <1>9 DEF HoldExit, TypeHold
  <2> QED
    BY <1>9, <2>1 DEF HoldExit, TypeCtl, TypeTake, TypeId, TypeStart, TypeBus,
         TypeDlv, TypeStop, TypeTail, TypeGest, TypeEnv
<1>10. ASSUME NEW s \in Starters, ToggleRefused(s) PROVE TypeOK'
  <2>1. TypeStart'
    BY <1>10 DEF ToggleRefused, ReturnStart, GestureDone, TypeStart
  <2>2. TypeGest'
    BY <1>10 DEF ToggleRefused, ReturnStart, GestureDone, TypeGest, TypeHold,
         TypeStop, TypeTake
  <2> QED
    BY <1>10, <2>1, <2>2 DEF ToggleRefused, ReturnStart, GestureDone, TypeCtl,
         TypeTake, TypeId, TypeHold, TypeBus, TypeDlv, TypeStop, TypeTail,
         TypeEnv
<1>11. ASSUME NEW s \in Starters, ToggleAborted(s) PROVE TypeOK'
  <2>1. TypeTake'
    BY <1>11 DEF ToggleAborted, ReturnStart, GestureDone, TypeTake, TypeId
  <2>2. TypeStart'
    BY <1>11 DEF ToggleAborted, ReturnStart, GestureDone, TypeStart
  <2>3. TypeDlv'
    BY <1>11 DEF ToggleAborted, ReturnStart, GestureDone, TypeDlv, TypeStop
  <2>4. TypeGest'
    BY <1>11 DEF ToggleAborted, ReturnStart, GestureDone, TypeGest, TypeHold,
         TypeStop, TypeTake
  <2> QED
    BY <1>11, <2>1, <2>2, <2>3, <2>4 DEF ToggleAborted, ReturnStart,
         GestureDone, TypeCtl, TypeId, TypeHold, TypeBus, TypeStop, TypeTail,
         TypeEnv
<1>12. ASSUME NEW s \in Starters, ToggleLease(s) PROVE TypeOK'
  <2>1. TypeCtl'
    BY <1>12 DEF ToggleLease, TypeCtl
  <2>2. TypeTake'
    BY <1>12 DEF ToggleLease, TypeTake, TypeId
  <2>3. TypeId'
    BY <1>12 DEF ToggleLease, TypeId, TypeTake
  <2>4. TypeStart'
    BY <1>12 DEF ToggleLease, TypeStart
  <2>5. TypeDlv'
    BY <1>12 DEF ToggleLease, TypeDlv, TypeStop
  <2> QED
    BY <1>12, <2>1, <2>2, <2>3, <2>4, <2>5 DEF ToggleLease, TypeHold, TypeBus,
         TypeStop, TypeTail, TypeGest, TypeEnv
<1>13. ASSUME NEW s \in Starters, ToggleFail(s) PROVE TypeOK'
  <2>1. TypeCtl'
    BY <1>13 DEF ToggleFail, ReturnStart, GestureDone, EndBus, TypeCtl
  <2>2. TypeTake'
    BY <1>13 DEF ToggleFail, ReturnStart, GestureDone, EndBus, TypeTake, TypeId
  <2>3. TypeStart'
    BY <1>13 DEF ToggleFail, ReturnStart, GestureDone, EndBus, TypeStart
  <2>4. TypeBus'
    BY <1>13 DEF ToggleFail, ReturnStart, GestureDone, EndBus, TypeBus,
         TypeTake, TypeDlv
  <2>5. TypeGest'
    BY <1>13 DEF ToggleFail, ReturnStart, GestureDone, EndBus, TypeGest,
         TypeHold, TypeStop, TypeTake
  <2> QED
    BY <1>13, <2>1, <2>2, <2>3, <2>4, <2>5 DEF ToggleFail, ReturnStart,
         GestureDone, EndBus, TypeId, TypeHold, TypeDlv, TypeStop, TypeTail,
         TypeEnv
<1>14. ASSUME NEW s \in Starters, ToggleOpen(s) PROVE TypeOK'
  <2>1. TypeTake'
    BY <1>14 DEF ToggleOpen, TypeTake, TypeId
  <2>2. TypeStart'
    BY <1>14 DEF ToggleOpen, TypeStart
  <2>3. TypeBus'
    BY <1>14 DEF ToggleOpen, TypeBus, TypeTake, TypeDlv
  <2> QED
    BY <1>14, <2>1, <2>2, <2>3 DEF ToggleOpen, TypeCtl, TypeId, TypeHold,
         TypeDlv, TypeStop, TypeTail, TypeGest, TypeEnv
<1>15. ASSUME NEW s \in Starters, ToggleArm(s) PROVE TypeOK'
  <2>1. TypeCtl'
    BY <1>15 DEF ToggleArm, ReturnStart, GestureDone, TypeCtl
  <2>2. TypeId'
    <3>1. sessionId \in Takes
      BY <1>15 DEF ToggleArm, ControlInv, LockInv, OwnerInv, Starting, TypeTake,
           NoTake
    <3> QED
      BY <1>15, <3>1 DEF ToggleArm, TypeId
  <2>3. TypeStart'
    BY <1>15 DEF ToggleArm, ReturnStart, GestureDone, TypeStart
  <2>4. TypeGest'
    BY <1>15 DEF ToggleArm, ReturnStart, GestureDone, TypeGest, TypeHold,
         TypeStop, TypeTake
  <2> QED
    BY <1>15, <2>1, <2>2, <2>3, <2>4 DEF ToggleArm, ReturnStart, GestureDone,
         TypeTake, TypeHold, TypeBus, TypeDlv, TypeStop, TypeTail, TypeEnv
<1>16. CASE SettleRefused
  <2>1. TypeStop'
    BY <1>16 DEF SettleRefused, CaptureGate, TypeStop, TypeTake
  <2> QED
    BY <1>16, <2>1 DEF SettleRefused, CaptureGate, TypeCtl, TypeTake, TypeId,
         TypeHold, TypeStart, TypeBus, TypeDlv, TypeTail, TypeGest, TypeEnv
<1>17. CASE SettleAdmit
  <2>1. TypeCtl'
    BY <1>17 DEF SettleAdmit, CaptureGate, BumpGeneration, LatchAfterCancel,
         Unfinished, TypeCtl
  <2>2. TypeTake'
    BY <1>17 DEF SettleAdmit, CaptureGate, BumpGeneration, LatchAfterCancel,
         Unfinished, TypeTake, TypeId
  <2>3. TypeHold'
    BY <1>17 DEF SettleAdmit, CaptureGate, BumpGeneration, LatchAfterCancel,
         Unfinished, TypeHold
  <2>4. TypeStop'
    BY <1>17 DEF SettleAdmit, CaptureGate, BumpGeneration, LatchAfterCancel,
         Unfinished, TypeStop, TypeTake
  <2>5. TypeGest'
    BY <1>17 DEF SettleAdmit, CaptureGate, BumpGeneration, LatchAfterCancel,
         Unfinished, TypeGest, TypeHold, TypeStop, TypeTake
  <2> QED
    BY <1>17, <2>1, <2>2, <2>3, <2>4, <2>5 DEF SettleAdmit, CaptureGate,
         BumpGeneration, LatchAfterCancel, Unfinished, TypeId, TypeStart,
         TypeBus, TypeDlv, TypeTail, TypeEnv
<1>18. CASE SettleBusy
  <2>1. TypeCtl'
    BY <1>18 DEF SettleBusy, TypeCtl
  <2>2. TypeStop'
    BY <1>18 DEF SettleBusy, TypeStop, TypeTake
  <2> QED
    BY <1>18, <2>1, <2>2 DEF SettleBusy, TypeTake, TypeId, TypeHold, TypeStart,
         TypeBus, TypeDlv, TypeTail, TypeGest, TypeEnv
<1>19. CASE SettleClose
  <2>1. TypeCtl'
    BY <1>19 DEF SettleClose, TypeCtl
  <2>2. TypeTake'
    BY <1>19 DEF SettleClose, TypeTake, TypeId
  <2>3. TypeStop'
    BY <1>19 DEF SettleClose, TypeStop, TypeTake
  <2> QED
    BY <1>19, <2>1, <2>2, <2>3 DEF SettleClose, TypeId, TypeHold, TypeStart,
         TypeBus, TypeDlv, TypeTail, TypeGest, TypeEnv
<1>20. CASE SettlePreempted
  <2>1. TypeBus'
    BY <1>20 DEF SettlePreempted, Record, Detach, TypeBus, TypeTake, TypeDlv
  <2>2. TypeDlv'
    BY <1>20 DEF SettlePreempted, Record, Detach, TypeDlv, TypeStop
  <2>3. TypeStop'
    BY <1>20 DEF SettlePreempted, Record, Detach, TypeStop, TypeTake
  <2>4. TypeTail'
    BY <1>20 DEF SettlePreempted, Record, Detach, TypeTail, TypeTake, TypeDlv
  <2> QED
    BY <1>20, <2>1, <2>2, <2>3, <2>4 DEF SettlePreempted, Record, Detach,
         TypeCtl, TypeTake, TypeId, TypeHold, TypeStart, TypeGest, TypeEnv
<1>21. CASE SettleFinals
  <2>1. TypeStop'
    BY <1>21 DEF SettleFinals, TypeStop, TypeTake
  <2> QED
    BY <1>21, <2>1 DEF SettleFinals, TypeCtl, TypeTake, TypeId, TypeHold,
         TypeStart, TypeBus, TypeDlv, TypeTail, TypeGest, TypeEnv
<1>22. CASE SettleCanvas
  <2>1. TypeDlv'
    BY <1>22, SMTT(20) DEF SettleCanvas, DeliverText, Record, TypeDlv, TypeStop
  <2>2. TypeStop'
    BY <1>22 DEF SettleCanvas, DeliverText, Record, TypeStop, TypeTake
  <2> QED
    BY <1>22, <2>1, <2>2 DEF SettleCanvas, DeliverText, Record, TypeCtl,
         TypeTake, TypeId, TypeHold, TypeStart, TypeBus, TypeTail, TypeGest,
         TypeEnv
<1>23. CASE TerminalPending
  <2>1. TypeBus'
    BY <1>23 DEF TerminalPending, Detach, TypeBus, TypeTake, TypeDlv
  <2>2. TypeStop'
    BY <1>23 DEF TerminalPending, Detach, TypeStop, TypeTake
  <2>3. TypeTail'
    BY <1>23 DEF TerminalPending, Detach, TypeTail, TypeTake, TypeDlv
  <2> QED
    BY <1>23, <2>1, <2>2, <2>3 DEF TerminalPending, Detach, TypeCtl, TypeTake,
         TypeId, TypeHold, TypeStart, TypeDlv, TypeGest, TypeEnv
<1>24. CASE TerminalFailed
  <2>1. TypeStop'
    BY <1>24 DEF TerminalFailed, TypeStop, TypeTake
  <2> QED
    BY <1>24, <2>1 DEF TerminalFailed, TypeCtl, TypeTake, TypeId, TypeHold,
         TypeStart, TypeBus, TypeDlv, TypeTail, TypeGest, TypeEnv
<1>25. CASE TerminalDeliver
  <2>1. TypeDlv'
    <3>1. CASE UNCHANGED dlvVars
      BY <3>1 DEF TypeDlv
    <3>2. CASE DeliverText(settleResult' = "Stopped", settleResult' = "Error")
      BY <3>2, SMTT(20) DEF DeliverText, Record, TypeDlv, TypeStop
    <3> QED
      BY <1>25, <3>1, <3>2 DEF TerminalDeliver
  <2>2. TypeStop'
    BY <1>25 DEF TerminalDeliver, DeliverText, Record, TypeStop, TypeTake
  <2> QED
    BY <1>25, <2>1, <2>2 DEF TerminalDeliver, DeliverText, Record, TypeCtl,
         TypeTake, TypeId, TypeHold, TypeStart, TypeBus, TypeTail, TypeGest,
         TypeEnv
<1>26. CASE SettleReset
  <2>1. TypeCtl'
    BY <1>26 DEF SettleReset, EndBus, TypeCtl
  <2>2. TypeTake'
    BY <1>26 DEF SettleReset, EndBus, TypeTake, TypeId
  <2>3. TypeBus'
    BY <1>26 DEF SettleReset, EndBus, TypeBus, TypeTake, TypeDlv
  <2>4. TypeStop'
    BY <1>26 DEF SettleReset, EndBus, TypeStop, TypeTake
  <2> QED
    BY <1>26, <2>1, <2>2, <2>3, <2>4 DEF SettleReset, EndBus, TypeId, TypeHold,
         TypeStart, TypeDlv, TypeTail, TypeGest, TypeEnv
<1>27. CASE SettleIdle
  <2>1. TypeCtl'
    BY <1>27 DEF SettleIdle, TypeCtl
  <2>2. TypeStop'
    BY <1>27 DEF SettleIdle, TypeStop, TypeTake
  <2> QED
    BY <1>27, <2>1, <2>2 DEF SettleIdle, TypeTake, TypeId, TypeHold, TypeStart,
         TypeBus, TypeDlv, TypeTail, TypeGest, TypeEnv
<1>28. CASE SettleDone
  <2>1. TypeTake'
    BY <1>28 DEF SettleDone, TypeTake, TypeId
  <2>2. TypeStop'
    BY <1>28 DEF SettleDone, TypeStop, TypeTake
  <2> QED
    BY <1>28, <2>1, <2>2 DEF SettleDone, TypeCtl, TypeId, TypeHold, TypeStart,
         TypeBus, TypeDlv, TypeTail, TypeGest, TypeEnv
<1>29. CASE TakeGesture
  <2>1. TypeStop'
    BY <1>29 DEF TakeGesture, Preempt, IsStop, TypeStop, TypeTake
  <2>2. TypeGest'
    BY <1>29 DEF TakeGesture, Preempt, IsStop, TypeGest, TypeHold, TypeStop,
         TypeTake
  <2> QED
    BY <1>29, <2>1, <2>2 DEF TakeGesture, Preempt, IsStop, TypeCtl, TypeTake,
         TypeId, TypeHold, TypeStart, TypeBus, TypeDlv, TypeTail, TypeEnv
<1>30. CASE CancelHold
  <2>1. TypeTake'
    BY <1>30 DEF CancelHold, GestureDone, BumpGeneration, LatchAfterCancel,
         Unfinished, TypeTake, TypeId
  <2>2. TypeHold'
    BY <1>30 DEF CancelHold, GestureDone, BumpGeneration, LatchAfterCancel,
         Unfinished, TypeHold
  <2>3. TypeGest'
    BY <1>30 DEF CancelHold, GestureDone, BumpGeneration, LatchAfterCancel,
         Unfinished, TypeGest, TypeHold, TypeStop, TypeTake
  <2> QED
    BY <1>30, <2>1, <2>2, <2>3 DEF CancelHold, GestureDone, BumpGeneration,
         LatchAfterCancel, Unfinished, TypeCtl, TypeId, TypeStart, TypeBus,
         TypeDlv, TypeStop, TypeTail, TypeEnv
<1>31. CASE AwaitRetired
  <2>1. TypeGest'
    BY <1>31 DEF AwaitRetired, GestureMove, TypeGest, TypeHold, TypeStop,
         TypeTake
  <2> QED
    BY <1>31, <2>1 DEF AwaitRetired, GestureMove, TypeCtl, TypeTake, TypeId,
         TypeHold, TypeStart, TypeBus, TypeDlv, TypeStop, TypeTail, TypeEnv
<1>32. CASE AwaitRefused
  <2>1. TypeGest'
    BY <1>32 DEF AwaitRefused, GestureEnd, GestureDone, TypeGest, TypeHold,
         TypeStop, TypeTake
  <2> QED
    BY <1>32, <2>1 DEF AwaitRefused, GestureEnd, GestureDone, TypeCtl,
         TypeTake, TypeId, TypeHold, TypeStart, TypeBus, TypeDlv, TypeStop,
         TypeTail, TypeEnv
<1>33. CASE Recover
  <2>1. TypeTake'
    BY <1>33 DEF Recover, TypeTake, TypeId
  <2>2. TypeGest'
    BY <1>33 DEF Recover, TypeGest, TypeHold, TypeStop, TypeTake
  <2> QED
    BY <1>33, <2>1, <2>2 DEF Recover, TypeCtl, TypeId, TypeHold, TypeStart,
         TypeBus, TypeDlv, TypeStop, TypeTail, TypeEnv
<1>34. CASE RouteIgnored
  <2>1. TypeGest'
    BY <1>34 DEF RouteIgnored, GestureEnd, GestureDone, TypeGest, TypeHold,
         TypeStop, TypeTake
  <2> QED
    BY <1>34, <2>1 DEF RouteIgnored, GestureEnd, GestureDone, TypeCtl,
         TypeTake, TypeId, TypeHold, TypeStart, TypeBus, TypeDlv, TypeStop,
         TypeTail, TypeEnv
<1>35. CASE RouteHold
  <2>1. TypeGest'
    BY <1>35 DEF RouteHold, GestureMove, TypeGest, TypeHold, TypeStop, TypeTake
  <2> QED
    BY <1>35, <2>1 DEF RouteHold, GestureMove, TypeCtl, TypeTake, TypeId,
         TypeHold, TypeStart, TypeBus, TypeDlv, TypeStop, TypeTail, TypeEnv
<1>36. CASE RouteStop
  <2>1. TypeGest'
    BY <1>36 DEF RouteStop, GestureMove, TypeGest, TypeHold, TypeStop, TypeTake
  <2> QED
    BY <1>36, <2>1 DEF RouteStop, GestureMove, TypeCtl, TypeTake, TypeId,
         TypeHold, TypeStart, TypeBus, TypeDlv, TypeStop, TypeTail, TypeEnv
<1>37. CASE RouteToggle
  <2>1. TypeStart'
    BY <1>37 DEF RouteToggle, Preempt, TypeStart
  <2>2. TypeStop'
    BY <1>37 DEF RouteToggle, Preempt, TypeStop, TypeTake
  <2>3. TypeGest'
    BY <1>37 DEF RouteToggle, Preempt, TypeGest, TypeHold, TypeStop, TypeTake
  <2> QED
    BY <1>37, <2>1, <2>2, <2>3 DEF RouteToggle, Preempt, TypeCtl, TypeTake,
         TypeId, TypeHold, TypeBus, TypeDlv, TypeTail, TypeEnv
<1>38. CASE ScheduleHold
  <2>1. TypeTake'
    BY <1>38 DEF ScheduleHold, GestureDone, BumpGeneration, LatchAfterCancel,
         Unfinished, TypeTake, TypeId
  <2>2. TypeHold'
    <3>1. CASE UNCHANGED <<holdGen, holdTask, sleeping, latch>>
      BY <1>38, <3>1 DEF ScheduleHold, TypeHold
    <3>2. CASE holdGen' = holdGen + 1 /\ holdTask' = 0 /\ UNCHANGED sleeping
      BY <1>38, <3>2 DEF ScheduleHold, TypeHold
    <3>3. CASE /\ holdGen' = holdGen + 1 /\ holdTask' = holdGen + 1
               /\ sleeping' = sleeping \cup {holdGen + 1}
      BY <1>38, <3>3 DEF ScheduleHold, TypeHold
    <3> QED
      BY <1>38, <3>1, <3>2, <3>3 DEF ScheduleHold, BumpGeneration
  <2>3. TypeGest'
    BY <1>38 DEF ScheduleHold, GestureDone, BumpGeneration, LatchAfterCancel,
         Unfinished, TypeGest, TypeHold, TypeStop, TypeTake
  <2> QED
    BY <1>38, <2>1, <2>2, <2>3 DEF ScheduleHold, GestureDone, BumpGeneration,
         LatchAfterCancel, Unfinished, TypeCtl, TypeId, TypeStart, TypeBus,
         TypeDlv, TypeStop, TypeTail, TypeEnv
<1>39. CASE GestureStop
  <2>1. TypeHold'
    BY <1>39 DEF GestureStop, SlotFree, AdmitStop, RegisterStop, GestureDone,
         TypeHold
  <2>2. TypeStop'
    <3>1. UNCHANGED stopVars \/ RegisterStop(sessionId)
      BY <1>39 DEF GestureStop, AdmitStop
    <3>2. CASE UNCHANGED stopVars
      BY <3>2 DEF TypeStop, stopVars
    <3>3. CASE RegisterStop(sessionId)
      BY <3>3 DEF RegisterStop, TypeStop, TypeTake, Outcomes
    <3> QED BY <3>1, <3>2, <3>3
  <2>3. TypeGest'
    BY <1>39 DEF GestureStop, SlotFree, AdmitStop, RegisterStop, GestureDone,
         TypeGest, TypeHold, TypeStop, TypeTake
  <2> QED
    BY <1>39, <2>1, <2>2, <2>3 DEF GestureStop, SlotFree, AdmitStop,
         RegisterStop, GestureDone, TypeCtl, TypeTake, TypeId, TypeStart,
         TypeBus, TypeDlv, TypeTail, TypeEnv
<1>40. CASE GestureClosed
  <2>1. TypeGest'
    BY <1>40 DEF GestureClosed, GestureEnd, GestureDone, TypeGest, TypeHold,
         TypeStop, TypeTake
  <2> QED
    BY <1>40, <2>1 DEF GestureClosed, GestureEnd, GestureDone, TypeCtl,
         TypeTake, TypeId, TypeHold, TypeStart, TypeBus, TypeDlv, TypeStop,
         TypeTail, TypeEnv
<1>41. ASSUME NEW g \in Gestures, Tap(g) PROVE TypeOK'
  <2>1. TypeStop'
    BY <1>41 DEF Tap, Preempt, TypeStop, TypeTake
  <2>2. TypeGest'
    BY <1>41 DEF Tap, Preempt, TypeGest, TypeHold, TypeStop, TypeTake
  <2>3. TypeEnv'
    <3>1. inputs' \in Session
      BY <1>41, InputTyped DEF Tap, TypeEnv
    <3>2. keyDown' \in BOOLEAN /\ quiesced' \in BOOLEAN
      BY <1>41, Zenon DEF Tap, TypeEnv
    <3> QED
      BY <3>1, <3>2 DEF TypeEnv
  <2> QED
    BY <1>41, <2>1, <2>2, <2>3 DEF Tap, Preempt, TypeCtl, TypeTake,
         TypeId, TypeHold, TypeStart, TypeBus, TypeDlv, TypeTail
<1>42. CASE ComposerPress
  <2>1. TypeStart'
    BY <1>42 DEF ComposerPress, Preempt, TypeStart
  <2>2. TypeStop'
    BY <1>42 DEF ComposerPress, Preempt, TypeStop, TypeTake
  <2>3. TypeEnv'
    <3>1. inputs' \in Session
      BY <1>42, InputTyped DEF ComposerPress, TypeEnv
    <3>2. keyDown' \in BOOLEAN /\ quiesced' \in BOOLEAN
      BY <1>42, Zenon DEF ComposerPress, TypeEnv
    <3> QED
      BY <3>1, <3>2 DEF TypeEnv
  <2> QED
    BY <1>42, <2>1, <2>2, <2>3 DEF ComposerPress, Preempt, TypeCtl,
         TypeTake, TypeId, TypeHold, TypeBus, TypeDlv, TypeTail, TypeGest
<1>43. CASE ExternalStop
  <2>1. TypeHold'
    BY <1>43 DEF ExternalStop, SlotFree, AdmitStop, RegisterStop,
         TypeHold
  <2>2. TypeStop'
    BY <1>43 DEF ExternalStop, SlotFree, AdmitStop, RegisterStop,
         TypeStop, TypeTake
  <2>3. TypeGest'
    BY <1>43 DEF ExternalStop, SlotFree, AdmitStop, RegisterStop,
         TypeGest, TypeHold, TypeStop, TypeTake
  <2>4. TypeEnv'
    <3>1. inputs' \in Session
      BY <1>43, InputTyped DEF ExternalStop, TypeEnv
    <3>2. keyDown' \in BOOLEAN /\ quiesced' \in BOOLEAN
      BY <1>43, Zenon DEF ExternalStop, TypeEnv
    <3> QED
      BY <3>1, <3>2 DEF TypeEnv
  <2> QED
    BY <1>43, <2>1, <2>2, <2>3, <2>4 DEF ExternalStop, SlotFree, AdmitStop,
         RegisterStop, TypeCtl, TypeTake, TypeId, TypeStart, TypeBus,
         TypeDlv, TypeTail
<1>44. ASSUME NEW t \in Takes, StopOwned(t) PROVE TypeOK'
  <2>1. TypeStop'
    BY <1>44 DEF StopOwned, RegisterStop, SlotFree, TypeStop, TypeTake
  <2>2. TypeEnv'
    <3>1. inputs' \in Session
      BY <1>44, InputTyped DEF StopOwned, TypeEnv
    <3>2. keyDown' \in BOOLEAN /\ quiesced' \in BOOLEAN
      BY <1>44, Zenon DEF StopOwned, TypeEnv
    <3> QED
      BY <3>1, <3>2 DEF TypeEnv
  <2> QED
    BY <1>44, <2>1, <2>2 DEF StopOwned, RegisterStop, SlotFree, TypeCtl,
         TypeTake, TypeId, TypeHold, TypeStart, TypeBus, TypeDlv, TypeTail,
         TypeGest
<1>45. CASE RequestShutdown
  <2>1. TypeCtl'
    BY <1>45 DEF RequestShutdown, TypeCtl
  <2>2. TypeEnv'
    <3>1. inputs' \in Session
      BY <1>45, InputTyped DEF RequestShutdown, TypeEnv
    <3>2. keyDown' \in BOOLEAN /\ quiesced' \in BOOLEAN
      BY <1>45, Zenon DEF RequestShutdown, TypeEnv
    <3> QED
      BY <3>1, <3>2 DEF TypeEnv
  <2>3. TypeTake' /\ TypeId' /\ TypeHold' /\ TypeStart' /\ TypeBus'
    BY <1>45 DEF RequestShutdown, TypeTake, TypeId, TypeHold, TypeStart, TypeBus
  <2>4. TypeDlv' /\ TypeStop' /\ TypeTail' /\ TypeGest'
    BY <1>45 DEF RequestShutdown, TypeDlv, TypeStop, TypeTail, TypeGest, TypeHold
  <2> QED
    BY <2>1, <2>2, <2>3, <2>4
<1>46. CASE ShutdownSettled
  <2>1. TypeEnv'
    BY <1>46 DEF ShutdownSettled, TypeEnv
  <2> QED
    BY <1>46, <2>1 DEF ShutdownSettled, TypeCtl, TypeTake, TypeId, TypeHold,
         TypeStart, TypeBus, TypeDlv, TypeStop, TypeTail, TypeGest
<1>47. CASE ReserveIdleRestart
  <2>1. TypeCtl'
    BY <1>47 DEF ReserveIdleRestart, TypeCtl
  <2>2. TypeEnv'
    <3>1. inputs' \in Session
      BY <1>47, InputTyped DEF ReserveIdleRestart, TypeEnv
    <3>2. keyDown' \in BOOLEAN /\ quiesced' \in BOOLEAN
      BY <1>47, Zenon DEF ReserveIdleRestart, TypeEnv
    <3> QED
      BY <3>1, <3>2 DEF TypeEnv
  <2> QED
    BY <1>47, <2>1, <2>2 DEF ReserveIdleRestart, TypeTake, TypeId,
         TypeHold, TypeStart, TypeBus, TypeDlv, TypeStop, TypeTail, TypeGest
<1>48. ASSUME NEW t \in Takes, TailFinish(t) PROVE TypeOK'
  <2>1. TypeBus'
    BY <1>48 DEF TailFinish, TypeBus, TypeTail
  <2>2. TypeTail'
    BY <1>48 DEF TailFinish, TypeTail, TypeTake, TypeDlv
  <2> QED
    BY <1>48, <2>1, <2>2 DEF TailFinish, TypeCtl, TypeTake, TypeId, TypeHold,
         TypeStart, TypeDlv, TypeStop, TypeGest, TypeEnv
<1>49. CASE UNCHANGED vars
  BY <1>49 DEF vars, TypeCtl, TypeTake, TypeId, TypeHold, TypeStart, TypeBus,
       TypeDlv, TypeStop, TypeTail, TypeGest, TypeEnv
<1> QED
  BY <1>1, <1>2, <1>3, <1>4, <1>5, <1>6, <1>7, <1>8, <1>9, <1>10, <1>11, <1>12,
       <1>13, <1>14, <1>15, <1>16, <1>17, <1>18, <1>19, <1>20, <1>21, <1>22,
       <1>23, <1>24, <1>25, <1>26, <1>27, <1>28, <1>29, <1>30, <1>31, <1>32,
       <1>33, <1>34, <1>35, <1>36, <1>37, <1>38, <1>39, <1>40, <1>41, <1>42,
       <1>43, <1>44, <1>45, <1>46, <1>47, <1>48, <1>49 DEF Next, HoldTasks,
       ToggleStarts, Settlement, Consumer, Surfaces, vars

\* The initial state satisfies both.
LEMMA ControlInit == Init => TypeOK /\ ControlInv
<1> SUFFICES ASSUME Init PROVE TypeOK /\ ControlInv
  OBVIOUS
<1> USE BoundsAssumption DEF Init, Takes, NoTake, Starters
<1>1. TypeCtl
  BY DEF TypeCtl
<1>2. TypeTake
  BY DEF TypeTake
<1>3. TypeId
  BY DEF TypeId, Kinds
<1>4. TypeHold
  BY DEF TypeHold
<1>5. TypeStart
  BY DEF TypeStart
<1>6. TypeBus
  BY DEF TypeBus, Dispositions
<1>7. TypeDlv
  BY DEF TypeDlv, Dispositions
<1>8. TypeStop
  BY DEF TypeStop, Outcomes
<1>9. TypeTail
  BY DEF TypeTail, Dispositions
<1>10. TypeGest
  BY DEF TypeGest, Gestures
<1>11. TypeEnv
  <2>1. inputs \in Session
    BY BoundsAssumption
  <2>2. keyDown \in BOOLEAN /\ quiesced \in BOOLEAN
    BY Zenon
  <2> QED
    BY <2>1, <2>2 DEF TypeEnv
<1>12. ControlInv
  BY DEF ControlInv, LockInv, StateInv, OwnerInv, Starting, Recording, Admitted
<1> QED
  BY <1>1, <1>2, <1>3, <1>4, <1>5, <1>6, <1>7, <1>8, <1>9, <1>10, <1>11, <1>12
     DEF TypeOK

\* The controller's fields, tasks and journal keep their types, and no task
\* remembers a hold generation that was never issued.
THEOREM TypeCorrect == Spec => []TypeOK
<1>1. Init => TypeOK /\ ControlInv
  BY ControlInit
<1>2. TypeOK /\ ControlInv /\ [Next]_vars => (TypeOK /\ ControlInv)'
  BY TypeStep, ControlStep
<1> QED
  BY <1>1, <1>2, PTL DEF Spec

\* The lock, the state, the settlement task and the session slot always agree.
THEOREM ControlInvariant == Spec => []ControlInv
<1>1. Init => TypeOK /\ ControlInv
  BY ControlInit
<1>2. TypeOK /\ ControlInv /\ [Next]_vars => (TypeOK /\ ControlInv)'
  BY TypeStep, ControlStep
<1> QED
  BY <1>1, <1>2, PTL DEF Spec

\* One microphone, one owner: start_hold, start_toggle and the stop path never
\* leave a capture open that the session slot does not name.
THEOREM MicOwnership == Spec => []MicIsOwned
<1>1. ControlInv => MicIsOwned
  BY DEF ControlInv, LockInv, StateInv, OwnerInv, MicIsOwned, Starting,
         Recording, Admitted, Starters, NoTake
<1> QED
  BY <1>1, ControlInvariant, PTL

\* Idle with a free lock means that nothing of a take is left, although
\* reset_session_fields writes the fields and Idle without serial_lock.
THEOREM IdleCleanliness == Spec => []IdleIsClean
<1>1. ControlInv => IdleIsClean
  BY DEF ControlInv, LockInv, StateInv, OwnerInv, IdleIsClean, Starting,
         Recording, Admitted, Starters, NoTake
<1> QED
  BY <1>1, ControlInvariant, PTL

=============================================================================
