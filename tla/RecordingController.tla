------------------------ MODULE RecordingController ------------------------
(***************************************************************************)
(* The capture lifecycle of app/controller/mod.rs: one shared microphone,  *)
(* three ways to open it (a delayed hold, a toggle, an Agent-composer      *)
(* turn), one settlement task that stops it, the retired tails of          *)
(* preempted takes, and shutdown.                                          *)
(*                                                                         *)
(* serialLock is the controller's async mutex.  Everything a start does,   *)
(* and a stop up to the closed microphone, happens under it; the rest of a *)
(* stop, the hold-generation bumps of a key-up, the tap's preemption and   *)
(* the registration of a stop do not.  A step below is what one task does  *)
(* between two points where another task can see a difference.             *)
(*                                                                         *)
(* A take is a natural number (the code draws a fresh Uuid); 0 is None.    *)
(***************************************************************************)
EXTENDS Naturals, Sequences, FiniteSets

CONSTANTS Sessions,    \* what users and the host may do: each session has
                       \* the inputs it may use and how many of them
          MaxInputs,   \* bound on the inputs of a session
          MaxInbox     \* bound on gestures waiting for the FIFO consumer

Gestures == {"HoldDown", "HoldUp", "Toggle", "RawToggle"}
Requests == {"ComposerStart", "ExternalStop", "ComposerStop", "Shutdown",
             "Restart"}

Session == [may : SUBSET (Gestures \cup Requests), left : 0..MaxInputs]

ASSUME BoundsAssumption ==
  MaxInputs \in Nat /\ MaxInbox \in Nat /\ Sessions \subseteq Session

Takes == 1..MaxInputs          \* one input admits at most one take
NoTake == 0
Starters == {"gesture", "composer"}
Kinds == {"hold", "toggle", "composer"}
Dispositions == {"Unattempted", "Retained", "Accepted", "ComposerPending"}
Outcomes == {"none", "Stopped", "NoLiveCapture", "ForeignCapture",
             "AlreadyStopping", "Error"}

VARIABLES
  state,         \* controller State (Conversation is left out)
  serialLock,    \* holder of serial_lock, or "free"
  startInFlight, \* start_transition_in_flight
  shutdown,      \* shutdown_requested
  sessionId,     \* session_id without its suffix
  stopping,      \* session_id carries the ":stopping" suffix
  mic,           \* take whose capture the recorder holds open
  leases,        \* takes in the audio-retention capture registry
  latch,         \* pre_overlay_frontmost_app holds a delivery target
  assistive,     \* the global IS_ASSISTIVE_SESSION
  nTakes,        \* takes drawn so far
  kind,          \* the surface that opened each take
  handles,       \* composer takes whose identity the composer received
  holdGen,       \* hold_start_generation
  holdTask,      \* hold_start_task: generation of the retained task, 0 none
  sleeping,      \* spawned hold tasks that do not hold serial_lock yet
  exiting,       \* hold tasks past their last guard drop, not yet finished
  holdPc, holdRun,  \* the hold task inside serial_lock, and its generation
  startPc,       \* start_toggle_recording, per calling surface
  activeBus,     \* active_transcript_bus
  busPhase,      \* what each take's Bus has on its journal
  published,     \* the disposition on each take's terminal Bus line
  disposition,   \* delivery_disposition
  own,           \* what each take's own stop recorded (history)
  deliveredTake, \* delivered_take: the last take that claimed delivery
  handoffs,      \* destination handoffs made for each take (history)
  settleId, settlePc, settleClosed, settleResult, \* capture_settlement
  initial,       \* initial_delivery of the running stop
  stopWait,      \* STOP_PASTE_WAIT: none, open or requested
  tails,         \* closed_capture_tails: disposition each tail carries
  tailLeases,    \* retained_capture: leases the tails keep alive
  keyDown,       \* the hold key is physically down
  inbox,         \* recording_tx: gestures the consumer has not taken yet
  gPc, gesture, gGen, gWait, \* the FIFO consumer inside one gesture
  inputs,        \* what is left of the session
  quiesced       \* capture_shutdown_settled or reserve_idle_restart said yes

ctlVars   == <<state, serialLock, startInFlight, shutdown>>
takeVars  == <<sessionId, stopping, mic, leases, latch, assistive>>
idVars    == <<nTakes, kind, handles>>
holdVars  == <<holdGen, holdTask, sleeping, exiting, holdPc, holdRun>>
busVars   == <<activeBus, busPhase, published>>
dlvVars   == <<disposition, own, deliveredTake, handoffs>>
stopVars  == <<settleId, settlePc, settleClosed, settleResult, initial, stopWait>>
tailVars  == <<tails, tailLeases>>
gestVars  == <<inbox, gPc, gesture, gGen, gWait>>
envVars   == <<keyDown, inputs>>

vars == <<ctlVars, takeVars, idVars, holdVars, startPc, busVars, dlvVars,
          stopVars, tailVars, gestVars, envVars, quiesced>>

Init ==
  /\ state = "Idle" /\ serialLock = "free"
  /\ startInFlight = FALSE /\ shutdown = FALSE
  /\ sessionId = NoTake /\ stopping = FALSE /\ mic = NoTake /\ leases = {}
  /\ latch = FALSE /\ assistive = FALSE
  /\ nTakes = 0 /\ kind = [t \in Takes |-> "hold"] /\ handles = {}
  /\ holdGen = 0 /\ holdTask = 0 /\ sleeping = {} /\ exiting = {}
  /\ holdPc = "none" /\ holdRun = 0
  /\ startPc = [s \in Starters |-> "idle"]
  /\ activeBus = NoTake
  /\ busPhase = [t \in Takes |-> "none"]
  /\ published = [t \in Takes |-> "none"]
  /\ disposition = "Unattempted"
  /\ own = [t \in Takes |-> "Unattempted"]
  /\ deliveredTake = NoTake
  /\ handoffs = [t \in Takes |-> 0]
  /\ settleId = NoTake /\ settlePc = "none" /\ settleClosed = FALSE
  /\ settleResult = "none" /\ initial = "none" /\ stopWait = "none"
  /\ tails = [t \in Takes |-> "none"] /\ tailLeases = {}
  /\ keyDown = FALSE /\ inbox = <<>>
  /\ gPc = "idle" /\ gesture = "HoldUp" /\ gGen = 0 /\ gWait = NoTake
  /\ inputs \in Sessions /\ quiesced = FALSE

-----------------------------------------------------------------------------
(* Shared pieces of the handlers. *)

\* A user or host input arrives.
Input(i) ==
  /\ i \in inputs.may /\ inputs.left > 0
  /\ inputs' = [inputs EXCEPT !.left = @ - 1]

\* The consumer finished its gesture; the locals of the call are gone.
GestureDone ==
  gPc' = "idle" /\ gesture' = "HoldUp" /\ gGen' = 0 /\ gWait' = NoTake

\* preempt_stop_paste_for_next_take: raise the flag of a registered stop.
Preempt == stopWait' = IF stopWait = "none" THEN "none" ELSE "requested"

\* The settlement slot has no running operation.
SlotFree == settlePc \in {"none", "done"}

\* register_capture_stop: the slot is replaced and its task spawned.
RegisterStop(t) ==
  /\ settleId' = t /\ settlePc' = "registered"
  /\ settleClosed' = FALSE /\ settleResult' = "none"
  /\ UNCHANGED <<initial, stopWait>>

\* A task handle whose task is_finished() is still false.
Unfinished(g) ==
  g # 0 /\ (g \in sleeping \cup exiting \/ (holdPc # "none" /\ g = holdRun))

\* Mutant of BumpGeneration: the generation is not advanced.
BumpGenerationLost(newTask, newLatch) ==
  holdGen' = holdGen /\ holdTask' = newTask /\ latch' = newLatch

\* cancel_pending_hold_start without the slot it leaves: bump the generation
\* and forget the target of a start that never became a take.
BumpGeneration(newTask, newLatch) ==
  /\ holdGen' = holdGen + 1
  /\ holdTask' = newTask
  /\ latch' = newLatch

\* The latch cancel_pending_hold_start leaves behind.
LatchAfterCancel == latch /\ ~Unfinished(holdTask)

\* Mutant of EndBus: the slot is read, not taken, and the line rewritten.
EndBusRepeated(d) ==
  /\ UNCHANGED activeBus
  /\ IF activeBus # NoTake
     THEN /\ busPhase' = [busPhase EXCEPT ![activeBus] = "ended"]
          /\ published' = [published EXCEPT ![activeBus] = d]
     ELSE UNCHANGED <<busPhase, published>>

\* end_transcript_bus: empty the slot; a started, not ended Bus gets its one
\* terminal line, one that never started ends silently.
EndBus(d) ==
  /\ activeBus' = NoTake
  /\ IF activeBus # NoTake /\ busPhase[activeBus] = "started"
     THEN /\ busPhase' = [busPhase EXCEPT ![activeBus] = "ended"]
          /\ published' = [published EXCEPT ![activeBus] = d]
     ELSE UNCHANGED <<busPhase, published>>

\* record_delivery_disposition on behalf of the stopping take.
Record(d) ==
  /\ disposition' = d
  /\ own' = [own EXCEPT ![settleId] = d]

-----------------------------------------------------------------------------
(* The delayed hold start: the task schedule_hold_start spawns. *)

\* Mutant of UnwindHold: the recorder is left running.
UnwindHoldOpenMic ==
  /\ UNCHANGED mic
  /\ EndBus("Unattempted")
  /\ sessionId' = NoTake /\ leases' = leases \ {sessionId}
  /\ latch' = FALSE /\ assistive' = FALSE
  /\ startInFlight' = FALSE /\ serialLock' = "free" /\ holdPc' = "none"

\* Every exit after the start guard and before RecHold: unwind_hold_start,
\* then the drop of the start guard, of serial_lock, and the end of the task.
UnwindHold ==
  /\ mic' = NoTake
  /\ EndBus("Unattempted")
  /\ sessionId' = NoTake /\ leases' = leases \ {sessionId}
  /\ latch' = FALSE /\ assistive' = FALSE
  /\ startInFlight' = FALSE /\ serialLock' = "free" /\ holdPc' = "none"

\* The delay elapsed for a superseded generation: the task returns, before
\* or after it got serial_lock.
HoldDrop(g) ==
  /\ g \in sleeping /\ g # holdGen
  /\ sleeping' = sleeping \ {g}
  /\ UNCHANGED <<ctlVars, takeVars, idVars, holdGen, holdTask, exiting, holdPc,
                 holdRun, startPc, busVars, dlvVars, stopVars, tailVars,
                 gestVars, envVars, quiesced>>

\* Under serial_lock the task returns on shutdown, on a state that is not
\* Idle, on agent channels that do not close and on a refused storage lease.
HoldRefused(g) ==
  /\ g \in sleeping /\ g = holdGen /\ serialLock = "free"
  /\ sleeping' = sleeping \ {g}
  /\ UNCHANGED <<ctlVars, takeVars, idVars, holdGen, holdTask, exiting, holdPc,
                 holdRun, startPc, busVars, dlvVars, stopVars, tailVars,
                 gestVars, envVars, quiesced>>

\* Mutant of HoldLease: shutdown_requested is not read again.
HoldLeaseInShutdown(g) ==
  /\ g \in sleeping /\ g = holdGen /\ serialLock = "free"
  /\ state = "Idle" /\ nTakes < MaxInputs
  /\ LET t == nTakes + 1 IN
       /\ nTakes' = t
       /\ kind' = [kind EXCEPT ![t] = "hold"]
       /\ sessionId' = t
       /\ leases' = leases \cup {t}
  /\ sleeping' = sleeping \ {g}
  /\ holdRun' = g /\ holdPc' = "leased"
  /\ serialLock' = "hold" /\ startInFlight' = TRUE
  /\ UNCHANGED <<state, shutdown, stopping, mic, latch, assistive, handles,
                 holdGen, holdTask, exiting, startPc, busVars, dlvVars,
                 stopVars, tailVars, gestVars, envVars, quiesced>>

\* Under serial_lock every check passed: raise the start flag, take the
\* storage lease and publish the new take's identity.
HoldLease(g) ==
  /\ g \in sleeping /\ g = holdGen /\ serialLock = "free"
  /\ ~shutdown /\ state = "Idle" /\ nTakes < MaxInputs
  /\ LET t == nTakes + 1 IN
       /\ nTakes' = t
       /\ kind' = [kind EXCEPT ![t] = "hold"]
       /\ sessionId' = t
       /\ leases' = leases \cup {t}
  /\ sleeping' = sleeping \ {g}
  /\ holdRun' = g /\ holdPc' = "leased"
  /\ serialLock' = "hold" /\ startInFlight' = TRUE
  /\ UNCHANGED <<state, shutdown, stopping, mic, latch, assistive, handles,
                 holdGen, holdTask, exiting, startPc, busVars, dlvVars,
                 stopVars, tailVars, gestVars, envVars, quiesced>>

\* Admission refused, or the recorder cannot be readied or started: unwind.
HoldFail ==
  /\ holdPc = "leased"
  /\ UnwindHold
  /\ UNCHANGED <<state, shutdown, stopping, idVars, holdGen, holdTask,
                 sleeping, exiting, holdRun, startPc, dlvVars, stopVars,
                 tailVars, gestVars, envVars, quiesced>>

\* The Bus (when it opens) is installed, then the recorder starts and
\* session_started is written.
HoldOpen ==
  /\ holdPc = "leased"
  /\ mic' = sessionId
  /\ \/ /\ activeBus' = sessionId
        /\ busPhase' = [busPhase EXCEPT ![sessionId] = "started"]
     \/ UNCHANGED <<activeBus, busPhase>>
  /\ assistive' = FALSE
  /\ holdPc' = "open"
  /\ UNCHANGED <<ctlVars, sessionId, stopping, leases, latch, idVars, holdGen,
                 holdTask, sleeping, exiting, holdRun, startPc, published,
                 dlvVars, stopVars, tailVars, gestVars, envVars, quiesced>>

\* The last generation check: a bumped generation unwinds the open take.
HoldSuperseded ==
  /\ holdPc = "open" /\ holdGen # holdRun
  /\ UnwindHold
  /\ UNCHANGED <<state, shutdown, stopping, idVars, holdGen, holdTask,
                 sleeping, exiting, holdRun, startPc, dlvVars, stopVars,
                 tailVars, gestVars, envVars, quiesced>>

HoldConfirm ==
  /\ holdPc = "open" /\ holdGen = holdRun
  /\ holdPc' = "arming"
  /\ UNCHANGED <<ctlVars, takeVars, idVars, holdGen, holdTask, sleeping,
                 exiting, holdRun, startPc, busVars, dlvVars, stopVars,
                 tailVars, gestVars, envVars, quiesced>>

\* set_state(RecHold); then the guards drop, the task itself ends later.
HoldArm ==
  /\ holdPc = "arming"
  /\ state' = "RecHold"
  /\ startInFlight' = FALSE /\ serialLock' = "free"
  /\ holdPc' = "none" /\ exiting' = exiting \cup {holdRun}
  /\ UNCHANGED <<shutdown, takeVars, idVars, holdGen, holdTask, sleeping,
                 holdRun, startPc, busVars, dlvVars, stopVars, tailVars,
                 gestVars, envVars, quiesced>>

\* The task becomes is_finished().
HoldExit(g) ==
  /\ g \in exiting
  /\ exiting' = exiting \ {g}
  /\ UNCHANGED <<ctlVars, takeVars, idVars, holdGen, holdTask, sleeping,
                 holdPc, holdRun, startPc, busVars, dlvVars, stopVars,
                 tailVars, gestVars, envVars, quiesced>>

-----------------------------------------------------------------------------
(* start_toggle_recording, called by a toggle gesture or by the composer. *)

\* The surface is done with its call; a gesture also frees the consumer.
ReturnStart(s) ==
  /\ startPc' = [startPc EXCEPT ![s] = "idle"]
  /\ IF s = "gesture" THEN GestureDone
     ELSE UNCHANGED <<gPc, gesture, gGen, gWait>>
  /\ UNCHANGED inbox

\* start_composer_turn_with_capture_gate: the composer only ever starts a
\* take, and only asks while the controller is Idle.
ComposerPress ==
  /\ Input("ComposerStart") /\ startPc["composer"] = "idle" /\ state = "Idle"
  /\ startPc' = [startPc EXCEPT !["composer"] = "wait"]
  /\ Preempt
  /\ UNCHANGED <<ctlVars, takeVars, idVars, holdVars, busVars, dlvVars,
                 settleId, settlePc, settleClosed, settleResult, initial,
                 tailVars, gestVars, keyDown, quiesced>>

\* NotAdmitted: shutdown, a state that is not Idle under the lock, or agent
\* channels that do not close.  Nothing has been touched yet.
ToggleRefused(s) ==
  /\ startPc[s] = "wait" /\ serialLock = "free"
  /\ ReturnStart(s)
  /\ UNCHANGED <<ctlVars, takeVars, idVars, holdVars, busVars, dlvVars,
                 stopVars, tailVars, envVars, quiesced>>

\* Settings that do not load or a refused storage lease: the disposition is
\* reset and a target may be latched, but no take exists.
ToggleAborted(s) ==
  /\ startPc[s] = "wait" /\ serialLock = "free"
  /\ ~shutdown /\ state = "Idle"
  /\ disposition' = "Unattempted"
  /\ latch' \in {latch, TRUE}
  /\ ReturnStart(s)
  /\ UNCHANGED <<ctlVars, sessionId, stopping, mic, leases, assistive, idVars,
                 holdVars, busVars, own, deliveredTake, handoffs, stopVars,
                 tailVars, envVars, quiesced>>

ToggleLease(s) ==
  /\ startPc[s] = "wait" /\ serialLock = "free"
  /\ ~shutdown /\ state = "Idle" /\ nTakes < MaxInputs
  /\ LET t == nTakes + 1 IN
       /\ nTakes' = t
       /\ kind' = [kind EXCEPT ![t] =
                     IF s = "composer" THEN "composer" ELSE "toggle"]
       /\ sessionId' = t
       /\ leases' = leases \cup {t}
  /\ disposition' = "Unattempted"
  /\ latch' = TRUE
  /\ startPc' = [startPc EXCEPT ![s] = "leased"]
  /\ serialLock' = s /\ startInFlight' = TRUE
  /\ UNCHANGED <<state, shutdown, stopping, mic, assistive, handles, holdVars,
                 busVars, own, deliveredTake, handoffs, stopVars, tailVars,
                 gestVars, envVars, quiesced>>

\* Admission refused, or the recorder cannot be readied or started:
\* reset_session_after_start_failure, whose last write is state = Idle.
ToggleFail(s) ==
  /\ startPc[s] = "leased"
  /\ latch' = FALSE /\ assistive' = FALSE
  /\ sessionId' = NoTake /\ leases' = leases \ {sessionId}
  /\ EndBus(disposition)
  /\ state' = "Idle" /\ startInFlight' = FALSE /\ serialLock' = "free"
  /\ ReturnStart(s)
  /\ UNCHANGED <<shutdown, stopping, mic, idVars, holdVars, dlvVars, stopVars,
                 tailVars, envVars, quiesced>>

\* The recorder starts; only then is the Bus (when it opened) installed and
\* session_started written.
ToggleOpen(s) ==
  /\ startPc[s] = "leased"
  /\ mic' = sessionId
  /\ \/ /\ activeBus' = sessionId
        /\ busPhase' = [busPhase EXCEPT ![sessionId] = "started"]
     \/ UNCHANGED <<activeBus, busPhase>>
  /\ assistive' = (s = "composer")
  /\ startPc' = [startPc EXCEPT ![s] = "arming"]
  /\ UNCHANGED <<ctlVars, sessionId, stopping, leases, latch, idVars, holdVars,
                 published, dlvVars, stopVars, tailVars, gestVars, envVars,
                 quiesced>>

\* set_state(RecToggle); Admitted(id) goes back to the composer.
ToggleArm(s) ==
  /\ startPc[s] = "arming"
  /\ state' = "RecToggle"
  /\ startInFlight' = FALSE /\ serialLock' = "free"
  /\ handles' = IF s = "composer" THEN handles \cup {sessionId} ELSE handles
  /\ ReturnStart(s)
  /\ UNCHANGED <<shutdown, takeVars, nTakes, kind, holdVars, busVars, dlvVars,
                 stopVars, tailVars, envVars, quiesced>>

-----------------------------------------------------------------------------
(* The settlement task register_capture_stop spawns: stop_external_capture  *)
(* and the two terminal bodies it routes to.                                *)

\* Mutant of CaptureGate: the named capture is not compared.
CaptureGateAnyTake ==
  IF sessionId = NoTake THEN "NoLiveCapture"
  ELSE IF stopping THEN "AlreadyStopping"
  ELSE "Stopped"

\* capture_gate: compare the named capture with the live session.
CaptureGate ==
  IF sessionId = NoTake THEN "NoLiveCapture"
  ELSE IF sessionId # settleId THEN "ForeignCapture"
  ELSE IF stopping THEN "AlreadyStopping"
  ELSE "Stopped"

\* Mutant of SettleRefused: the refusal never becomes a result.
SettleRefusedLost ==
  /\ settlePc = "registered" /\ serialLock = "free"
  /\ \/ CaptureGate # "Stopped" /\ settleResult' = CaptureGate
     \/ /\ CaptureGate = "Stopped" /\ state \notin {"RecHold", "RecToggle"}
        /\ settleResult' = "AlreadyStopping"
  /\ settlePc' = "none"
  /\ UNCHANGED <<ctlVars, takeVars, idVars, holdVars, startPc, busVars,
                 dlvVars, settleId, settleClosed, initial, stopWait, tailVars,
                 gestVars, envVars, quiesced>>

\* A gate refusal, or a take no longer recording: the task ends at once.
SettleRefused ==
  /\ settlePc = "registered" /\ serialLock = "free"
  /\ \/ CaptureGate # "Stopped" /\ settleResult' = CaptureGate
     \/ /\ CaptureGate = "Stopped" /\ state \notin {"RecHold", "RecToggle"}
        /\ settleResult' = "AlreadyStopping"
  /\ settlePc' = "done"
  /\ UNCHANGED <<ctlVars, takeVars, idVars, holdVars, startPc, busVars,
                 dlvVars, settleId, settleClosed, initial, stopWait, tailVars,
                 gestVars, envVars, quiesced>>

\* stop_toggle_and_adjudicate_inner (every composer turn, a dictation toggle
\* with the final pass on) marks the slot ":stopping"; finish_recording_locked
\* (a hold, an assistive or final-pass-off toggle) cancels pending holds.
\* Both then register the preemptible stop-paste wait.
SettleAdmit ==
  /\ settlePc = "registered" /\ serialLock = "free"
  /\ CaptureGate = "Stopped" /\ state \in {"RecHold", "RecToggle"}
  /\ \/ /\ state = "RecToggle"
        /\ stopping' = TRUE
        /\ UNCHANGED <<holdGen, holdTask, latch>>
     \/ /\ kind[settleId] # "composer"
        /\ BumpGeneration(0, LatchAfterCancel)
        /\ UNCHANGED stopping
  /\ serialLock' = "settle" /\ settlePc' = "marked" /\ stopWait' = "open"
  /\ UNCHANGED <<state, startInFlight, shutdown, sessionId, mic, leases,
                 assistive, idVars, sleeping, exiting, holdPc, holdRun,
                 startPc, busVars, dlvVars, settleId, settleClosed,
                 settleResult, initial, tailVars, gestVars, envVars, quiesced>>

SettleBusy ==
  /\ settlePc = "marked"
  /\ state' = "Busy" /\ settlePc' = "busy"
  /\ UNCHANGED <<serialLock, startInFlight, shutdown, takeVars, idVars,
                 holdVars, startPc, busVars, dlvVars, settleId, settleClosed,
                 settleResult, initial, stopWait, tailVars, gestVars, envVars,
                 quiesced>>

\* close_capture, detach_closed_take, drop of serial_lock, closed receipt.
SettleClose ==
  /\ settlePc = "busy"
  /\ mic' = NoTake /\ serialLock' = "free"
  /\ settleClosed' = TRUE /\ settlePc' = "closed"
  /\ UNCHANGED <<state, startInFlight, shutdown, sessionId, stopping, leases,
                 latch, assistive, idVars, holdVars, startPc, busVars, dlvVars,
                 settleId, settleResult, initial, stopWait, tailVars, gestVars,
                 envVars, quiesced>>

\* detach_preempted_stop: the tail takes the Bus, a clone of the lease and
\* the disposition as it stands.
Detach(d) ==
  /\ tails' = [tails EXCEPT ![settleId] = d]
  /\ tailLeases' = tailLeases \cup (leases \cap {settleId})
  /\ activeBus' = NoTake

\* Mutant of SettlePreempted: the tail reads the disposition before the write.
SettlePreemptedEarly ==
  /\ settlePc = "closed" /\ kind[settleId] # "composer"
  /\ stopWait = "requested" /\ stopWait' = "none"
  /\ Record("Retained")
  /\ Detach(disposition)
  /\ settleResult' = "Stopped" /\ settlePc' = "reset"
  /\ UNCHANGED <<ctlVars, takeVars, idVars, holdVars, startPc, busPhase,
                 published, deliveredTake, handoffs, settleId, settleClosed,
                 initial, gestVars, envVars, quiesced>>

\* deliver_frozen_canvas_at_stop, preempted: the take keeps its words, its
\* slow drain is detached and the foreground retires at once.
SettlePreempted ==
  /\ settlePc = "closed" /\ kind[settleId] # "composer"
  /\ stopWait = "requested" /\ stopWait' = "none"
  /\ Record("Retained")
  /\ Detach("Retained")
  /\ settleResult' = "Stopped" /\ settlePc' = "reset"
  /\ UNCHANGED <<ctlVars, takeVars, idVars, holdVars, startPc, busPhase,
                 published, deliveredTake, handoffs, settleId, settleClosed,
                 initial, gestVars, envVars, quiesced>>

\* The live-final wait ended (finals admitted or the bound expired) and the
\* registration closed: the canvas may settle now, or its delivery is left to
\* the terminal.  The composer always waits for the terminal.
SettleFinals ==
  /\ settlePc = "closed"
  /\ \/ kind[settleId] = "composer" /\ settlePc' = "terminal"
     \/ /\ kind[settleId] # "composer" /\ stopWait = "open"
        /\ settlePc' \in {"canvas", "terminal"}
  /\ stopWait' = "none"
  /\ UNCHANGED <<ctlVars, takeVars, idVars, holdVars, startPc, busVars,
                 dlvVars, settleId, settleClosed, settleResult, initial,
                 tailVars, gestVars, envVars, quiesced>>

\* deliver_stop_transcript_with_sink: an empty text is retained before the
\* claim; a second claim for the take is an error; the composer route and a
\* route without sink need no handoff; a sink accepts or declines.  ok and
\* failed are what the caller does next.
DeliverText(ok, failed) ==
  \/ /\ Record("Retained") /\ ok
     /\ UNCHANGED <<deliveredTake, handoffs>>
  \/ /\ deliveredTake = settleId /\ failed
     /\ UNCHANGED <<disposition, own, deliveredTake, handoffs>>
  \/ /\ deliveredTake # settleId
     /\ deliveredTake' = settleId
     /\ IF kind[settleId] = "composer"
        THEN /\ Record("ComposerPending") /\ ok
             /\ handoffs' = [handoffs EXCEPT ![settleId] = @ + 1]
        ELSE \/ Record("Retained") /\ ok /\ UNCHANGED handoffs
             \/ /\ Record("Accepted") /\ ok
                /\ handoffs' = [handoffs EXCEPT ![settleId] = @ + 1]
             \/ /\ Record("Retained") /\ failed
                /\ handoffs' = [handoffs EXCEPT ![settleId] = @ + 1]

\* settle_frozen_canvas_at_stop: deliver the accounted canvas, or retain it,
\* or fail before anything is recorded (a refused Light+ revision).
SettleCanvas ==
  /\ settlePc = "canvas" /\ settlePc' = "terminal"
  /\ \/ DeliverText(initial' = "settled", initial' = "failed")
     \/ initial' = "failed" /\ UNCHANGED dlvVars
  /\ UNCHANGED <<ctlVars, takeVars, idVars, holdVars, startPc, busVars,
                 settleId, settleClosed, settleResult, stopWait, tailVars,
                 gestVars, envVars, quiesced>>

\* try_stop_closed_take_for_terminal with publication still incomplete: the
\* original owner moves to a tail and the foreground reports the failure.
TerminalPending ==
  /\ settlePc = "terminal" /\ settlePc' = "reset"
  /\ Detach(disposition)
  /\ settleResult' = "Error"
  /\ UNCHANGED <<ctlVars, takeVars, idVars, holdVars, startPc, busPhase,
                 published, dlvVars, settleId, settleClosed, initial, stopWait,
                 gestVars, envVars, quiesced>>

\* Mutant of TerminalFailed: the error returns past the reset.
TerminalFailedStuck ==
  /\ settlePc = "terminal" /\ settlePc' = "done"
  /\ settleResult' = "Error"
  /\ UNCHANGED <<ctlVars, takeVars, idVars, holdVars, startPc, busVars,
                 dlvVars, settleId, settleClosed, initial, stopWait, tailVars,
                 gestVars, envVars, quiesced>>

\* The drain failed, the seal was refused with no committed words or no
\* matching Bus document, or the canvas delivery had failed: no delivery.
TerminalFailed ==
  /\ settlePc = "terminal" /\ settlePc' = "reset"
  /\ settleResult' = "Error"
  /\ UNCHANGED <<ctlVars, takeVars, idVars, holdVars, startPc, busVars,
                 dlvVars, settleId, settleClosed, initial, stopWait, tailVars,
                 gestVars, envVars, quiesced>>

\* Mutant of TerminalDeliver: the sink is called without asking whether the
\* canvas was delivered and without the claim.
TerminalDeliverAgain ==
  /\ settlePc = "terminal" /\ settlePc' = "reset"
  /\ Record("Accepted") /\ settleResult' = "Stopped"
  /\ handoffs' = [handoffs EXCEPT ![settleId] = @ + 1]
  /\ UNCHANGED <<ctlVars, takeVars, idVars, holdVars, startPc, busVars,
                 deliveredTake, settleId, settleClosed, initial, stopWait,
                 tailVars, gestVars, envVars, quiesced>>

\* A sealed terminal, or a refused one whose committed words match the
\* installed Bus: deliver_terminal_unless_settled.
TerminalDeliver ==
  /\ settlePc = "terminal" /\ settlePc' = "reset"
  /\ \/ initial = "settled" /\ settleResult' = "Stopped" /\ UNCHANGED dlvVars
     \/ /\ initial = "none"
        /\ DeliverText(settleResult' = "Stopped", settleResult' = "Error")
  /\ UNCHANGED <<ctlVars, takeVars, idVars, holdVars, startPc, busVars,
                 settleId, settleClosed, initial, stopWait, tailVars, gestVars,
                 envVars, quiesced>>

\* Mutants of SettleReset: the lease is not released; the Bus is dropped
\* without its terminal line.
SettleResetLeased ==
  /\ settlePc = "reset" /\ settlePc' = "cleared" /\ initial' = "none"
  /\ sessionId' = NoTake /\ stopping' = FALSE
  /\ UNCHANGED leases
  /\ EndBus(disposition)
  /\ startInFlight' = FALSE
  /\ UNCHANGED <<state, serialLock, shutdown, mic, latch, assistive, idVars,
                 holdVars, startPc, dlvVars, settleId, settleClosed,
                 settleResult, stopWait, tailVars, gestVars, envVars, quiesced>>

SettleResetSilent ==
  /\ settlePc = "reset" /\ settlePc' = "cleared" /\ initial' = "none"
  /\ sessionId' = NoTake /\ stopping' = FALSE
  /\ leases' = leases \ {sessionId}
  /\ activeBus' = NoTake /\ UNCHANGED <<busPhase, published>>
  /\ startInFlight' = FALSE
  /\ UNCHANGED <<state, serialLock, shutdown, mic, latch, assistive, idVars,
                 holdVars, startPc, dlvVars, settleId, settleClosed,
                 settleResult, stopWait, tailVars, gestVars, envVars, quiesced>>

\* reset_session_fields up to, and without, its last write: the session slot
\* is emptied, the Bus ended with the recorded disposition, the lease freed.
\* serial_lock is not held here; state is still Busy.
SettleReset ==
  /\ settlePc = "reset" /\ settlePc' = "cleared" /\ initial' = "none"
  /\ sessionId' = NoTake /\ stopping' = FALSE
  /\ leases' = leases \ {sessionId}
  /\ EndBus(disposition)
  /\ startInFlight' = FALSE
  /\ UNCHANGED <<state, serialLock, shutdown, mic, latch, assistive, idVars,
                 holdVars, startPc, dlvVars, settleId, settleClosed,
                 settleResult, stopWait, tailVars, gestVars, envVars, quiesced>>

SettleIdle ==
  /\ settlePc = "cleared" /\ settlePc' = "idled"
  /\ state' = "Idle"
  /\ UNCHANGED <<serialLock, startInFlight, shutdown, takeVars, idVars,
                 holdVars, startPc, busVars, dlvVars, settleId, settleClosed,
                 settleResult, initial, stopWait, tailVars, gestVars, envVars,
                 quiesced>>

\* reset_finished_recording_state clears the assistive flag after Idle; the
\* result is then sent and the task ends.
SettleDone ==
  /\ settlePc = "idled" /\ settlePc' = "done"
  /\ assistive' = FALSE
  /\ UNCHANGED <<ctlVars, sessionId, stopping, mic, leases, latch, idVars,
                 holdVars, startPc, busVars, dlvVars, settleId, settleClosed,
                 settleResult, initial, stopWait, tailVars, gestVars, envVars,
                 quiesced>>

\* The retired tail drains to the end and ends its own Bus.
TailFinish(t) ==
  /\ tails[t] # "none"
  /\ tails' = [tails EXCEPT ![t] = "none"]
  /\ tailLeases' = tailLeases \ {t}
  /\ IF busPhase[t] = "started"
     THEN /\ busPhase' = [busPhase EXCEPT ![t] = "ended"]
          /\ published' = [published EXCEPT ![t] = tails[t]]
     ELSE UNCHANGED <<busPhase, published>>
  /\ UNCHANGED <<ctlVars, takeVars, idVars, holdVars, startPc, activeBus,
                 dlvVars, stopVars, gestVars, envVars, quiesced>>

-----------------------------------------------------------------------------
(* Stops asked for by a surface. *)

\* current_capture_stop with no running operation: an Idle controller bumps
\* the hold generation, a recording one registers its published identity,
\* anything else is AdmissionUnavailable.
AdmitStop ==
  \/ /\ state = "Idle" /\ serialLock = "free"
     /\ holdGen' = holdGen + 1
     /\ UNCHANGED stopVars
  \/ /\ state \in {"RecHold", "RecToggle"} /\ sessionId # NoTake
     /\ RegisterStop(sessionId)
     /\ UNCHANGED holdGen
  \/ /\ \/ state = "Idle" /\ serialLock # "free"
        \/ state = "Busy"
     /\ UNCHANGED <<holdGen, stopVars>>

\* stop_recording_from_external_surface (overlay, tray): joins or registers.
ExternalStop ==
  /\ Input("ExternalStop")
  /\ SlotFree /\ AdmitStop
  /\ UNCHANGED <<ctlVars, takeVars, idVars, holdTask, sleeping, exiting,
                 holdPc, holdRun, startPc, busVars, dlvVars, tailVars,
                 gestVars, keyDown, quiesced>>

\* stop_capture_if_owned by the composer, for a capture not in the slot.
StopOwned(t) ==
  /\ Input("ComposerStop")
  /\ t \in handles /\ SlotFree /\ settleId # t
  /\ RegisterStop(t)
  /\ UNCHANGED <<ctlVars, takeVars, idVars, holdVars, startPc, busVars,
                 dlvVars, tailVars, gestVars, keyDown, quiesced>>

-----------------------------------------------------------------------------
(* Gestures: the event tap, and the one FIFO consumer that runs             *)
(* admit_hotkey_event and handle_hotkey_event to completion per gesture.    *)

\* deliver_event: a starting gesture preempts a waiting stop from the tap
\* thread, before the consumer is free to look at it.
Tap(g) ==
  /\ Input(g)
  /\ Len(inbox) < MaxInbox /\ inbox' = Append(inbox, g)
  /\ g = "HoldDown" => ~keyDown
  /\ g = "HoldUp" => keyDown
  /\ keyDown' = IF g = "HoldDown" THEN TRUE
                ELSE IF g = "HoldUp" THEN FALSE ELSE keyDown
  /\ IF g = "HoldUp" THEN UNCHANGED stopWait ELSE Preempt
  /\ UNCHANGED <<ctlVars, takeVars, idVars, holdVars, startPc, busVars,
                 dlvVars, settleId, settleClosed, settlePc, settleResult,
                 initial, tailVars, gPc, gesture, gGen, gWait, quiesced>>

\* hotkey_stop_decision.
IsStop(g) ==
  \/ g = "HoldUp" /\ state \in {"RecHold", "Busy"}
  \/ g \in {"Toggle", "RawToggle"} /\ state \in {"RecToggle", "Busy"}
  \/ g = "RawToggle" /\ state = "RecHold"

\* Take the next gesture: a stop gesture, a key-up with nothing to stop, or a
\* start that first preempts a stop still waiting for its live finals.
TakeGesture ==
  /\ gPc = "idle" /\ inbox # <<>>
  /\ inbox' = Tail(inbox)
  /\ LET g == Head(inbox) IN
       /\ gesture' = g
       /\ gGen' = IF g = "HoldDown" THEN holdGen ELSE 0
       /\ gPc' = IF IsStop(g) THEN "stop"
                 ELSE IF g = "HoldUp" THEN "cancel"
                 ELSE IF stopWait # "none" THEN "await" ELSE "ready"
       /\ IF ~IsStop(g) /\ g # "HoldUp" THEN Preempt ELSE UNCHANGED stopWait
  /\ gWait' = IF gPc' = "await" THEN settleId ELSE NoTake
  /\ UNCHANGED <<ctlVars, takeVars, idVars, holdVars, startPc, busVars,
                 dlvVars, settleId, settlePc, settleClosed, settleResult,
                 initial, tailVars, envVars, quiesced>>

\* A step of the consumer that only moves it, and one that only ends it.
GestureMove(pc) ==
  /\ gPc' = pc /\ gWait' = NoTake
  /\ UNCHANGED <<ctlVars, takeVars, idVars, holdVars, startPc, busVars,
                 dlvVars, stopVars, tailVars, inbox, gesture, gGen, envVars,
                 quiesced>>

GestureEnd ==
  /\ GestureDone
  /\ UNCHANGED <<ctlVars, takeVars, idVars, holdVars, startPc, busVars,
                 dlvVars, stopVars, tailVars, inbox, envVars, quiesced>>

\* handle_hold_event, Up, with no recording to finish: cancel_pending.
CancelHold ==
  /\ gPc = "cancel" /\ GestureDone
  /\ BumpGeneration(0, LatchAfterCancel)
  /\ UNCHANGED <<ctlVars, sessionId, stopping, mic, leases, assistive, idVars,
                 sleeping, exiting, holdPc, holdRun, startPc, busVars, dlvVars,
                 stopVars, tailVars, inbox, envVars, quiesced>>

\* The operation this gesture waits for is over (or already replaced).
AwaitedOver == settleId # gWait \/ settlePc = "done"

\* The preceding take retired: go on.  A failed or timed-out stop refuses
\* the gesture (STOP_TIMEOUT turns into Pending).
AwaitRetired ==
  /\ gPc = "await" /\ AwaitedOver
  /\ settleId = gWait => settleResult \in {"Stopped", "NoLiveCapture"}
  /\ GestureMove("ready")

\* Mutant of AwaitRefused: no timeout, and an error does not end the wait.
AwaitRefusedNever == gPc = "await" /\ settleId # gWait /\ GestureEnd

AwaitRefused == gPc = "await" /\ GestureEnd

\* recover_stale_recorder_if_idle, when the state is Idle.
Recover ==
  /\ gPc = "ready" /\ gPc' = "route"
  /\ \/ /\ state # "Idle" \/ startInFlight
        /\ UNCHANGED <<mic, sessionId, leases, assistive>>
     \/ /\ state = "Idle" /\ ~startInFlight /\ serialLock = "free"
        /\ IF mic # NoTake
           THEN /\ mic' = NoTake /\ sessionId' = NoTake /\ assistive' = FALSE
                /\ leases' = leases \ {sessionId}
           ELSE UNCHANGED <<mic, sessionId, leases, assistive>>
  /\ UNCHANGED <<ctlVars, stopping, latch, idVars, holdVars, startPc, busVars,
                 dlvVars, stopVars, tailVars, inbox, gesture, gGen, gWait,
                 envVars, quiesced>>

\* Ignored: an agent answer still streams (Idle), the controller is Busy, a
\* hold was superseded meanwhile or another take is live.
RouteIgnored ==
  /\ gPc = "route"
  /\ \/ state \in {"Idle", "Busy"}
     \/ gesture = "HoldDown"
     \/ gesture = "Toggle" /\ state = "RecHold"
  /\ GestureEnd

RouteHold ==
  /\ gPc = "route" /\ gesture = "HoldDown"
  /\ gGen = holdGen /\ state = "Idle"
  /\ GestureMove("schedule")

RouteStop ==
  /\ gPc = "route" /\ gesture # "HoldDown"
  /\ state = "RecToggle" \/ (state = "RecHold" /\ gesture = "RawToggle")
  /\ GestureMove("stop")

\* start_toggle_recording preempts once more before it waits for the lock.
RouteToggle ==
  /\ gPc = "route" /\ gesture # "HoldDown" /\ state = "Idle"
  /\ gPc' = "starting"
  /\ startPc' = [startPc EXCEPT !["gesture"] = "wait"]
  /\ Preempt
  /\ UNCHANGED <<ctlVars, takeVars, idVars, holdVars, busVars, dlvVars,
                 settleId, settlePc, settleClosed, settleResult, initial,
                 tailVars, inbox, gesture, gGen, gWait, envVars, quiesced>>

\* schedule_hold_start: refused on shutdown or a moved generation; a failed
\* settings load leaves the cancelled slot, otherwise the task is spawned
\* with the new generation and the target latched.
ScheduleHold ==
  /\ gPc = "schedule" /\ serialLock = "free" /\ GestureDone
  /\ \/ /\ shutdown \/ gGen # holdGen
        /\ UNCHANGED <<holdGen, holdTask, sleeping, latch>>
     \/ /\ ~shutdown /\ gGen = holdGen
        /\ \/ /\ BumpGeneration(0, LatchAfterCancel)
              /\ UNCHANGED sleeping
           \/ /\ BumpGeneration(holdGen + 1, TRUE)
              /\ sleeping' = sleeping \cup {holdGen + 1}
  /\ UNCHANGED <<ctlVars, sessionId, stopping, mic, leases, assistive, idVars,
                 exiting, holdPc, holdRun, startPc, busVars, dlvVars, stopVars,
                 tailVars, inbox, envVars, quiesced>>

\* The stop gesture joins the running operation or asks for its own.
GestureStop ==
  /\ gPc = "stop"
  /\ IF SlotFree THEN AdmitStop ELSE UNCHANGED <<holdGen, stopVars>>
  /\ IF SlotFree /\ state \notin {"RecHold", "RecToggle"}
     THEN GestureDone
     ELSE /\ gPc' = "closing" /\ gWait' = settleId'
          /\ UNCHANGED <<gesture, gGen>>
  /\ UNCHANGED <<ctlVars, takeVars, idVars, holdTask, sleeping, exiting,
                 holdPc, holdRun, startPc, busVars, dlvVars, tailVars, inbox,
                 envVars, quiesced>>

\* await_admitted_stop: back at the closed receipt or at the result.
GestureClosed ==
  /\ gPc = "closing" /\ (settleClosed \/ AwaitedOver)
  /\ GestureEnd

-----------------------------------------------------------------------------
(* Shutdown and restart. *)

RequestShutdown ==
  /\ Input("Shutdown")
  /\ ~shutdown /\ shutdown' = TRUE
  /\ UNCHANGED <<state, serialLock, startInFlight, takeVars, idVars, holdVars,
                 startPc, busVars, dlvVars, stopVars, tailVars, gestVars,
                 keyDown, quiesced>>

\* capture_work_is_quiescent.
WorkIsQuiescent ==
  /\ SlotFree /\ state = "Idle"
  /\ \A t \in Takes : tails[t] = "none"
  /\ sessionId = NoTake /\ mic = NoTake

\* capture_shutdown_settled answers true.
ShutdownSettled ==
  /\ shutdown /\ serialLock = "free" /\ WorkIsQuiescent
  /\ ~quiesced /\ quiesced' = TRUE
  /\ UNCHANGED <<ctlVars, takeVars, idVars, holdVars, startPc, busVars,
                 dlvVars, stopVars, tailVars, gestVars, envVars>>

\* reserve_idle_restart answers true and closes admission.
ReserveIdleRestart ==
  /\ ~shutdown /\ serialLock = "free" /\ WorkIsQuiescent
  /\ ~Unfinished(holdTask)
  /\ Input("Restart")
  /\ shutdown' = TRUE /\ quiesced' = TRUE
  /\ UNCHANGED <<state, serialLock, startInFlight, takeVars, idVars, holdVars,
                 startPc, busVars, dlvVars, stopVars, tailVars, gestVars,
                 keyDown>>

-----------------------------------------------------------------------------
HoldTasks ==
  \/ \E g \in sleeping : HoldDrop(g) \/ HoldRefused(g) \/ HoldLease(g)
  \/ HoldFail \/ HoldOpen \/ HoldSuperseded \/ HoldConfirm \/ HoldArm
  \/ \E g \in exiting : HoldExit(g)

ToggleStarts ==
  \E s \in Starters : \/ ToggleRefused(s) \/ ToggleAborted(s) \/ ToggleLease(s)
                      \/ ToggleFail(s) \/ ToggleOpen(s) \/ ToggleArm(s)

Settlement ==
  \/ SettleRefused \/ SettleAdmit \/ SettleBusy \/ SettleClose
  \/ SettlePreempted \/ SettleFinals \/ SettleCanvas
  \/ TerminalPending \/ TerminalFailed \/ TerminalDeliver
  \/ SettleReset \/ SettleIdle \/ SettleDone

Consumer ==
  \/ TakeGesture \/ CancelHold \/ AwaitRetired \/ AwaitRefused \/ Recover
  \/ RouteIgnored \/ RouteHold \/ RouteStop \/ RouteToggle \/ ScheduleHold
  \/ GestureStop \/ GestureClosed

Surfaces ==
  \/ \E g \in Gestures : Tap(g)
  \/ ComposerPress \/ ExternalStop \/ \E t \in Takes : StopOwned(t)
  \/ RequestShutdown \/ ShutdownSettled \/ ReserveIdleRestart

Next ==
  \/ HoldTasks \/ ToggleStarts \/ Settlement \/ Consumer \/ Surfaces
  \/ \E t \in Takes : TailFinish(t)

Spec == Init /\ [][Next]_vars

-----------------------------------------------------------------------------
\* The types, by group of variables.  No generation a task or a gesture
\* remembers lies ahead of hold_start_generation.
TypeCtl ==
  /\ state \in {"Idle", "RecHold", "RecToggle", "Busy"}
  /\ serialLock \in {"free", "hold", "settle"} \cup Starters
  /\ startInFlight \in BOOLEAN /\ shutdown \in BOOLEAN

TypeTake ==
  /\ sessionId \in Takes \cup {NoTake} /\ stopping \in BOOLEAN
  /\ mic \in Takes \cup {NoTake} /\ leases \subseteq Takes
  /\ latch \in BOOLEAN /\ assistive \in BOOLEAN

TypeId ==
  nTakes \in 0..MaxInputs /\ kind \in [Takes -> Kinds] /\ handles \subseteq Takes

TypeHold ==
  /\ holdGen \in Nat /\ holdTask \in 0..holdGen /\ holdRun \in 0..holdGen
  /\ sleeping \subseteq 1..holdGen /\ exiting \subseteq 1..holdGen
  /\ holdPc \in {"none", "leased", "open", "arming"}
  /\ holdPc # "none" => holdRun # 0

TypeStart == startPc \in [Starters -> {"idle", "wait", "leased", "arming"}]

TypeBus ==
  /\ activeBus \in Takes \cup {NoTake}
  /\ busPhase \in [Takes -> {"none", "started", "ended"}]
  /\ published \in [Takes -> Dispositions \cup {"none"}]

TypeDlv ==
  /\ disposition \in Dispositions /\ own \in [Takes -> Dispositions]
  /\ deliveredTake \in Takes \cup {NoTake} /\ handoffs \in [Takes -> Nat]

TypeStop ==
  /\ settleId \in Takes \cup {NoTake}
  /\ settlePc \in {"none", "registered", "marked", "busy", "closed", "canvas",
                   "terminal", "reset", "cleared", "idled", "done"}
  /\ settleClosed \in BOOLEAN /\ settleResult \in Outcomes
  /\ initial \in {"none", "settled", "failed"}
  /\ stopWait \in {"none", "open", "requested"}

TypeTail ==
  tails \in [Takes -> Dispositions \cup {"none"}] /\ tailLeases \subseteq Takes

TypeGest ==
  /\ inbox \in Seq(Gestures)
  /\ gPc \in {"idle", "cancel", "await", "ready", "route", "schedule",
              "starting", "stop", "closing"}
  /\ gesture \in Gestures /\ gGen \in 0..holdGen /\ gWait \in Takes \cup {NoTake}

TypeEnv ==
  keyDown \in BOOLEAN /\ inputs \in Session /\ quiesced \in BOOLEAN

\* Every variable has its type: the controller's fields, the hold tasks and
\* generations, the settlement slot, the tails and the gesture consumer.
TypeOK ==
  /\ TypeCtl /\ TypeTake /\ TypeId /\ TypeHold /\ TypeStart /\ TypeBus
  /\ TypeDlv /\ TypeStop /\ TypeTail /\ TypeGest /\ TypeEnv

-----------------------------------------------------------------------------
(* Safety. *)

Recording == state \in {"RecHold", "RecToggle"}

\* The microphone is open only for the take in the session slot, under its
\* storage lease, while that take is being armed under serial_lock, is
\* recording, or is at the close step of its own stop; and a recording state
\* always has its microphone.  ("do not run two audio pipelines
\* concurrently", handle_hotkey_event.)
MicIsOwned ==
  /\ mic # NoTake =>
       /\ sessionId = mic /\ mic \in leases
       /\ \/ holdPc \in {"open", "arming"}
          \/ \E s \in Starters : startPc[s] = "arming"
          \/ Recording
          \/ state = "Busy" /\ settlePc = "busy" /\ settleId = mic
  /\ Recording => mic # NoTake

\* Idle with nobody inside serial_lock means nothing of a take is left: no
\* identity, no microphone, no installed Bus, no lease, no start in flight.
\* reset_session_fields writes Idle last for this, without the lock.
IdleIsClean ==
  state = "Idle" /\ serialLock = "free" =>
    /\ sessionId = NoTake /\ ~stopping /\ mic = NoTake
    /\ activeBus = NoTake /\ leases = {} /\ ~startInFlight

\* The stages of a stop, from its admission to the emptied session slot.
Admitted == {"marked", "busy", "closed", "canvas", "terminal", "reset"}

\* A start transition runs under serial_lock.
Starting == serialLock \in {"hold"} \cup Starters

\* Who is inside serial_lock is who its holder says, one at a time; a start
\* only ever runs while the controller is Idle, and the consumer waits for
\* the one it made.
LockInv ==
  /\ serialLock = "hold" <=> holdPc # "none"
  /\ \A s \in Starters :
       serialLock = s <=> startPc[s] \in {"leased", "arming"}
  /\ serialLock = "settle" <=> settlePc \in {"marked", "busy"}
  /\ startInFlight <=> Starting
  /\ Starting => state = "Idle"
  /\ startPc["gesture"] # "idle" => gPc = "starting"

\* Busy belongs to the settlement task, which has left serial_lock long
\* before it ends; a take it admitted is still recording.
StateInv ==
  /\ state = "Busy" <=>
       settlePc \in {"busy", "closed", "canvas", "terminal", "reset", "cleared"}
  /\ settlePc = "marked" => Recording

\* The session slot is filled exactly while a take starts, records or stops,
\* and everything else of a take follows it.
OwnerInv ==
  /\ sessionId # NoTake <=> (Starting \/ Recording \/ settlePc \in Admitted)
  /\ settlePc \in Admitted => settleId = sessionId
  /\ stopping => settlePc \in Admitted
  /\ leases = {sessionId} \ {NoTake}
  /\ mic = IF \/ holdPc \in {"open", "arming"} \/ Recording
               \/ (\E s \in Starters : startPc[s] = "arming")
               \/ settlePc = "busy"
           THEN sessionId ELSE NoTake
  /\ activeBus \in {NoTake, sessionId}

\* The control state of capture: which task is where, and what it owns.
\* This is the inductive invariant behind MicIsOwned and IdleIsClean.
ControlInv == LockInv /\ StateInv /\ OwnerInv

\* No take is handed to a destination twice, although delivered_take only
\* remembers the last take that claimed.
DeliveredOnce == \A t \in Takes : handoffs[t] <= 1

\* A take whose session_started line is written is still owned by somebody
\* who will end it: the session slot, or its own retired tail.
StartedBusIsOwned ==
  \A t \in Takes : busPhase[t] = "started" =>
    (activeBus = t /\ sessionId = t) \/ tails[t] # "none"

\* The tail's own lease outlives the foreground reset that frees the
\* registry entry ("so a terminal reset cannot outrun it").
TailKeepsLease == \A t \in Takes : tails[t] # "none" => t \in tailLeases

\* The terminal Bus line of a take that recorded a disposition states that
\* disposition, although the cell is shared with the next take.
PublishedMatches ==
  \A t \in Takes :
    published[t] # "none" /\ own[t] # "Unattempted" => published[t] = own[t]

\* Once shutdown or restart was told that capture is settled, it stays so.
QuiescedStays ==
  quiesced => /\ mic = NoTake /\ sessionId = NoTake /\ state = "Idle"
              /\ \A t \in Takes : tails[t] = "none"

\* A take that was not drawn yet has left no trace.
FreshInv ==
  /\ sessionId <= nTakes
  /\ \A t \in Takes : t > nTakes =>
       /\ busPhase[t] = "none" /\ published[t] = "none" /\ tails[t] = "none"
       /\ own[t] = "Unattempted" /\ handoffs[t] = 0

\* A Bus is started once, ended once, by its owner: a take in the slot is not
\* on its tail, and its Bus is not over, until its stop has given it up.
JournalInv ==
  /\ StartedBusIsOwned /\ TailKeepsLease
  /\ \A t \in Takes : published[t] # "none" <=> busPhase[t] = "ended"
  /\ sessionId # NoTake /\ settlePc # "reset" =>
       tails[sessionId] = "none" /\ busPhase[sessionId] # "ended"
  /\ Starting /\ mic = NoTake => busPhase[sessionId] = "none"

\* Delivery happens in one step of one stop, and what that step recorded is
\* what the shared cell still holds when the Bus is ended or handed on.
DeliveryInv ==
  /\ DeliveredOnce /\ PublishedMatches
  /\ initial # "none" => settlePc \in {"terminal", "reset"}
  /\ sessionId # NoTake /\ settlePc # "reset" /\ initial = "none" =>
       handoffs[sessionId] = 0
  /\ sessionId # NoTake /\ own[sessionId] # "Unattempted" =>
       settlePc \in {"terminal", "reset"} /\ disposition = own[sessionId]
  /\ \A t \in Takes :
       tails[t] # "none" /\ own[t] # "Unattempted" => tails[t] = own[t]

\* A settled answer is given once admission is closed for good.
QuietInv == quiesced => shutdown /\ QuiescedStays

\* The inductive invariant of the whole module.
LifecycleInv == ControlInv /\ FreshInv /\ JournalInv /\ DeliveryInv /\ QuietInv

\* A terminal Bus line is written once and never rewritten (publish_ended,
\* reached from the foreground reset and from the retired tail).
TerminalLineKept ==
  \A t \in Takes : busPhase[t] = "ended" =>
    busPhase'[t] = "ended" /\ published'[t] = published[t]
TerminalLineFinal == [][TerminalLineKept]_vars

\* A capture that is recording or stopping is only ever closed by the stop
\* registered under its own identity; a delayed stop cannot close another
\* (capture_gate).
StopNamesOwn ==
  state # "Idle" /\ mic # NoTake /\ mic' # mic => mic' = NoTake /\ settleId = mic
StopNamesCapture == [][StopNamesOwn]_vars

\* A take leaves the session slot before another one enters it.
SlotFreedFirst ==
  sessionId # NoTake /\ sessionId' # sessionId => sessionId' = NoTake
SlotNotHijacked == [][SlotFreedFirst]_vars

\* A retired take has no authority over the next take's destination: its tail
\* drains without a handoff (detach_preempted_stop).
RetiredIsSilent ==
  \A t \in Takes : tails[t] # "none" => handoffs'[t] = handoffs[t]
RetiredNeverDelivers == [][RetiredIsSilent]_vars

-----------------------------------------------------------------------------
(* Liveness.  serial_lock is tokio's FIFO mutex, so a task that keeps       *)
(* waiting for it gets it (SF); every other step of a spawned task is run   *)
(* by the scheduler once it is ready (WF).  Retired tails get no fairness:  *)
(* "Permanent refusal stays visibly unsettled".                             *)

Fairness ==
  /\ SF_vars(SettleRefused \/ SettleAdmit)
  /\ WF_vars(SettleBusy \/ SettleClose)
  /\ WF_vars(SettlePreempted \/ SettleFinals)
  /\ WF_vars(SettleCanvas)
  /\ WF_vars(TerminalPending \/ TerminalFailed \/ TerminalDeliver)
  /\ WF_vars(SettleReset \/ SettleIdle \/ SettleDone)
  /\ WF_vars(HoldFail \/ HoldOpen)
  /\ WF_vars(HoldSuperseded \/ HoldConfirm \/ HoldArm)
  /\ \A s \in Starters :
       /\ SF_vars(ToggleRefused(s) \/ ToggleAborted(s) \/ ToggleLease(s))
       /\ WF_vars(ToggleFail(s) \/ ToggleOpen(s) \/ ToggleArm(s))
  /\ SF_vars(Recover) /\ SF_vars(ScheduleHold)
  /\ WF_vars(TakeGesture \/ CancelHold \/ AwaitRetired \/ AwaitRefused
             \/ RouteIgnored \/ RouteHold \/ RouteStop \/ RouteToggle
             \/ GestureStop \/ GestureClosed)

FairSpec == Spec /\ Fairness

\* Busy always resolves, whatever the terminal refuses or fails (incident
\* 2026-09-02: "the controller stayed `Busy` for good").
BusyResolves == state = "Busy" ~> state = "Idle"

\* A registered stop reaches a result.
StopSettles == settlePc = "registered" ~> settlePc = "done"

\* The FIFO consumer always comes back for the next gesture.
GestureSettles == gPc # "idle" ~> gPc = "idle"

-----------------------------------------------------------------------------
(* What the code's own comments say, and the code does not do. *)

\* "A key-up that landed while `state` was still Idle bumped the generation
\* without `serial_lock`; the take must not survive it."
KeyUpEndsHold ==
  state = "RecHold" /\ settlePc \in {"none", "registered", "done"}
    => holdGen = holdRun

=============================================================================
