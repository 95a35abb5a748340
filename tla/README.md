# A TLA+ verification of CodeScribe

CodeScribe is a macOS dictation and voice-agent application: a Rust core and
controller behind a Swift user interface. A gesture opens the microphone,
recognizers turn it into text, the text is delivered into another application
or into an agent conversation, and the agent may run tools on the user's
behalf. This directory holds TLA+ models of the parts where several tasks share
state, the TLC runs that check them on small instances, and TLAPS proofs of
their main properties for every instance.

## The system

```
hotkey tap ──► FIFO consumer ──► RecordingController ──► StreamingRecorder ──► recognizers
 (preempts)     (bridge)          │   ▲    │    │                                   │
                                  │   │    │    └─► transcript Bus ──► Swift UI     ▼
 composer / external stop ────────┘   │    └─► delivery (paste, composer)  ◄── acoustic ledger
                                      │
 spoken or typed instruction ──► ConsultationRuntime ──► owner task ──► AgentSession ──► tools
                                   (admission)          (journal)          │
                                                                     ApprovalBroker ◄── approval card
 spoken question ──► agent runtime (helpers.rs) ──► AgentSession ──► provider (response chain) ──► server
 Stop ──► turn registry ──┘        └─► thread on disk
```

| Part | State it keeps | Operations | What is hard | What makes it correct |
|---|---|---|---|---|
| `app/controller/mod.rs` recording controller | state, `serial_lock`, session id, hold generation and task, settlement slot, paste-wait registration, Bus, disposition, tails | hotkey events, composer start, stops of three surfaces, settlement, preemption, recovery, shutdown | starts run under the lock and most of a stop outside it; key-ups bump a generation without it; a new gesture preempts the previous stop, whose tail goes on | one microphone owned by one take; nothing left at Idle; each take delivered at most once and ended once on the Bus; Busy always resolves |
| `bridge/src/hotkeys.rs`, `app/os/hotkeys/platform.rs` | gesture channel, `CAPTURE_OWNER` | tap, consume, capture gate | the consumer waits for a stop the next gesture may preempt | every gesture is finished |
| `app/os/hotkeys/detector.rs` gesture detector | the active hold, a pending Fn or middle press, an owed Up, times of the last taps, latched chords | key down and up, modifier change, middle button, poll | one thread, but events come late, out of step with the timer that promotes presses, or not at all | Down and Up alternate; a hold is neither cut nor left recording; a toggle is two clean taps |
| `core/agent/consultation.rs` | command channel, admission flag and counter | start, enqueue, prepare group, authorize, close, the owner loop | submissions race the owner, close and abandonment | every accepted turn is answered; nothing runs without its receipt |
| `core/agent/thread_store/consultation.rs` | journal file and its copy in memory | open, accept, discard, begin, complete, abandon | a crash anywhere; a write that fails with the file old or new | effects at most once; resolved identities refused for life |
| `core/agent/approval.rs` | map of pending calls, one oneshot and one guard per call, watch channel | begin, resolve, cancel thread, guard drop, subscribe | timeout, cancellation, decision and key reuse between locks | allowed only by an approval of that registration; no orphan, no stale row |
| `app/controller/helpers.rs`, `core/agent/session.rs`, `app/agent/openai_provider.rs`, `app/agent_delivery.rs` voice agent turns | the runtime with its session's history and thread id, the provider's chain, the thread on disk, the registry of turns that can be stopped | send, retry, tool round, Stop, save, degrade, rebuild, retarget | a Stop, a forwarder and the session run at once; failures at every point of a turn; the chain on the server must stand for the local history | the model sees the conversation the session holds; calls and results pair up; a stopped turn leaves nothing; every turn announces its end once |
| `core/asr_session`, `core/audio`, `core/pipeline`, `core/stt` | sessions, buffers, the acoustic ledger, engines | ingest, finals, sealing | callbacks out of order, late finals | every sealed range delivered once |
| `app/presentation/bus_generation.rs` | the Bus file, closed segments, the manifest, the lease, archive queues | append, durable append, daily rollover, archive, read | several processes; a crash or failed write between two effects; readers without a lock | one append-only log; receipts survive; a reader never gets a wrong row |
| `app/presentation`, the rest | acknowledgements, emitter, reducer | publish, acknowledge | a stale acknowledgement, events applied out of order | every line is shown once |
| `core/state`, `core/llm`, `core/demux`, `core/licensing`, `app/cli`, Swift UI | retention registry, HTTP streams, pure parsers and checks, views | | I/O and formatting | |

`PROJECT.json` lists every part with its status, and the hazards of the code at
the line where each bites.

## Modules

| Module | What it is |
|---|---|
| `RecordingController` | the capture lifecycle of the controller, the tap's preemption and the FIFO consumer |
| `RecordingControllerProofs`, `RecordingDeliveryProofs` | its proofs: types and control, then Bus, delivery and shutdown |
| `Consultation` | the consultation owner task on top of its admission journal, with crashes and failed writes |
| `ConsultationProofs` | its proofs: effects run once, under a receipt, and resolved identities stay resolved |
| `ConsultationDurabilityProofs` | on top of them: answers, history, the file and the channel |
| `ApprovalBroker` | the approval gate, lock by lock, with the awaiting session and the host's snapshot |
| `ApprovalPromise` | the abstract specification the gate implements |
| `ApprovalBrokerProofs` | its invariant and the refinement proof |
| `BusGenerations` | the daily generations of a Bus: appenders, rollover, archive threads, a reader, faults |
| `BusLog` | the abstract append-only log the generations implement |
| `BusGenerationsProofs` | the inductive invariant of the chain of files, the refinement proof, and that an interrupted rollover can be completed |
| `HotkeyDetector` | the gesture detector between a user, an event tap and a timer |
| `HotkeyDetectorProofs` | its proofs: types, Down and Up alternate, a hold is not cut, a Ctrl toggle is a double tap |
| `MCTypedTaps` | the detector beside a history of the presses in which the user typed, for the two failing runs about taps |
| `AgentTurns` | the turns of a voice conversation: runtime, session loop, provider chain, Stop |
| `AgentTurnsProofs` | its proofs: types, traces of stopped turns, pairing, growth of the thread, terminals, whole requests |
| `MC…` | the same modules with the sessions and settings TLC uses |

In each module the operators whose comment begins with *Mutant* are deliberate
mistakes (a dropped guard, a missing reset) that take no part in the
specification; substituting one for the definition that follows it must make the
named property fail, which shows that the property depends on that code.

### RecordingController and the code

A step is what one task does between two points where another task can see a
difference. `serialLock` is the controller's tokio mutex: a hold start (`Hold…`,
`schedule_hold_start`), a toggle or composer start (`Toggle…`,
`start_toggle_recording`) and a stop up to the closed microphone
(`SettleAdmit`, `SettleBusy`, `SettleClose`) are under it; the rest of a stop
(`SettleFinals` … `SettleDone`) is not. `RegisterStop` fills the one settlement
slot (`register_capture_stop`), `CaptureGate` is what a stop with an expected
identity is allowed to close. `Preempt` is the tap's
`preempt_stop_paste_for_next_take`: a stop that is still waiting for live finals
is detached (`Detach`), and its tail ends its own Bus later (`TailFinish`).
`TakeGesture` … `GestureClosed` are `handle_hotkey_event` and
`admit_hotkey_event` as the single consumer executes them. A take is a number;
its Bus is `none`, `started` or `ended`; its text is the single fact that it was
handed over. The recorder, the recognizers' finals, the terminal seal and the
paste succeed or fail nondeterministically.

Left out: conversation mode and agent channels, the mode flags (raw,
assistive), settings generations, the composer's payload, the bridge's
`CAPTURE_OWNER` gate (the model lets every gesture through, so it checks more
interleavings than the gate admits), and a missing front-most application.

Simplified: the reads with `try_read` and `try_lock` in `hotkey_stop_decision`
(mod.rs:5233) and `current_capture_stop` (7096-7131) always succeed here, where
the code gives the gesture or the stop up as unavailable if it meets a writer; and
where a handler reads the state to decide and once more to act (5346, 5558), the
model decides and acts on one read. The refused gesture and the state that changed
between the two reads are therefore not among the interleavings checked.

### Consultation and the code

`mem` is the journal the owner holds under its mutex, `disk` the file. Every
journal operation writes the file by rename; `PersistFailed` leaves it old or
new and sets the recovery gate, exactly as `persist` does, and each caller's own
restoration of the in-memory state is kept (`complete` restores the queue and
the pending turn but not the completed set). Submissions are numbered;
`turnOf` is the identity a submission carries, which a caller may submit again.
`Crash` keeps the file and the thread history. Left out: how spoken input is
grouped and sealed, the provider seal cache and `prepare_provider`'s own
command (neither touches the journal), and the choice of the conversation.

### ApprovalBroker and the code

A call is one `begin`. `resolve` is four actions (take the entry, announce,
persist the grant, send), the future is three (`Wake`, `Abandon`, `GuardDrop`):
an abandoned future drops its receiver before its guard. The host is the
forwarder, which marks the revision seen before it tells the host, and the
host's later read. The session id is part of the call identity. `Forward` assumes
that the host's listener is registered: without one the bridge drops the
announcement (`bridge/src/hotkeys.rs:400`), and the cards converge at the host's
next own read.

`ApprovalPromise` says what the tool gateway relies on: a call asks, may be
approved, and is told one verdict, `allow` only after an approval of that very
registration. `Promise` in `ApprovalBroker` is the refinement mapping and
`KeepsPromise` the abstract specification as a property.

### BusGenerations and the code

A Bus is one stream of rows whose bytes live in a chain of files. An inode is a
number with its rows; a position counts rows where the code counts bytes; a
segment of the manifest carries the fields of `Segment` that the chain check
compares. `Torn` is what a write cut short leaves: bytes without a newline.
`Effective` and `ChainChecks` are `resolved`: a pending swap whose rename has
happened counts as done, and every closed file must be there with its recorded
length.

The holder of the lease goes through the phases of `append` or `append_durable`,
one per effect on the disk: `PrepareAppend` (resolve and persist the manifest,
refresh the descriptor, decide whether the day is over), `Stage` or
`StagePending`, `WritePending`, `RenameNext`, `WriteFinal`, `WriteRow`,
`SyncRow`. Any call may fail in between (`PrepareFails` … `SyncFails`), with the
manifest replaced or not; `WriteTears` leaves half a row; `Die` is the death of
a process and `PowerLoss` also takes unsynced rows away. `ArchiveLoop`,
`ArchiveLook`, `Compress`, `Publish`, `Retire` and `Forget` are the archive
thread of `schedule_archives` and `compress_segment`, which holds the lease only
for the last three. The reader (`ReaderOpens` … `ReaderCloses`) takes no lease:
it reads the manifest, checks identities, and only then reads the length of
whatever file is at the Bus path; a missing file makes it look again.

`BusLog` is the promise to everyone who writes to a Bus or reads it: rows are
appended at the end, a growing prefix is durable, and only a power loss removes
rows, none of them durable. `Stream` reads the chain the way `Reader::read` does
and is the refinement mapping.

Left out: recovery from a renumbered device (it needs a second device number to
mean anything), the one-time migration of an old Bus, records split over several
rows and their decoder, `append_durable_many` to several destinations (one
destination is modelled), and directories that forget an entry.

Simplified: a `PowerLoss` cuts a file at the end of a row (a torn row comes from
`WriteTears`) and keeps every directory entry, the ones not yet synced too; the
name of a compressed stage is such an entry when it is published
(bus_generation.rs:1027), so the model does not say what a power loss does to it.
`Retire` has no failing `remove_file` (1055): the original it would leave is the
one a death just before `Retire` leaves. `Finish` joins the release of the lease
with the view that `schedule_archives` takes without it; a view that fails (761-763)
schedules nothing, as the death of the process does.

### HotkeyDetector and the code

`feed` is `HotkeyDetector`'s handlers behind `event_callback`, `poll` its timer
entry; each is a function from the detector and an event to the next detector
and at most one gesture, translated part by part (`FnPressed`, `HoldStep`,
`FnReleased`, `CtrlTap`, `OptionTap` are the parts of `handle_flags_changed`, in
order). `Handle` and `Poll` are the tap's callback and its 50 ms timer, which run
on one thread. Around them, the environment: `Press`, `Lift` (a user), `Send`
(the system's event, queued or missed while the tap is disabled), `SecureEntry`
(letters do not reach the tap) and `Tick`. A time stamp is kept as an age, which
saturates where no comparison can tell more; an event keeps its own age, so a
late callback judges it as the code does. With `MaxQueue` events waiting the user
waits too (`Send`); the run has one, the theorems any number. `anchor`, `press`, `taps`, `seen` and
`open` only record what the user did and what was delivered.

Left out: the scroll wheel and the chooser's lease, keys claimed by the channel
chords' owner, the input journal, the switch that disables the tap, and settings
that change in the middle of a gesture.

### AgentTurns and the code

A turn is `run_agent_send_path_with_persist` under the runtime's mutex.
`BeginReused`, `BeginRollover`, `BeginRebuilt` and `BeginFails` are the outcomes
of `ensure_runtime_generation_with`, followed by the snapshot, the registration
and the first push of `send` (`Open`). `StartFails` and `Request` are
`stream_with_retry` around the provider's `stream`; `ReceiveTerminal`,
`ReceiveError`, `EndsUnclean`, `EndsBad`, `EndsRound` and `RunTool` are the polls
of `send`. `ForwardDeliver` and `ForwardApply` are the two halves of
`forward_events_and_track_chain`, `LateApply` the second half of a forwarder
whose stream has been dropped. `Stop` is `cancel_agent_delivery_turn`, `Stopped`
the rollback, whether the select or the last `finish()` finds the Stop. `UiDone`,
`EndOk` and `EndErr` publish the terminal and save. `Retarget` and a hard failure
drop the runtime (`Dropped`).

The server is a function from response ids to what it holds: what it was shown
for that response and the response itself. A message is a kind, a turn, a
round-trip and an index; reading a thread back keeps roles and block kinds, so on
this abstraction it is the identity. `lapses` records why the chain may no longer
stand for the history, and `blank` that a thread was continued without having
been read; neither is read by an action. Other threads' turns are left out: they
meet this one only through the mutex and `Retarget`. A Stop commutes with every
step of the send but the publication of Done, so the send's steps are taken
before it.

Left out: attachments, retrieved context, the spilling of large outputs, images,
routes without a chain (their requests are the replays of this model), and the
composer's turns, which have their own session per thread.

## Runs

| Run | Instance | Shows |
|---|---|---|
| `RecordingSafety` | 4 inputs of every kind, inbox of 2 | types, and the safety and action properties of the capture lifecycle |
| `RecordingLiveness` | 3 inputs of every kind, or 6 composer and external inputs, inbox of 2, fair | Busy resolves; the FIFO consumer comes back; every registered stop settles; a stop closes only the capture it names |
| `Consultation` | 2 identities, 3 submissions, channel of 2, 1 crash, 2 failed writes, fair | effects at most once, answers durable, the file well formed, identities resolved for life; every accepted turn is answered |
| `Approval` | 2 conversations, 2 calls, fair | a waiting call can be answered, the promise is kept, cards converge |
| `Bus` | 2 processes and a reader, 5 inodes, 2 rows, 2 dates, 1 fault, fair | the chain always resolves, implements the log and keeps every durable receipt; the reader gets no wrong row; an interrupted rollover can be completed; archive work is kept |
| `Hotkeys` | 14 settings with two keys each, delay of 2 ticks, taps and interval of 1, callbacks 1 tick late, 1 waiting event (`MaxQueue`), 1 missed event, fair | Down and Up alternate, holds are not cut and end, toggles are two taps of their own |
| `AgentTurns` | 2 turns, 2 round-trips, 1 call per response, 2 Stops | requests show the whole conversation, histories pair up, a stopped turn leaves no trace, terminals, the thread grows |
| `FindKeyUp` | 3 inputs | a hold survives its key-up |
| `FindServiceable` | 3 identities, 3 submissions | a stale command drops a later instruction |
| `FindCtrlChord` | Ctrl, Shift and the widget's letter, 1 waiting event | a Ctrl press with a command in it counts as a tap |
| `FindOptionTyped` | Option and a letter, secure entry, 1 waiting event, 1 tick late | an Option press with a hidden letter in it counts as a tap |
| `FindDoneCancelled` | 1 turn, 1 Stop | a turn ends as Done and as Cancelled |

Bounds. Four inputs are enough for a start, its stop, a preempting start and its
stop, with any of them replaced by a shutdown, a composer request or a key-up;
the gesture inbox of two lets one gesture wait behind the one in progress. The
composer's sessions need more inputs because a misdirected stop takes two whole
takes and a late stop of the first; `RecordingLiveness` begins in either kind of
session. Three submissions are the smallest number with a
failing turn, one dropped behind it and one accepted later; a channel of two
(the code has sixteen) fills up. Two failed writes cover an uncertain completion
followed by an uncertain abandonment. Two calls cover everything the broker's
calls can do to each other, which is pairwise: a shared key, a shared thread.
Two rows and two dates put a row into a file that is closed and archived and one
into its replacement; five inodes are the first file, its replacement, a
compressed copy of each process, with one in reserve so that an append can always
begin its rollover. Two processes are what the lease and two archive threads need
to meet. The date does not return in this run, because `PendingIsReusable` is
stated for dates that do not; the other safety properties of the Bus are theorems
with no such hypothesis, for any number of processes, rows and faults. A hold start delay of
two ticks with taps of one separates a tap, a press that is too long for a tap
and too short for a hold, and a hold; one tick of lateness is enough to move an
event over each of these borders. The two keys of each setting are the ones
whose handlers share state under it; the middle button is paired with a letter and
with a modifier, with and without the agent gesture.
Two voice turns are one that leaves something behind and one that
meets it; two round-trips are a tool round and its continuation, and reach the
loop guard; one call per response may be ready, without arguments or unparsed;
each turn can be stopped.
The proofs below hold for all bounds. Deadlock is not checked because the
inputs are bounded: a system that has used them up and settled may stop.

Fairness. `serial_lock` is a tokio mutex, which is FIFO, so a task that keeps
asking for it gets it (strong fairness of the steps that acquire it); any other
step of a spawned task is run by the multi-threaded runtime once it is ready
(weak fairness). No fairness is assumed of users, of the host, or of retired
tails, which the code allows to stay unsettled for ever. The consultation owner
is one task and gets weak fairness: the agent session bounds provider streams
and approvals by timeouts. A spoken candidate's handle is authorized or dropped
by the capture task that holds it. In the approval gate a begun `resolve`, a
resolved oneshot and the forwarder progress; nothing obliges the user to answer.
A holder of the Bus lease and an archive thread are running threads (weak
fairness); no append has to begin. The tap's callback and timer are sources of
one run loop, so each waiting event is handled and the timer keeps firing (weak
fairness of `Handle` and `Poll`); nothing obliges the user to press or lift.
`Hotkeys` checks deadlock: the timer can always fire.

## What the failing runs show

Each states what a comment in the code says, and TLC refutes it; `PROJECT.json`
quotes the comment.

- `FindKeyUp`: between the last generation check and `RecHold` a key-up still
  sees Idle; the take survives it.
- `FindServiceable`: after a failure the commands of dropped inputs stay in the
  owner's channel; when one is reached, `begin` fails and everything accepted
  since is dropped with it.
- `FindCtrlChord`: a chord that is a command (the widget's, Insert-Here's, the
  repeat of a channel digit) returns before `handle_key_down` marks the modifier
  as used, so a short press of Ctrl with such a chord in it is a first tap, and
  the next tap of Ctrl toggles; the comment says any key struck disqualifies it.
- `FindOptionTyped`: the HID system tells the time of the last key-down only, and
  is asked when the callback runs. A letter typed in secure entry after the
  release of Option, while that release waits, replaces the one typed during the
  press; it lies after the release, and the press is a tap, which the comments
  say it can never be.
- `FindDoneCancelled`: `send_ui_event` yields after it has queued Done, so the UI
  arm of the select can publish it before the send returns. A Stop that came since
  the last poll of the cancellation is what `finish()` reports there, and the arm
  drops the report (helpers.rs:980); the next poll finds the flag, rolls the
  finished turn back and publishes Cancelled too.

`ToggleIsDoubleTap` and `OutcomeAnnounced` hold as stated in the passing runs
because they say what the code does in these cases: the first exempts commands
under Ctrl (`IsCommand` in `Press`) and masked letters (`Masked`), the second
allows Done with a Cancelled whose Stop was taken before. They are not evidence
for the comments.

Other behaviours, without a run of their own:

- Controller: only toggle starts reset the delivery disposition, so a hold take
  can end with the previous take's destination on its Bus line; a start task
  that has made its take live but has not returned yet counts as pending, and
  the stop clears the take's delivery target; the assistive flag is cleared
  after Idle is visible, and a composer take that began in between loses its
  own. A toggle press during a hold rewrites the live take's mode flags (not in
  the model, which has no mode flags).
- Consultation: the stale command of a dropped input executes if its identity is
  submitted again (once; the second submission is then refused); a completion
  whose write failed leaves the turn in the completed and in the abandoned set,
  and it is this that keeps a completed identity from being lost.
- Approval: a `resolve` that returns false because the call timed out has
  already written its grant.
- Bus: an interrupted rollover pins the length of the active file. If the date
  returns to that file's day before the rollover is completed, a row is appended
  under the pin and from the next date on every append is refused;
  `PendingIsReusable` is therefore stated for dates that do not return, while
  `docs/TRANSCRIPT_BUS.md` says only that pending swaps recover matching original
  identities. A torn row at the end of the active file likewise refuses every
  rollover. When only the last manifest write of a rollover fails, the closed
  segment is not scheduled for the archive until a restart finds it.
- Detector: an Fn release after the hold threshold, before the timer has promoted
  the press, emits the Down and owes the Up to the next poll ("emits the matching
  Hold Up", `detector.rs:403`). If a modifier changes first, that change ends the
  hold and the debt stays; a new hold (Fn with Shift) that begins before the poll
  is then ended by it, with its keys still down. `HoldIsNotCut` excludes this
  case. With the middle-button gesture and the Fn tap both on, holding both
  gives two Downs, because `poll` promotes the Fn press without asking for an
  active hold (the alternation theorem excludes this pair of settings). A
  modifier change during a middle-button hold ends it (`HoldIsNotCut` names this
  as one of the ends of such a hold). The release of a middle button promoted
  to a hold ends whichever hold is active then, also one of Fn begun after a
  modifier change had ended the button's own. With the Fn tap on and an Fn release
  lost, the next event of Ctrl may emit the toggle of the Fn tap.
- Agent turns: a forwarder that has delivered a terminal and not yet taken the lock
  of the chain when the turn is stopped updates it after the rollback
  (`LateApply`), and the next turn continues a response the history does not
  have. `restore_after_user_stop` says that "mid-turn chain advances (tool rounds)
  are discarded" (`session.rs:270`).
- Agent turns: `restore_messages` clears the session's thread id only, so a soft
  degrade keeps the provider's chain, although
  `mark_runtime_degraded_preserving_context` says that it resets it
  (`helpers.rs:398`). After a clean terminal whose tool arguments end early (the
  error says *EOF*, which counts as transient) the chain is on a response whose
  calls were never answered.
- Agent turns: a thread that cannot be read back is continued as an empty one, and
  the next save replaces it (`DiskOnlyGrows` has this exception). A clean response
  without an id leaves the chain at the previous one; calls without arguments are
  passed over although the server waits for them; these and the late updates are
  the lapses under which `RequestIsWhole` says nothing. The retry of a stream start
  judges the outermost message of an error, the degradation the whole chain of
  messages. `RequestIsWhole`
  and `CancelledLeavesNoTrace` would therefore not notice the late update or the
  kept chain getting worse. The voice lane has no approval surface: a tool that needs approval is
  refused, and an Error event says so in the middle of the turn
  (`agent_ui_event_to_delivery`); it does not count as a terminal for
  `terminal_published`, nor in `out`.

## Proofs

TLAPS checks the following for every set of inputs and every bound; the named
assumptions say only that bounds are natural numbers and inputs are inputs.

*RecordingController.* `TypeCorrect`, then `ControlInvariant`: who is inside
`serial_lock` is who its holder says, Busy belongs to the settlement task, and
the session slot, the lease, the microphone and the Bus follow one take
(`LockInv`, `StateInv`, `OwnerInv`). `MicIsOwned` and `IdleIsClean` are
consequences, and are not inductive without it: neither says where the task
that will clear a field is. `LifecycleInvariant` adds that takes not yet drawn
left no trace (`FreshInv`), that a started Bus has an owner (`JournalInv`), that
what a stop recorded is still in the shared disposition cell when its line is
written (`DeliveryInv`), and that a settled shutdown stays settled
(`QuietInv`). From it follow `SingleDelivery`, `BusOwnership`, `TailLease`,
`TruthfulTerminal`, `QuiescenceIsFinal` and the action properties
`TerminalLineOnce`, `SlotExclusion`, `StopIdentity` and `RetiredSilence`. Each
step lemma has one step per action.

*ApprovalBroker.* `BrokerInv` strengthens the two invariants by what calls not
yet made look like and by how a call's future, its oneshot and the decision hang
together (`Settlement`): an approval in the oneshot was decided for that call,
and a resumed call was sent its decision. `GrantComesFirst` and the refinement
`BrokerKeepsPromise` follow from it; every step maps to one step of the promise
or to none.

*Consultation.* That a turn runs once is not inductive: it rests on what both
copies of the journal know. `OnceInv` says that the file, and the memory of a
running owner, have every turn that ran as resolved or as the pending one
(`Covers`), that the owner's memory contains everything the file resolved
(`KnowsDisk`), and that a turn about to run has not run (`FirstRun`).
`KnowsDisk` has one exception: a failed abandonment may have reached the file
without the owner's memory following, and then the owner is idle behind a closed
journal, where nothing is written any more. `EffectsOnce` and `ReceiptFirst` are
parts of the invariant; `ResolvedKept` holds because every write starts from a
memory that contains the file's identities.

`DurableInv` stands on it, with four independent parts. `AnswerInv` follows from
`ResolvedKept`: an answer is given with its turn in the file. `HistoryInv` says
that both copies call only delivered turns completed. `CommandInv` says where
the command of every unanswered submission is, and that Close comes alone to an
idle owner; from it, a closed owner owes nothing. `FileInv` extends
`DiskWellFormed` to the owner's memory, but only while the recovery gate is open:
a completion whose write failed leaves the memory ill formed, and the gate is
what keeps it from the file. The theorems are `AnswersDurable`,
`CompletedInHistory`, `FileWellFormed` and `ClosedOwesNobody`.

*BusGenerations.* `IInv` says that the file at the Bus path holds the end of the
log and every closed file exactly its part of it, contiguously and without
sharing (`ChainInv`); that a file not at the Bus path and not named by a pending
swap is frozen; what the manifest and the holder's copy of it are in each phase
(`PhaseInv`); that a receipt lies in the synced prefix (`ReceiptInv`); that an
archive thread works on frozen files and its staged copy is its own (`ArchInv`);
and that each segment in a reader's view, however old, is frozen with its rows
or still the active one (`ReadInv`). None of the properties is inductive without
the frozen files, and those need the phases: what may still be written depends on
where the rollover was interrupted. `ChainAlwaysResolves` (no earlier failure
leaves a manifest that does not resolve; a torn tail or a stale pending swap may
still refuse an append), `ReceiptsKept`,
`ReadersFaithful` and the refinement `BusImplementsLog` follow.

`PendingStaysReusable` has the hypothesis that the date does not return, which the
run has too, and an invariant of its own (`ReuseInv`): no segment is dated after
today, so a file with a pending swap, closed for a day now over, is never the file
that an append of today writes to; and it was synced before the swap was written,
so a power loss leaves its length. `PendingNeverRefused` is the same for the copy
of the manifest an appender is working on.

*HotkeyDetector.* `DetectorTyped` holds for every setting. `OpenIsActive` says
that the detector's own hold is the one the controller was told of, and that a
press awaiting its promotion excludes a hold; `DownsAlternate` follows for every
set of settings that does not have the middle-button gesture and the Fn tap on
together. Each part of `handle_flags_changed` has its lemma.

That a hold is not cut rests on the queue: `AnchorInv` says that while the keys the
hold began with stay down, every waiting event reports their modifiers, whatever
other keys it is about, so no event can end the hold by their absence. The
history `anchor` holds those keys, and is set only where no waiting event already
reports one of them released. For a hold of the middle button it says that no event
of the button waits. `HoldNotCut` holds for every setting and names what else may end
a hold: a key typed inside the delay, Option where it vetoes, an Up that was owed,
the release of a middle button promoted before, and for the button's own hold any
modifier event, which carries no Fn.

`CtrlToggleIsDoubleTap` compares what the detector will believe with what the user
did. `BeliefInv` follows the belief along the queue: two sets of places hold where
the detector, having handled the events so far, has Ctrl as pressed and as used.
They begin at the detector's state, each event moves them as
`handle_flags_changed` and `handle_key_down` do, and at the end of the queue they
agree with the history `press`: a press whose release the tap has not seen, its age,
or that something was typed in it. A missed press is part of that history only when
the release before it was missed too, since the tap cannot tell them from one
press. `LongInv` and `YoungInv` order the ages of presses and releases in the
queue: a press that was long for the user is long for the detector, which subtracts
the times of the events. `LastInv` says that a first tap the detector remembers was
counted. The hypothesis excludes the Fn tap, whose late toggle a Ctrl event can
emit.

*AgentTurns.* `TypeCorrect` says, beyond types, that every id in the session,
the chain, a forwarder or a late update names a response the server holds, and
that the guard bounds the round-trips. The other theorems share one observation,
`HistoryStep`: a step leaves the history alone, adds to it, rolls it back to the
snapshot, empties it, opens a turn on it or on the thread read from disk, or saves
it. `CancelledLeavesNoTraceHolds` needs that the snapshot holds only earlier turns
and that the turn in progress is not among the cancelled (`TraceInv`).
`HistoryPairedHolds` needs the snapshot, and in a tool round that the calls still
without a result are the ones in `todo`, in order (`PairInv`).
`DiskOnlyGrowsHolds` needs that history and snapshot extend the disk unless the
runtime began blank (`GrowInv`), `OutcomeAnnouncedHolds` which terminals each
place of a turn may have published, and that a turn leaves the registry before
(`OutInv`).

`RequestIsWholeHolds` is proved action by action. `WholeInv` says that, as long as no
lapse broke the chain, the response the chain names stands for the history up to
the model's last word, so that what trails it is what the next request must carry;
that the snapshot of a turn has the same property, which a rollback needs; and
during a stream what the server will hold for the response that is arriving, before
and after the forwarder has applied it.

Proved and not part of a run: `TailKeepsLease`, `SlotNotHijacked`,
`RetiredNeverDelivers`, `ReceiptBeforeEffects`, `CompletedHasHistory`,
`ClosedOwesNothing`, `RowIsAwaited` and `GrantBeforeResume`, which are steps on
the way to the properties that the runs check; `PendingNeverRefused`
and `HoldStaysAnchored`, which say more than the run's property.

Only model-checked: the liveness properties (`BusyResolves`, `GestureSettles`,
`StopSettles`, `EveryTurnAnswered`, `CardsConverge`, `WorkIsKept`, `HoldEnds`),
because the prover handles neither fairness nor ENABLED; and `ToggleIsDoubleTap`
where Option toggles. Whether an
Option press was clean is decided by the age of the last key the HID system saw,
not by the events in the queue, so the belief along the queue that the proof for
Ctrl rests on does not describe it.

## Plan

1. ASR session ingest and its finals (`core/asr_session`), composed with the
   controller's wait for live finals.
2. The bridge's `CAPTURE_OWNER` gate between the detector's gestures and the
   controller, and settings that change in the middle of a gesture.
3. Bus acknowledgements and the emitter (`app/presentation`), on top of `BusLog`.
4. The thread's other writers: composer turns, the delivery gateway's index and
   the run monitor, composed with `AgentTurns`.
5. Audio retention and engine switching; the demultiplexer as operators checked
   against a reference definition.
6. `ToggleIsDoubleTap` for Option, from an invariant over the age of the last HID
   key and the ages of the waiting Option events.

## Not modelled

The acoustic ledger, the Apple live session and the emitter are the largest
parts of the repository without a model. Their state is mostly text, time ranges
and scores that heuristics merge; what they promise is stated by golden
transcripts, not by invariants a small instance could tell apart, and their one
protocol (finals of a sealed range are delivered once) belongs to item 1.

Network transports, vendor formats, configuration files, licensing, the command
line and the Swift views are I/O and formatting around these parts and are not
planned.
