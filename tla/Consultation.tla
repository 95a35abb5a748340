---------------------------- MODULE Consultation ----------------------------
(***************************************************************************)
(* A Max consultation: core/agent/consultation.rs, the one retained owner  *)
(* task that executes instructions in FIFO order, on top of                *)
(* core/agent/thread_store/consultation.rs, the admission journal that is  *)
(* its crash boundary.                                                     *)
(*                                                                         *)
(* The journal lives twice: mem is what the owner holds under its mutex,   *)
(* disk what the last rename left in the file.  A write may fail, and then *)
(* the file is the old or the new one.  A crash loses everything but the   *)
(* file and the thread history.                                            *)
(*                                                                         *)
(* A submission is one call of enqueue or prepare_group; turnOf gives the  *)
(* turn identity it carries, which callers may submit more than once.      *)
(***************************************************************************)
EXTENDS Naturals, Sequences, FiniteSets

CONSTANTS Turns,       \* turn identities
          NoTurn,      \* not a turn
          MaxSubs,     \* bound on accepted submissions
          Capacity,    \* mpsc::channel(16)
          MaxCrashes,  \* bound on crashes
          MaxFails     \* bound on failed journal writes

ASSUME ConsultationAssumption ==
  /\ NoTurn \notin Turns
  /\ MaxSubs \in Nat /\ Capacity \in Nat
  /\ MaxCrashes \in Nat /\ MaxFails \in Nat

Subs == 1..MaxSubs
Close == 0   \* OwnerCommand::Close, among the submissions in the channel
Journals == [completed : SUBSET Turns, abandoned : SUBSET Turns,
             pending : Turns \cup {NoTurn}, queued : Seq(Subs)]
EmptyJournal ==
  [completed |-> {}, abandoned |-> {}, pending |-> NoTurn, queued |-> <<>>]

VARIABLES
  disk,      \* the journal file
  mem,       \* ConsultationJournal.state of the running owner
  gate,      \* recovery_reason is set
  owner,     \* where run_owner is, "down" without an owner
  cur,       \* the submission it works on
  chan,      \* commands in the mpsc channel
  closing,   \* Admission.closed
  nSubs, turnOf,
  auth,      \* authorization of a spoken submission
  reply,     \* what the caller's receiver got
  history,   \* turns delivered to the ThreadStore
  effects,   \* how often each turn's provider and tool work ran (history)
  dropped,   \* submissions retired while they waited (history)
  crashes, fails

journalVars == <<disk, mem, gate, fails>>
ownerVars   == <<owner, cur>>
hostVars    == <<nSubs, turnOf, auth>>
effectVars  == <<history, effects>>
vars == <<journalVars, ownerVars, chan, closing, hostVars, reply, effectVars,
          dropped, crashes>>

Init ==
  /\ disk = EmptyJournal /\ mem = EmptyJournal /\ gate = FALSE
  /\ owner = "down" /\ cur = 0 /\ chan = <<>> /\ closing = FALSE
  /\ nSubs = 0 /\ turnOf = [n \in Subs |-> NoTurn]
  /\ auth = [n \in Subs |-> "none"] /\ reply = [n \in Subs |-> "none"]
  /\ history = {} /\ effects = [t \in Turns |-> 0] /\ dropped = {}
  /\ crashes = 0 /\ fails = 0

Turn == turnOf[cur]

\* The queue of a journal starts with this turn.
IsFront(m, t) == m.queued # <<>> /\ turnOf[Head(m.queued)] = t

\* persist: the write lands, or fails with the file old or new and closes
\* this owner's journal.
Persisted(m) == disk' = m /\ UNCHANGED <<gate, fails>>

\* Mutant: an uncertain write does not close the journal.
PersistFailedOpen(m) ==
  /\ fails < MaxFails /\ fails' = fails + 1
  /\ disk' \in {disk, m} /\ UNCHANGED gate

PersistFailed(m) ==
  /\ fails < MaxFails /\ fails' = fails + 1
  /\ disk' \in {disk, m} /\ gate' = TRUE

\* abandon_unfinished: retire the started turn, drop everything that waits.
Unfinished(m) == m.pending # NoTurn \/ m.queued # <<>>

\* Mutant: the started turn is dropped without being refused for life.
AbandonForgotten(m) == [m EXCEPT !.pending = NoTurn, !.queued = <<>>]

\* Mutant: the absence of a started turn is recorded as an identity.
AbandonNone(m) ==
  [m EXCEPT !.pending = NoTurn, !.queued = <<>>, !.abandoned = @ \cup {m.pending}]

Abandon(m) ==
  [m EXCEPT !.pending = NoTurn, !.queued = <<>>,
            !.abandoned = @ \cup ({m.pending} \ {NoTurn})]

\* What it drops unexecuted: the queue without the started turn's own input.
Waiting(m) ==
  {n \in {m.queued[i] : i \in DOMAIN m.queued} : turnOf[n] # m.pending}

\* The owner answers the caller and goes back to its channel.
Answer(r) ==
  /\ reply' = [reply EXCEPT ![cur] = r]
  /\ owner' = "idle" /\ cur' = 0

-----------------------------------------------------------------------------
(* ConsultationRuntime *)

\* start: open takes the kernel lease, reads the file and self-heals.
Start ==
  /\ owner = "down"
  /\ disk' = IF Unfinished(disk) THEN Abandon(disk) ELSE disk
  /\ dropped' = dropped \cup Waiting(disk)
  /\ mem' = disk' /\ gate' = FALSE /\ owner' = "idle" /\ closing' = FALSE
  /\ UNCHANGED <<fails, cur, chan, hostVars, reply, effectVars, crashes>>

\* The abandonment cannot be recorded: the journal stays closed.
StartFailed ==
  /\ owner = "down" /\ Unfinished(disk)
  /\ fails < MaxFails /\ fails' = fails + 1
  /\ disk' \in {disk, Abandon(disk)}
  /\ UNCHANGED <<mem, gate, ownerVars, chan, closing, hostVars, reply,
                 effectVars, dropped, crashes>>

\* enqueue_recorded, for a typed turn or a spoken candidate: reserve a slot,
\* persist the input, then send the command, all under the admission lock.
\* A failed write leaves the input queued in memory and sends nothing.
Enqueue(t, spoken) ==
  /\ owner # "down" /\ ~closing /\ nSubs < MaxSubs /\ Len(chan) < Capacity
  /\ ~gate /\ t \notin mem.completed \cup mem.abandoned
  /\ \A i \in DOMAIN mem.queued : turnOf[mem.queued[i]] # t
  /\ LET n == nSubs + 1
         m == [mem EXCEPT !.queued = Append(@, n)]
     IN /\ nSubs' = n /\ turnOf' = [turnOf EXCEPT ![n] = t]
        /\ auth' = [auth EXCEPT ![n] = IF spoken THEN "waiting" ELSE "none"]
        /\ mem' = m
        /\ \/ Persisted(m) /\ chan' = Append(chan, n) /\ UNCHANGED reply
           \/ /\ PersistFailed(m) /\ UNCHANGED chan
              /\ reply' = [reply EXCEPT ![n] = "error"]
  /\ UNCHANGED <<ownerVars, closing, effectVars, dropped, crashes>>

\* PreparedConsultationGroup: capture authorizes it, or drops the handle.
Authorize(n) ==
  /\ auth[n] = "waiting" /\ owner # "down"
  /\ auth' = [auth EXCEPT ![n] = "granted"]
  /\ UNCHANGED <<journalVars, ownerVars, chan, closing, nSubs, turnOf, reply,
                 effectVars, dropped, crashes>>

DropCandidate(n) ==
  /\ auth[n] = "waiting" /\ owner # "down"
  /\ auth' = [auth EXCEPT ![n] = "dropped"]
  /\ UNCHANGED <<journalVars, ownerVars, chan, closing, nSubs, turnOf, reply,
                 effectVars, dropped, crashes>>

\* close_if_idle: the pending counter is zero when nothing is in the channel
\* and the owner holds no command.
CloseIfIdle ==
  /\ owner = "idle" /\ chan = <<>> /\ ~closing
  /\ closing' = TRUE /\ chan' = <<Close>>
  /\ UNCHANGED <<journalVars, ownerVars, hostVars, reply, effectVars,
                 dropped, crashes>>

-----------------------------------------------------------------------------
(* run_owner *)

\* The owner drops its session and journal, and with them the lease; what is
\* left in the channel is lost.
OwnerClose ==
  /\ owner = "idle" /\ chan # <<>> /\ Head(chan) = Close
  /\ owner' = "down" /\ chan' = <<>>
  /\ UNCHANGED <<journalVars, cur, closing, hostVars, reply, effectVars,
                 dropped, crashes>>

\* Mutant: a command refused behind a closed journal gets no answer.
OwnerRecvSilent ==
  /\ owner = "idle" /\ chan # <<>> /\ Head(chan) # Close
  /\ chan' = Tail(chan)
  /\ IF gate
     THEN UNCHANGED ownerVars
     ELSE /\ cur' = Head(chan)
          /\ owner' = IF auth[Head(chan)] = "none" THEN "prepare" ELSE "authorize"
  /\ UNCHANGED <<journalVars, closing, hostVars, reply, effectVars, dropped,
                 crashes>>

\* The next command: refused behind a closed journal, held until a spoken
\* candidate is authorized.
OwnerRecv ==
  /\ owner = "idle" /\ chan # <<>> /\ Head(chan) # Close
  /\ chan' = Tail(chan)
  /\ IF gate
     THEN /\ reply' = [reply EXCEPT ![Head(chan)] = "error"]
          /\ UNCHANGED ownerVars
     ELSE /\ cur' = Head(chan)
          /\ owner' = IF auth[Head(chan)] = "none" THEN "prepare" ELSE "authorize"
          /\ UNCHANGED reply
  /\ UNCHANGED <<journalVars, closing, hostVars, effectVars, dropped, crashes>>

OwnerAuthorized ==
  /\ owner = "authorize" /\ auth[cur] = "granted"
  /\ owner' = "prepare"
  /\ UNCHANGED <<journalVars, cur, chan, closing, hostVars, reply, effectVars,
                 dropped, crashes>>

ToAbandon == owner' = "abandon" /\ UNCHANGED <<cur, reply>>

\* discard_unstarted, with what the caller does when it fails: its next step,
\* and whether it closes the journal after a refusal too.
Discard(failed, closed) ==
  LET m == [mem EXCEPT !.queued = Tail(@)]
      may == ~gate /\ mem.pending = NoTurn /\ IsFront(mem, Turn)
  IN \/ may /\ Persisted(m) /\ mem' = m /\ Answer("error")
     \/ may /\ PersistFailed(m) /\ UNCHANGED mem /\ failed
     \/ ~may /\ gate' = closed /\ failed /\ UNCHANGED <<disk, mem, fails>>

\* The candidate was rejected: a discard that fails abandons what is unfinished.
OwnerRejected ==
  /\ owner = "authorize" /\ auth[cur] = "dropped"
  /\ Discard(ToAbandon, gate)
  /\ UNCHANGED <<chan, closing, hostVars, effectVars, dropped, crashes>>

\* The provider cannot be prepared: a discard that fails closes the journal.
OwnerUnprepared ==
  /\ owner = "prepare"
  /\ Discard(Answer("error"), TRUE)
  /\ UNCHANGED <<chan, closing, hostVars, effectVars, dropped, crashes>>

\* An installation owns the turn lease.
OwnerLeaseRefused ==
  /\ owner = "prepare"
  /\ Discard(ToAbandon, gate)
  /\ UNCHANGED <<chan, closing, hostVars, effectVars, dropped, crashes>>

\* begin: the before-effects receipt.  A failed write leaves the turn pending
\* in memory, and nothing runs.
OwnerBegin ==
  /\ owner = "prepare"
  /\ LET m == [mem EXCEPT !.pending = Turn]
         may == /\ ~gate /\ mem.pending = NoTurn
                /\ Turn \notin mem.completed \cup mem.abandoned
                /\ IsFront(mem, Turn)
     IN \/ may /\ mem' = m /\ Persisted(m) /\ owner' = "running"
        \/ may /\ mem' = m /\ PersistFailed(m) /\ owner' = "abandon"
        \/ ~may /\ owner' = "abandon" /\ UNCHANGED journalVars
  /\ UNCHANGED <<cur, chan, closing, hostVars, reply, effectVars, dropped,
                 crashes>>

\* run_turn: provider and tool work, then delivery to the thread store.
OwnerRun ==
  /\ owner = "running" /\ owner' = "ran"
  /\ effects' = [effects EXCEPT ![Turn] = @ + 1]
  /\ UNCHANGED <<journalVars, cur, chan, closing, hostVars, reply, history,
                 dropped, crashes>>

OwnerDeliver ==
  /\ owner = "ran" /\ owner' = "delivered"
  /\ history' = history \cup {Turn}
  /\ UNCHANGED <<journalVars, cur, chan, closing, hostVars, reply, effects,
                 dropped, crashes>>

\* The turn fails at any point; a failed delivery may have saved the thread
\* before its index.
OwnerTurnFails ==
  /\ owner \in {"running", "ran"} /\ owner' = "abandon"
  /\ history' \in {history} \cup
                  (IF owner = "ran" THEN {history \cup {Turn}} ELSE {})
  /\ UNCHANGED <<journalVars, cur, chan, closing, hostVars, reply, effects,
                 dropped, crashes>>

\* Mutant: the answer is sent although the completion write failed.
OwnerCompleteUnproven ==
  /\ owner = "delivered"
  /\ LET m == [mem EXCEPT !.queued = Tail(@), !.pending = NoTurn,
                          !.completed = @ \cup {Turn}]
     IN /\ ~gate /\ mem.pending = Turn /\ IsFront(mem, Turn)
        /\ Persisted(m) \/ PersistFailed(m)
        /\ mem' = m /\ Answer("answered")
  /\ UNCHANGED <<chan, closing, hostVars, effectVars, dropped, crashes>>

\* Mutant: the failure path takes the turn out of the completed set as well.
OwnerCompleteRolledBack ==
  /\ owner = "delivered"
  /\ LET m == [mem EXCEPT !.queued = Tail(@), !.pending = NoTurn,
                          !.completed = @ \cup {Turn}]
         may == ~gate /\ mem.pending = Turn /\ IsFront(mem, Turn)
     IN \/ may /\ Persisted(m) /\ mem' = m /\ Answer("answered")
        \/ may /\ PersistFailed(m) /\ UNCHANGED mem /\ ToAbandon
        \/ ~may /\ ToAbandon /\ UNCHANGED journalVars
  /\ UNCHANGED <<chan, closing, hostVars, effectVars, dropped, crashes>>

\* complete: the failure path restores pending and the queue, and leaves the
\* turn in the completed set in memory.
OwnerComplete ==
  /\ owner = "delivered"
  /\ LET m == [mem EXCEPT !.queued = Tail(@), !.pending = NoTurn,
                          !.completed = @ \cup {Turn}]
         may == ~gate /\ mem.pending = Turn /\ IsFront(mem, Turn)
     IN \/ may /\ Persisted(m) /\ mem' = m /\ Answer("answered")
        \/ /\ may /\ PersistFailed(m) /\ ToAbandon
           /\ mem' = [mem EXCEPT !.completed = @ \cup {Turn}]
        \/ ~may /\ ToAbandon /\ UNCHANGED journalVars
  /\ UNCHANGED <<chan, closing, hostVars, effectVars, dropped, crashes>>

\* abandon_after_failure: a lock of its own, so a submission can come first.
OwnerAbandon ==
  /\ owner = "abandon"
  /\ \/ ~Unfinished(mem) /\ UNCHANGED <<journalVars, dropped>>
     \/ /\ Unfinished(mem) /\ Persisted(Abandon(mem)) /\ mem' = Abandon(mem)
        /\ dropped' = dropped \cup Waiting(mem)
     \/ /\ Unfinished(mem) /\ PersistFailed(Abandon(mem))
        /\ UNCHANGED <<mem, dropped>>
  /\ Answer("error")
  /\ UNCHANGED <<chan, closing, hostVars, effectVars, crashes>>

\* The process dies: the kernel releases the lease, callers get nothing.
Crash ==
  /\ owner # "down" /\ crashes < MaxCrashes /\ crashes' = crashes + 1
  /\ owner' = "down" /\ cur' = 0 /\ chan' = <<>> /\ mem' = EmptyJournal
  /\ gate' = FALSE /\ closing' = FALSE
  /\ reply' = [n \in Subs |->
                 IF n <= nSubs /\ reply[n] = "none" THEN "lost" ELSE reply[n]]
  /\ auth' = [n \in Subs |-> "none"]
  /\ UNCHANGED <<disk, fails, nSubs, turnOf, effectVars, dropped>>

-----------------------------------------------------------------------------
Host ==
  \/ Start \/ StartFailed \/ CloseIfIdle
  \/ \E t \in Turns, spoken \in BOOLEAN : Enqueue(t, spoken)
  \/ \E n \in Subs : Authorize(n) \/ DropCandidate(n)

Owner ==
  \/ OwnerClose \/ OwnerRecv \/ OwnerAuthorized \/ OwnerRejected
  \/ OwnerUnprepared \/ OwnerLeaseRefused \/ OwnerBegin \/ OwnerRun \/ OwnerDeliver
  \/ OwnerTurnFails \/ OwnerComplete \/ OwnerAbandon

Next == Host \/ Owner \/ Crash

Spec == Init /\ [][Next]_vars

\* The owner task is scheduled until it answers (the session bounds streams and
\* approvals by timeouts); a candidate's handle is authorized or dropped.
FairSpec ==
  /\ Spec /\ WF_vars(Owner)
  /\ \A n \in Subs : WF_vars(Authorize(n) \/ DropCandidate(n))

-----------------------------------------------------------------------------
(* Properties *)

\* Every variable has its type: journals hold turns and known submissions.
TypeOK ==
  /\ disk \in Journals /\ mem \in Journals /\ gate \in BOOLEAN
  /\ owner \in {"down", "idle", "authorize", "prepare", "running", "ran",
                "delivered", "abandon"}
  /\ cur \in 0..nSubs /\ (cur = 0 <=> owner \in {"down", "idle"})
  /\ chan \in Seq(Subs \cup {Close}) /\ closing \in BOOLEAN
  /\ nSubs \in 0..MaxSubs /\ turnOf \in [Subs -> Turns \cup {NoTurn}]
  /\ auth \in [Subs -> {"none", "waiting", "granted", "dropped"}]
  /\ reply \in [Subs -> {"none", "answered", "error", "lost"}]
  /\ history \subseteq Turns /\ effects \in [Turns -> Nat]
  /\ dropped \subseteq Subs
  /\ crashes \in 0..MaxCrashes /\ fails \in 0..MaxFails

\* Whatever is resubmitted, crashes or fails to be written, the provider and
\* tool work of a turn runs at most once (thread_store/consultation.rs, "nothing
\* is ever replayed").
EffectsAtMostOnce == \A t \in Turns : effects[t] <= 1

\* The file always satisfies what inspect_retained_input ensures of it: no
\* queued or pending turn is completed, queued turns are distinct, and the
\* pending turn is the retained front.
DiskWellFormed ==
  /\ \A i \in DOMAIN disk.queued : turnOf[disk.queued[i]] \notin disk.completed
  /\ \A i, j \in DOMAIN disk.queued :
       turnOf[disk.queued[i]] = turnOf[disk.queued[j]] => i = j
  /\ disk.pending # NoTurn =>
       /\ disk.pending \notin disk.completed
       /\ disk.queued = <<>> \/ IsFront(disk, disk.pending)

\* A turn the file calls completed has its exchange in the thread store, so
\* restore_consultation(has_completed_turns) never refuses a restart.
CompletedHasHistory == disk.completed \subseteq history

\* While a turn's provider and tool work may run, the file already names it as
\* pending: begin is the before-effects receipt.
ReceiptBeforeEffects ==
  owner \in {"running", "ran", "delivered"} =>
    disk.pending = Turn /\ mem.pending = Turn

\* A caller that was told the answer finds the turn completed in the file,
\* after any crash too.
AnsweredIsDurable ==
  \A n \in 1..nSubs : reply[n] = "answered" => turnOf[n] \in disk.completed

\* An owner that closed owes nobody an answer: close_if_idle refuses while
\* accepted work remains, and admission refuses once it succeeded.
ClosedOwesNothing ==
  owner = "down" => \A n \in 1..nSubs : reply[n] # "none"

\* Completed and abandoned identities are refused for life: no later write,
\* uncertain ones included, takes one back out of the file.
ResolvedStays ==
  /\ disk.completed \subseteq disk'.completed
  /\ disk.abandoned \subseteq disk'.abandoned

ResolvedForLife == [][ResolvedStays]_vars

\* Every accepted instruction is answered, with the reply or an error, unless
\* the process dies.
EveryTurnAnswered ==
  \A n \in Subs : (n <= nSubs /\ reply[n] = "none") ~> (reply[n] # "none")

\* What run_owner says after a failure: the next instruction stays serviceable.
\* A command whose input was dropped before takes no later input with it.
NextStaysServiceable ==
  [][owner = "abandon" /\ cur \in dropped => dropped' = dropped]_vars
=============================================================================
