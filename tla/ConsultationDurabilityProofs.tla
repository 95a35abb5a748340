-------------------- MODULE ConsultationDurabilityProofs --------------------
(***************************************************************************)
(* What a caller of a consultation and a restart may rely on, for any      *)
(* turns, submissions, crashes and failed writes: answers are in the file, *)
(* completed turns are in the thread history, the file is always one that  *)
(* inspect_retained_input accepts, and a closed owner owes no answer.      *)
(***************************************************************************)
EXTENDS ConsultationProofs

\* Nothing was replied to a submission not made yet.
AnswerInv ==
  /\ AnsweredIsDurable
  /\ \A n \in Subs : n > nSubs => reply[n] = "none"

\* Both copies of the journal call only delivered turns completed.
HistoryInv ==
  /\ CompletedHasHistory
  /\ mem.completed \subseteq history
  /\ owner = "delivered" => Turn \in history

\* A submission without a reply is the owner's current one or has its command
\* in the channel; Close comes alone, to an idle owner.
CommandInv ==
  /\ \A n \in 1..nSubs : reply[n] = "none" =>
       n = cur \/ \E k \in DOMAIN chan : chan[k] = n
  /\ owner = "down" => chan = <<>>
  /\ closing /\ owner # "down" => owner = "idle" /\ chan = <<Close>>
  /\ \A k \in DOMAIN chan : chan[k] = Close => closing

\* DiskWellFormed of any journal, with the front in place under a pending turn.
Well(m) ==
  /\ \A i \in DOMAIN m.queued : turnOf[m.queued[i]] \notin m.completed
  /\ \A i, j \in DOMAIN m.queued :
       turnOf[m.queued[i]] = turnOf[m.queued[j]] => i = j
  /\ m.pending # NoTurn =>
       m.pending \notin m.completed /\ IsFront(m, m.pending)

QueuedKnown(m) == \A i \in DOMAIN m.queued : m.queued[i] <= nSubs

\* The owner's memory is well formed while its journal is open: a completion
\* whose write failed leaves it otherwise, behind the recovery gate, and what
\* is written from there is an abandonment.
FileInv ==
  /\ Well(disk)
  /\ owner # "down" /\ ~gate => Well(mem)
  /\ QueuedKnown(disk) /\ QueuedKnown(mem)

DurableInv == AnswerInv /\ HistoryInv /\ CommandInv /\ FileInv

-----------------------------------------------------------------------------
\* The four parts hold initially.
LEMMA DurableInit == Init => DurableInv
<1> SUFFICES ASSUME Init PROVE DurableInv
  OBVIOUS
<1> USE ConsultationAssumption
<1>1. /\ disk.completed = {} /\ mem.completed = {} /\ disk.queued = <<>>
      /\ mem.queued = <<>> /\ disk.pending = NoTurn
  BY DEF Init, EmptyJournal
<1>2. nSubs = 0 /\ owner = "down" /\ chan = <<>> /\ cur = 0
      /\ \A n \in Subs : reply[n] = "none"
  BY DEF Init
<1>3. DOMAIN <<>> = {}
  OBVIOUS
<1>4. AnswerInv
  BY <1>2 DEF AnswerInv, AnsweredIsDurable
<1>5. HistoryInv
  BY <1>1, <1>2 DEF HistoryInv, CompletedHasHistory
<1>6. CommandInv
  BY <1>2, <1>3 DEF CommandInv
<1>7. FileInv
  BY <1>1, <1>2, <1>3 DEF FileInv, Well, QueuedKnown
<1> QED BY <1>4, <1>5, <1>6, <1>7 DEF DurableInv

\* What acceptance of a submission changes.
LEMMA EnqueueShape ==
  ASSUME TypeInv, NEW t \in Turns, NEW spoken \in BOOLEAN, Enqueue(t, spoken)
  PROVE  /\ nSubs + 1 \in Subs /\ nSubs \in Nat /\ nSubs' = nSubs + 1
         /\ turnOf' = [turnOf EXCEPT ![nSubs + 1] = t]
         /\ turnOf'[nSubs + 1] = t
         /\ \A n \in Subs : n <= nSubs => turnOf'[n] = turnOf[n]
         /\ mem' = [mem EXCEPT !.queued = Append(@, nSubs + 1)]
         /\ disk' \in {disk, mem'}
         /\ ~gate /\ (gate' = gate => disk' = mem')
         /\ owner # "down" /\ UNCHANGED <<owner, cur, closing, history>>
         /\ \/ chan' = Append(chan, nSubs + 1) /\ reply' = reply
            \/ chan' = chan /\ reply' = [reply EXCEPT ![nSubs + 1] = "error"]
<1> USE ConsultationAssumption
<1>1. nSubs + 1 \in Subs /\ nSubs \in Nat /\ nSubs' = nSubs + 1
  BY TypeParts DEF Enqueue, HostType, Subs
<1>2. turnOf' = [turnOf EXCEPT ![nSubs + 1] = t]
  BY DEF Enqueue
<1>3. turnOf'[nSubs + 1] = t /\ \A n \in Subs : n <= nSubs => turnOf'[n] = turnOf[n]
  BY <1>1, <1>2, TypeParts DEF HostType, Subs
<1>4. /\ mem' = [mem EXCEPT !.queued = Append(@, nSubs + 1)]
      /\ ~gate /\ owner # "down" /\ UNCHANGED <<owner, cur, closing, history>>
  BY DEF Enqueue, ownerVars, effectVars
<1>5. disk' \in {disk, mem'} /\ (gate' = gate => disk' = mem')
  BY <1>4 DEF Enqueue, Persisted, PersistFailed
<1>6. \/ chan' = Append(chan, nSubs + 1) /\ reply' = reply
      \/ chan' = chan /\ reply' = [reply EXCEPT ![nSubs + 1] = "error"]
  BY DEF Enqueue
<1> QED BY <1>1, <1>2, <1>3, <1>4, <1>5, <1>6

\* What any other step does to the replies: none, one to the command at hand,
\* or the loss of a crash; an answer is given with the completed turn written.
LEMMA ReplyShape ==
  ASSUME TypeInv, [Next]_vars,
         ~\E t \in Turns, spoken \in BOOLEAN : Enqueue(t, spoken)
  PROVE  /\ UNCHANGED <<nSubs, turnOf>>
         /\ \/ reply' = reply
            \/ reply' = [reply EXCEPT ![cur] = "error"]
               /\ owner \notin {"down", "idle"} /\ cur \in Subs /\ cur <= nSubs
               /\ cur' = 0 /\ chan' = chan
            \/ reply' = [reply EXCEPT ![cur] = "answered"]
               /\ owner = "delivered" /\ cur \in Subs /\ cur <= nSubs
               /\ Turn \in disk'.completed /\ cur' = 0 /\ chan' = chan
            \/ reply' = [reply EXCEPT ![Head(chan)] = "error"]
               /\ OwnerRecv /\ gate /\ UNCHANGED <<owner, cur>>
            \/ Crash
<1> USE ConsultationAssumption DEF journalVars, ownerVars, hostVars, effectVars
<1>0. owner \notin {"down", "idle"} => cur \in Subs /\ cur <= nSubs /\ Turn \in Turns
  BY WorkingTurn, TypeParts DEF OwnerType
<1>1. CASE \/ Start \/ StartFailed \/ CloseIfIdle
           \/ \E n \in Subs : Authorize(n) \/ DropCandidate(n)
  BY <1>1 DEF Start, StartFailed, CloseIfIdle, Authorize, DropCandidate
<1>2. CASE \/ OwnerClose \/ OwnerAuthorized \/ OwnerBegin \/ OwnerRun
           \/ OwnerDeliver \/ OwnerTurnFails \/ UNCHANGED vars
  BY <1>2 DEF OwnerClose, OwnerAuthorized, OwnerBegin, OwnerRun, OwnerDeliver,
              OwnerTurnFails, vars
<1>3. CASE OwnerRecv
  BY <1>3 DEF OwnerRecv
<1>4. CASE OwnerRejected \/ OwnerUnprepared \/ OwnerLeaseRefused
  <2>1. Discard(ToAbandon, gate) \/ Discard(Answer("error"), TRUE)
    BY <1>4 DEF OwnerRejected, OwnerUnprepared, OwnerLeaseRefused
  <2>2. owner \notin {"down", "idle"} /\ UNCHANGED <<nSubs, turnOf, chan>>
    BY <1>4 DEF OwnerRejected, OwnerUnprepared, OwnerLeaseRefused
  <2>3. \/ reply' = reply
        \/ reply' = [reply EXCEPT ![cur] = "error"] /\ cur' = 0
    BY <2>1 DEF Discard, ToAbandon, Answer
  <2> QED BY <1>0, <2>2, <2>3
<1>5. CASE OwnerComplete
  <2> DEFINE m == [mem EXCEPT !.queued = Tail(@), !.pending = NoTurn,
                              !.completed = @ \cup {Turn}]
  <2>1. owner = "delivered" /\ UNCHANGED <<nSubs, turnOf, chan>>
    BY <1>5 DEF OwnerComplete
  <2>2. m.completed = mem.completed \cup {Turn}
    BY <1>0, <2>1, JournalFields, TypeParts DEF JournalType
  <2>3. \/ reply' = reply
        \/ disk' = m /\ reply' = [reply EXCEPT ![cur] = "answered"] /\ cur' = 0
    BY <1>5 DEF OwnerComplete, ToAbandon, Answer, Persisted
  <2> QED BY <1>0, <2>1, <2>2, <2>3
<1>6. CASE OwnerAbandon
  BY <1>0, <1>6 DEF OwnerAbandon, Answer
<1>7. CASE Crash
  BY <1>7 DEF Crash
<1> QED BY <1>1, <1>2, <1>3, <1>4, <1>5, <1>6, <1>7 DEF Next, Host, Owner

-----------------------------------------------------------------------------
\* Every step keeps AnswerInv: the file forgets no completed turn.
LEMMA AnswerStep == OnceInv /\ AnswerInv /\ [Next]_vars => AnswerInv'
<1> SUFFICES ASSUME OnceInv, AnswerInv, [Next]_vars PROVE AnswerInv'
  OBVIOUS
<1> USE ConsultationAssumption
<1>0. TypeInv /\ disk.completed \subseteq disk'.completed
  BY OnceStep DEF OnceInv, ResolvedStays
<1>1. /\ reply \in [Subs -> {"none", "answered", "error", "lost"}]
      /\ nSubs \in 0..MaxSubs
  BY <1>0, TypeParts DEF ReplyType, HostType
<1>2. CASE \E t \in Turns, spoken \in BOOLEAN : Enqueue(t, spoken)
  <2>1. PICK t \in Turns, spoken \in BOOLEAN : Enqueue(t, spoken)
    BY <1>2
  <2>2. /\ nSubs + 1 \in Subs /\ nSubs' = nSubs + 1
        /\ \A n \in Subs : n <= nSubs => turnOf'[n] = turnOf[n]
        /\ reply' \in {reply, [reply EXCEPT ![nSubs + 1] = "error"]}
    BY <1>0, <2>1, EnqueueShape
  <2>3. /\ \A n \in Subs : n # nSubs + 1 => reply'[n] = reply[n]
        /\ reply'[nSubs + 1] # "answered"
    BY <1>1, <2>2 DEF AnswerInv, Subs
  <2>4. \A n \in 1..nSubs' : n # nSubs + 1 => n \in 1..nSubs /\ n \in Subs
    <3>1. nSubs \in Nat /\ nSubs <= MaxSubs
      BY <1>1
    <3> QED BY <2>2, <3>1 DEF Subs
  <2>5. AnsweredIsDurable'
    BY <1>0, <2>2, <2>3, <2>4 DEF AnswerInv, AnsweredIsDurable
  <2>6. \A n \in Subs : n > nSubs' => n > nSubs /\ n # nSubs + 1
    BY <1>1, <2>2 DEF Subs
  <2>7. \A n \in Subs : n > nSubs' => reply'[n] = "none"
    BY <2>3, <2>6 DEF AnswerInv
  <2> QED BY <2>5, <2>7 DEF AnswerInv
<1>3. CASE ~\E t \in Turns, spoken \in BOOLEAN : Enqueue(t, spoken)
  <2>1. UNCHANGED <<nSubs, turnOf>>
    BY <1>0, <1>3, ReplyShape
  <2>2. \A n \in Subs : \/ reply'[n] = reply[n]
                        \/ n <= nSubs /\ reply'[n] # "answered"
                        \/ n <= nSubs /\ turnOf[n] \in disk'.completed
    <3>1. CASE OwnerRecv /\ reply' = [reply EXCEPT ![Head(chan)] = "error"]
      <4>1. chan \in Seq(Subs \cup {Close}) /\ chan # <<>> /\ chan[1] <= nSubs
        BY <1>0, <3>1, TypeParts DEF OwnerRecv, ChannelType
      <4>2. Head(chan) = chan[1]
        BY <4>1
      <4> QED BY <1>1, <3>1, <4>1, <4>2
    <3>2. CASE Crash
      BY <1>1, <3>2 DEF Crash
    <3>3. CASE reply' = [reply EXCEPT ![cur] = "error"] /\ cur <= nSubs
      BY <1>1, <3>3
    <3>4. CASE /\ reply' = [reply EXCEPT ![cur] = "answered"] /\ cur <= nSubs
               /\ Turn \in disk'.completed
      BY <1>1, <3>4 DEF Turn
    <3> QED BY <1>0, <1>3, <3>1, <3>2, <3>3, <3>4, ReplyShape
  <2> QED BY <1>0, <1>1, <2>1, <2>2 DEF AnswerInv, AnsweredIsDurable, Subs
<1> QED BY <1>2, <1>3

\* Every step keeps HistoryInv: complete follows the delivery.
LEMMA HistoryStep == OnceInv /\ HistoryInv /\ [Next]_vars => HistoryInv'
<1> SUFFICES ASSUME OnceInv, HistoryInv, [Next]_vars PROVE HistoryInv'
  OBVIOUS
<1> USE ConsultationAssumption DEF journalVars, ownerVars, hostVars, effectVars
<1>0. TypeInv /\ disk \in Journals /\ mem \in Journals
  BY DEF OnceInv, TypeInv, TypeOK
<1>1. CASE Start \/ StartFailed
  <2>1. disk'.completed = disk.completed /\ mem' \in {mem, disk'} /\ history' = history
    BY <1>0, <1>1, JournalFields DEF Start, StartFailed
  <2>2. owner' # "delivered"
    BY <1>1 DEF Start, StartFailed
  <2> QED BY <2>1, <2>2 DEF HistoryInv, CompletedHasHistory
<1>2. ASSUME NEW t \in Turns, NEW spoken \in BOOLEAN, Enqueue(t, spoken) PROVE HistoryInv'
  <2>1. /\ nSubs + 1 \in Subs /\ mem' = [mem EXCEPT !.queued = Append(@, nSubs + 1)]
        /\ disk' \in {disk, mem'} /\ UNCHANGED <<owner, cur, history>>
        /\ \A n \in Subs : n <= nSubs => turnOf'[n] = turnOf[n]
    BY <1>0, <1>2, EnqueueShape
  <2>2. mem'.completed = mem.completed
    BY <1>0, <2>1, JournalFields
  <2>3. owner = "delivered" => Turn' = Turn
    BY <1>0, <2>1, WorkingTurn, TypeParts DEF OwnerType, Turn
  <2> QED BY <2>1, <2>2, <2>3 DEF HistoryInv, CompletedHasHistory
<1>3. CASE OwnerRejected \/ OwnerUnprepared \/ OwnerLeaseRefused
  <2> DEFINE m == [mem EXCEPT !.queued = Tail(@)]
  <2>1. m.completed = mem.completed
    BY <1>0, JournalFields
  <2>2. Discard(ToAbandon, gate) \/ Discard(Answer("error"), TRUE)
    BY <1>3 DEF OwnerRejected, OwnerUnprepared, OwnerLeaseRefused
  <2>3. mem' \in {mem, m} /\ disk' \in {disk, m} /\ owner' # "delivered"
    BY <2>2 DEF Discard, Persisted, PersistFailed, ToAbandon, Answer
  <2>4. history' = history
    BY <1>3 DEF OwnerRejected, OwnerUnprepared, OwnerLeaseRefused
  <2> QED BY <2>1, <2>3, <2>4 DEF HistoryInv, CompletedHasHistory
<1>4. CASE OwnerBegin
  <2> DEFINE m == [mem EXCEPT !.pending = Turn]
  <2>1. Turn \in Turns
    BY <1>0, <1>4, WorkingTurn DEF OwnerBegin
  <2>2. m.completed = mem.completed
    BY <1>0, <2>1, JournalFields
  <2>3. mem' \in {mem, m} /\ disk' \in {disk, m} /\ owner' # "delivered" /\ history' = history
    BY <1>4 DEF OwnerBegin, Persisted, PersistFailed
  <2> QED BY <2>2, <2>3 DEF HistoryInv, CompletedHasHistory
<1>5. CASE OwnerComplete
  <2> DEFINE m == [mem EXCEPT !.queued = Tail(@), !.pending = NoTurn,
                              !.completed = @ \cup {Turn}]
             f == [mem EXCEPT !.completed = @ \cup {Turn}]
  <2>1. Turn \in Turns /\ Turn \in history /\ history' = history
    BY <1>0, <1>5, WorkingTurn DEF OwnerComplete, HistoryInv
  <2>2. m.completed = mem.completed \cup {Turn} /\ f.completed = mem.completed \cup {Turn}
    BY <1>0, <2>1, JournalFields
  <2>3. mem' \in {mem, m, f} /\ disk' \in {disk, m} /\ owner' # "delivered"
    BY <1>5 DEF OwnerComplete, Persisted, PersistFailed, ToAbandon, Answer
  <2> QED BY <2>1, <2>2, <2>3 DEF HistoryInv, CompletedHasHistory
<1>6. CASE OwnerAbandon
  <2>1. Abandon(mem).completed = mem.completed
    BY <1>0, JournalFields
  <2>2. /\ mem' \in {mem, Abandon(mem)} /\ disk' \in {disk, Abandon(mem)}
        /\ owner' = "idle" /\ history' = history
    BY <1>6 DEF OwnerAbandon, Persisted, PersistFailed, Answer
  <2> QED BY <2>1, <2>2 DEF HistoryInv, CompletedHasHistory
<1>7. CASE Crash
  <2>1. EmptyJournal.completed = {}
    BY DEF EmptyJournal
  <2> QED BY <1>7, <2>1 DEF Crash, HistoryInv, CompletedHasHistory
<1>8. CASE OwnerDeliver
  BY <1>8 DEF OwnerDeliver, HistoryInv, CompletedHasHistory, Turn
<1>9. CASE OwnerClose \/ OwnerRecv \/ OwnerAuthorized \/ OwnerRun \/ OwnerTurnFails
  <2>1. UNCHANGED <<disk, mem>> /\ owner' # "delivered" /\ history \subseteq history'
    BY <1>9 DEF OwnerClose, OwnerRecv, OwnerAuthorized, OwnerRun, OwnerTurnFails
  <2> QED BY <2>1 DEF HistoryInv, CompletedHasHistory
<1>10. CASE CloseIfIdle \/ (\E n \in Subs : Authorize(n) \/ DropCandidate(n)) \/ UNCHANGED vars
  <2>1. UNCHANGED <<disk, mem, owner, cur, turnOf, history>>
    BY <1>10 DEF CloseIfIdle, Authorize, DropCandidate, vars
  <2> QED BY <2>1 DEF HistoryInv, CompletedHasHistory, Turn
<1> QED BY <1>1, <1>2, <1>3, <1>4, <1>5, <1>6, <1>7, <1>8, <1>9, <1>10 DEF Next, Host, Owner

\* Every step keeps CommandInv: a command leaves the channel for the owner's
\* hands or with an answer, and Close is sent to an empty channel.
LEMMA CommandStep == OnceInv /\ CommandInv /\ [Next]_vars => CommandInv'
<1> SUFFICES ASSUME OnceInv, CommandInv, [Next]_vars PROVE CommandInv'
  OBVIOUS
<1> USE ConsultationAssumption DEF journalVars, ownerVars, hostVars, effectVars
<1>0. TypeInv
  BY DEF OnceInv
<1>1. /\ reply \in [Subs -> {"none", "answered", "error", "lost"}]
      /\ nSubs \in 0..MaxSubs /\ chan \in Seq(Subs \cup {Close})
      /\ (cur = 0 <=> owner \in {"down", "idle"})
      /\ \A k \in DOMAIN chan : chan[k] <= nSubs
  BY <1>0, TypeParts DEF ReplyType, HostType, ChannelType, OwnerType
<1>2. \A n \in 1..nSubs : n \in Subs /\ n # 0
  BY <1>1 DEF Subs
<1>3. CASE Start \/ StartFailed
  <2>1. chan = <<>> /\ chan' = chan /\ UNCHANGED <<cur, reply, nSubs>>
    BY <1>3 DEF Start, StartFailed, CommandInv
  <2>2. owner' = "down" \/ ~closing'
    BY <1>3 DEF Start, StartFailed
  <2> QED BY <2>1, <2>2 DEF CommandInv
<1>4. CASE CloseIfIdle
  <2>1. /\ chan = <<>> /\ chan' = <<Close>> /\ owner = "idle" /\ closing'
        /\ UNCHANGED <<owner, cur, reply, nSubs>>
    BY <1>4 DEF CloseIfIdle
  <2>2. \A n \in 1..nSubs : reply[n] # "none"
    BY <1>1, <1>2, <2>1 DEF CommandInv
  <2> QED BY <2>1, <2>2 DEF CommandInv
<1>5. ASSUME NEW t \in Turns, NEW spoken \in BOOLEAN, Enqueue(t, spoken) PROVE CommandInv'
  <2>1. /\ nSubs + 1 \in Subs /\ nSubs \in Nat /\ nSubs' = nSubs + 1
        /\ owner # "down" /\ UNCHANGED <<owner, cur, closing>>
        /\ \/ chan' = Append(chan, nSubs + 1) /\ reply' = reply
           \/ chan' = chan /\ reply' = [reply EXCEPT ![nSubs + 1] = "error"]
    BY <1>0, <1>5, EnqueueShape
  <2>2. ~closing /\ \A k \in DOMAIN chan : chan[k] # Close
    BY <1>5 DEF Enqueue, CommandInv
  <2>3. nSubs + 1 # Close
    BY <2>1 DEF Close
  <2>4. CASE chan' = Append(chan, nSubs + 1) /\ reply' = reply
    <3>1. /\ DOMAIN chan' = 1..(Len(chan) + 1) /\ Len(chan) \in Nat
          /\ \A k \in DOMAIN chan : k \in DOMAIN chan' /\ chan'[k] = chan[k]
          /\ chan'[Len(chan) + 1] = nSubs + 1
      BY <1>1, <2>1, <2>4
    <3>2. \A k \in DOMAIN chan' : k \in DOMAIN chan \/ k = Len(chan) + 1
      BY <1>1, <3>1
    <3>3. \A k \in DOMAIN chan' : chan'[k] # Close
      BY <2>2, <2>3, <3>1, <3>2
    <3>4. \A n \in 1..nSubs' : n \in 1..nSubs \/ n = nSubs + 1
      BY <2>1
    <3>5. Len(chan) + 1 \in DOMAIN chan'
      BY <3>1
    <3>6. \A n \in 1..nSubs' : reply'[n] = "none" =>
            n = cur' \/ \E k \in DOMAIN chan' : chan'[k] = n
      BY <2>1, <2>4, <3>1, <3>4, <3>5 DEF CommandInv
    <3> QED BY <2>1, <2>2, <3>3, <3>6 DEF CommandInv
  <2>5. CASE chan' = chan /\ reply' = [reply EXCEPT ![nSubs + 1] = "error"]
    <3>1. \A n \in 1..nSubs' : (n \in 1..nSubs /\ reply'[n] = reply[n]) \/ reply'[n] = "error"
      BY <1>1, <1>2, <2>1, <2>5
    <3> QED BY <2>1, <2>2, <2>5, <3>1 DEF CommandInv
  <2> QED BY <2>1, <2>4, <2>5
<1>6. CASE OwnerClose
  <2>1. chan # <<>> /\ Head(chan) = Close /\ owner = "idle"
    BY <1>6 DEF OwnerClose
  <2>2. 1 \in DOMAIN chan /\ chan[1] = Close
    BY <1>1, <2>1
  <2>3. chan = <<Close>>
    BY <2>1, <2>2 DEF CommandInv
  <2>4. \A n \in 1..nSubs : reply[n] # "none"
    BY <1>1, <1>2, <2>1, <2>3 DEF CommandInv, Close
  <2>5. chan' = <<>> /\ owner' = "down" /\ UNCHANGED <<reply, nSubs, closing>>
    BY <1>6 DEF OwnerClose
  <2> QED BY <2>4, <2>5 DEF CommandInv
<1>7. CASE OwnerRecv
  <2>1. chan # <<>> /\ owner = "idle" /\ cur = 0 /\ chan[1] # Close
        /\ chan' = Tail(chan) /\ Head(chan) = chan[1] /\ UNCHANGED <<nSubs, closing>>
    BY <1>1, <1>7 DEF OwnerRecv
  <2> DEFINE N == Len(chan)
  <2>a. N \in Nat /\ N >= 1 /\ DOMAIN chan = 1..N
    BY <1>1, <2>1
  <2>b. DOMAIN chan' = 1..(N - 1) /\ \A k \in 1..(N - 1) : chan'[k] = chan[k + 1]
    BY <1>1, <2>1, <2>a
  <2>2. \A k \in DOMAIN chan' : k + 1 \in DOMAIN chan /\ chan'[k] = chan[k + 1]
    BY <2>a, <2>b
  <2>c. \A k \in DOMAIN chan : k = 1 \/ \E j \in DOMAIN chan' : chan'[j] = chan[k]
    <3> HIDE DEF N
    <3> SUFFICES ASSUME NEW k \in 1..N, k # 1
                 PROVE  \E j \in 1..(N - 1) : chan'[j] = chan[k]
      BY <2>a, <2>b
    <3>1. k - 1 \in 1..(N - 1) /\ (k - 1) + 1 = k
      BY <2>a
    <3>2. chan'[k - 1] = chan[k]
      BY <2>b, <3>1
    <3> QED BY <3>1, <3>2
  <2>3. ~closing
    BY <2>1 DEF CommandInv
  <2>4. \A k \in DOMAIN chan' : chan'[k] # Close
    BY <2>2, <2>3 DEF CommandInv
  <2>5. \A n \in 1..nSubs : reply[n] = "none" =>
          n = chan[1] \/ \E k \in DOMAIN chan' : chan'[k] = n
    BY <1>2, <2>1, <2>c DEF CommandInv
  <2>6. \/ reply' = [reply EXCEPT ![chan[1]] = "error"] /\ UNCHANGED <<owner, cur>>
        \/ reply' = reply /\ cur' = chan[1] /\ owner' # "down"
    BY <1>7, <2>1 DEF OwnerRecv
  <2>7. \A n \in 1..nSubs : reply'[n] = "none" =>
          n = cur' \/ \E k \in DOMAIN chan' : chan'[k] = n
    BY <1>1, <1>2, <2>5, <2>6
  <2> QED BY <2>1, <2>3, <2>4, <2>6, <2>7 DEF CommandInv
<1>8. CASE Crash
  <2>1. chan' = <<>> /\ owner' = "down" /\ ~closing' /\ nSubs' = nSubs
    BY <1>8 DEF Crash
  <2>2. \A n \in 1..nSubs : reply'[n] # "none"
    BY <1>1, <1>2, <1>8 DEF Crash
  <2> QED BY <2>1, <2>2 DEF CommandInv
<1>9. CASE \/ OwnerAuthorized \/ OwnerRejected \/ OwnerUnprepared
           \/ OwnerLeaseRefused \/ OwnerBegin \/ OwnerRun \/ OwnerDeliver
           \/ OwnerTurnFails \/ OwnerComplete \/ OwnerAbandon
  <2>1. owner \notin {"down", "idle"} /\ UNCHANGED <<chan, closing, nSubs>>
    BY <1>9 DEF OwnerAuthorized, OwnerRejected, OwnerUnprepared,
       OwnerLeaseRefused, OwnerBegin, OwnerRun, OwnerDeliver, OwnerTurnFails,
       OwnerComplete, OwnerAbandon
  <2>2. cur \in Subs /\ ~closing
    BY <1>0, <2>1, WorkingTurn DEF CommandInv
  <2>3. owner' # "down"
    BY <1>9 DEF OwnerAuthorized, OwnerRejected, OwnerUnprepared,
       OwnerLeaseRefused, OwnerBegin, OwnerRun, OwnerDeliver, OwnerTurnFails,
       OwnerComplete, OwnerAbandon, Discard, ToAbandon, Answer
  <2>4. \/ UNCHANGED <<cur, reply>>
        \/ reply' = [reply EXCEPT ![cur] = "error"]
        \/ reply' = [reply EXCEPT ![cur] = "answered"]
    BY <1>9 DEF OwnerAuthorized, OwnerRejected, OwnerUnprepared,
       OwnerLeaseRefused, OwnerBegin, OwnerRun, OwnerDeliver, OwnerTurnFails,
       OwnerComplete, OwnerAbandon, Discard, ToAbandon, Answer
  <2>5. \A n \in 1..nSubs : reply'[n] = "none" =>
          n = cur' \/ \E k \in DOMAIN chan : chan[k] = n
    BY <1>1, <1>2, <2>2, <2>4 DEF CommandInv
  <2> QED BY <2>1, <2>2, <2>3, <2>5 DEF CommandInv
<1>10. CASE (\E n \in Subs : Authorize(n) \/ DropCandidate(n)) \/ UNCHANGED vars
  <2>1. UNCHANGED <<chan, owner, cur, closing, reply, nSubs>>
    BY <1>10 DEF Authorize, DropCandidate, vars
  <2> QED BY <2>1 DEF CommandInv
<1> QED BY <1>3, <1>4, <1>5, <1>6, <1>7, <1>8, <1>9, <1>10 DEF Next, Host, Owner

-----------------------------------------------------------------------------
\* Abandonment, begin, discard and complete make well-formed journals of them.
LEMMA WellOps ==
  ASSUME NEW m \in Journals, QueuedKnown(m)
  PROVE  /\ Well(Abandon(m)) /\ QueuedKnown(Abandon(m))
         /\ Well(m) /\ m.queued # <<>> /\ m.pending = NoTurn =>
              LET a == [m EXCEPT !.queued = Tail(@)] IN Well(a) /\ QueuedKnown(a)
         /\ \A t \in Turns :
              Well(m) /\ t \notin m.completed /\ IsFront(m, t) =>
              LET a == [m EXCEPT !.pending = t] IN Well(a) /\ QueuedKnown(a)
         /\ \A t \in Turns :
              Well(m) /\ IsFront(m, t) =>
              LET a == [m EXCEPT !.queued = Tail(@), !.pending = NoTurn,
                                 !.completed = @ \cup {t}]
              IN  Well(a) /\ QueuedKnown(a)
         /\ \A t \in Turns : QueuedKnown([m EXCEPT !.pending = t])
         /\ \A t \in Turns : QueuedKnown([m EXCEPT !.completed = @ \cup {t}])
<1> USE ConsultationAssumption
<1> DEFINE q == m.queued
           N == Len(q)
<1>0. q \in Seq(Subs)
  BY DEF Journals
<1>1. Well(Abandon(m)) /\ QueuedKnown(Abandon(m))
  <2>1. Abandon(m).queued = <<>> /\ Abandon(m).pending = NoTurn
    BY DEF Abandon, Journals
  <2>2. DOMAIN <<>> = {}
    OBVIOUS
  <2> QED BY <2>1, <2>2 DEF Well, QueuedKnown
<1>2. ASSUME q # <<>>
      PROVE  /\ \A i \in DOMAIN Tail(q) :
                  i \in Nat /\ i + 1 \in DOMAIN q /\ Tail(q)[i] = q[i + 1] /\ i + 1 # 1
             /\ 1 \in DOMAIN q /\ Head(q) = q[1]
  <2>1. N \in Nat /\ N >= 1 /\ DOMAIN q = 1..N /\ Head(q) = q[1]
    BY <1>0, <1>2
  <2>2. DOMAIN Tail(q) = 1..(N - 1) /\ \A i \in 1..(N - 1) : Tail(q)[i] = q[i + 1]
    BY <1>0, <1>2, <2>1
  <2> HIDE DEF N, q
  <2> QED BY <2>1, <2>2
<1>3. ASSUME Well(m), q # <<>>, m.pending = NoTurn
      PROVE  LET a == [m EXCEPT !.queued = Tail(@)] IN Well(a) /\ QueuedKnown(a)
  <2> DEFINE a == [m EXCEPT !.queued = Tail(@)]
  <2>1. a.queued = Tail(q) /\ a.completed = m.completed /\ a.pending = NoTurn
    BY <1>3 DEF Journals
  <2>2. QueuedKnown(a)
    BY <1>2, <1>3, <2>1 DEF QueuedKnown
  <2>3. \A i \in DOMAIN a.queued : turnOf[a.queued[i]] \notin a.completed
    BY <1>2, <1>3, <2>1 DEF Well
  <2>4. \A i, j \in DOMAIN a.queued : turnOf[a.queued[i]] = turnOf[a.queued[j]] => i = j
    <3> SUFFICES ASSUME NEW i \in DOMAIN Tail(q), NEW j \in DOMAIN Tail(q),
                        turnOf[Tail(q)[i]] = turnOf[Tail(q)[j]]
                 PROVE  i = j
      BY <2>1
    <3>1. i + 1 = j + 1
      BY <1>2, <1>3 DEF Well
    <3> QED BY <1>2, <1>3, <3>1
  <2> QED BY <2>1, <2>2, <2>3, <2>4 DEF Well
<1>4. ASSUME NEW t \in Turns
      PROVE  /\ Well(m) /\ t \notin m.completed /\ IsFront(m, t) =>
                  Well([m EXCEPT !.pending = t])
             /\ QueuedKnown([m EXCEPT !.pending = t])
  <2> DEFINE a == [m EXCEPT !.pending = t]
  <2>1. a.queued = m.queued /\ a.completed = m.completed /\ a.pending = t
    BY DEF Journals
  <2> QED BY <2>1 DEF Well, QueuedKnown, IsFront
<1>5. ASSUME NEW t \in Turns, Well(m), IsFront(m, t)
      PROVE  LET a == [m EXCEPT !.queued = Tail(@), !.pending = NoTurn,
                                !.completed = @ \cup {t}]
             IN  Well(a) /\ QueuedKnown(a)
  <2> DEFINE a == [m EXCEPT !.queued = Tail(@), !.pending = NoTurn,
                            !.completed = @ \cup {t}]
  <2>1. a.queued = Tail(q) /\ a.completed = m.completed \cup {t} /\ a.pending = NoTurn
    BY DEF Journals
  <2>2. q # <<>> /\ turnOf[q[1]] = t
    BY <1>2, <1>5 DEF IsFront
  <2>3. QueuedKnown(a)
    BY <1>2, <2>1, <2>2 DEF QueuedKnown
  <2>4. \A i \in DOMAIN a.queued : turnOf[a.queued[i]] \notin a.completed
    BY <1>2, <1>5, <2>1, <2>2 DEF Well
  <2>5. \A i, j \in DOMAIN a.queued : turnOf[a.queued[i]] = turnOf[a.queued[j]] => i = j
    <3> SUFFICES ASSUME NEW i \in DOMAIN Tail(q), NEW j \in DOMAIN Tail(q),
                        turnOf[Tail(q)[i]] = turnOf[Tail(q)[j]]
                 PROVE  i = j
      BY <2>1
    <3>1. i + 1 = j + 1
      BY <1>2, <1>5, <2>2 DEF Well
    <3> QED BY <1>2, <2>2, <3>1
  <2> QED BY <2>1, <2>3, <2>4, <2>5 DEF Well
<1>6. ASSUME NEW t \in Turns PROVE QueuedKnown([m EXCEPT !.completed = @ \cup {t}])
  <2>1. [m EXCEPT !.completed = @ \cup {t}].queued = m.queued
    BY DEF Journals
  <2> QED BY <2>1 DEF QueuedKnown
<1> QED BY <1>1, <1>3, <1>4, <1>5, <1>6

\* Acceptance keeps both copies well formed: the turn is new to the journal.
LEMMA EnqueueWell ==
  ASSUME TypeInv, FileInv, NEW t \in Turns, NEW spoken \in BOOLEAN, Enqueue(t, spoken)
  PROVE  FileInv'
<1> USE ConsultationAssumption
<1>0. disk \in Journals /\ mem \in Journals
  BY TypeParts DEF JournalType
<1>1. /\ nSubs + 1 \in Subs /\ nSubs \in Nat /\ nSubs' = nSubs + 1
      /\ turnOf'[nSubs + 1] = t
      /\ \A n \in Subs : n <= nSubs => turnOf'[n] = turnOf[n]
      /\ mem' = [mem EXCEPT !.queued = Append(@, nSubs + 1)]
      /\ disk' \in {disk, mem'} /\ ~gate /\ owner # "down"
  BY EnqueueShape
<1>2. /\ t \notin mem.completed
      /\ \A i \in DOMAIN mem.queued : turnOf[mem.queued[i]] # t
  BY DEF Enqueue
<1>3. Well(mem)
  BY <1>1 DEF FileInv
<1>4. ASSUME NEW m \in Journals, QueuedKnown(m)
      PROVE  \A i \in DOMAIN m.queued :
               /\ m.queued[i] \in Subs /\ m.queued[i] <= nSubs
               /\ turnOf'[m.queued[i]] = turnOf[m.queued[i]]
  <2>1. m.queued \in Seq(Subs)
    BY DEF Journals
  <2>2. \A i \in DOMAIN m.queued : m.queued[i] \in Subs /\ m.queued[i] <= nSubs
    BY <1>4, <2>1 DEF QueuedKnown
  <2> QED BY <1>1, <2>2
<1>5. \A i \in DOMAIN disk.queued :
        disk.queued[i] <= nSubs /\ turnOf'[disk.queued[i]] = turnOf[disk.queued[i]]
        /\ disk.queued[i] \in Subs
  BY <1>0, <1>4 DEF FileInv
<1> DEFINE q == mem.queued
           N == Len(q)
<1>6. \A i \in DOMAIN q : q[i] <= nSubs /\ turnOf'[q[i]] = turnOf[q[i]] /\ q[i] \in Subs
  BY <1>0, <1>4 DEF FileInv
<1>7. /\ mem'.queued = Append(q, nSubs + 1)
      /\ mem'.completed = mem.completed /\ mem'.pending = mem.pending
  BY <1>0, <1>1 DEF Journals
<1>8. /\ N \in Nat /\ DOMAIN q = 1..N /\ DOMAIN mem'.queued = 1..(N + 1)
      /\ \A i \in 1..N : mem'.queued[i] = q[i]
      /\ mem'.queued[N + 1] = nSubs + 1
  <2>1. q \in Seq(Subs)
    BY <1>0 DEF Journals
  <2> QED BY <1>1, <1>7, <2>1
<1>9. \A i \in DOMAIN mem'.queued :
        \/ i \in DOMAIN q /\ mem'.queued[i] = q[i]
        \/ i = N + 1 /\ i \notin DOMAIN q
  <2> HIDE DEF N, q
  <2> QED BY <1>8
<1>10. \A i \in DOMAIN mem'.queued :
        \/ i \in DOMAIN q /\ turnOf'[mem'.queued[i]] = turnOf[q[i]] /\ mem'.queued[i] <= nSubs
        \/ i = N + 1 /\ turnOf'[mem'.queued[i]] = t /\ mem'.queued[i] = nSubs + 1
  BY <1>1, <1>6, <1>8, <1>9
<1>11. QueuedKnown(mem)'
  <2>1. \A i \in DOMAIN q : q[i] \in Nat
    BY <1>6 DEF Subs
  <2> QED BY <1>1, <1>8, <1>9, <1>10, <2>1 DEF QueuedKnown
<1>12. Well(mem)'
  <2>1. \A i \in DOMAIN mem'.queued : turnOf'[mem'.queued[i]] \notin mem'.completed
    BY <1>2, <1>3, <1>7, <1>10 DEF Well
  <2>2. \A i, j \in DOMAIN mem'.queued :
          turnOf'[mem'.queued[i]] = turnOf'[mem'.queued[j]] => i = j
    BY <1>2, <1>3, <1>10 DEF Well
  <2>3. mem'.pending # NoTurn =>
          /\ mem'.pending \notin mem'.completed
          /\ mem'.queued # <<>> /\ turnOf'[Head(mem'.queued)] = mem'.pending
    <3> SUFFICES ASSUME mem.pending # NoTurn
                 PROVE  /\ mem.pending \notin mem.completed
                        /\ mem'.queued # <<>> /\ turnOf'[Head(mem'.queued)] = mem.pending
      BY <1>7
    <3>1. /\ mem.pending \notin mem.completed /\ q # <<>>
          /\ turnOf[Head(q)] = mem.pending
      BY <1>3 DEF Well, IsFront
    <3>2. q \in Seq(Subs)
      BY <1>0 DEF Journals
    <3>3. 1 \in DOMAIN q /\ Head(q) = q[1]
      BY <3>1, <3>2
    <3>4. mem'.queued # <<>> /\ Head(mem'.queued) = q[1]
      BY <1>1, <1>7, <3>1, <3>2
    <3> QED BY <1>6, <3>1, <3>3, <3>4
  <2> QED BY <2>1, <2>2, <2>3 DEF Well, IsFront
<1>13. CASE disk' = disk
  <2>1. QueuedKnown(disk)'
    BY <1>1, <1>5, <1>13 DEF QueuedKnown, Subs
  <2>2. Well(disk)
    BY DEF FileInv
  <2>3. disk.queued # <<>> => 1 \in DOMAIN disk.queued /\ Head(disk.queued) = disk.queued[1]
    BY <1>0 DEF Journals
  <2>4. Well(disk)'
    BY <1>5, <1>13, <2>2, <2>3 DEF Well, IsFront
  <2> QED BY <1>11, <1>12, <2>1, <2>4 DEF FileInv
<1>14. CASE disk' = mem'
  <2>1. Well(disk)' /\ QueuedKnown(disk)'
    BY <1>11, <1>12, <1>14 DEF Well, QueuedKnown, IsFront
  <2> QED BY <1>11, <1>12, <2>1 DEF FileInv
<1> QED BY <1>1, <1>13, <1>14

\* A step without acceptance keeps FileInv when it writes well-formed journals.
LEMMA WellCopied ==
  ASSUME UNCHANGED <<nSubs, turnOf>>,
         Well(disk'), QueuedKnown(disk'), QueuedKnown(mem'),
         owner' # "down" /\ ~gate' => Well(mem')
  PROVE  FileInv'
BY DEF FileInv, Well, QueuedKnown, IsFront

\* Every step keeps FileInv.
LEMMA FileStep == OnceInv /\ FileInv /\ [Next]_vars => FileInv'
<1> SUFFICES ASSUME OnceInv, FileInv, [Next]_vars PROVE FileInv'
  OBVIOUS
<1> USE ConsultationAssumption DEF journalVars, ownerVars, hostVars, effectVars
<1>0. TypeInv /\ disk \in Journals /\ mem \in Journals /\ gate \in BOOLEAN
  BY DEF OnceInv, TypeInv, TypeOK
<1>a. /\ Well(disk) /\ QueuedKnown(disk) /\ QueuedKnown(mem)
      /\ owner # "down" /\ ~gate => Well(mem)
  BY DEF FileInv
<1>1. CASE Start \/ StartFailed
  <2>1. /\ UNCHANGED <<nSubs, turnOf>> /\ disk' \in {disk, Abandon(disk)}
        /\ mem' = disk' \/ (mem' = mem /\ owner' = "down")
    BY <1>1 DEF Start, StartFailed
  <2>2. Well(disk') /\ QueuedKnown(disk')
    BY <1>0, <1>a, <2>1, WellOps
  <2> QED BY <1>a, <2>1, <2>2, WellCopied
<1>2. ASSUME NEW t \in Turns, NEW spoken \in BOOLEAN, Enqueue(t, spoken) PROVE FileInv'
  BY <1>0, <1>2, EnqueueWell
<1>3. CASE OwnerRejected \/ OwnerUnprepared \/ OwnerLeaseRefused
  <2> DEFINE m == [mem EXCEPT !.queued = Tail(@)]
  <2>1. Discard(ToAbandon, gate) \/ Discard(Answer("error"), TRUE)
    BY <1>3 DEF OwnerRejected, OwnerUnprepared, OwnerLeaseRefused
  <2>2. UNCHANGED <<nSubs, turnOf>> /\ owner # "down"
    BY <1>3 DEF OwnerRejected, OwnerUnprepared, OwnerLeaseRefused
  <2>3. \/ UNCHANGED <<disk, mem>> /\ (~gate' => ~gate)
        \/ /\ ~gate /\ mem.pending = NoTurn /\ mem.queued # <<>>
           /\ mem' \in {mem, m} /\ disk' \in {disk, m}
    BY <1>0, <2>1 DEF Discard, Persisted, PersistFailed, IsFront
  <2>4. CASE UNCHANGED <<disk, mem>> /\ (~gate' => ~gate)
    BY <1>a, <2>2, <2>4, WellCopied
  <2>5. CASE /\ ~gate /\ mem.pending = NoTurn /\ mem.queued # <<>>
             /\ mem' \in {mem, m} /\ disk' \in {disk, m}
    <3>1. Well(m) /\ QueuedKnown(m) /\ Well(mem)
      BY <1>0, <1>a, <2>2, <2>5, WellOps
    <3> HIDE DEF m
    <3> QED BY <1>a, <2>2, <2>5, <3>1, WellCopied
  <2> QED BY <2>3, <2>4, <2>5
<1>4. CASE OwnerBegin
  <2> DEFINE m == [mem EXCEPT !.pending = Turn]
  <2>1. UNCHANGED <<nSubs, turnOf>> /\ owner # "down"
    BY <1>4 DEF OwnerBegin
  <2>2. Turn \in Turns
    BY <1>0, <1>4, WorkingTurn DEF OwnerBegin
  <2>3. \/ UNCHANGED <<disk, mem, gate>>
        \/ ~gate /\ Turn \notin mem.completed /\ IsFront(mem, Turn)
           /\ mem' = m /\ disk' \in {disk, m}
    BY <1>4 DEF OwnerBegin, Persisted, PersistFailed
  <2>4. CASE UNCHANGED <<disk, mem, gate>>
    BY <1>a, <2>1, <2>4, WellCopied
  <2>5. CASE ~gate /\ Turn \notin mem.completed /\ IsFront(mem, Turn)
             /\ mem' = m /\ disk' \in {disk, m}
    <3>1. Well(m) /\ QueuedKnown(m)
      BY <1>0, <1>a, <2>1, <2>2, <2>5, WellOps
    <3> HIDE DEF m
    <3> QED BY <1>a, <2>1, <2>5, <3>1, WellCopied
  <2> QED BY <2>3, <2>4, <2>5
<1>5. CASE OwnerComplete
  <2> DEFINE m == [mem EXCEPT !.queued = Tail(@), !.pending = NoTurn,
                              !.completed = @ \cup {Turn}]
             f == [mem EXCEPT !.completed = @ \cup {Turn}]
  <2>1. UNCHANGED <<nSubs, turnOf>> /\ owner # "down"
    BY <1>5 DEF OwnerComplete
  <2>2. Turn \in Turns
    BY <1>0, <1>5, WorkingTurn DEF OwnerComplete
  <2>3. \/ UNCHANGED <<disk, mem, gate>>
        \/ ~gate /\ IsFront(mem, Turn) /\ mem' = m /\ disk' = m
        \/ ~gate /\ IsFront(mem, Turn) /\ mem' = f /\ disk' \in {disk, m} /\ gate'
    BY <1>5 DEF OwnerComplete, Persisted, PersistFailed
  <2>4. CASE UNCHANGED <<disk, mem, gate>>
    BY <1>a, <2>1, <2>4, WellCopied
  <2>5. ~gate /\ IsFront(mem, Turn) => Well(m) /\ QueuedKnown(m)
    BY <1>0, <1>a, <2>1, <2>2, WellOps
  <2>6. QueuedKnown(f)
    BY <1>0, <1>a, <2>2, WellOps
  <2> HIDE DEF m, f
  <2>7. CASE ~gate /\ IsFront(mem, Turn) /\ mem' = m /\ disk' = m
    BY <2>1, <2>5, <2>7, WellCopied
  <2>8. CASE ~gate /\ IsFront(mem, Turn) /\ mem' = f /\ disk' \in {disk, m} /\ gate'
    BY <1>a, <2>1, <2>5, <2>6, <2>8, WellCopied
  <2> QED BY <2>3, <2>4, <2>7, <2>8
<1>6. CASE OwnerAbandon
  <2>1. /\ mem' \in {mem, Abandon(mem)} /\ disk' \in {disk, Abandon(mem)}
        /\ (~gate' => ~gate) /\ owner # "down" /\ UNCHANGED <<nSubs, turnOf>>
    BY <1>6 DEF OwnerAbandon, Persisted, PersistFailed
  <2>2. Well(Abandon(mem)) /\ QueuedKnown(Abandon(mem))
    BY <1>0, <1>a, WellOps
  <2> QED BY <1>a, <2>1, <2>2, WellCopied
<1>7. CASE Crash
  <2>1. EmptyJournal.queued = <<>> /\ DOMAIN <<>> = {}
    BY DEF EmptyJournal
  <2>2. QueuedKnown(EmptyJournal)
    BY <2>1 DEF QueuedKnown
  <2>3. disk' = disk /\ mem' = EmptyJournal /\ owner' = "down" /\ UNCHANGED <<nSubs, turnOf>>
    BY <1>7 DEF Crash
  <2> QED BY <1>a, <2>2, <2>3, WellCopied
<1>8. CASE \/ OwnerClose \/ OwnerRecv \/ OwnerAuthorized \/ OwnerRun \/ OwnerDeliver
           \/ OwnerTurnFails \/ CloseIfIdle
           \/ (\E n \in Subs : Authorize(n) \/ DropCandidate(n)) \/ UNCHANGED vars
  <2>1. UNCHANGED <<disk, mem, gate, nSubs, turnOf>> /\ (owner' # "down" => owner # "down")
    BY <1>8 DEF OwnerClose, OwnerRecv, OwnerAuthorized, OwnerRun, OwnerDeliver,
       OwnerTurnFails, CloseIfIdle, Authorize, DropCandidate, vars
  <2> QED BY <1>a, <2>1, WellCopied
<1> QED BY <1>1, <1>2, <1>3, <1>4, <1>5, <1>6, <1>7, <1>8 DEF Next, Host, Owner

-----------------------------------------------------------------------------
\* The parts hold in every reachable state, on top of OnceInv.
THEOREM DurableAlways == Spec => []DurableInv
<1>1. Init => DurableInv
  BY DurableInit
<1>2. OnceInv /\ DurableInv /\ [Next]_vars => DurableInv'
  BY AnswerStep, HistoryStep, CommandStep, FileStep DEF DurableInv
<1> QED BY OnceAlways, <1>1, <1>2, PTL DEF Spec

\* A caller told an answer by run_owner finds its turn completed in the file
\* ever after: complete answers only after its write.
THEOREM AnswersDurable == Spec => []AnsweredIsDurable
<1>1. DurableInv => AnsweredIsDurable
  BY DEF DurableInv, AnswerInv
<1> QED BY DurableAlways, <1>1, PTL

\* A turn the file calls completed was delivered to the thread store, so
\* restore_consultation never refuses a restart for missing history.
THEOREM CompletedInHistory == Spec => []CompletedHasHistory
<1>1. DurableInv => CompletedHasHistory
  BY DEF DurableInv, HistoryInv
<1> QED BY DurableAlways, <1>1, PTL

\* Whatever persist wrote last, uncertain writes included, is a file that
\* inspect_retained_input accepts.
THEOREM FileWellFormed == Spec => []DiskWellFormed
<1>1. DurableInv => DiskWellFormed
  BY DEF DurableInv, FileInv, Well, DiskWellFormed
<1> QED BY DurableAlways, <1>1, PTL

\* An owner that closed owes nobody an answer: close_if_idle finds the channel
\* empty and the owner idle, and admission refuses from then on.
THEOREM ClosedOwesNobody == Spec => []ClosedOwesNothing
<1>1. OnceInv /\ DurableInv => ClosedOwesNothing
  <2> SUFFICES ASSUME OnceInv, DurableInv, owner = "down", NEW n \in 1..nSubs
               PROVE  reply[n] # "none"
    BY DEF ClosedOwesNothing
  <2>1. cur = 0 /\ chan = <<>> /\ nSubs \in Nat
    BY ConsultationAssumption DEF OnceInv, TypeInv, TypeOK, DurableInv, CommandInv
  <2>2. n # 0 /\ DOMAIN <<>> = {}
    BY <2>1
  <2> QED BY <2>1, <2>2 DEF DurableInv, CommandInv
<1> QED BY OnceAlways, DurableAlways, <1>1, PTL
=============================================================================
