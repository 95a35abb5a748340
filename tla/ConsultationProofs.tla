------------------------- MODULE ConsultationProofs -------------------------
(***************************************************************************)
(* Proofs about Consultation, for any turns, number of submissions,        *)
(* crashes and failed writes: a turn's effects run at most once, under a   *)
(* receipt that is already in the file, and no write ever takes a resolved *)
(* identity back out of it.                                                *)
(***************************************************************************)
EXTENDS Consultation, TLAPS

\* Commands name submissions that were made, and those carry a turn.
Known ==
  /\ \A k \in DOMAIN chan : chan[k] <= nSubs
  /\ \A n \in Subs : n <= nSubs => turnOf[n] \in Turns

TypeInv == TypeOK /\ Known

\* TypeInv by the part of the state it speaks of.
JournalType ==
  disk \in Journals /\ mem \in Journals /\ gate \in BOOLEAN /\ fails \in 0..MaxFails

OwnerType ==
  /\ owner \in {"down", "idle", "authorize", "prepare", "running", "ran",
                "delivered", "abandon"}
  /\ cur \in 0..nSubs /\ (cur = 0 <=> owner \in {"down", "idle"})

ChannelType ==
  /\ chan \in Seq(Subs \cup {Close}) /\ closing \in BOOLEAN
  /\ \A k \in DOMAIN chan : chan[k] <= nSubs

HostType ==
  /\ nSubs \in 0..MaxSubs /\ turnOf \in [Subs -> Turns \cup {NoTurn}]
  /\ auth \in [Subs -> {"none", "waiting", "granted", "dropped"}]
  /\ \A n \in Subs : n <= nSubs => turnOf[n] \in Turns

ReplyType == reply \in [Subs -> {"none", "answered", "error", "lost"}]

WorkType ==
  /\ history \subseteq Turns /\ effects \in [Turns -> Nat]
  /\ dropped \subseteq Subs /\ crashes \in 0..MaxCrashes

Resolved(m) == m.completed \cup m.abandoned

\* Whatever ran is resolved in this journal, or is its pending turn.
Covers(m) == \A t \in Turns : effects[t] = 0 \/ t \in Resolved(m) \/ t = m.pending

\* An owner knows everything the file has resolved.  Only a failed abandonment
\* makes it forget, and that leaves it idle behind a closed journal.
KnowsDisk ==
  owner # "down" =>
    /\ disk.completed \subseteq mem.completed
    /\ ~gate \/ owner # "idle" => disk.abandoned \subseteq mem.abandoned

\* A turn that is about to run has not run before.
FirstRun == owner = "running" => effects[Turn] = 0

OnceCore ==
  /\ EffectsAtMostOnce /\ ReceiptBeforeEffects /\ KnowsDisk /\ FirstRun
  /\ Covers(disk) /\ (owner # "down" => Covers(mem))

\* The inductive invariant behind EffectsAtMostOnce and ResolvedForLife.
OnceInv == TypeInv /\ OnceCore

-----------------------------------------------------------------------------
\* Abandonment, acceptance and removal of the front make journals of journals.
LEMMA JournalOps ==
  ASSUME NEW m \in Journals
  PROVE  /\ Abandon(m) \in Journals
         /\ \A n \in Subs : [m EXCEPT !.queued = Append(@, n)] \in Journals
         /\ m.queued # <<>> => [m EXCEPT !.queued = Tail(@)] \in Journals
         /\ \A t \in Turns : [m EXCEPT !.pending = t] \in Journals
         /\ \A t \in Turns : [m EXCEPT !.completed = @ \cup {t}] \in Journals
         /\ \A t \in Turns : m.queued # <<>> =>
              [m EXCEPT !.queued = Tail(@), !.pending = NoTurn,
                        !.completed = @ \cup {t}] \in Journals
<1>1. m.queued \in Seq(Subs) /\ <<>> \in Seq(Subs)
  BY DEF Journals
<1>2. \A n \in Subs : Append(m.queued, n) \in Seq(Subs)
  BY <1>1
<1>3. m.queued # <<>> => Tail(m.queued) \in Seq(Subs)
  BY <1>1
<1>4. Abandon(m) \in Journals
  BY <1>1 DEF Journals, Abandon
<1>5. \A n \in Subs : [m EXCEPT !.queued = Append(@, n)] \in Journals
  BY <1>2 DEF Journals
<1>6. m.queued # <<>> => [m EXCEPT !.queued = Tail(@)] \in Journals
  BY <1>3 DEF Journals
<1>7. \A t \in Turns : [m EXCEPT !.pending = t] \in Journals
  BY DEF Journals
<1>8. \A t \in Turns : [m EXCEPT !.completed = @ \cup {t}] \in Journals
  BY DEF Journals
<1>9. \A t \in Turns : m.queued # <<>> =>
        [m EXCEPT !.queued = Tail(@), !.pending = NoTurn,
                  !.completed = @ \cup {t}] \in Journals
  BY <1>3 DEF Journals
<1> QED BY <1>4, <1>5, <1>6, <1>7, <1>8, <1>9

\* TypeInv is its parts.
LEMMA TypeParts ==
  TypeInv <=> /\ JournalType /\ OwnerType /\ ChannelType
              /\ HostType /\ ReplyType /\ WorkType
BY DEF TypeInv, TypeOK, Known, JournalType, OwnerType, ChannelType, HostType,
       ReplyType, WorkType

\* The same of the next state.
LEMMA TypePartsNext ==
  TypeInv' <=> /\ JournalType' /\ OwnerType' /\ ChannelType'
               /\ HostType' /\ ReplyType' /\ WorkType'
BY DEF TypeInv, TypeOK, Known, JournalType, OwnerType, ChannelType, HostType,
       ReplyType, WorkType

\* The owner works on a submission that was made, and so on a turn.
LEMMA WorkingTurn ==
  ASSUME TypeInv, owner \notin {"down", "idle"}
  PROVE  cur \in Subs /\ Turn \in Turns
<1>1. cur \in Subs /\ cur <= nSubs
  BY ConsultationAssumption, TypeParts DEF OwnerType, HostType, Subs
<1> QED BY <1>1, TypeParts DEF HostType, Turn

\* What waits in a journal are submissions.
LEMMA WaitingSubs ==
  ASSUME NEW m \in Journals PROVE Waiting(m) \subseteq Subs
<1>1. m.queued \in Seq(Subs)
  BY DEF Journals
<1> QED BY <1>1 DEF Waiting

\* What each journal operation does to the identities.
LEMMA JournalFields ==
  ASSUME NEW m \in Journals
  PROVE  /\ Abandon(m).completed = m.completed
         /\ Abandon(m).abandoned = m.abandoned \cup ({m.pending} \ {NoTurn})
         /\ \A n \in Subs : LET a == [m EXCEPT !.queued = Append(@, n)]
              IN  a.completed = m.completed /\ a.abandoned = m.abandoned
                  /\ a.pending = m.pending
         /\ LET a == [m EXCEPT !.queued = Tail(@)]
            IN  a.completed = m.completed /\ a.abandoned = m.abandoned
                /\ a.pending = m.pending
         /\ \A t \in Turns : LET a == [m EXCEPT !.pending = t]
              IN  a.completed = m.completed /\ a.abandoned = m.abandoned
                  /\ a.pending = t
         /\ \A t \in Turns : LET a == [m EXCEPT !.completed = @ \cup {t}]
              IN  a.completed = m.completed \cup {t} /\ a.abandoned = m.abandoned
                  /\ a.pending = m.pending
         /\ \A t \in Turns :
              LET a == [m EXCEPT !.queued = Tail(@), !.pending = NoTurn,
                                 !.completed = @ \cup {t}]
              IN  a.completed = m.completed \cup {t} /\ a.abandoned = m.abandoned
                  /\ a.pending = NoTurn
BY DEF Journals, Abandon

\* An abandoned journal still covers what ran.
LEMMA AbandonCovers ==
  ASSUME NEW m \in Journals, Covers(m) PROVE Covers(Abandon(m))
BY ConsultationAssumption, JournalFields DEF Covers, Resolved

\* A write that landed or failed leaves a journal in the file.
LEMMA PersistType ==
  ASSUME JournalType, NEW m \in Journals, Persisted(m) \/ PersistFailed(m)
  PROVE  disk' \in Journals /\ gate' \in BOOLEAN /\ fails' \in 0..MaxFails
<1>1. disk' \in Journals
  BY DEF JournalType, Persisted, PersistFailed
<1>2. gate' \in BOOLEAN
  BY DEF JournalType, Persisted, PersistFailed
<1>3. fails' \in 0..MaxFails
  BY ConsultationAssumption DEF JournalType, Persisted, PersistFailed
<1> QED BY <1>1, <1>2, <1>3

\* The initial state is well typed and nothing has run.
LEMMA OnceInit == Init => OnceInv
<1> SUFFICES ASSUME Init PROVE OnceInv
  OBVIOUS
<1> USE ConsultationAssumption
<1>1. EmptyJournal \in Journals
  BY DEF EmptyJournal, Journals
<1>2. TypeInv
  <2>1. JournalType
    <3>1. disk \in Journals /\ mem \in Journals /\ fails \in 0..MaxFails
      BY <1>1 DEF Init
    <3>2. gate \in BOOLEAN
      BY DEF Init
    <3> QED BY <3>1, <3>2 DEF JournalType
  <2>2. OwnerType
    BY DEF Init, OwnerType
  <2>3. ChannelType
    <3>1. <<>> \in Seq(Subs \cup {Close}) /\ DOMAIN <<>> = {}
      OBVIOUS
    <3>2. closing \in BOOLEAN
      BY DEF Init
    <3> QED BY <3>1, <3>2 DEF Init, ChannelType
  <2>4. HostType
    BY DEF Init, HostType, Subs
  <2>5. ReplyType
    BY DEF Init, ReplyType
  <2>6. WorkType
    BY DEF Init, WorkType
  <2> QED BY <2>1, <2>2, <2>3, <2>4, <2>5, <2>6, TypeParts
<1>3. EffectsAtMostOnce /\ Covers(disk) /\ owner = "down"
  BY DEF Init, EffectsAtMostOnce, Covers
<1> QED BY <1>2, <1>3 DEF OnceInv, OnceCore, ReceiptBeforeEffects, KnowsDisk, FirstRun

-----------------------------------------------------------------------------
\* Every step keeps the types.
LEMMA TypeStep == TypeInv /\ [Next]_vars => TypeInv'
<1> SUFFICES ASSUME TypeInv, [Next]_vars PROVE TypeInv'
  OBVIOUS
<1> USE ConsultationAssumption DEF journalVars, ownerVars, hostVars, effectVars
<1>0. JournalType /\ OwnerType /\ ChannelType /\ HostType /\ ReplyType /\ WorkType
  BY TypeParts
<1>1. ASSUME Start PROVE TypeInv'
  <2>1. Abandon(disk) \in Journals
    BY <1>0, JournalOps DEF JournalType
  <2>2. JournalType'
    BY <1>0, <1>1, <2>1 DEF Start, JournalType
  <2>3. OwnerType' /\ ChannelType' /\ HostType' /\ ReplyType'
    BY <1>0, <1>1 DEF Start, OwnerType, ChannelType, HostType, ReplyType
  <2>4. WorkType'
    BY <1>0, <1>1, WaitingSubs DEF Start, WorkType, JournalType
  <2> QED BY <2>2, <2>3, <2>4, TypePartsNext
<1>2. ASSUME StartFailed PROVE TypeInv'
  <2>1. Abandon(disk) \in Journals
    BY <1>0, JournalOps DEF JournalType
  <2>2. JournalType'
    BY <1>0, <1>2, <2>1 DEF StartFailed, JournalType
  <2>3. OwnerType' /\ ChannelType' /\ HostType' /\ ReplyType' /\ WorkType'
    BY <1>0, <1>2 DEF StartFailed, OwnerType, ChannelType, HostType, ReplyType, WorkType
  <2> QED BY <2>2, <2>3, TypePartsNext
<1>3. ASSUME CloseIfIdle PROVE TypeInv'
  <2>1. JournalType' /\ OwnerType' /\ HostType' /\ ReplyType' /\ WorkType'
    BY <1>0, <1>3 DEF CloseIfIdle, JournalType, OwnerType, HostType, ReplyType, WorkType
  <2>2. <<Close>> \in Seq(Subs \cup {Close}) /\ DOMAIN <<Close>> = {1} /\ <<Close>>[1] = Close
    OBVIOUS
  <2>3. ChannelType'
    BY <1>0, <1>3, <2>2 DEF CloseIfIdle, ChannelType, HostType, Close
  <2> QED BY <2>1, <2>3, TypePartsNext
<1>4. ASSUME NEW t \in Turns, NEW spoken \in BOOLEAN, Enqueue(t, spoken) PROVE TypeInv'
  <2> DEFINE n == nSubs + 1
             m == [mem EXCEPT !.queued = Append(@, n)]
  <2>1. n \in Subs /\ n \in Nat /\ n > nSubs /\ nSubs' = n
    BY <1>0, <1>4 DEF Enqueue, HostType, Subs
  <2>2. m \in Journals
    BY <1>0, <2>1, JournalOps DEF JournalType
  <2>3. mem' = m /\ (Persisted(m) \/ PersistFailed(m))
    BY <1>4 DEF Enqueue
  <2>4. JournalType'
    BY <1>0, <2>2, <2>3, PersistType DEF JournalType
  <2>5. OwnerType' /\ WorkType'
    BY <1>0, <1>4, <2>1 DEF Enqueue, OwnerType, WorkType, HostType
  <2>6. HostType'
    <3>1. turnOf' = [turnOf EXCEPT ![n] = t] /\ turnOf' \in [Subs -> Turns \cup {NoTurn}]
      BY <1>0, <1>4, <2>1 DEF Enqueue, HostType
    <3>2. auth' \in [Subs -> {"none", "waiting", "granted", "dropped"}]
      BY <1>0, <1>4, <2>1 DEF Enqueue, HostType
    <3>3. \A i \in Subs : i <= n => turnOf'[i] \in Turns
      <4> TAKE i \in Subs
      <4>1. CASE i = n
        BY <1>0, <3>1, <4>1 DEF HostType
      <4>2. CASE i # n
        BY <1>0, <2>1, <3>1, <4>2 DEF HostType, Subs
      <4> QED BY <4>1, <4>2
    <3> QED BY <2>1, <3>1, <3>2, <3>3 DEF HostType, Subs
  <2>7. ReplyType'
    BY <1>0, <1>4, <2>1 DEF Enqueue, ReplyType
  <2>8. ChannelType'
    <3>1. chan \in Seq(Subs \cup {Close}) /\ closing' \in BOOLEAN
          /\ \A k \in DOMAIN chan : chan[k] <= nSubs
      BY <1>0, <1>4 DEF Enqueue, ChannelType
    <3>2. CASE chan' = chan
      <4>1. \A k \in DOMAIN chan : chan[k] \in Nat
        BY <3>1 DEF Subs, Close
      <4> QED BY <1>0, <2>1, <3>1, <3>2, <4>1 DEF ChannelType, HostType
    <3>3. CASE chan' = Append(chan, n)
      <4>1. \A k \in DOMAIN chan : chan[k] \in Nat
        BY <3>1 DEF Subs, Close
      <4>2. chan' \in Seq(Subs \cup {Close})
        BY <2>1, <3>1, <3>3
      <4>3. ASSUME NEW k \in DOMAIN chan' PROVE chan'[k] <= n
        <5>1. k \in 1..(Len(chan) + 1) /\ Len(chan) \in Nat
          BY <2>1, <3>1, <3>3, <4>3
        <5>2. CASE k = Len(chan) + 1
          BY <2>1, <3>1, <3>3, <5>1, <5>2
        <5>3. CASE k # Len(chan) + 1
          <6>1. k \in DOMAIN chan /\ chan'[k] = chan[k]
            BY <2>1, <3>1, <3>3, <5>1, <5>3
          <6> QED BY <1>0, <2>1, <3>1, <4>1, <6>1 DEF HostType
        <5> QED BY <5>2, <5>3
      <4> QED BY <2>1, <3>1, <4>2, <4>3 DEF ChannelType
    <3> QED BY <1>4, <3>2, <3>3 DEF Enqueue
  <2> QED BY <2>4, <2>5, <2>6, <2>7, <2>8, TypePartsNext
<1>5. ASSUME NEW n \in Subs, Authorize(n) \/ DropCandidate(n) PROVE TypeInv'
  <2>1. JournalType' /\ OwnerType' /\ ChannelType' /\ ReplyType' /\ WorkType'
    BY <1>0, <1>5 DEF Authorize, DropCandidate, JournalType, OwnerType, ChannelType,
                      ReplyType, WorkType
  <2>2. HostType'
    BY <1>0, <1>5 DEF Authorize, DropCandidate, HostType
  <2> QED BY <2>1, <2>2, TypePartsNext
<1>6. ASSUME OwnerClose PROVE TypeInv'
  <2>1. JournalType' /\ HostType' /\ ReplyType' /\ WorkType'
    BY <1>0, <1>6 DEF OwnerClose, JournalType, HostType, ReplyType, WorkType
  <2>2. OwnerType' /\ ChannelType'
    BY <1>0, <1>6 DEF OwnerClose, OwnerType, ChannelType
  <2> QED BY <2>1, <2>2, TypePartsNext
<1>7. ASSUME OwnerRecv PROVE TypeInv'
  <2>1. JournalType' /\ HostType' /\ WorkType'
    BY <1>0, <1>7 DEF OwnerRecv, JournalType, HostType, WorkType
  <2>2. /\ Head(chan) \in Subs /\ Head(chan) <= nSubs
        /\ Tail(chan) \in Seq(Subs \cup {Close})
        /\ \A k \in DOMAIN Tail(chan) : Tail(chan)[k] <= nSubs
    <3>1. chan \in Seq(Subs \cup {Close}) /\ chan # <<>> /\ Head(chan) # Close
      BY <1>0, <1>7 DEF OwnerRecv, ChannelType
    <3>2. Head(chan) = chan[1] /\ 1 \in DOMAIN chan
      BY <3>1
    <3>3. Tail(chan) \in Seq(Subs \cup {Close}) /\ Head(chan) \in Subs \cup {Close}
      BY <3>1
    <3>4. \A k \in DOMAIN Tail(chan) : k + 1 \in DOMAIN chan /\ Tail(chan)[k] = chan[k + 1]
      BY <3>1
    <3> QED BY <1>0, <3>1, <3>2, <3>3, <3>4 DEF ChannelType
  <2>3. ChannelType'
    BY <1>0, <1>7, <2>2 DEF OwnerRecv, ChannelType
  <2>4. ReplyType'
    BY <1>0, <1>7, <2>2 DEF OwnerRecv, ReplyType
  <2>5. OwnerType'
    <3>1. nSubs' = nSubs /\ nSubs \in Nat /\ Head(chan) \in 0..nSubs /\ Head(chan) # 0
      BY <1>0, <1>7, <2>2 DEF OwnerRecv, HostType, Subs
    <3>2. CASE gate
      BY <1>0, <1>7, <3>1, <3>2 DEF OwnerRecv, OwnerType
    <3>3. CASE ~gate
      BY <1>0, <1>7, <3>1, <3>3 DEF OwnerRecv, OwnerType
    <3> QED BY <3>2, <3>3
  <2> QED BY <2>1, <2>3, <2>4, <2>5, TypePartsNext
<1>8. ASSUME OwnerAuthorized PROVE TypeInv'
  <2>1. JournalType' /\ ChannelType' /\ HostType' /\ ReplyType' /\ WorkType'
    BY <1>0, <1>8 DEF OwnerAuthorized, JournalType, ChannelType, HostType, ReplyType, WorkType
  <2>2. OwnerType'
    BY <1>0, <1>8 DEF OwnerAuthorized, OwnerType
  <2> QED BY <2>1, <2>2, TypePartsNext
<1>9. ASSUME OwnerRejected \/ OwnerUnprepared \/ OwnerLeaseRefused
      PROVE TypeInv'
  <2>1. owner \in {"authorize", "prepare"}
    BY <1>9 DEF OwnerRejected, OwnerUnprepared, OwnerLeaseRefused
  <2>2. Discard(ToAbandon, gate) \/ Discard(Answer("error"), TRUE)
    BY <1>9 DEF OwnerRejected, OwnerUnprepared, OwnerLeaseRefused
  <2>3. cur \in Subs
    BY <2>1, WorkingTurn
  <2>4. JournalType'
    <3> DEFINE m == [mem EXCEPT !.queued = Tail(@)]
    <3>1. mem.queued # <<>> => m \in Journals
      BY <1>0, JournalOps DEF JournalType
    <3>2. \/ m \in Journals /\ (Persisted(m) \/ PersistFailed(m)) /\ mem' \in {mem, m}
          \/ gate' \in {gate, TRUE} /\ UNCHANGED <<disk, mem, fails>>
      BY <2>2, <3>1 DEF Discard, IsFront
    <3>3. CASE m \in Journals /\ (Persisted(m) \/ PersistFailed(m)) /\ mem' \in {mem, m}
      BY <1>0, <3>3, PersistType DEF JournalType
    <3>4. CASE gate' \in {gate, TRUE} /\ UNCHANGED <<disk, mem, fails>>
      <4>1. gate' \in BOOLEAN
        BY <1>0, <3>4 DEF JournalType
      <4> QED BY <1>0, <3>4, <4>1 DEF JournalType
    <3> QED BY <3>2, <3>3, <3>4
  <2>5. ToAbandon \/ Answer("error")
    BY <2>2 DEF Discard
  <2>6. ChannelType' /\ HostType' /\ WorkType' /\ nSubs' = nSubs
    BY <1>0, <1>9 DEF OwnerRejected, OwnerUnprepared, OwnerLeaseRefused, ChannelType,
                      HostType, WorkType
  <2>7. OwnerType' /\ ReplyType'
    BY <1>0, <2>1, <2>3, <2>5, <2>6 DEF ToAbandon, Answer, OwnerType, ReplyType, HostType
  <2> QED BY <2>4, <2>6, <2>7, TypePartsNext
<1>10. ASSUME OwnerBegin PROVE TypeInv'
  <2>1. cur \in Subs /\ Turn \in Turns
    BY <1>10, WorkingTurn DEF OwnerBegin
  <2>2. [mem EXCEPT !.pending = Turn] \in Journals
    BY <1>0, <2>1, JournalOps DEF JournalType
  <2>3. JournalType'
    <3> DEFINE m == [mem EXCEPT !.pending = Turn]
    <3>1. \/ (Persisted(m) \/ PersistFailed(m)) /\ mem' = m
          \/ UNCHANGED journalVars
      BY <1>10 DEF OwnerBegin
    <3>2. CASE (Persisted(m) \/ PersistFailed(m)) /\ mem' = m
      BY <1>0, <2>2, <3>2, PersistType DEF JournalType
    <3>3. CASE UNCHANGED journalVars
      BY <1>0, <3>3 DEF JournalType
    <3> QED BY <3>1, <3>2, <3>3
  <2>4. ChannelType' /\ HostType' /\ ReplyType' /\ WorkType'
    BY <1>0, <1>10 DEF OwnerBegin, ChannelType, HostType, ReplyType, WorkType
  <2>5. owner' \in {"running", "abandon"} /\ cur' = cur /\ nSubs' = nSubs /\ cur # 0
    BY <1>10, <2>1 DEF OwnerBegin, Subs
  <2>6. OwnerType'
    BY <1>0, <2>5 DEF OwnerType
  <2> QED BY <2>3, <2>4, <2>6, TypePartsNext
<1>11. ASSUME OwnerRun PROVE TypeInv'
  <2>1. cur \in Subs /\ Turn \in Turns
    BY <1>11, WorkingTurn DEF OwnerRun
  <2>2. JournalType' /\ ChannelType' /\ HostType' /\ ReplyType'
    BY <1>0, <1>11 DEF OwnerRun, JournalType, ChannelType, HostType, ReplyType
  <2>3. OwnerType'
    BY <1>0, <1>11 DEF OwnerRun, OwnerType
  <2>4. WorkType'
    BY <1>0, <1>11, <2>1 DEF OwnerRun, WorkType
  <2> QED BY <2>2, <2>3, <2>4, TypePartsNext
<1>12. ASSUME OwnerDeliver \/ OwnerTurnFails PROVE TypeInv'
  <2>1. cur \in Subs /\ Turn \in Turns
    BY <1>12, WorkingTurn DEF OwnerDeliver, OwnerTurnFails
  <2>2. JournalType' /\ ChannelType' /\ HostType' /\ ReplyType'
    BY <1>0, <1>12 DEF OwnerDeliver, OwnerTurnFails, JournalType, ChannelType, HostType, ReplyType
  <2>3. OwnerType'
    BY <1>0, <1>12 DEF OwnerDeliver, OwnerTurnFails, OwnerType
  <2>4. WorkType'
    BY <1>0, <1>12, <2>1 DEF OwnerDeliver, OwnerTurnFails, WorkType
  <2> QED BY <2>2, <2>3, <2>4, TypePartsNext
<1>13. ASSUME OwnerComplete PROVE TypeInv'
  <2>1. cur \in Subs /\ Turn \in Turns
    BY <1>13, WorkingTurn DEF OwnerComplete
  <2> DEFINE m == [mem EXCEPT !.queued = Tail(@), !.pending = NoTurn,
                              !.completed = @ \cup {Turn}]
             f == [mem EXCEPT !.completed = @ \cup {Turn}]
  <2>2. f \in Journals /\ (mem.queued # <<>> => m \in Journals)
    BY <1>0, <2>1, JournalOps DEF JournalType
  <2>3. JournalType'
    <3>1. \/ m \in Journals /\ (Persisted(m) \/ PersistFailed(m)) /\ mem' \in {f, m}
          \/ UNCHANGED journalVars
      BY <1>13, <2>2 DEF OwnerComplete, IsFront
    <3>2. CASE m \in Journals /\ (Persisted(m) \/ PersistFailed(m)) /\ mem' \in {f, m}
      BY <1>0, <2>2, <3>2, PersistType DEF JournalType
    <3>3. CASE UNCHANGED journalVars
      BY <1>0, <3>3 DEF JournalType
    <3> QED BY <3>1, <3>2, <3>3
  <2>4. ChannelType' /\ HostType' /\ WorkType' /\ nSubs' = nSubs
    BY <1>0, <1>13 DEF OwnerComplete, ChannelType, HostType, WorkType
  <2>5. ToAbandon \/ Answer("answered")
    BY <1>13 DEF OwnerComplete
  <2>6. OwnerType' /\ ReplyType'
    BY <1>0, <2>1, <2>4, <2>5 DEF ToAbandon, Answer, OwnerType, ReplyType, HostType, Subs
  <2> QED BY <2>3, <2>4, <2>6, TypePartsNext
<1>14. ASSUME OwnerAbandon PROVE TypeInv'
  <2>1. cur \in Subs
    BY <1>14, WorkingTurn DEF OwnerAbandon
  <2>2. Abandon(mem) \in Journals /\ Waiting(mem) \subseteq Subs
    BY <1>0, JournalOps, WaitingSubs DEF JournalType
  <2>3. JournalType'
    <3> DEFINE m == Abandon(mem)
    <3>1. \/ (Persisted(m) \/ PersistFailed(m)) /\ mem' \in {mem, m}
          \/ UNCHANGED journalVars
      BY <1>14 DEF OwnerAbandon
    <3>2. CASE (Persisted(m) \/ PersistFailed(m)) /\ mem' \in {mem, m}
      BY <1>0, <2>2, <3>2, PersistType DEF JournalType
    <3>3. CASE UNCHANGED journalVars
      BY <1>0, <3>3 DEF JournalType
    <3> QED BY <3>1, <3>2, <3>3
  <2>4. ChannelType' /\ HostType' /\ nSubs' = nSubs
    BY <1>0, <1>14 DEF OwnerAbandon, ChannelType, HostType
  <2>5. WorkType'
    BY <1>0, <1>14, <2>2 DEF OwnerAbandon, WorkType
  <2>6. OwnerType' /\ ReplyType'
    BY <1>0, <1>14, <2>1, <2>4 DEF OwnerAbandon, Answer, OwnerType, ReplyType, HostType
  <2> QED BY <2>3, <2>4, <2>5, <2>6, TypePartsNext
<1>15. ASSUME Crash PROVE TypeInv'
  <2>1. EmptyJournal \in Journals
    BY DEF EmptyJournal, Journals
  <2>2. JournalType'
    BY <1>0, <1>15, <2>1 DEF Crash, JournalType
  <2>3. OwnerType' /\ ChannelType'
    <3>1. <<>> \in Seq(Subs \cup {Close}) /\ DOMAIN <<>> = {}
      OBVIOUS
    <3>2. closing' \in BOOLEAN
      BY <1>15 DEF Crash
    <3> QED BY <1>0, <1>15, <3>1, <3>2 DEF Crash, OwnerType, ChannelType, HostType
  <2>4. HostType'
    BY <1>0, <1>15 DEF Crash, HostType
  <2>5. ReplyType'
    BY <1>0, <1>15 DEF Crash, ReplyType
  <2>6. WorkType'
    BY <1>0, <1>15 DEF Crash, WorkType
  <2> QED BY <2>2, <2>3, <2>4, <2>5, <2>6, TypePartsNext
<1>16. ASSUME UNCHANGED vars PROVE TypeInv'
  BY <1>0, <1>16, TypePartsNext DEF vars, JournalType, OwnerType, ChannelType, HostType,
     ReplyType, WorkType
<1> QED BY <1>1, <1>2, <1>3, <1>4, <1>5, <1>6, <1>7, <1>8, <1>9, <1>10, <1>11,
           <1>12, <1>13, <1>14, <1>15, <1>16 DEF Next, Host, Owner
-----------------------------------------------------------------------------
\* Every step runs a turn's effects only once, under a receipt, and takes no
\* resolved identity out of the file.
LEMMA OnceStep == OnceInv /\ [Next]_vars => OnceCore' /\ ResolvedStays
<1> SUFFICES ASSUME OnceInv, [Next]_vars PROVE OnceCore' /\ ResolvedStays
  OBVIOUS
<1> USE ConsultationAssumption DEF journalVars, ownerVars, hostVars, effectVars
<1>0. /\ TypeInv /\ OnceCore /\ disk \in Journals /\ mem \in Journals
      /\ effects \in [Turns -> Nat] /\ cur \in 0..nSubs /\ nSubs \in 0..MaxSubs
      /\ (cur = 0 <=> owner \in {"down", "idle"})
      /\ turnOf \in [Subs -> Turns \cup {NoTurn}]
  BY DEF OnceInv, TypeInv, TypeOK
<1>1. ASSUME Start PROVE OnceCore' /\ ResolvedStays
  <2>1. disk' \in {disk, Abandon(disk)} /\ mem' = disk' /\ owner' = "idle" /\ effects' = effects
    BY <1>1 DEF Start
  <2>2. Covers(disk)' /\ ResolvedStays
    BY <1>0, <2>1, AbandonCovers, JournalFields DEF OnceCore, Covers, Resolved, ResolvedStays
  <2>3. Covers(mem)'
    BY <2>1, <2>2 DEF Covers, Resolved
  <2>4. EffectsAtMostOnce' /\ ReceiptBeforeEffects' /\ KnowsDisk' /\ FirstRun'
    BY <1>0, <2>1 DEF OnceCore, EffectsAtMostOnce, ReceiptBeforeEffects, KnowsDisk, FirstRun
  <2> QED BY <2>2, <2>3, <2>4 DEF OnceCore
<1>2. ASSUME StartFailed PROVE OnceCore' /\ ResolvedStays
  <2>1. disk' \in {disk, Abandon(disk)} /\ owner = "down" /\ owner' = owner /\ effects' = effects
    BY <1>2 DEF StartFailed
  <2>2. Covers(disk)' /\ ResolvedStays
    BY <1>0, <2>1, AbandonCovers, JournalFields DEF OnceCore, Covers, Resolved, ResolvedStays
  <2> QED BY <1>0, <2>1, <2>2 DEF OnceCore, EffectsAtMostOnce, ReceiptBeforeEffects,
                                  KnowsDisk, FirstRun
<1>3. ASSUME UNCHANGED <<disk, mem, gate, effects, turnOf>>,
             \/ UNCHANGED <<owner, cur>>
             \/ owner' = "down"
             \/ owner = "idle" /\ ~gate /\ owner' \in {"prepare", "authorize"}
             \/ owner \notin {"down", "idle"} /\ owner' \in {"prepare", "abandon"}
             \/ owner = "ran" /\ cur' = cur /\ owner' = "delivered"
      PROVE  OnceCore' /\ ResolvedStays
  <2>1. Covers(disk)' = Covers(disk) /\ Covers(mem)' = Covers(mem) /\ ResolvedStays
    BY <1>3 DEF Covers, Resolved, ResolvedStays
  <2>2. EffectsAtMostOnce' /\ ReceiptBeforeEffects' /\ FirstRun'
    BY <1>0, <1>3 DEF OnceCore, EffectsAtMostOnce, ReceiptBeforeEffects, FirstRun, Turn
  <2>3. KnowsDisk'
    BY <1>0, <1>3 DEF OnceCore, KnowsDisk
  <2>4. owner' # "down" => owner # "down"
    BY <1>3
  <2> QED BY <1>0, <2>1, <2>2, <2>3, <2>4 DEF OnceCore
<1>4. ASSUME NEW t \in Turns, NEW spoken \in BOOLEAN, Enqueue(t, spoken)
      PROVE  OnceCore' /\ ResolvedStays
  <2> DEFINE n == nSubs + 1
             m == [mem EXCEPT !.queued = Append(@, n)]
  <2>1. n \in Subs
    BY <1>0, <1>4 DEF Enqueue, Subs
  <2>2. m.completed = mem.completed /\ m.abandoned = mem.abandoned /\ m.pending = mem.pending
    BY <1>0, <2>1, JournalFields
  <2>3. /\ mem' = m /\ disk' \in {disk, m} /\ owner' = owner /\ cur' = cur
        /\ effects' = effects /\ ~gate /\ owner # "down"
        /\ turnOf' = [turnOf EXCEPT ![n] = t]
    BY <1>4 DEF Enqueue, Persisted, PersistFailed
  <2>4. owner \notin {"down", "idle"} => Turn' = Turn
    BY <1>0, <2>1, <2>3 DEF Turn, Subs
  <2>5. Covers(disk)' /\ Covers(mem)'
    BY <1>0, <2>2, <2>3 DEF OnceCore, Covers, Resolved
  <2>6. disk.completed \subseteq mem.completed /\ disk.abandoned \subseteq mem.abandoned
    BY <1>0, <2>3 DEF OnceCore, KnowsDisk
  <2>7. ResolvedStays /\ KnowsDisk'
    BY <2>2, <2>3, <2>6 DEF ResolvedStays, KnowsDisk
  <2>8. EffectsAtMostOnce' /\ ReceiptBeforeEffects' /\ FirstRun'
    BY <1>0, <2>2, <2>3, <2>4 DEF OnceCore, EffectsAtMostOnce, ReceiptBeforeEffects, FirstRun
  <2> QED BY <2>5, <2>7, <2>8 DEF OnceCore
<1>5. ASSUME OwnerRejected \/ OwnerUnprepared \/ OwnerLeaseRefused
      PROVE  OnceCore' /\ ResolvedStays
  <2> DEFINE m == [mem EXCEPT !.queued = Tail(@)]
  <2>1. m.completed = mem.completed /\ m.abandoned = mem.abandoned /\ m.pending = mem.pending
    BY <1>0, JournalFields
  <2>2. Discard(ToAbandon, gate) \/ Discard(Answer("error"), TRUE)
    BY <1>5 DEF OwnerRejected, OwnerUnprepared, OwnerLeaseRefused
  <2>3. /\ mem' \in {mem, m} /\ disk' \in {disk, m}
        /\ owner' \in {"idle", "abandon"}
    BY <2>2 DEF Discard, Persisted, PersistFailed, ToAbandon, Answer
  <2>4. effects' = effects /\ owner \in {"authorize", "prepare"}
    BY <1>5 DEF OwnerRejected, OwnerUnprepared, OwnerLeaseRefused
  <2>5. Covers(disk)' /\ Covers(mem)'
    BY <1>0, <2>1, <2>3, <2>4 DEF OnceCore, Covers, Resolved
  <2>6. disk.completed \subseteq mem.completed /\ disk.abandoned \subseteq mem.abandoned
    BY <1>0, <2>4 DEF OnceCore, KnowsDisk
  <2>7. ResolvedStays /\ KnowsDisk'
    BY <2>1, <2>3, <2>6 DEF ResolvedStays, KnowsDisk
  <2>8. EffectsAtMostOnce' /\ ReceiptBeforeEffects' /\ FirstRun'
    BY <1>0, <2>3, <2>4 DEF OnceCore, EffectsAtMostOnce, ReceiptBeforeEffects, FirstRun
  <2> QED BY <2>5, <2>7, <2>8 DEF OnceCore
<1>6. ASSUME OwnerBegin PROVE OnceCore' /\ ResolvedStays
  <2> DEFINE m == [mem EXCEPT !.pending = Turn]
             may == /\ ~gate /\ mem.pending = NoTurn
                    /\ Turn \notin mem.completed \cup mem.abandoned
                    /\ IsFront(mem, Turn)
  <2>1. owner = "prepare" /\ Turn \in Turns /\ effects' = effects /\ Turn' = Turn
    BY <1>0, <1>6, WorkingTurn DEF OwnerBegin, Turn
  <2>2. m.completed = mem.completed /\ m.abandoned = mem.abandoned /\ m.pending = Turn
    BY <1>0, <2>1, JournalFields
  <2>3. disk.completed \subseteq mem.completed /\ disk.abandoned \subseteq mem.abandoned
    BY <1>0, <2>1 DEF OnceCore, KnowsDisk
  <2>4. EffectsAtMostOnce'
    BY <1>0, <2>1 DEF OnceCore, EffectsAtMostOnce
  <2>5. CASE /\ may /\ mem' = m /\ disk' \in {disk, m}
             /\ owner' = "abandon" \/ (owner' = "running" /\ disk' = m)
    <3>1. Covers(disk)' /\ Covers(mem)' /\ effects[Turn] = 0
      BY <1>0, <2>1, <2>2, <2>5 DEF OnceCore, Covers, Resolved
    <3>2. ResolvedStays /\ KnowsDisk'
      BY <2>2, <2>3, <2>5 DEF ResolvedStays, KnowsDisk
    <3>3. ReceiptBeforeEffects' /\ FirstRun'
      BY <2>1, <2>2, <2>5, <3>1 DEF ReceiptBeforeEffects, FirstRun
    <3> QED BY <2>4, <3>1, <3>2, <3>3 DEF OnceCore
  <2>6. CASE owner' = "abandon" /\ UNCHANGED <<disk, mem>>
    <3>1. Covers(disk)' /\ Covers(mem)' /\ ResolvedStays
      BY <1>0, <2>1, <2>6 DEF OnceCore, Covers, Resolved, ResolvedStays
    <3>2. KnowsDisk' /\ ReceiptBeforeEffects' /\ FirstRun'
      BY <2>3, <2>6 DEF KnowsDisk, ReceiptBeforeEffects, FirstRun
    <3> QED BY <2>4, <3>1, <3>2 DEF OnceCore
  <2>7. \/ may /\ mem' = m /\ Persisted(m) /\ owner' = "running"
        \/ may /\ mem' = m /\ PersistFailed(m) /\ owner' = "abandon"
        \/ owner' = "abandon" /\ UNCHANGED journalVars
    BY <1>6 DEF OwnerBegin
  <2>8. (Persisted(m) => disk' = m) /\ (PersistFailed(m) => disk' \in {disk, m})
    BY DEF Persisted, PersistFailed
  <2> HIDE DEF m, may
  <2>9. CASE may /\ mem' = m /\ Persisted(m) /\ owner' = "running"
    BY <2>5, <2>8, <2>9
  <2>10. CASE may /\ mem' = m /\ PersistFailed(m) /\ owner' = "abandon"
    BY <2>5, <2>8, <2>10
  <2>11. CASE owner' = "abandon" /\ UNCHANGED journalVars
    BY <2>6, <2>11
  <2> QED BY <2>7, <2>9, <2>10, <2>11
<1>7. ASSUME OwnerRun PROVE OnceCore' /\ ResolvedStays
  <2>1. Turn \in Turns /\ Turn' = Turn
    BY <1>7, <1>0, WorkingTurn DEF OwnerRun, Turn
  <2>2. /\ effects[Turn] = 0 /\ disk.pending = Turn /\ mem.pending = Turn
        /\ owner = "running" /\ owner' = "ran"
        /\ effects' = [effects EXCEPT ![Turn] = 1]
        /\ UNCHANGED <<disk, mem, gate>>
    <3>1. effects[Turn] = 0 /\ disk.pending = Turn /\ mem.pending = Turn
      BY <1>0, <1>7 DEF OnceCore, FirstRun, ReceiptBeforeEffects, OwnerRun
    <3>2. effects' = [effects EXCEPT ![Turn] = effects[Turn] + 1]
      BY <1>7 DEF OwnerRun
    <3>3. effects' = [effects EXCEPT ![Turn] = 1]
      BY <3>1, <3>2
    <3> QED BY <1>7, <3>1, <3>3 DEF OwnerRun
  <2>3. EffectsAtMostOnce'
    BY <1>0, <2>2 DEF OnceCore, EffectsAtMostOnce
  <2>4. Covers(disk)' /\ Covers(mem)'
    BY <1>0, <2>2 DEF OnceCore, Covers, Resolved
  <2>5. ResolvedStays /\ KnowsDisk' /\ ReceiptBeforeEffects' /\ FirstRun'
    BY <1>0, <2>1, <2>2 DEF OnceCore, ResolvedStays, KnowsDisk, ReceiptBeforeEffects, FirstRun
  <2> QED BY <2>3, <2>4, <2>5 DEF OnceCore
<1>8. ASSUME OwnerComplete PROVE OnceCore' /\ ResolvedStays
  <2> DEFINE m == [mem EXCEPT !.queued = Tail(@), !.pending = NoTurn,
                              !.completed = @ \cup {Turn}]
             f == [mem EXCEPT !.completed = @ \cup {Turn}]
  <2>1. owner = "delivered" /\ Turn \in Turns /\ effects' = effects
    BY <1>0, <1>8, WorkingTurn DEF OwnerComplete
  <2>2. /\ m.completed = mem.completed \cup {Turn} /\ m.abandoned = mem.abandoned
        /\ f.completed = mem.completed \cup {Turn} /\ f.abandoned = mem.abandoned
        /\ f.pending = mem.pending
    BY <1>0, <2>1, JournalFields
  <2>3. /\ disk.completed \subseteq mem.completed /\ disk.abandoned \subseteq mem.abandoned
        /\ mem.pending = Turn
    BY <1>0, <2>1 DEF OnceCore, KnowsDisk, ReceiptBeforeEffects
  <2>4. owner' \in {"idle", "abandon"}
        /\ \/ UNCHANGED <<disk, mem>>
           \/ mem' = m /\ disk' = m
           \/ mem' = f /\ disk' \in {disk, m}
    BY <1>8 DEF OwnerComplete, Persisted, PersistFailed, Answer, ToAbandon
  <2>5. Covers(disk)' /\ Covers(mem)'
    BY <1>0, <2>1, <2>2, <2>3, <2>4 DEF OnceCore, Covers, Resolved
  <2>6. ResolvedStays /\ KnowsDisk'
    BY <2>2, <2>3, <2>4 DEF ResolvedStays, KnowsDisk
  <2>7. EffectsAtMostOnce' /\ ReceiptBeforeEffects' /\ FirstRun'
    BY <1>0, <2>1, <2>4 DEF OnceCore, EffectsAtMostOnce, ReceiptBeforeEffects, FirstRun
  <2> QED BY <2>5, <2>6, <2>7 DEF OnceCore
<1>9. ASSUME OwnerAbandon PROVE OnceCore' /\ ResolvedStays
  <2> DEFINE m == Abandon(mem)
  <2>1. owner = "abandon" /\ owner' = "idle" /\ effects' = effects
    BY <1>9 DEF OwnerAbandon, Answer
  <2>2. /\ disk.completed \subseteq mem.completed /\ disk.abandoned \subseteq mem.abandoned
        /\ Covers(mem) /\ Covers(disk)
    BY <1>0, <2>1 DEF OnceCore, KnowsDisk
  <2>3. /\ m.completed = mem.completed /\ mem.abandoned \subseteq m.abandoned
        /\ Covers(m)
    BY <1>0, <2>2, JournalFields, AbandonCovers
  <2>4. \/ UNCHANGED <<disk, mem>>
        \/ mem' = m /\ disk' = m
        \/ mem' = mem /\ disk' \in {disk, m} /\ gate' = TRUE
    BY <1>9 DEF OwnerAbandon, Persisted, PersistFailed
  <2>5. Covers(disk)' /\ Covers(mem)'
    BY <2>1, <2>2, <2>3, <2>4 DEF Covers, Resolved
  <2>6. ResolvedStays
    BY <2>2, <2>3, <2>4 DEF ResolvedStays
  <2>7. KnowsDisk'
    BY <2>1, <2>2, <2>3, <2>4 DEF KnowsDisk
  <2>8. EffectsAtMostOnce' /\ ReceiptBeforeEffects' /\ FirstRun'
    BY <1>0, <2>1 DEF OnceCore, EffectsAtMostOnce, ReceiptBeforeEffects, FirstRun
  <2> QED BY <2>5, <2>6, <2>7, <2>8 DEF OnceCore
<1>10. ASSUME Crash PROVE OnceCore' /\ ResolvedStays
  <2>1. owner' = "down" /\ disk' = disk /\ effects' = effects
    BY <1>10 DEF Crash
  <2> QED BY <1>0, <2>1 DEF OnceCore, EffectsAtMostOnce, ReceiptBeforeEffects, KnowsDisk,
                            FirstRun, Covers, Resolved, ResolvedStays
<1>11. ASSUME CloseIfIdle \/ (\E n \in Subs : Authorize(n) \/ DropCandidate(n))
              \/ UNCHANGED vars
       PROVE  OnceCore' /\ ResolvedStays
  <2>1. UNCHANGED <<disk, mem, gate, effects, turnOf, owner, cur>>
    BY <1>11 DEF CloseIfIdle, Authorize, DropCandidate, vars
  <2> QED BY <1>3, <2>1
<1>12. ASSUME OwnerClose PROVE OnceCore' /\ ResolvedStays
  <2>1. UNCHANGED <<disk, mem, gate, effects, turnOf>> /\ owner' = "down"
    BY <1>12 DEF OwnerClose
  <2> QED BY <1>3, <2>1
<1>13. ASSUME OwnerRecv PROVE OnceCore' /\ ResolvedStays
  <2>1. /\ UNCHANGED <<disk, mem, gate, effects, turnOf>>
        /\ \/ UNCHANGED <<owner, cur>>
           \/ owner = "idle" /\ ~gate /\ owner' \in {"prepare", "authorize"}
    BY <1>13 DEF OwnerRecv
  <2> QED BY <1>3, <2>1
<1>14. ASSUME OwnerAuthorized \/ OwnerTurnFails PROVE OnceCore' /\ ResolvedStays
  <2>1. /\ UNCHANGED <<disk, mem, gate, effects, turnOf>>
        /\ owner \notin {"down", "idle"} /\ owner' \in {"prepare", "abandon"}
    BY <1>14 DEF OwnerAuthorized, OwnerTurnFails
  <2> QED BY <1>3, <2>1
<1>15. ASSUME OwnerDeliver PROVE OnceCore' /\ ResolvedStays
  <2>1. /\ UNCHANGED <<disk, mem, gate, effects, turnOf>>
        /\ owner = "ran" /\ cur' = cur /\ owner' = "delivered"
    BY <1>15 DEF OwnerDeliver
  <2> QED BY <1>3, <2>1
<1> QED BY <1>1, <1>2, <1>4, <1>5, <1>6, <1>7, <1>8, <1>9, <1>10, <1>11,
           <1>12, <1>13, <1>14, <1>15 DEF Next, Host, Owner

-----------------------------------------------------------------------------
\* OnceInv holds in every reachable state.
THEOREM OnceAlways == Spec => []OnceInv
<1>1. OnceInv /\ [Next]_vars => OnceInv'
  BY TypeStep, OnceStep DEF OnceInv
<1> QED BY OnceInit, <1>1, PTL DEF Spec

\* Every variable of the consultation has its type, for any constants.
THEOREM ConsultationTyped == Spec => []TypeOK
<1>1. OnceInv => TypeOK
  BY DEF OnceInv, TypeInv
<1> QED BY OnceAlways, <1>1, PTL

\* Resubmissions, crashes and failed writes never run a turn's provider and
\* tool work twice (run_owner and the admission journal's begin and complete).
THEOREM EffectsOnce == Spec => []EffectsAtMostOnce
<1>1. OnceInv => EffectsAtMostOnce
  BY DEF OnceInv, OnceCore
<1> QED BY OnceAlways, <1>1, PTL

\* The before-effects receipt of begin is in the file whenever the work of a
\* turn may run.
THEOREM ReceiptFirst == Spec => []ReceiptBeforeEffects
<1>1. OnceInv => ReceiptBeforeEffects
  BY DEF OnceInv, OnceCore
<1> QED BY OnceAlways, <1>1, PTL

\* No write of persist, landed or uncertain, takes a completed or abandoned
\* identity back out of the file.
THEOREM ResolvedKept == Spec => ResolvedForLife
<1>1. OnceInv /\ [Next]_vars => [ResolvedStays]_vars
  BY OnceStep
<1> QED BY OnceAlways, <1>1, PTL DEF Spec, ResolvedForLife
=============================================================================
