--------------------------- MODULE AgentTurnsProofs -------------------------
(***************************************************************************)
(* Proofs about AgentTurns, for any number of turns, round-trips, calls    *)
(* and presses of Stop: its types, that a cancelled turn leaves nothing in *)
(* the history, that calls and results pair up, that the conversation on   *)
(* disk only grows, that every turn announces its outcome, and that a      *)
(* request with the chain's responses is the whole history.                *)
(*                                                                         *)
(* The types and the chain are proved action by action.  The three         *)
(* invariants of the history are proved over HistoryStep, the seven ways   *)
(* in which a step touches it.                                             *)
(***************************************************************************)
EXTENDS AgentTurns, SequenceTheorems, WellFoundedInduction, TLAPS

Events == {"clean", "dirty", "error"}

\* A turn that runs has begun, and runs a tool only if there is one.
Shape ==
    /\ pc # "idle" => turns >= 1
    /\ pc = "tools" => todo # <<>>

\* TypeOK by the part of the state it is about.
HistoryTyped ==
    /\ messages \in Seq(Items) /\ disk \in Seq(Items) /\ todo \in Seq(Items)

ChainTyped ==
    /\ thread \in Ids /\ chain \in Ids
    /\ lapses \subseteq Lapses
    /\ late \subseteq (1..MaxTurns) \X Ids

BeforeTyped ==
    before \in [messages : Seq(Items), thread : Ids, chain : Ids,
                lapses : SUBSET Lapses]

ServerTyped == server \in Seq(Seq(Items))

StreamTyped ==
    /\ round \in Rounds
    /\ shown \in Seq(Items)
    /\ fwd \in [script : Seq(Events), id : Ids, effect : Ids \cup {Nothing},
                lapses : SUBSET Lapses]
    /\ chan \in Seq(Events)

LoopTyped ==
    /\ pc \in {"idle", "start", "stream", "tools", "done", "err"}
    /\ attempt \in 1..2
    /\ iter \in 0..(MaxIterations - 1)
    /\ turns \in 0..MaxTurns /\ stops \in 0..MaxStops

OutcomeTyped ==
    /\ out \subseteq {"Done", "Error", "Cancelled"}
    /\ cancelled \subseteq 1..turns

FlagsTyped ==
    /\ runtime \in BOOLEAN /\ blank \in BOOLEAN /\ clean \in BOOLEAN
    /\ rejected \in BOOLEAN /\ soft \in BOOLEAN /\ uiDone \in BOOLEAN
    /\ registered \in BOOLEAN /\ flag \in BOOLEAN

\* The inductive form of TypeOK.
TInv ==
    /\ HistoryTyped /\ ChainTyped /\ BeforeTyped /\ ServerTyped /\ StreamTyped
    /\ LoopTyped /\ OutcomeTyped /\ FlagsTyped /\ Shape

LEMMA TypeOKParts ==
    TypeOK <=> /\ HistoryTyped /\ ChainTyped /\ BeforeTyped /\ ServerTyped
               /\ StreamTyped /\ LoopTyped /\ OutcomeTyped /\ FlagsTyped
BY DEF TypeOK, HistoryTyped, ChainTyped, BeforeTyped, ServerTyped, StreamTyped,
       LoopTyped, OutcomeTyped, FlagsTyped, Events

-----------------------------------------------------------------------------
(* Items and sequences of them.                                            *)

LEMMA WordsTyped == ASSUME LoopTyped, Idle PROVE Words \in Items
BY AgentAssumption DEF LoopTyped, Idle, Words, Items, Kinds

LEMMA TextTyped ==
    ASSUME LoopTyped, turns >= 1, NEW r
    PROVE  TextOf(r) \in Seq(Items)
<1>1. Answer \in Items
  BY AgentAssumption DEF LoopTyped, Answer, Items, Kinds
<1> QED BY <1>1 DEF TextOf

LEMMA CallTyped ==
    ASSUME LoopTyped, turns >= 1, NEW i \in 1..MaxCalls
    PROVE  Call(i) \in Items /\ Call(i).k = "call" /\ Call(i).t = turns
BY AgentAssumption DEF LoopTyped, Call, Items, Kinds

LEMMA CallsTyped ==
    ASSUME LoopTyped, turns >= 1, NEW r \in Rounds
    PROVE  /\ ReadyCalls(r) \in Seq(Items) /\ Len(ReadyCalls(r)) = r.ready
           /\ AllCalls(r) \in Seq(Items)
           /\ \A i \in DOMAIN ReadyCalls(r) : ReadyCalls(r)[i].k = "call"
                                            /\ ReadyCalls(r)[i].t = turns
<1>1. r.ready \in 0..MaxCalls /\ r.ready + r.bare + r.bad \in 0..MaxCalls
  BY AgentAssumption DEF Rounds
<1>2. \A i \in 1..MaxCalls :
        Call(i) \in Items /\ Call(i).k = "call" /\ Call(i).t = turns
  BY CallTyped
<1> QED BY <1>1, <1>2, AgentAssumption DEF ReadyCalls, AllCalls

\* The stream that is dropped.
LEMMA NoStreamTyped ==
    /\ NoRound \in Rounds
    /\ <<>> \in Seq(Items) /\ <<>> \in Seq(Events)
    /\ 0 \in Ids => NoFwd \in [script : Seq(Events), id : Ids,
                             effect : Ids \cup {Nothing},
                             lapses : SUBSET Lapses]
<1>1. NoRound \in Rounds
  BY AgentAssumption DEF NoRound, Rounds
<1>2. <<>> \in Seq(Items) /\ <<>> \in Seq(Events)
  OBVIOUS
<1>3. ASSUME 0 \in Ids
      PROVE  NoFwd \in [script : Seq(Events), id : Ids,
                        effect : Ids \cup {Nothing}, lapses : SUBSET Lapses]
  BY <1>2, <1>3 DEF NoFwd
<1> QED BY <1>1, <1>2, <1>3

LEMMA ResultTyped ==
    ASSUME NEW c \in Items
    PROVE  /\ ResultOf(c) \in Items /\ ResultOf(c).k = "result"
           /\ ResultOf(c).t = c.t
BY DEF ResultOf, Items, Kinds

\* The trailing run begins at the least start, which exists.
LEMMA TrailingTyped ==
    ASSUME NEW m \in Seq(Items)
    PROVE  Trailing(m) \in Seq(Items)
<1> DEFINE starts == {i \in 0..Len(m) :
                        \A j \in (i + 1)..Len(m) : FromUser(m[j])}
           start == CHOOSE i \in starts : \A j \in starts : i <= j
<1>1. starts \subseteq Nat /\ Len(m) \in starts
  OBVIOUS
<1>2. \E i \in starts : \A j \in starts : <<j, i>> \notin OpToRel(<, Nat)
  <2> HIDE DEF starts
  <2> QED BY <1>1, NatLessThanWellFounded, WFMin
<1>3. \E i \in starts : \A j \in starts : i <= j
  <2>1. PICK i \in starts : \A j \in starts : <<j, i>> \notin OpToRel(<, Nat)
    BY <1>2
  <2>2. ASSUME NEW j \in starts PROVE i <= j
    <3>1. <<j, i>> \in Nat \X Nat /\ <<j, i>> \notin OpToRel(<, Nat)
      BY <1>1, <2>1
    <3> HIDE DEF starts
    <3> QED BY <3>1 DEF OpToRel
  <2> QED BY <2>2
<1>4. start \in starts
  <2> HIDE DEF starts
  <2> QED BY <1>3
<1>5. start + 1 \in Nat \ {0} /\ Len(m) \in Nat
  BY <1>4
<1>6. Trailing(m) = SubSeq(m, start + 1, Len(m))
  BY DEF Trailing
<1>7. \A i \in (start + 1)..Len(m) : m[i] \in Items
  BY <1>5
<1> HIDE DEF start
<1> QED BY <1>5, <1>6, <1>7

-----------------------------------------------------------------------------
(* Each step keeps the types.                                              *)

LEMMA BeginReusedTyped ==
    ASSUME TInv, BeginReused
    PROVE  TInv'
<1> USE AgentAssumption DEF TInv
<1>0. Ids' = Ids /\ 0 \in Ids
  BY DEF BeginReused, Ids, ServerTyped, Open
<1>1. HistoryTyped'
  BY WordsTyped DEF BeginReused, Open, Idle, HistoryTyped, loop
<1>2. ChainTyped'
  BY <1>0 DEF BeginReused, ChainTyped, conversation, link, Open
<1>3. BeforeTyped'
  BY <1>0 DEF BeginReused, BeforeTyped, past, Open, HistoryTyped, ChainTyped
<1>4. ServerTyped'
  BY <1>0 DEF BeginReused, ServerTyped, Open
<1>5. StreamTyped'
  BY <1>0 DEF BeginReused, StreamTyped, stream, Open, Events
<1>6. LoopTyped'
  BY <1>0 DEF BeginReused, LoopTyped, loop, counts, Open, Idle
<1>7. OutcomeTyped'
  BY <1>0 DEF BeginReused, OutcomeTyped, past, counts, Open, Idle, LoopTyped,
    Shape
<1>8. FlagsTyped'
  BY <1>0 DEF BeginReused, FlagsTyped, conversation, past, stream, loop,
    registry, Open
<1>9. Shape'
  BY <1>0 DEF BeginReused, Shape, loop, counts, Open, Idle, LoopTyped
<1> QED BY <1>1, <1>2, <1>3, <1>4, <1>5, <1>6, <1>7, <1>8, <1>9

LEMMA BeginRolloverTyped ==
    ASSUME TInv, BeginRollover
    PROVE  TInv'
<1> USE AgentAssumption DEF TInv
<1>0. Ids' = Ids /\ 0 \in Ids
  BY DEF BeginRollover, Ids, ServerTyped, Open
<1>1. HistoryTyped'
  BY WordsTyped DEF BeginRollover, Open, Idle, HistoryTyped, loop
<1>2. ChainTyped'
  BY <1>0 DEF BeginRollover, ChainTyped, conversation, link, Open
<1>3. BeforeTyped'
  BY <1>0 DEF BeginRollover, BeforeTyped, past, Open, HistoryTyped, ChainTyped
<1>4. ServerTyped'
  BY <1>0 DEF BeginRollover, ServerTyped, Open
<1>5. StreamTyped'
  BY <1>0 DEF BeginRollover, StreamTyped, stream, Open, Events
<1>6. LoopTyped'
  BY <1>0 DEF BeginRollover, LoopTyped, loop, counts, Open, Idle
<1>7. OutcomeTyped'
  BY <1>0 DEF BeginRollover, OutcomeTyped, past, counts, Open, Idle,
    LoopTyped, Shape
<1>8. FlagsTyped'
  BY <1>0 DEF BeginRollover, FlagsTyped, conversation, past, stream, loop,
    registry, Open
<1>9. Shape'
  BY <1>0 DEF BeginRollover, Shape, loop, counts, Open, Idle, LoopTyped
<1> QED BY <1>1, <1>2, <1>3, <1>4, <1>5, <1>6, <1>7, <1>8, <1>9

LEMMA BeginRebuiltTyped ==
    ASSUME TInv, NEW b \in BOOLEAN, BeginRebuilt(b)
    PROVE  TInv'
<1> USE AgentAssumption DEF TInv
<1>0. Ids' = Ids /\ 0 \in Ids
  BY DEF BeginRebuilt, Ids, ServerTyped, Open
<1>1. HistoryTyped'
  BY WordsTyped DEF BeginRebuilt, Open, Idle, HistoryTyped, loop
<1>2. ChainTyped'
  BY <1>0 DEF BeginRebuilt, ChainTyped, conversation, link, Open
<1>3. BeforeTyped'
  BY <1>0 DEF BeginRebuilt, BeforeTyped, past, Open, HistoryTyped, ChainTyped
<1>4. ServerTyped'
  BY <1>0 DEF BeginRebuilt, ServerTyped, Open
<1>5. StreamTyped'
  BY <1>0 DEF BeginRebuilt, StreamTyped, stream, Open, Events
<1>6. LoopTyped'
  BY <1>0 DEF BeginRebuilt, LoopTyped, loop, counts, Open, Idle
<1>7. OutcomeTyped'
  BY <1>0 DEF BeginRebuilt, OutcomeTyped, past, counts, Open, Idle, LoopTyped,
    Shape
<1>8. FlagsTyped'
  BY <1>0 DEF BeginRebuilt, FlagsTyped, conversation, past, stream, loop,
    registry, Open
<1>9. Shape'
  BY <1>0 DEF BeginRebuilt, Shape, loop, counts, Open, Idle, LoopTyped
<1> QED BY <1>1, <1>2, <1>3, <1>4, <1>5, <1>6, <1>7, <1>8, <1>9

LEMMA BeginFailsTyped ==
    ASSUME TInv, BeginFails
    PROVE  TInv'
<1> USE AgentAssumption DEF TInv
<1>0. Ids' = Ids /\ 0 \in Ids
  BY DEF BeginFails, Ids, ServerTyped
<1>1. HistoryTyped'
  BY <1>0 DEF BeginFails, HistoryTyped, conversation, loop, Dropped
<1>2. ChainTyped'
  BY <1>0 DEF BeginFails, ChainTyped, conversation, link, Dropped
<1>3. BeforeTyped'
  BY <1>0 DEF BeginFails, BeforeTyped, past, HistoryTyped, ChainTyped
<1>4. ServerTyped'
  BY <1>0 DEF BeginFails, ServerTyped
<1>5. StreamTyped'
  BY <1>0 DEF BeginFails, StreamTyped, stream, Events
<1>6. LoopTyped'
  BY <1>0 DEF BeginFails, LoopTyped, loop, counts, Idle
<1>7. OutcomeTyped'
  BY <1>0 DEF BeginFails, OutcomeTyped, past, counts, Idle, LoopTyped, Shape
<1>8. FlagsTyped'
  BY <1>0 DEF BeginFails, FlagsTyped, conversation, past, stream, loop,
    registry, Dropped
<1>9. Shape'
  BY <1>0 DEF BeginFails, Shape, loop, counts, Idle, LoopTyped
<1> QED BY <1>1, <1>2, <1>3, <1>4, <1>5, <1>6, <1>7, <1>8, <1>9

LEMMA RetargetTyped ==
    ASSUME TInv, Retarget
    PROVE  TInv'
<1> USE AgentAssumption DEF TInv
<1>0. Ids' = Ids /\ 0 \in Ids
  BY DEF Retarget, Ids, ServerTyped
<1>1. HistoryTyped'
  BY <1>0 DEF Retarget, HistoryTyped, conversation, loop, Dropped
<1>2. ChainTyped'
  BY <1>0 DEF Retarget, ChainTyped, conversation, link, Dropped
<1>3. BeforeTyped'
  BY <1>0 DEF Retarget, BeforeTyped, past, HistoryTyped, ChainTyped
<1>4. ServerTyped'
  BY <1>0 DEF Retarget, ServerTyped
<1>5. StreamTyped'
  BY <1>0 DEF Retarget, StreamTyped, stream, Events
<1>6. LoopTyped'
  BY <1>0 DEF Retarget, LoopTyped, loop, counts
<1>7. OutcomeTyped'
  BY <1>0 DEF Retarget, OutcomeTyped, past, counts, LoopTyped, Shape
<1>8. FlagsTyped'
  BY <1>0 DEF Retarget, FlagsTyped, conversation, past, stream, loop,
    registry, Dropped
<1>9. Shape'
  BY <1>0 DEF Retarget, Shape, loop, counts, LoopTyped
<1> QED BY <1>1, <1>2, <1>3, <1>4, <1>5, <1>6, <1>7, <1>8, <1>9

LEMMA EndOkTyped ==
    ASSUME TInv, NEW b \in BOOLEAN, EndOk(b)
    PROVE  TInv'
<1> USE AgentAssumption DEF TInv
<1>0. Ids' = Ids /\ 0 \in Ids
  BY DEF EndOk, Ids, ServerTyped
<1>1. HistoryTyped'
  BY <1>0 DEF EndOk, HistoryTyped, conversation, loop, Rest
<1>2. ChainTyped'
  BY <1>0 DEF EndOk, ChainTyped, conversation, link
<1>3. BeforeTyped'
  BY <1>0 DEF EndOk, BeforeTyped, past, HistoryTyped, ChainTyped
<1>4. ServerTyped'
  BY <1>0 DEF EndOk, ServerTyped
<1>5. StreamTyped'
  BY <1>0 DEF EndOk, StreamTyped, stream, Events
<1>6. LoopTyped'
  BY <1>0 DEF EndOk, LoopTyped, loop, counts, Rest
<1>7. OutcomeTyped'
  BY <1>0 DEF EndOk, OutcomeTyped, past, counts, LoopTyped, Shape
<1>8. FlagsTyped'
  BY <1>0 DEF EndOk, FlagsTyped, conversation, past, stream, loop, registry,
    Rest
<1>9. Shape'
  BY <1>0 DEF EndOk, Shape, loop, counts, Rest, LoopTyped
<1> QED BY <1>1, <1>2, <1>3, <1>4, <1>5, <1>6, <1>7, <1>8, <1>9

LEMMA EndErrTyped ==
    ASSUME TInv, NEW b \in BOOLEAN, EndErr(b)
    PROVE  TInv'
<1> USE AgentAssumption DEF TInv
<1>0. Ids' = Ids /\ 0 \in Ids
  BY DEF EndErr, Ids, ServerTyped
<1>1. HistoryTyped'
  <2>1. disk' \in Seq(Items) /\ todo' = todo
    BY DEF EndErr, HistoryTyped, loop
  <2>2. messages' = messages \/ messages' = <<>>
    BY DEF EndErr, Dropped, conversation
  <2> QED BY <2>1, <2>2, NoStreamTyped DEF HistoryTyped
<1>2. ChainTyped'
  BY <1>0 DEF EndErr, ChainTyped, Dropped, link, Lapses
<1>3. BeforeTyped'
  BY <1>0 DEF EndErr, BeforeTyped, past, HistoryTyped, ChainTyped
<1>4. ServerTyped'
  BY <1>0 DEF EndErr, ServerTyped
<1>5. StreamTyped'
  BY <1>0 DEF EndErr, StreamTyped, stream, Events
<1>6. LoopTyped'
  BY <1>0 DEF EndErr, LoopTyped, loop, counts, Rest
<1>7. OutcomeTyped'
  BY <1>0 DEF EndErr, OutcomeTyped, past, counts, Failed, LoopTyped, Shape
<1>8. FlagsTyped'
  BY <1>0 DEF EndErr, FlagsTyped, conversation, past, stream, loop, registry,
    Rest, Dropped
<1>9. Shape'
  BY <1>0 DEF EndErr, Shape, loop, counts, Rest, LoopTyped
<1> QED BY <1>1, <1>2, <1>3, <1>4, <1>5, <1>6, <1>7, <1>8, <1>9

LEMMA ReceiveErrorTyped ==
    ASSUME TInv, NEW b \in BOOLEAN, ReceiveError(b)
    PROVE  TInv'
<1> USE AgentAssumption DEF TInv
<1>0. Ids' = Ids /\ 0 \in Ids
  BY DEF ReceiveError, Ids, ServerTyped
<1>1. HistoryTyped'
  BY <1>0 DEF ReceiveError, HistoryTyped, conversation, loop
<1>2. ChainTyped'
  BY <1>0 DEF ReceiveError, ChainTyped, Unchain, Owed, Nothing, StreamTyped,
    LoopTyped, Shape, Lapses
<1>3. BeforeTyped'
  BY <1>0 DEF ReceiveError, BeforeTyped, past, HistoryTyped, ChainTyped
<1>4. ServerTyped'
  BY <1>0 DEF ReceiveError, ServerTyped
<1>5. StreamTyped'
  BY <1>0, NoStreamTyped DEF ReceiveError, StreamTyped, DropStream
<1>6. LoopTyped'
  BY <1>0 DEF ReceiveError, LoopTyped, loop, counts
<1>7. OutcomeTyped'
  BY <1>0 DEF ReceiveError, OutcomeTyped, past, counts, LoopTyped, Shape
<1>8. FlagsTyped'
  BY <1>0 DEF ReceiveError, FlagsTyped, conversation, past, stream, loop,
    registry, DropStream
<1>9. Shape'
  BY <1>0 DEF ReceiveError, Shape, loop, counts, LoopTyped
<1> QED BY <1>1, <1>2, <1>3, <1>4, <1>5, <1>6, <1>7, <1>8, <1>9

LEMMA EndsBadTyped ==
    ASSUME TInv, NEW b \in BOOLEAN, EndsBad(b)
    PROVE  TInv'
<1> USE AgentAssumption DEF TInv
<1>0. Ids' = Ids /\ 0 \in Ids
  BY DEF EndsBad, Ids, ServerTyped
<1>1. HistoryTyped'
  <2>1. TextOf(round) \in Seq(Items)
    BY TextTyped DEF EndsBad, Closed, Shape
  <2> QED BY <2>1 DEF EndsBad, HistoryTyped
<1>2. ChainTyped'
  BY <1>0 DEF EndsBad, ChainTyped, Lapses
<1>3. BeforeTyped'
  BY <1>0 DEF EndsBad, BeforeTyped, past, HistoryTyped, ChainTyped
<1>4. ServerTyped'
  BY <1>0 DEF EndsBad, ServerTyped
<1>5. StreamTyped'
  BY <1>0, NoStreamTyped DEF EndsBad, StreamTyped, DropStream
<1>6. LoopTyped'
  BY <1>0 DEF EndsBad, LoopTyped, loop, counts
<1>7. OutcomeTyped'
  BY <1>0 DEF EndsBad, OutcomeTyped, past, counts, LoopTyped, Shape
<1>8. FlagsTyped'
  BY <1>0 DEF EndsBad, FlagsTyped, conversation, past, stream, loop, registry,
    DropStream
<1>9. Shape'
  BY DEF EndsBad, Shape, Closed, counts
<1> QED BY <1>1, <1>2, <1>3, <1>4, <1>5, <1>6, <1>7, <1>8, <1>9

LEMMA StartFailsTyped ==
    ASSUME TInv, NEW retried \in BOOLEAN, NEW b \in BOOLEAN, StartFails(retried, b)
    PROVE  TInv'
<1> USE AgentAssumption DEF TInv
<1>0. Ids' = Ids /\ 0 \in Ids
  BY DEF StartFails, Ids, ServerTyped
<1>1. HistoryTyped'
  BY <1>0 DEF StartFails, HistoryTyped, conversation, loop
<1>2. ChainTyped'
  BY <1>0 DEF StartFails, ChainTyped, conversation, link
<1>3. BeforeTyped'
  BY <1>0 DEF StartFails, BeforeTyped, past, HistoryTyped, ChainTyped
<1>4. ServerTyped'
  BY <1>0 DEF StartFails, ServerTyped
<1>5. StreamTyped'
  BY <1>0 DEF StartFails, StreamTyped, stream, Events
<1>6. LoopTyped'
  BY <1>0 DEF StartFails, LoopTyped, loop, counts
<1>7. OutcomeTyped'
  BY <1>0 DEF StartFails, OutcomeTyped, past, counts, LoopTyped, Shape
<1>8. FlagsTyped'
  BY <1>0 DEF StartFails, FlagsTyped, conversation, past, stream, loop,
    registry
<1>9. Shape'
  BY <1>0 DEF StartFails, Shape, loop, counts, LoopTyped
<1> QED BY <1>1, <1>2, <1>3, <1>4, <1>5, <1>6, <1>7, <1>8, <1>9

LEMMA RequestTyped ==
    ASSUME TInv, NEW r \in Rounds, NEW s \in Scripts, NEW b \in BOOLEAN,
           Request(r, s, b)
    PROVE  TInv'
<1> USE AgentAssumption DEF TInv
<1> DEFINE c == IF attempt = 2 THEN 0 ELSE chain
           seen == Shown(c)
           kept == seen \o TextOf(r) \o AllCalls(r)
<1>0. pc = "start" /\ turns >= 1
  BY DEF Request, Shape
<1>1. c \in Ids
  BY DEF ChainTyped, Ids, ServerTyped
<1>2. seen \in Seq(Items)
  <2>1. CASE c = 0
    BY <2>1 DEF Shown, HistoryTyped
  <2>2. CASE c # 0
    <3>1. server[c] \in Seq(Items)
      BY <1>1, <2>2 DEF Ids, ServerTyped
    <3>2. Trailing(messages) \in Seq(Items)
      BY TrailingTyped DEF HistoryTyped
    <3> HIDE DEF c
    <3> QED BY <2>2, <3>1, <3>2 DEF Shown
  <2> QED BY <2>1, <2>2
<1>3. kept \in Seq(Items)
  BY <1>0, <1>2, TextTyped, CallsTyped
<1>4. /\ server' = server \/ server' = Append(server, kept)
      /\ shown' = seen /\ chain' = c /\ round' = r
      /\ fwd'.id \in {0, Len(server')}
      /\ fwd' = [script |-> s, id |-> fwd'.id, effect |-> Nothing,
                 lapses |-> lapses']
      /\ lapses' = {} \/ lapses' = lapses
  BY DEF Request
<1> HIDE DEF kept, seen, c
<1>5. ServerTyped'
  <2>1. CASE server' = server
    BY <2>1 DEF ServerTyped
  <2>2. CASE server' = Append(server, kept)
    BY <1>3, <2>2, AppendProperties DEF ServerTyped
  <2> QED BY <1>4, <2>1, <2>2
<1>6. Ids \subseteq Ids' /\ 0 \in Ids' /\ Len(server') \in Ids'
  BY <1>3, <1>4 DEF Ids, ServerTyped
<1>7. HistoryTyped'
  BY DEF Request, HistoryTyped, conversation
<1>8. ChainTyped'
  BY <1>1, <1>4, <1>6 DEF Request, ChainTyped, conversation
<1>9. BeforeTyped'
  BY <1>6 DEF Request, BeforeTyped, past
<1>10. StreamTyped'
  <2>1. s \in Seq(Events)
    <3>1. \A e, f \in Events : <<e>> \in Seq(Events) /\ <<e, f>> \in Seq(Events)
      OBVIOUS
    <3> QED BY <3>1 DEF Scripts, Events
  <2> QED BY <1>2, <1>4, <1>6, <1>8, <2>1 DEF Request, StreamTyped, ChainTyped
<1>11. LoopTyped' /\ OutcomeTyped' /\ Shape'
  BY <1>0 DEF Request, LoopTyped, OutcomeTyped, Shape, counts, past
<1>12. FlagsTyped'
  BY DEF Request, FlagsTyped, conversation, past, registry
<1> QED BY <1>5, <1>7, <1>8, <1>9, <1>10, <1>11, <1>12

LEMMA StoppedTyped ==
    ASSUME TInv, Stopped
    PROVE  TInv'
<1> USE AgentAssumption DEF TInv
<1>0. Ids' = Ids /\ 0 \in Ids
  BY DEF Stopped, Ids, ServerTyped
<1>1. HistoryTyped'
  BY <1>0 DEF Stopped, HistoryTyped, BeforeTyped
<1>2. ChainTyped'
  BY <1>0 DEF Stopped, ChainTyped, Owed, Nothing, StreamTyped, BeforeTyped,
    LoopTyped, Shape
<1>3. BeforeTyped'
  BY <1>0 DEF Stopped, BeforeTyped, past, HistoryTyped, ChainTyped
<1>4. ServerTyped'
  BY <1>0 DEF Stopped, ServerTyped
<1>5. StreamTyped'
  BY <1>0, NoStreamTyped DEF Stopped, StreamTyped, DropStream
<1>6. LoopTyped'
  BY <1>0 DEF Stopped, LoopTyped, loop, counts, Rest
<1>7. OutcomeTyped'
  BY <1>0 DEF Stopped, OutcomeTyped, past, counts, LoopTyped, Shape
<1>8. FlagsTyped'
  BY <1>0 DEF Stopped, FlagsTyped, conversation, past, stream, loop, registry,
    DropStream, Rest
<1>9. Shape'
  BY <1>0 DEF Stopped, Shape, loop, counts, Rest, LoopTyped
<1> QED BY <1>1, <1>2, <1>3, <1>4, <1>5, <1>6, <1>7, <1>8, <1>9

LEMMA StopTyped ==
    ASSUME TInv, Stop
    PROVE  TInv'
<1> USE AgentAssumption DEF TInv
<1>0. Ids' = Ids /\ 0 \in Ids
  BY DEF Stop, Ids, ServerTyped
<1>1. HistoryTyped'
  BY <1>0 DEF Stop, HistoryTyped, conversation, loop
<1>2. ChainTyped'
  BY <1>0 DEF Stop, ChainTyped, conversation, link
<1>3. BeforeTyped'
  BY <1>0 DEF Stop, BeforeTyped, past, HistoryTyped, ChainTyped
<1>4. ServerTyped'
  BY <1>0 DEF Stop, ServerTyped
<1>5. StreamTyped'
  BY <1>0 DEF Stop, StreamTyped, stream, Events
<1>6. LoopTyped'
  BY <1>0 DEF Stop, LoopTyped, loop, counts
<1>7. OutcomeTyped'
  BY <1>0 DEF Stop, OutcomeTyped, past, counts, LoopTyped, Shape
<1>8. FlagsTyped'
  BY <1>0 DEF Stop, FlagsTyped, conversation, past, stream, loop, registry
<1>9. Shape'
  BY <1>0 DEF Stop, Shape, loop, counts, LoopTyped
<1> QED BY <1>1, <1>2, <1>3, <1>4, <1>5, <1>6, <1>7, <1>8, <1>9

LEMMA UiDoneTyped ==
    ASSUME TInv, UiDone
    PROVE  TInv'
<1> USE AgentAssumption DEF TInv
<1>0. Ids' = Ids /\ 0 \in Ids
  BY DEF UiDone, Ids, ServerTyped
<1>1. HistoryTyped'
  BY <1>0 DEF UiDone, HistoryTyped, conversation, loop
<1>2. ChainTyped'
  BY <1>0 DEF UiDone, ChainTyped, conversation, link
<1>3. BeforeTyped'
  BY <1>0 DEF UiDone, BeforeTyped, past, HistoryTyped, ChainTyped
<1>4. ServerTyped'
  BY <1>0 DEF UiDone, ServerTyped
<1>5. StreamTyped'
  BY <1>0 DEF UiDone, StreamTyped, stream, Events
<1>6. LoopTyped'
  BY <1>0 DEF UiDone, LoopTyped, loop, counts
<1>7. OutcomeTyped'
  BY <1>0 DEF UiDone, OutcomeTyped, past, counts, LoopTyped, Shape
<1>8. FlagsTyped'
  BY <1>0 DEF UiDone, FlagsTyped, conversation, past, stream, loop, registry
<1>9. Shape'
  BY <1>0 DEF UiDone, Shape, loop, counts, LoopTyped
<1> QED BY <1>1, <1>2, <1>3, <1>4, <1>5, <1>6, <1>7, <1>8, <1>9

LEMMA ForwardDeliverTyped ==
    ASSUME TInv, ForwardDeliver
    PROVE  TInv'
<1> USE AgentAssumption DEF TInv
<1>0. Ids' = Ids /\ 0 \in Ids
  BY DEF ForwardDeliver, Ids, ServerTyped
<1>1. HistoryTyped'
  BY <1>0 DEF ForwardDeliver, HistoryTyped, conversation, loop
<1>2. ChainTyped'
  BY <1>0 DEF ForwardDeliver, ChainTyped, conversation, link
<1>3. BeforeTyped'
  BY <1>0 DEF ForwardDeliver, BeforeTyped, past, HistoryTyped, ChainTyped
<1>4. ServerTyped'
  BY <1>0 DEF ForwardDeliver, ServerTyped
<1>5. StreamTyped'
  <2>1. Head(fwd.script) \in Events /\ Tail(fwd.script) \in Seq(Events)
    BY DEF ForwardDeliver, StreamTyped
  <2>2. fwd' \in [script : Seq(Events), id : Ids, effect : Ids \cup {Nothing},
                 lapses : SUBSET Lapses]
    BY <1>0, <2>1 DEF ForwardDeliver, StreamTyped
  <2> QED BY <1>0, <2>1, <2>2 DEF ForwardDeliver, StreamTyped
<1>6. LoopTyped'
  BY <1>0 DEF ForwardDeliver, LoopTyped, loop, counts
<1>7. OutcomeTyped'
  BY <1>0 DEF ForwardDeliver, OutcomeTyped, past, counts, LoopTyped, Shape
<1>8. FlagsTyped'
  BY <1>0 DEF ForwardDeliver, FlagsTyped, conversation, past, stream, loop,
    registry
<1>9. Shape'
  BY <1>0 DEF ForwardDeliver, Shape, loop, counts, LoopTyped
<1> QED BY <1>1, <1>2, <1>3, <1>4, <1>5, <1>6, <1>7, <1>8, <1>9

LEMMA ForwardApplyTyped ==
    ASSUME TInv, ForwardApply
    PROVE  TInv'
<1> USE AgentAssumption DEF TInv
<1>0. Ids' = Ids /\ 0 \in Ids
  BY DEF ForwardApply, Ids, ServerTyped
<1>1. HistoryTyped'
  BY <1>0 DEF ForwardApply, HistoryTyped, conversation, loop
<1>2. ChainTyped'
  BY <1>0 DEF ForwardApply, ChainTyped, conversation, StreamTyped
<1>3. BeforeTyped'
  BY <1>0 DEF ForwardApply, BeforeTyped, past, HistoryTyped, ChainTyped
<1>4. ServerTyped'
  BY <1>0 DEF ForwardApply, ServerTyped
<1>5. StreamTyped'
  BY <1>0 DEF ForwardApply, StreamTyped, stream, Events
<1>6. LoopTyped'
  BY <1>0 DEF ForwardApply, LoopTyped, loop, counts
<1>7. OutcomeTyped'
  BY <1>0 DEF ForwardApply, OutcomeTyped, past, counts, LoopTyped, Shape
<1>8. FlagsTyped'
  BY <1>0 DEF ForwardApply, FlagsTyped, conversation, past, stream, loop,
    registry
<1>9. Shape'
  BY <1>0 DEF ForwardApply, Shape, loop, counts, LoopTyped
<1> QED BY <1>1, <1>2, <1>3, <1>4, <1>5, <1>6, <1>7, <1>8, <1>9

LEMMA LateApplyTyped ==
    ASSUME TInv, LateApply
    PROVE  TInv'
<1> USE AgentAssumption DEF TInv
<1>0. Ids' = Ids /\ 0 \in Ids
  BY DEF LateApply, Ids, ServerTyped
<1>1. HistoryTyped'
  BY <1>0 DEF LateApply, HistoryTyped, conversation, loop
<1>2. ChainTyped'
  BY <1>0 DEF LateApply, ChainTyped, conversation, Lapses
<1>3. BeforeTyped'
  BY <1>0 DEF LateApply, BeforeTyped, past, HistoryTyped, ChainTyped
<1>4. ServerTyped'
  BY <1>0 DEF LateApply, ServerTyped
<1>5. StreamTyped'
  BY <1>0 DEF LateApply, StreamTyped, stream, Events
<1>6. LoopTyped'
  BY <1>0 DEF LateApply, LoopTyped, loop, counts
<1>7. OutcomeTyped'
  BY <1>0 DEF LateApply, OutcomeTyped, past, counts, LoopTyped, Shape
<1>8. FlagsTyped'
  BY <1>0 DEF LateApply, FlagsTyped, conversation, past, stream, loop,
    registry
<1>9. Shape'
  BY <1>0 DEF LateApply, Shape, loop, counts, LoopTyped
<1> QED BY <1>1, <1>2, <1>3, <1>4, <1>5, <1>6, <1>7, <1>8, <1>9

LEMMA ReceiveTerminalTyped ==
    ASSUME TInv, ReceiveTerminal
    PROVE  TInv'
<1> USE AgentAssumption DEF TInv
<1>0. Ids' = Ids /\ 0 \in Ids
  BY DEF ReceiveTerminal, Ids, ServerTyped
<1>1. HistoryTyped'
  BY <1>0 DEF ReceiveTerminal, HistoryTyped, conversation, loop
<1>2. ChainTyped'
  BY <1>0 DEF ReceiveTerminal, ChainTyped, Unchain, StreamTyped
<1>3. BeforeTyped'
  BY <1>0 DEF ReceiveTerminal, BeforeTyped, past, HistoryTyped, ChainTyped
<1>4. ServerTyped'
  BY <1>0 DEF ReceiveTerminal, ServerTyped
<1>5. StreamTyped'
  BY <1>0 DEF ReceiveTerminal, StreamTyped, stream, Events
<1>6. LoopTyped'
  BY <1>0 DEF ReceiveTerminal, LoopTyped, loop, counts
<1>7. OutcomeTyped'
  BY <1>0 DEF ReceiveTerminal, OutcomeTyped, past, counts, LoopTyped, Shape
<1>8. FlagsTyped'
  BY <1>0 DEF ReceiveTerminal, FlagsTyped, conversation, past, stream, loop,
    registry
<1>9. Shape'
  BY <1>0 DEF ReceiveTerminal, Shape, loop, counts, LoopTyped
<1> QED BY <1>1, <1>2, <1>3, <1>4, <1>5, <1>6, <1>7, <1>8, <1>9

LEMMA EndsUncleanTyped ==
    ASSUME TInv, EndsUnclean
    PROVE  TInv'
<1> USE AgentAssumption DEF TInv
<1>0. Ids' = Ids /\ 0 \in Ids
  BY DEF EndsUnclean, Ids, ServerTyped
<1>1. HistoryTyped'
  BY <1>0 DEF EndsUnclean, HistoryTyped, conversation, loop
<1>2. ChainTyped'
  BY <1>0 DEF EndsUnclean, ChainTyped, conversation, link, Unchain, Nothing
<1>3. BeforeTyped'
  BY <1>0 DEF EndsUnclean, BeforeTyped, past, HistoryTyped, ChainTyped
<1>4. ServerTyped'
  BY <1>0 DEF EndsUnclean, ServerTyped
<1>5. StreamTyped'
  BY <1>0, NoStreamTyped DEF EndsUnclean, StreamTyped, DropStream
<1>6. LoopTyped'
  BY <1>0 DEF EndsUnclean, LoopTyped, loop, counts
<1>7. OutcomeTyped'
  BY <1>0 DEF EndsUnclean, OutcomeTyped, past, counts, LoopTyped, Shape
<1>8. FlagsTyped'
  BY <1>0 DEF EndsUnclean, FlagsTyped, conversation, past, stream, loop,
    registry, DropStream
<1>9. Shape'
  BY DEF EndsUnclean, Shape, Closed, counts
<1> QED BY <1>1, <1>2, <1>3, <1>4, <1>5, <1>6, <1>7, <1>8, <1>9

LEMMA EndsRoundTyped ==
    ASSUME TInv, EndsRound
    PROVE  TInv'
<1> USE AgentAssumption DEF TInv
<1>0. Ids' = Ids /\ 0 \in Ids
  BY DEF EndsRound, Ids, ServerTyped
<1>1. HistoryTyped'
  <2>1. TextOf(round) \in Seq(Items) /\ ReadyCalls(round) \in Seq(Items)
    BY TextTyped, CallsTyped DEF EndsRound, Closed, Shape, StreamTyped
  <2> QED BY <2>1 DEF EndsRound, HistoryTyped
<1>2. ChainTyped'
  BY <1>0 DEF EndsRound, ChainTyped, Lapses
<1>3. BeforeTyped'
  BY <1>0 DEF EndsRound, BeforeTyped, past, HistoryTyped, ChainTyped
<1>4. ServerTyped'
  BY <1>0 DEF EndsRound, ServerTyped
<1>5. StreamTyped'
  BY <1>0, NoStreamTyped DEF EndsRound, StreamTyped, DropStream
<1>6. LoopTyped'
  BY <1>0 DEF EndsRound, LoopTyped, loop, counts
<1>7. OutcomeTyped'
  BY <1>0 DEF EndsRound, OutcomeTyped, past, counts, LoopTyped, Shape
<1>8. FlagsTyped'
  BY <1>0 DEF EndsRound, FlagsTyped, conversation, past, stream, loop,
    registry, DropStream
<1>9. Shape'
  <2>1. Len(ReadyCalls(round)) = round.ready
    BY CallsTyped DEF EndsRound, Closed, Shape, StreamTyped
  <2> QED BY <2>1 DEF EndsRound, Closed, Shape, counts
<1> QED BY <1>1, <1>2, <1>3, <1>4, <1>5, <1>6, <1>7, <1>8, <1>9

LEMMA RunToolTyped ==
    ASSUME TInv, RunTool
    PROVE  TInv'
<1> USE AgentAssumption DEF TInv
<1>0. Ids' = Ids /\ 0 \in Ids
  BY DEF RunTool, Ids, ServerTyped
<1>1. HistoryTyped'
  <2>1. Head(todo) \in Items /\ Tail(todo) \in Seq(Items)
    BY DEF RunTool, HistoryTyped, Shape
  <2> QED BY <2>1, ResultTyped DEF RunTool, HistoryTyped
<1>2. ChainTyped'
  BY <1>0 DEF RunTool, ChainTyped, conversation, link
<1>3. BeforeTyped'
  BY <1>0 DEF RunTool, BeforeTyped, past, HistoryTyped, ChainTyped
<1>4. ServerTyped'
  BY <1>0 DEF RunTool, ServerTyped
<1>5. StreamTyped'
  BY <1>0 DEF RunTool, StreamTyped, stream, Events
<1>6. LoopTyped'
  BY <1>0 DEF RunTool, LoopTyped, loop, counts, WithinBudget
<1>7. OutcomeTyped'
  BY <1>0 DEF RunTool, OutcomeTyped, past, counts, LoopTyped, Shape
<1>8. FlagsTyped'
  BY <1>0 DEF RunTool, FlagsTyped, conversation, past, stream, loop, registry
<1>9. Shape'
  BY DEF RunTool, Shape, counts, Proceeds
<1> QED BY <1>1, <1>2, <1>3, <1>4, <1>5, <1>6, <1>7, <1>8, <1>9

-----------------------------------------------------------------------------
(* The types.                                                              *)

LEMMA InitTyped == Init => TInv
<1> SUFFICES ASSUME Init PROVE TInv
  OBVIOUS
<1> USE AgentAssumption DEF Init
<1>0. Ids = {0}
  BY DEF Ids
<1>1. HistoryTyped /\ ChainTyped /\ ServerTyped
  BY <1>0, NoStreamTyped DEF HistoryTyped, ChainTyped, ServerTyped
<1>2. BeforeTyped /\ StreamTyped
  BY <1>0, NoStreamTyped DEF BeforeTyped, StreamTyped
<1>3. LoopTyped /\ OutcomeTyped /\ Shape
  BY DEF LoopTyped, OutcomeTyped, Shape
<1>4. FlagsTyped
  BY DEF FlagsTyped
<1> QED BY <1>1, <1>2, <1>3, <1>4 DEF TInv

LEMMA StutterTyped == ASSUME TInv, UNCHANGED vars PROVE TInv'
<1>0. Ids' = Ids
  BY DEF vars, Ids
<1>1. HistoryTyped' /\ ChainTyped' /\ BeforeTyped' /\ ServerTyped'
  BY <1>0 DEF TInv, vars, conversation, link, loop, past, HistoryTyped,
    ChainTyped, BeforeTyped, ServerTyped
<1>2. StreamTyped' /\ LoopTyped' /\ OutcomeTyped' /\ Shape'
  BY <1>0 DEF TInv, vars, stream, loop, counts, past, StreamTyped, LoopTyped,
    OutcomeTyped, Shape
<1>3. FlagsTyped'
  BY DEF TInv, vars, conversation, stream, loop, registry, past, FlagsTyped
<1> QED BY <1>1, <1>2, <1>3 DEF TInv

LEMMA NextTyped == ASSUME TInv, [Next]_vars PROVE TInv'
<1>1. CASE BeginReused
  BY <1>1, BeginReusedTyped
<1>2. CASE BeginRollover
  BY <1>2, BeginRolloverTyped
<1>3. ASSUME NEW b \in BOOLEAN, BeginRebuilt(b)
      PROVE  TInv'
  BY <1>3, BeginRebuiltTyped
<1>4. CASE BeginFails
  BY <1>4, BeginFailsTyped
<1>5. CASE Retarget
  BY <1>5, RetargetTyped
<1>6. ASSUME NEW b \in BOOLEAN, EndOk(b)
      PROVE  TInv'
  BY <1>6, EndOkTyped
<1>7. ASSUME NEW b \in BOOLEAN, EndErr(b)
      PROVE  TInv'
  BY <1>7, EndErrTyped
<1>8. ASSUME NEW b \in BOOLEAN, ReceiveError(b)
      PROVE  TInv'
  BY <1>8, ReceiveErrorTyped
<1>9. ASSUME NEW b \in BOOLEAN, EndsBad(b)
      PROVE  TInv'
  BY <1>9, EndsBadTyped
<1>10. ASSUME NEW retried \in BOOLEAN, NEW b \in BOOLEAN, StartFails(retried, b)
      PROVE  TInv'
  BY <1>10, StartFailsTyped
<1>11. ASSUME NEW r \in Rounds, NEW s \in Scripts, NEW b \in BOOLEAN, Request(r, s, b)
      PROVE  TInv'
  BY <1>11, RequestTyped
<1>12. CASE Stopped
  BY <1>12, StoppedTyped
<1>13. CASE Stop
  BY <1>13, StopTyped
<1>14. CASE UiDone
  BY <1>14, UiDoneTyped
<1>15. CASE ForwardDeliver
  BY <1>15, ForwardDeliverTyped
<1>16. CASE ForwardApply
  BY <1>16, ForwardApplyTyped
<1>17. CASE LateApply
  BY <1>17, LateApplyTyped
<1>18. CASE ReceiveTerminal
  BY <1>18, ReceiveTerminalTyped
<1>19. CASE EndsUnclean
  BY <1>19, EndsUncleanTyped
<1>20. CASE EndsRound
  BY <1>20, EndsRoundTyped
<1>21. CASE RunTool
  BY <1>21, RunToolTyped
<1>22. CASE UNCHANGED vars
  BY <1>22, StutterTyped
<1> QED BY <1>1, <1>2, <1>3, <1>4, <1>5, <1>6, <1>7, <1>8, <1>9, <1>10,
  <1>11, <1>12, <1>13, <1>14, <1>15, <1>16, <1>17, <1>18, <1>19, <1>20,
  <1>21, <1>22 DEF Next

\* Every variable has its type at every step of a turn, whatever the provider,
\* the tools and the user do: ids name stored responses, the loop guard holds,
\* and what is owed to the chain is an id.
THEOREM TypeCorrect == Spec => []TypeOK
<1>1. Init => TInv
  BY InitTyped
<1>2. TInv /\ [Next]_vars => TInv'
  BY NextTyped
<1>3. TInv => TypeOK
  BY TypeOKParts DEF TInv
<1> QED BY <1>1, <1>2, <1>3, PTL DEF Spec

-----------------------------------------------------------------------------
(* What a step does to the history.                                        *)

history == <<messages, disk, before, cancelled, turns, runtime, blank>>

Opens ==
    /\ pc = "idle" /\ pc' = "start" /\ turns' = turns + 1
    /\ messages' = Append(before'.messages, Words)
    /\ \/ runtime /\ before'.messages = messages /\ blank' = blank
       \/ ~runtime /\ before'.messages = disk /\ blank' = FALSE
       \/ ~runtime /\ before'.messages = <<>> /\ blank' = (disk # <<>>)
    /\ runtime' = TRUE
    /\ UNCHANGED <<disk, cancelled>>

Drops ==
    /\ pc \in {"idle", "err"} /\ pc' = "idle"
    /\ messages' = <<>> /\ runtime' = FALSE /\ blank' = FALSE
    /\ disk' = disk \/ (pc = "err" /\ disk' = messages)
    /\ turns' \in {turns, turns + 1}
    /\ UNCHANGED <<before, cancelled>>

Closes ==
    /\ pc \in {"done", "err"} /\ pc' = "idle"
    /\ disk' = disk \/ disk' = messages
    /\ UNCHANGED <<messages, before, cancelled, turns, runtime, blank>>

RollsBack ==
    /\ pc # "idle" /\ pc' = "idle"
    /\ messages' = before.messages /\ cancelled' = cancelled \cup {turns}
    /\ UNCHANGED <<disk, before, turns, runtime, blank>>

Answers ==
    /\ pc = "stream" /\ pc' \in {"tools", "done", "err"}
    /\ \/ pc' = "err" /\ messages' = messages \o TextOf(round)
       \/ /\ todo' = ReadyCalls(round)
          /\ messages' = messages \o TextOf(round) \o todo'
          /\ pc' = "done" => round.ready = 0
          /\ pc' \in {"tools", "done"}
    /\ UNCHANGED <<disk, before, cancelled, turns, runtime, blank>>

Returns ==
    /\ pc = "tools" /\ pc' \in {"tools", "start", "err"}
    /\ messages' = Append(messages, ResultOf(Head(todo)))
    /\ todo' = Tail(todo)
    /\ pc' # "tools" => todo' = <<>>
    /\ UNCHANGED <<disk, before, cancelled, turns, runtime, blank>>

Quiet ==
    /\ UNCHANGED <<history, todo>>
    /\ (pc = "idle") = (pc' = "idle")
    /\ (pc = "tools") = (pc' = "tools")

HistoryStep ==
    Opens \/ Drops \/ Closes \/ RollsBack \/ Answers \/ Returns \/ Quiet

LEMMA HistorySteps == ASSUME TInv, [Next]_vars PROVE HistoryStep
<1> USE DEF HistoryStep
<1>1. CASE BeginReused
  BY <1>1 DEF Opens, BeginReused, Open, Idle, Words
<1>2. CASE BeginRollover
  BY <1>2 DEF Opens, BeginRollover, Open, Idle, Words
<1>3. ASSUME NEW b \in BOOLEAN, BeginRebuilt(b)
      PROVE  HistoryStep
  BY <1>3 DEF Opens, BeginRebuilt, Open, Idle, Words
<1>4. CASE BeginFails
  BY <1>4 DEF Drops, BeginFails, Dropped, Idle, loop
<1>5. CASE Retarget
  BY <1>5 DEF Drops, Retarget, Dropped, loop, counts
<1>6. ASSUME NEW b \in BOOLEAN, EndOk(b)
      PROVE  HistoryStep
  BY <1>6 DEF Closes, EndOk, Rest, counts, past
<1>7. ASSUME NEW b \in BOOLEAN, EndErr(b)
      PROVE  HistoryStep
  BY <1>7 DEF Drops, Closes, EndErr, Rest, Dropped, counts
<1>8. ASSUME NEW b \in BOOLEAN, ReceiveError(b)
      PROVE  HistoryStep
  BY <1>8 DEF Quiet, history, ReceiveError, conversation, loop, counts, past
<1>9. ASSUME NEW b \in BOOLEAN, EndsBad(b)
      PROVE  HistoryStep
  BY <1>9 DEF Answers, EndsBad, Closed, counts, past
<1>10. ASSUME NEW retried \in BOOLEAN, NEW b \in BOOLEAN, StartFails(retried, b)
      PROVE  HistoryStep
  BY <1>10 DEF Quiet, history, StartFails, conversation, loop, counts, past, Proceeds
<1>11. ASSUME NEW r \in Rounds, NEW s \in Scripts, NEW b \in BOOLEAN, Request(r, s, b)
      PROVE  HistoryStep
  BY <1>11 DEF Quiet, history, Request, conversation, loop, counts, past, Proceeds
<1>12. CASE Stopped
  BY <1>12 DEF RollsBack, Stopped, Rest, counts
<1>13. CASE Stop
  BY <1>13 DEF Quiet, history, Stop, conversation, loop, counts, past
<1>14. CASE UiDone
  BY <1>14 DEF Quiet, history, UiDone, conversation, loop, counts, past
<1>15. CASE ForwardDeliver
  BY <1>15 DEF Quiet, history, ForwardDeliver, conversation, loop, counts, past
<1>16. CASE ForwardApply
  BY <1>16 DEF Quiet, history, ForwardApply, conversation, loop, counts, past
<1>17. CASE LateApply
  BY <1>17 DEF Quiet, history, LateApply, conversation, loop, counts, past
<1>18. CASE ReceiveTerminal
  BY <1>18 DEF Quiet, history, ReceiveTerminal, conversation, loop, counts, past
<1>19. CASE EndsUnclean
  BY <1>19 DEF Quiet, history, EndsUnclean, conversation, loop, counts, past, Closed
<1>20. CASE EndsRound
  BY <1>20 DEF Answers, EndsRound, Closed, counts, past
<1>21. CASE RunTool
  BY <1>21 DEF Returns, RunTool, counts, past
<1>22. CASE UNCHANGED vars
  BY <1>22 DEF Quiet, history, vars, conversation, loop, counts, past
<1> QED BY <1>1, <1>2, <1>3, <1>4, <1>5, <1>6, <1>7, <1>8, <1>9, <1>10,
  <1>11, <1>12, <1>13, <1>14, <1>15, <1>16, <1>17, <1>18, <1>19, <1>20,
  <1>21, <1>22 DEF Next

-----------------------------------------------------------------------------
(* A cancelled turn leaves nothing behind.                                 *)

Before(m, t) == \A i \in DOMAIN m : m[i].t \notin cancelled /\ m[i].t < t

\* Everything kept is of an uncancelled turn; while a turn is open, the
\* snapshot and the disk hold only earlier ones.
TraceInv ==
    /\ Before(messages, turns + 1)
    /\ Before(disk, turns + 1)
    /\ pc # "idle" => /\ Before(before.messages, turns)
                      /\ Before(disk, turns)
                      /\ turns \notin cancelled
    /\ pc = "tools" => \A i \in DOMAIN todo : todo[i].t = turns

LEMMA BeforeAppend ==
    ASSUME NEW m \in Seq(Items), NEW x \in Items, NEW t \in Nat,
           Before(m, t), x.t \notin cancelled, x.t < t
    PROVE  Before(Append(m, x), t)
BY DEF Before

LEMMA BeforeConcat ==
    ASSUME NEW m \in Seq(Items), NEW n \in Seq(Items), NEW t \in Nat,
           Before(m, t), Before(n, t)
    PROVE  Before(m \o n, t)
BY DEF Before

LEMMA TimesTyped ==
    ASSUME NEW m \in Seq(Items), NEW i \in DOMAIN m
    PROVE  m[i].t \in Nat
<1>1. m[i] \in Items
  OBVIOUS
<1>2. \A x \in Items : x.t \in 1..MaxTurns
  BY DEF Items
<1> QED BY <1>1, <1>2, AgentAssumption

LEMMA BeforeLater ==
    ASSUME NEW m \in Seq(Items), NEW t \in Nat, NEW u \in Nat, t <= u,
           Before(m, t)
    PROVE  Before(m, u)
<1>1. \A i \in DOMAIN m : m[i].t \in Nat
  BY TimesTyped
<1> QED BY <1>1 DEF Before

LEMMA OpensWords ==
    ASSUME TInv, [Next]_vars, Opens
    PROVE  Words \in Items /\ Words.k = "user" /\ Words.t = turns + 1
<1>1. turns \in Nat /\ turns + 1 <= MaxTurns
  BY NextTyped, AgentAssumption DEF TInv, LoopTyped, Opens
<1>2. Idle
  BY <1>1, AgentAssumption DEF Opens, Idle
<1> QED BY <1>2, WordsTyped DEF TInv, Words

LEMMA TraceKept == ASSUME TInv, TraceInv, [Next]_vars PROVE TraceInv'
<1> USE DEF TInv
<1>0. turns \in Nat /\ turns' \in Nat /\ cancelled \subseteq 1..turns
  BY NextTyped DEF LoopTyped, OutcomeTyped
<1>1. CASE Opens
  <2>1. messages \in Seq(Items) /\ disk \in Seq(Items) /\ Words \in Items
    BY <1>1, OpensWords DEF HistoryTyped
  <2>2. /\ before'.messages \in Seq(Items)
        /\ Before(before'.messages, turns + 1)
    <3>1. CASE before'.messages \in {messages, disk}
      BY <2>1, <3>1 DEF TraceInv
    <3>2. CASE before'.messages = <<>>
      BY <3>2, NoStreamTyped DEF Before
    <3> QED BY <1>1, <3>1, <3>2 DEF Opens
  <2>3. Before(before'.messages, turns + 2) /\ Before(disk, turns + 2)
    BY <1>0, <2>1, <2>2, BeforeLater DEF TraceInv
  <2>4. Before(Append(before'.messages, Words), turns + 2)
    <3>1. Words.t = turns + 1 /\ turns + 1 \notin cancelled
      BY <1>0, <1>1, OpensWords
    <3> QED BY <1>0, <2>1, <2>2, <2>3, <3>1, BeforeAppend
  <2>5. Before(disk, turns + 1)
    BY DEF TraceInv
  <2>6. cancelled' = cancelled /\ turns' = turns + 1 /\ pc' = "start"
        /\ disk' = disk /\ messages' = Append(before'.messages, Words)
    BY <1>1 DEF Opens
  <2> QED BY <1>0, <2>2, <2>3, <2>4, <2>5, <2>6 DEF TraceInv, Before
<1>2. CASE Drops
  <2>1. messages \in Seq(Items) /\ disk \in Seq(Items)
    BY DEF HistoryTyped
  <2>2. /\ messages' = <<>> /\ cancelled' = cancelled /\ pc' = "idle"
        /\ disk' = disk \/ disk' = messages
        /\ turns' \in {turns, turns + 1}
    BY <1>2 DEF Drops
  <2>3. \A m \in {messages, disk} : Before(m, turns' + 1)
    BY <1>0, <2>1, <2>2, BeforeLater DEF TraceInv
  <2> QED BY <2>2, <2>3 DEF TraceInv, Before
<1>3. CASE Closes
  BY <1>3 DEF Closes, TraceInv, Before
<1>4. CASE RollsBack
  <2>1. before.messages \in Seq(Items) /\ disk \in Seq(Items)
    BY DEF HistoryTyped, BeforeTyped
  <2>2. ASSUME NEW m \in Seq(Items), Before(m, turns)
        PROVE  \A i \in DOMAIN m : /\ m[i].t \notin cancelled \cup {turns}
                                  /\ m[i].t < turns + 1
    <3>1. \A i \in DOMAIN m : m[i].t \in Nat
      BY TimesTyped
    <3> QED BY <1>0, <2>2, <3>1 DEF Before
  <2>3. Before(before.messages, turns) /\ Before(disk, turns)
    BY <1>4 DEF RollsBack, TraceInv
  <2>4. /\ messages' = before.messages /\ disk' = disk /\ turns' = turns
        /\ cancelled' = cancelled \cup {turns} /\ pc' = "idle"
    BY <1>4 DEF RollsBack
  <2> QED BY <2>1, <2>2, <2>3, <2>4 DEF TraceInv, Before
<1>5. CASE Answers
  <2>1. turns >= 1 /\ round \in Rounds /\ messages \in Seq(Items)
    BY <1>5 DEF Answers, Shape, StreamTyped, HistoryTyped
  <2>2. /\ TextOf(round) \in Seq(Items) /\ ReadyCalls(round) \in Seq(Items)
        /\ \A i \in DOMAIN ReadyCalls(round) : ReadyCalls(round)[i].t = turns
    BY <2>1, TextTyped, CallsTyped
  <2>3. Before(TextOf(round), turns + 1) /\ Before(ReadyCalls(round), turns + 1)
    BY <1>0, <1>5, <2>2 DEF Answers, TraceInv, Before, TextOf, Answer
  <2>4. /\ Before(messages \o TextOf(round), turns + 1)
        /\ Before(messages \o TextOf(round) \o ReadyCalls(round), turns + 1)
    <3> DEFINE m == messages \o TextOf(round)
    <3>1. m \in Seq(Items) /\ Before(m, turns + 1)
      BY <1>0, <2>1, <2>2, <2>3, BeforeConcat DEF TraceInv
    <3>2. turns + 1 \in Nat
      BY <1>0
    <3> HIDE DEF m
    <3>3. Before(m \o ReadyCalls(round), turns + 1)
      BY <2>2, <2>3, <3>1, <3>2, BeforeConcat
    <3> QED BY <3>1, <3>3 DEF m
  <2> QED BY <1>5, <2>2, <2>4 DEF Answers, TraceInv, Before
<1>6. CASE Returns
  <2>1. messages \in Seq(Items) /\ todo \in Seq(Items) /\ todo # <<>>
    BY <1>6 DEF Returns, Shape, HistoryTyped
  <2>2. Head(todo) \in Items /\ Head(todo).t = turns
    BY <1>6, <2>1 DEF Returns, TraceInv
  <2>3. Before(messages', turns + 1)
    BY <1>0, <1>6, <2>1, <2>2, ResultTyped, BeforeAppend DEF Returns, TraceInv
  <2>4. \A i \in DOMAIN Tail(todo) : Tail(todo)[i].t = turns
    BY <1>6, <2>1 DEF Returns, TraceInv
  <2> QED BY <1>6, <2>3, <2>4 DEF Returns, TraceInv, Before
<1>7. CASE Quiet
  BY <1>7 DEF Quiet, history, TraceInv, Before
<1> QED BY <1>1, <1>2, <1>3, <1>4, <1>5, <1>6, <1>7, HistorySteps
        DEF HistoryStep

\* Nothing of a turn that ended as Cancelled is in the history or on disk,
\* however many turns follow it (restore_after_user_stop): while a turn runs,
\* neither its snapshot nor the disk knows it.
THEOREM CancelledLeavesNoTraceHolds == Spec => []CancelledLeavesNoTrace
<1>1. Init => TInv /\ TraceInv
  BY InitTyped DEF Init, TraceInv, Before
<1>2. TInv /\ TraceInv /\ [Next]_vars => (TInv /\ TraceInv)'
  BY NextTyped, TraceKept
<1>3. TInv /\ TraceInv => CancelledLeavesNoTrace
  BY DEF TraceInv, Before, CancelledLeavesNoTrace
<1> QED BY <1>1, <1>2, <1>3, PTL DEF Spec

-----------------------------------------------------------------------------
(* Calls and results.                                                      *)

\* Paired, but for the calls whose tools have still to run.
PairedBut(m, open) ==
    \A i \in DOMAIN m :
        /\ m[i].k = "call" =>
             \/ \E j \in (i + 1)..Len(m) : m[j] = ResultOf(m[i])
             \/ \E h \in DOMAIN open : open[h] = m[i]
        /\ m[i].k = "result" =>
             \E j \in 1..(i - 1) : m[i] = ResultOf(m[j]) /\ m[j].k = "call"

Owes(m, open) ==
    /\ PairedBut(m, open)
    /\ \A h \in DOMAIN open : /\ open[h].k = "call"
                              /\ \E i \in DOMAIN m : m[i] = open[h]

PairInv ==
    /\ Paired(disk)
    /\ pc # "idle" => Paired(before.messages)
    /\ IF pc = "tools" THEN Owes(messages, todo) ELSE Paired(messages)

LEMMA OwesNothing == \A m : Owes(m, <<>>) <=> Paired(m)
BY DEF Owes, PairedBut, Paired

\* A longer history pairs what the shorter one did.
LEMMA PairedPrefix ==
    ASSUME NEW m \in Seq(Items), NEW w \in Seq(Items), Paired(m), Extends(w, m),
           NEW i \in 1..Len(m)
    PROVE  /\ w[i].k = "call" => \E j \in (i + 1)..Len(w) : w[j] = ResultOf(w[i])
           /\ w[i].k = "result" => \E j \in 1..(i - 1) : w[i] = ResultOf(w[j])
                                                     /\ w[j].k = "call"
<1>0. /\ Len(m) \in Nat /\ Len(w) \in Nat /\ Len(m) <= Len(w)
      /\ \A j \in 1..Len(m) : w[j] = m[j]
      /\ w[i] = m[i] /\ i \in DOMAIN m
  BY DEF Extends
<1>1. ASSUME w[i].k = "call"
      PROVE  \E j \in (i + 1)..Len(w) : w[j] = ResultOf(w[i])
  <2>1. PICK j \in (i + 1)..Len(m) : m[j] = ResultOf(m[i])
    BY <1>0, <1>1 DEF Paired
  <2> QED BY <1>0, <2>1
<1>2. ASSUME w[i].k = "result"
      PROVE  \E j \in 1..(i - 1) : w[i] = ResultOf(w[j]) /\ w[j].k = "call"
  <2>1. PICK j \in 1..(i - 1) : m[i] = ResultOf(m[j]) /\ m[j].k = "call"
    BY <1>0, <1>2 DEF Paired
  <2>2. j \in 1..Len(m)
    BY <1>0
  <2>3. w[j] = m[j]
    BY <1>0, <2>2
  <2> QED BY <1>0, <2>1, <2>3
<1> QED BY <1>1, <1>2

LEMMA ConcatParts ==
    ASSUME NEW m \in Seq(Items), NEW n \in Seq(Items)
    PROVE  /\ m \o n \in Seq(Items) /\ Extends(m \o n, m)
           /\ \A i \in DOMAIN (m \o n) : i \in 1..Len(m) \/
                (i - Len(m) \in DOMAIN n /\ (m \o n)[i] = n[i - Len(m)])
           /\ \A h \in DOMAIN n :
                Len(m) + h \in DOMAIN (m \o n) /\ (m \o n)[Len(m) + h] = n[h]
BY DEF Extends

LEMMA PairedConcat ==
    ASSUME NEW m \in Seq(Items), NEW n \in Seq(Items), Paired(m),
           \A i \in DOMAIN n : n[i].k \notin {"call", "result"}
    PROVE  Paired(m \o n)
<1> DEFINE w == m \o n
<1>1. w \in Seq(Items) /\ Extends(w, m)
  BY ConcatParts
<1>2. \A i \in DOMAIN w : i \in 1..Len(m) \/ w[i].k \notin {"call", "result"}
  BY ConcatParts
<1> HIDE DEF w
<1>3. Paired(w)
  BY <1>1, <1>2, PairedPrefix DEF Paired
<1> QED BY <1>3 DEF w

LEMMA CallsPushed ==
    ASSUME NEW m \in Seq(Items), NEW n \in Seq(Items), Paired(m),
           \A i \in DOMAIN n : n[i].k = "call"
    PROVE  Owes(m \o n, n)
<1> DEFINE w == m \o n
<1>1. w \in Seq(Items) /\ Extends(w, m)
  BY ConcatParts
<1>2. ASSUME NEW i \in DOMAIN w, i \notin 1..Len(m)
      PROVE  w[i].k = "call" /\ \E h \in DOMAIN n : n[h] = w[i]
  BY <1>2, ConcatParts
<1>3. ASSUME NEW h \in DOMAIN n
      PROVE  n[h].k = "call" /\ \E i \in DOMAIN w : w[i] = n[h]
  BY ConcatParts
<1> HIDE DEF w
<1>4. PairedBut(w, n)
  BY <1>1, <1>2, PairedPrefix DEF PairedBut
<1> QED BY <1>3, <1>4 DEF Owes, w

LEMMA ResultPushed ==
    ASSUME NEW m \in Seq(Items), NEW open \in Seq(Items), open # <<>>,
           Owes(m, open)
    PROVE  Owes(Append(m, ResultOf(Head(open))), Tail(open))
<1> DEFINE x == ResultOf(Head(open))
           w == Append(m, x)
<1>0. Head(open) \in Items /\ Head(open) = open[1] /\ 1 \in DOMAIN open
  OBVIOUS
<1>1. x \in Items /\ x.k = "result"
  BY <1>0, ResultTyped
<1>2. /\ Len(w) = Len(m) + 1 /\ DOMAIN w = 1..Len(w) /\ w[Len(m) + 1] = x
      /\ \A i \in 1..Len(m) : w[i] = m[i]
  <2> HIDE DEF x
  <2> QED BY <1>1
<1>3. \A h \in DOMAIN open : h # 1 =>
        h - 1 \in DOMAIN Tail(open) /\ Tail(open)[h - 1] = open[h]
  OBVIOUS
<1>4. \A h \in DOMAIN Tail(open) :
        h + 1 \in DOMAIN open /\ Tail(open)[h] = open[h + 1]
  OBVIOUS
<1>5. x = ResultOf(open[1])
  BY <1>0
<1> HIDE DEF w, x
<1>6. ASSUME NEW i \in 1..Len(m), m[i].k = "call"
      PROVE  \/ \E j \in (i + 1)..Len(w) : w[j] = ResultOf(w[i])
             \/ \E h \in DOMAIN Tail(open) : Tail(open)[h] = w[i]
  <2>1. CASE \E j \in (i + 1)..Len(m) : m[j] = ResultOf(m[i])
    BY <1>2, <2>1
  <2>2. CASE \E h \in DOMAIN open : open[h] = m[i]
    <3>1. PICK h \in DOMAIN open : open[h] = m[i]
      BY <2>2
    <3>2. CASE h = 1
      BY <1>2, <1>5, <3>1, <3>2
    <3>3. CASE h # 1
      BY <1>2, <1>3, <3>1, <3>3
    <3> QED BY <3>2, <3>3
  <2> QED BY <1>6, <2>1, <2>2 DEF Owes, PairedBut
<1>7. ASSUME NEW i \in 1..Len(m), m[i].k = "result"
      PROVE  \E j \in 1..(i - 1) : w[i] = ResultOf(w[j]) /\ w[j].k = "call"
  <2>1. i \in DOMAIN m
    OBVIOUS
  <2>2. PICK j \in 1..(i - 1) : m[i] = ResultOf(m[j]) /\ m[j].k = "call"
    BY <1>7, <2>1 DEF Owes, PairedBut
  <2> QED BY <1>2, <2>2
<1>8. \E j \in 1..Len(m) : x = ResultOf(w[j]) /\ w[j].k = "call"
  <2>1. PICK j \in DOMAIN m : m[j] = open[1]
    BY <1>0 DEF Owes
  <2>2. open[1].k = "call" /\ j \in 1..Len(m)
    BY <1>0 DEF Owes
  <2> QED BY <1>2, <1>5, <2>1, <2>2
<1>9. PairedBut(w, Tail(open))
  <2> SUFFICES ASSUME NEW i \in DOMAIN w
               PROVE  /\ w[i].k = "call" =>
                           \/ \E j \in (i + 1)..Len(w) : w[j] = ResultOf(w[i])
                           \/ \E h \in DOMAIN Tail(open) : Tail(open)[h] = w[i]
                      /\ w[i].k = "result" =>
                           \E j \in 1..(i - 1) : w[i] = ResultOf(w[j])
                                               /\ w[j].k = "call"
    BY DEF PairedBut
  <2>1. CASE i \in 1..Len(m)
    BY <1>2, <1>6, <1>7, <2>1
  <2>2. CASE i = Len(m) + 1
    BY <1>1, <1>2, <1>8, <2>2
  <2> QED BY <1>2, <2>1, <2>2
<1>10. \A h \in DOMAIN Tail(open) : /\ Tail(open)[h].k = "call"
                                    /\ \E i \in DOMAIN w : w[i] = Tail(open)[h]
  <2> SUFFICES ASSUME NEW h \in DOMAIN Tail(open)
               PROVE  /\ Tail(open)[h].k = "call"
                      /\ \E i \in DOMAIN w : w[i] = Tail(open)[h]
    OBVIOUS
  <2>1. h + 1 \in DOMAIN open /\ Tail(open)[h] = open[h + 1]
    BY <1>4
  <2>2. open[h + 1].k = "call" /\ \E i \in DOMAIN m : m[i] = open[h + 1]
    BY <2>1 DEF Owes
  <2>3. PICK i \in DOMAIN m : m[i] = open[h + 1]
    BY <2>2
  <2>4. i \in DOMAIN w /\ w[i] = m[i]
    BY <1>2
  <2> QED BY <2>1, <2>2, <2>3, <2>4
<1> QED BY <1>9, <1>10 DEF Owes, w, x

LEMMA PairKept == ASSUME TInv, PairInv, [Next]_vars PROVE PairInv'
<1> USE DEF TInv
<1>0. messages \in Seq(Items) /\ todo \in Seq(Items)
  BY DEF HistoryTyped
<1>1. CASE Opens
  <2>1. Words \in Items /\ Words.k = "user"
    BY <1>1, OpensWords
  <2>2. before'.messages \in Seq(Items) /\ Paired(before'.messages)
    <3>1. Paired(messages) /\ Paired(disk) /\ disk \in Seq(Items)
      BY <1>1 DEF Opens, PairInv, HistoryTyped
    <3>2. Paired(<<>>)
      BY DEF Paired
    <3> QED BY <1>0, <1>1, <3>1, <3>2, NoStreamTyped DEF Opens
  <2>3. /\ <<Words>> \in Seq(Items)
        /\ \A i \in DOMAIN <<Words>> : <<Words>>[i].k \notin {"call", "result"}
    BY <2>1
  <2>4. messages' = before'.messages \o <<Words>>
    BY <1>1, <2>1, <2>2, AppendIsConcat DEF Opens
  <2>5. Paired(messages')
    BY <2>2, <2>3, <2>4, PairedConcat
  <2> QED BY <1>1, <2>2, <2>5 DEF Opens, PairInv, Paired
<1>2. CASE Drops
  <2>1. Paired(<<>>) /\ Paired(disk) /\ (pc = "err" => Paired(messages))
    BY DEF PairInv, Paired
  <2> QED BY <1>2, <2>1 DEF Drops, PairInv
<1>3. CASE Closes
  BY <1>3 DEF Closes, PairInv, Paired
<1>4. CASE RollsBack
  BY <1>4 DEF RollsBack, PairInv, Paired
<1>5. CASE Answers
  <2>1. /\ turns >= 1 /\ round \in Rounds /\ Paired(messages)
        /\ Paired(disk) /\ Paired(before.messages)
    BY <1>5 DEF Answers, Shape, StreamTyped, PairInv
  <2>2. /\ TextOf(round) \in Seq(Items) /\ ReadyCalls(round) \in Seq(Items)
        /\ \A i \in DOMAIN ReadyCalls(round) : ReadyCalls(round)[i].k = "call"
        /\ Len(ReadyCalls(round)) = round.ready
    BY <2>1, TextTyped, CallsTyped
  <2>3. \A i \in DOMAIN TextOf(round) :
          TextOf(round)[i].k \notin {"call", "result"}
    BY DEF TextOf, Answer
  <2> DEFINE m == messages \o TextOf(round)
  <2>4. m \in Seq(Items) /\ Paired(m)
    BY <1>0, <2>1, <2>2, <2>3, PairedConcat
  <2> HIDE DEF m
  <2>5. Owes(m \o ReadyCalls(round), ReadyCalls(round))
    BY <2>2, <2>4, CallsPushed
  <2>6. CASE pc' = "err" /\ messages' = m
    BY <1>5, <2>1, <2>4, <2>6 DEF Answers, PairInv, Paired
  <2>7. CASE pc' = "tools" /\ todo' = ReadyCalls(round)
             /\ messages' = m \o ReadyCalls(round)
    BY <1>5, <2>1, <2>5, <2>7 DEF Answers, PairInv
  <2>8. CASE pc' = "done" /\ round.ready = 0 /\ messages' = m \o ReadyCalls(round)
    <3>1. ReadyCalls(round) = <<>>
      BY <2>2, <2>8
    <3>2. Paired(messages')
      BY <2>5, <2>8, <3>1, OwesNothing
    <3> QED BY <1>5, <2>1, <2>8, <3>2 DEF Answers, PairInv
  <2> QED BY <1>5, <2>6, <2>7, <2>8 DEF Answers, m
<1>6. CASE Returns
  <2>1. todo # <<>> /\ Owes(messages, todo) /\ Paired(disk) /\ Paired(before.messages)
    BY <1>6 DEF Returns, Shape, PairInv
  <2>2. Owes(messages', todo')
    BY <1>0, <1>6, <2>1, ResultPushed DEF Returns
  <2>3. CASE pc' = "tools"
    BY <1>6, <2>1, <2>2, <2>3 DEF Returns, PairInv, Paired
  <2>4. CASE pc' # "tools"
    <3>1. Paired(messages')
      BY <1>6, <2>2, <2>4, OwesNothing DEF Returns
    <3> QED BY <1>6, <2>1, <2>4, <3>1 DEF Returns, PairInv, Paired
  <2> QED BY <2>3, <2>4
<1>7. CASE Quiet
  BY <1>7 DEF Quiet, history, PairInv, Paired, Owes, PairedBut
<1> QED BY <1>1, <1>2, <1>3, <1>4, <1>5, <1>6, <1>7, HistorySteps
        DEF HistoryStep

\* A tool call is never without its result, on disk at any time and in memory
\* whenever no tool is running, through stops, failures and the loop guard
\* (send): while tools run, exactly the calls still to be run lack one.
THEOREM HistoryPairedHolds == Spec => []HistoryPaired
<1>1. Init => TInv /\ PairInv
  BY InitTyped DEF Init, PairInv, Paired
<1>2. TInv /\ PairInv /\ [Next]_vars => (TInv /\ PairInv)'
  BY NextTyped, PairKept
<1>3. TInv /\ PairInv => HistoryPaired
  BY DEF PairInv, HistoryPaired
<1> QED BY <1>1, <1>2, <1>3, PTL DEF Spec

-----------------------------------------------------------------------------
(* The conversation on disk grows.                                         *)

\* While the runtime's memory is not a blank one, it and the snapshot of the
\* open turn continue what is on disk.
GrowInv ==
    /\ pc # "idle" => runtime
    /\ ~runtime => ~blank
    /\ runtime /\ ~blank => Extends(messages, disk)
    /\ pc # "idle" /\ ~blank => Extends(before.messages, disk)

LEMMA ExtendsConcat ==
    ASSUME NEW m \in Seq(Items), NEW n \in Seq(Items), NEW d \in Seq(Items),
           Extends(m, d)
    PROVE  Extends(m \o n, d)
BY DEF Extends

LEMMA ExtendsAppend ==
    ASSUME NEW m \in Seq(Items), NEW x \in Items, NEW d \in Seq(Items),
           Extends(m, d)
    PROVE  Extends(Append(m, x), d)
BY DEF Extends

LEMMA ExtendsBasics ==
    ASSUME NEW m \in Seq(Items)
    PROVE  Extends(m, m) /\ Extends(m, <<>>)
BY DEF Extends

LEMMA GrowKept ==
    ASSUME TInv, GrowInv, [Next]_vars
    PROVE  GrowInv' /\ (Extends(disk', disk) \/ blank)
<1> USE DEF TInv
<1>0. /\ messages \in Seq(Items) /\ todo \in Seq(Items) /\ disk \in Seq(Items)
      /\ before.messages \in Seq(Items)
  BY DEF HistoryTyped, BeforeTyped
<1>a. /\ runtime \in BOOLEAN /\ blank \in BOOLEAN
      /\ runtime' \in BOOLEAN /\ blank' \in BOOLEAN
  BY NextTyped DEF FlagsTyped
<1>b. Extends(disk, disk)
  BY <1>0, ExtendsBasics
<1>1. CASE Opens
  <2>1. Words \in Items
    BY <1>1, OpensWords
  <2>2. before'.messages \in Seq(Items)
    BY <1>0, <1>1, NoStreamTyped DEF Opens
  <2>3. ~blank' => Extends(before'.messages, disk)
    <3>1. CASE runtime /\ before'.messages = messages /\ blank' = blank
      BY <3>1 DEF GrowInv
    <3>2. CASE before'.messages = disk
      BY <1>b, <3>2
    <3>3. CASE before'.messages = <<>> /\ blank' = (disk # <<>>)
      BY <1>0, <1>b, <3>3
    <3> QED BY <1>1, <3>1, <3>2, <3>3 DEF Opens
  <2>4. ~blank' => Extends(messages', disk)
    BY <1>0, <1>1, <2>1, <2>2, <2>3, ExtendsAppend DEF Opens
  <2> QED BY <1>1, <1>b, <2>3, <2>4 DEF Opens, GrowInv
<1>2. CASE Drops
  <2>1. Extends(disk', disk) \/ blank
    BY <1>2, <1>b DEF Drops, GrowInv
  <2> QED BY <1>2, <2>1 DEF Drops, GrowInv
<1>3. CASE Closes
  <2>1. Extends(disk', disk) \/ blank
    BY <1>3, <1>b DEF Closes, GrowInv
  <2>2. ~blank => Extends(messages, disk')
    BY <1>0, <1>3, ExtendsBasics DEF Closes, GrowInv
  <2> QED BY <1>3, <2>1, <2>2 DEF Closes, GrowInv
<1>4. CASE RollsBack
  BY <1>4, <1>b DEF RollsBack, GrowInv
<1>5. CASE Answers
  <2>1. turns >= 1 /\ round \in Rounds
    BY <1>5 DEF Answers, Shape, StreamTyped
  <2>2. TextOf(round) \in Seq(Items) /\ ReadyCalls(round) \in Seq(Items)
    BY <2>1, TextTyped, CallsTyped
  <2> DEFINE m == messages \o TextOf(round)
  <2>3. m \in Seq(Items) /\ (Extends(messages, disk) => Extends(m, disk))
    BY <1>0, <2>2, ExtendsConcat
  <2> HIDE DEF m
  <2>4. Extends(m, disk) => Extends(m \o ReadyCalls(round), disk)
    BY <1>0, <2>2, <2>3, ExtendsConcat
  <2>5. messages' = m \/ messages' = m \o ReadyCalls(round)
    BY <1>5 DEF Answers, m
  <2> QED BY <1>5, <1>b, <2>3, <2>4, <2>5 DEF Answers, GrowInv
<1>6. CASE Returns
  <2>1. ResultOf(Head(todo)) \in Items
    BY <1>0, <1>6, ResultTyped DEF Returns, Shape
  <2>2. Extends(messages, disk) => Extends(messages', disk)
    BY <1>0, <1>6, <2>1, ExtendsAppend DEF Returns
  <2> QED BY <1>6, <1>b, <2>2 DEF Returns, GrowInv
<1>7. CASE Quiet
  BY <1>7, <1>b DEF Quiet, history, GrowInv
<1> QED BY <1>1, <1>2, <1>3, <1>4, <1>5, <1>6, <1>7, HistorySteps
        DEF HistoryStep

\* A delivery replaces the messages on disk (deliver), and yet no turn, stop,
\* failure, rebuild or change of settings loses any of them, unless the thread
\* was continued after it could not be read back.
THEOREM DiskOnlyGrowsHolds == Spec => DiskOnlyGrows
<1>1. Init => TInv /\ GrowInv
  BY InitTyped DEF Init, GrowInv
<1>2. TInv /\ GrowInv /\ [Next]_vars => (TInv /\ GrowInv)'
  BY NextTyped, GrowKept
<1>3. TInv /\ GrowInv /\ [Next]_vars => [Extends(disk', disk) \/ blank]_vars
  BY GrowKept
<1> QED BY <1>1, <1>2, <1>3, PTL DEF Spec, DiskOnlyGrows

-----------------------------------------------------------------------------
(* The outcome of a turn.                                                  *)

\* Nothing is published before the turn is done, and Done only once; what is
\* published leaves the registry first.
OutInv ==
    /\ pc = "idle" \/ out # {} => ~registered
    /\ pc \in {"start", "stream", "tools", "err"} => out = {} /\ ~uiDone
    /\ pc = "done" => (uiDone /\ out = {}) \/ (~uiDone /\ out = {"Done"})
    /\ pc = "idle" => ~uiDone /\ OutcomeAnnounced

LEMMA OutKept == ASSUME TInv, OutInv, [Next]_vars PROVE OutInv'
<1> USE DEF OutInv, OutcomeAnnounced
<1>1. CASE BeginReused
  BY <1>1 DEF BeginReused, Open, Idle, registry
<1>2. CASE BeginRollover
  BY <1>2 DEF BeginRollover, Open, Idle, registry
<1>3. ASSUME NEW b \in BOOLEAN, BeginRebuilt(b)
      PROVE  OutInv'
  BY <1>3 DEF BeginRebuilt, Open, Idle, registry
<1>4. CASE BeginFails
  BY <1>4 DEF BeginFails, Idle, loop, registry
<1>5. CASE Retarget
  BY <1>5 DEF Retarget, loop, counts, registry
<1>6. ASSUME NEW b \in BOOLEAN, EndOk(b)
      PROVE  OutInv'
  BY <1>6 DEF EndOk, Rest, counts, registry
<1>7. ASSUME NEW b \in BOOLEAN, EndErr(b)
      PROVE  OutInv'
  BY <1>7 DEF EndErr, Rest, Failed, counts, registry
<1>8. ASSUME NEW b \in BOOLEAN, ReceiveError(b)
      PROVE  OutInv'
  BY <1>8 DEF ReceiveError, counts, registry
<1>9. ASSUME NEW b \in BOOLEAN, EndsBad(b)
      PROVE  OutInv'
  BY <1>9 DEF EndsBad, Closed, counts, registry
<1>10. ASSUME NEW retried \in BOOLEAN, NEW b \in BOOLEAN, StartFails(retried, b)
      PROVE  OutInv'
  BY <1>10 DEF StartFails, counts, registry
<1>11. ASSUME NEW r \in Rounds, NEW s \in Scripts, NEW b \in BOOLEAN, Request(r, s, b)
      PROVE  OutInv'
  BY <1>11 DEF Request, counts, registry
<1>12. CASE Stopped
  BY <1>12 DEF Stopped, Rest, counts, TInv, LoopTyped, registry
<1>13. CASE Stop
  BY <1>13 DEF Stop, loop, registry
<1>14. CASE UiDone
  BY <1>14 DEF UiDone, loop, counts, registry
<1>15. CASE ForwardDeliver
  BY <1>15 DEF ForwardDeliver, loop, counts, registry
<1>16. CASE ForwardApply
  BY <1>16 DEF ForwardApply, loop, counts, registry
<1>17. CASE LateApply
  BY <1>17 DEF LateApply, loop, counts, registry
<1>18. CASE ReceiveTerminal
  BY <1>18 DEF ReceiveTerminal, loop, counts, registry
<1>19. CASE EndsUnclean
  BY <1>19 DEF EndsUnclean, Closed, counts, registry
<1>20. CASE EndsRound
  BY <1>20 DEF EndsRound, Closed, counts, registry
<1>21. CASE RunTool
  BY <1>21 DEF RunTool, counts, registry
<1>22. CASE UNCHANGED vars
  BY <1>22 DEF vars, loop, counts, registry
<1> QED BY <1>1, <1>2, <1>3, <1>4, <1>5, <1>6, <1>7, <1>8, <1>9, <1>10,
  <1>11, <1>12, <1>13, <1>14, <1>15, <1>16, <1>17, <1>18, <1>19, <1>20,
  <1>21, <1>22 DEF Next

\* Every turn that is over has told the user interface how it ended, and one
\* that failed has told it nothing else (terminal_published, the arms of the
\* select); what it has told no later Stop is accepted against (finish).
THEOREM OutcomeAnnouncedHolds == Spec => []OutcomeAnnounced
<1>1. Init => TInv /\ OutInv
  BY InitTyped DEF Init, OutInv, OutcomeAnnounced
<1>2. TInv /\ OutInv /\ [Next]_vars => (TInv /\ OutInv)'
  BY NextTyped, OutKept
<1>3. TInv /\ OutInv => OutcomeAnnounced
  BY DEF OutInv, OutcomeAnnounced
<1> QED BY <1>1, <1>2, <1>3, PTL DEF Spec

-----------------------------------------------------------------------------
(* A request shows the model the whole conversation.                       *)

\* The server's history h stands for the first part of m, up to the model's
\* last word; the rest is the trailing run of user messages.
Stands(h, m) ==
    /\ Len(h) \in 1..Len(m)
    /\ \A i \in 1..Len(h) : m[i] = h[i]
    /\ ~FromUser(m[Len(h)])
    /\ \A j \in (Len(h) + 1)..Len(m) : FromUser(m[j])

\* A chain without lapses stands for the history.
Whole(c, l, m) == c # 0 /\ l = {} => Stands(server[c], m)

\* The forwarder has an update of the chain before it.
Pending ==
    \/ fwd.effect # Nothing
    \/ \E i \in DOMAIN fwd.script : fwd.script[i] = "clean"

\* While a response is streamed the server already holds it under its id; the
\* chain names it once its forwarder has nothing pending.
StreamInv ==
    /\ fwd.lapses = {} => shown = messages
    /\ fwd.id # 0 =>
         /\ server[fwd.id] = shown \o TextOf(round) \o AllCalls(round)
         /\ \/ Pending
            \/ chain = 0 \/ lapses # {}
            \/ chain = fwd.id /\ fwd.lapses = {}
    /\ fwd.effect \in {Nothing, 0, fwd.id}

WholeInv ==
    /\ Whole(before.chain, before.lapses, before.messages)
    /\ pc # "stream" => fwd = NoFwd /\ Whole(chain, lapses, messages)
    /\ pc = "stream" => StreamInv

LEMMA TrailingFrom ==
    ASSUME NEW m \in Seq(Items), NEW n \in 1..Len(m), ~FromUser(m[n]),
           \A j \in (n + 1)..Len(m) : FromUser(m[j])
    PROVE  Trailing(m) = SubSeq(m, n + 1, Len(m))
<1> DEFINE starts == {i \in 0..Len(m) :
                        \A j \in (i + 1)..Len(m) : FromUser(m[j])}
           start == CHOOSE i \in starts : \A j \in starts : i <= j
<1>1. n \in starts
  OBVIOUS
<1>2. ASSUME NEW i \in starts PROVE n <= i
  <2>1. i \in 0..Len(m) /\ \A j \in (i + 1)..Len(m) : FromUser(m[j])
    OBVIOUS
  <2> QED BY <2>1
<1>3. starts \subseteq Nat
  OBVIOUS
<1>4. start = n
  <2> HIDE DEF starts
  <2>1. start \in starts /\ \A j \in starts : start <= j
    BY <1>1, <1>2
  <2> HIDE DEF start
  <2>2. start <= n /\ n <= start /\ start \in Nat
    BY <1>1, <1>2, <1>3, <2>1
  <2> QED BY <2>2
<1>5. Trailing(m) = SubSeq(m, start + 1, Len(m))
  BY DEF Trailing
<1> QED BY <1>4, <1>5

LEMMA StandsShows ==
    ASSUME NEW h \in Seq(Items), NEW m \in Seq(Items), Stands(h, m)
    PROVE  h \o Trailing(m) = m
<1>1. Trailing(m) = SubSeq(m, Len(h) + 1, Len(m))
  BY TrailingFrom DEF Stands
<1> DEFINE t == SubSeq(m, Len(h) + 1, Len(m))
<1>2. Len(h) \in Nat /\ Len(m) \in Nat /\ 1 <= Len(h) /\ Len(h) <= Len(m)
  BY DEF Stands
<1>3. /\ t \in Seq(Items) /\ Len(t) = Len(m) - Len(h)
      /\ \A i \in 1..(Len(m) - Len(h)) : t[i] = m[Len(h) + i]
  <2>1. \A i \in (Len(h) + 1)..Len(m) : m[i] \in Items
    BY <1>2
  <2> QED BY <1>2, <2>1
<1> HIDE DEF t
<1>4. Len(h \o t) = Len(m) /\ h \o t \in Seq(Items)
  BY <1>2, <1>3
<1>5. \A i \in 1..Len(m) : (h \o t)[i] = m[i]
  <2> SUFFICES ASSUME NEW i \in 1..Len(m) PROVE (h \o t)[i] = m[i]
    OBVIOUS
  <2>1. CASE i <= Len(h)
    BY <1>2, <1>3, <2>1 DEF Stands
  <2>2. CASE i > Len(h)
    <3>1. (h \o t)[i] = t[i - Len(h)]
      BY <1>2, <1>3, <2>2
    <3>2. i - Len(h) \in 1..(Len(m) - Len(h))
      BY <1>2, <2>2
    <3>3. t[i - Len(h)] = m[Len(h) + (i - Len(h))]
      BY <1>3, <3>2
    <3>4. Len(h) + (i - Len(h)) = i
      BY <1>2
    <3> QED BY <3>1, <3>3, <3>4
  <2>3. i <= Len(h) \/ i > Len(h)
    <3>1. i \in Nat
      BY <1>2
    <3> QED BY <1>2, <3>1
  <2> QED BY <2>1, <2>2, <2>3
<1>6. h \o t = m
  <2> DEFINE w == h \o t
  <2>1. w \in Seq(Items) /\ Len(w) = Len(m) /\ \A i \in 1..Len(m) : w[i] = m[i]
    BY <1>4, <1>5
  <2> HIDE DEF w
  <2>2. w = m
    BY <2>1
  <2> QED BY <2>2 DEF w
<1> QED BY <1>1, <1>6 DEF t

LEMMA StandsAppend ==
    ASSUME NEW h \in Seq(Items), NEW m \in Seq(Items), NEW x \in Items,
           Stands(h, m), FromUser(x)
    PROVE  Stands(h, Append(m, x))
<1>1. /\ Len(h) \in 1..Len(m) /\ Len(Append(m, x)) = Len(m) + 1
      /\ \A i \in 1..Len(m) : Append(m, x)[i] = m[i]
      /\ Append(m, x)[Len(m) + 1] = x
  BY DEF Stands
<1>2. /\ Len(h) \in 1..(Len(m) + 1)
      /\ \A i \in 1..Len(h) : i \in 1..Len(m)
      /\ \A j \in (Len(h) + 1)..(Len(m) + 1) :
           j = Len(m) + 1 \/ (j \in (Len(h) + 1)..Len(m) /\ j \in 1..Len(m))
  BY <1>1
<1> QED BY <1>1, <1>2 DEF Stands

\* A history stands for itself once the model had the last word.
LEMMA StandsAnswered ==
    ASSUME NEW m \in Seq(Items), NEW s \in Seq(Items), s # <<>>,
           \A i \in 1..Len(s) : ~FromUser(s[i])
    PROVE  Stands(m \o s, m \o s)
<1>1. Len(m) \in Nat /\ Len(s) \in Nat /\ Len(s) > 0 /\ Len(m \o s) = Len(m) + Len(s)
  OBVIOUS
<1>2. (m \o s)[Len(m) + Len(s)] = s[Len(s)]
  BY <1>1
<1>3. ~FromUser(s[Len(s)])
  BY <1>1
<1> QED BY <1>1, <1>2, <1>3 DEF Stands

\* A chain keeps standing for a history when the server learns a response.
LEMMA WholeLearns ==
    ASSUME TInv, server' = server \/ \E s : server' = Append(server, s),
           NEW c \in Ids, NEW l, NEW m, Whole(c, l, m)
    PROVE  c # 0 /\ l = {} => Stands(server'[c], m)
<1>1. ASSUME c # 0 PROVE server'[c] = server[c]
  <2>1. c \in 1..Len(server) /\ server \in Seq(Seq(Items))
    BY <1>1 DEF TInv, ServerTyped, Ids
  <2>2. ASSUME NEW s, server' = Append(server, s) PROVE server'[c] = server[c]
    BY <2>1, <2>2
  <2> QED BY <2>2
<1> QED BY <1>1 DEF Whole

\* What a response says is never from the user.
LEMMA AnswerFromModel ==
    ASSUME TInv, turns >= 1
    PROVE  /\ TextOf(round) \o ReadyCalls(round) \in Seq(Items)
           /\ \A i \in 1..Len(TextOf(round) \o ReadyCalls(round)) :
                ~FromUser((TextOf(round) \o ReadyCalls(round))[i])
           /\ Len(TextOf(round) \o ReadyCalls(round)) =
                (IF round.text THEN 1 ELSE 0) + round.ready
<1>1. TextOf(round) \in Seq(Items) /\ round \in Rounds
  BY TextTyped DEF TInv, StreamTyped
<1>2. /\ ReadyCalls(round) \in Seq(Items) /\ Len(ReadyCalls(round)) = round.ready
      /\ \A i \in 1..Len(ReadyCalls(round)) : ReadyCalls(round)[i].k = "call"
  BY <1>1, CallsTyped DEF TInv
<1>3. /\ Len(TextOf(round)) = IF round.text THEN 1 ELSE 0
      /\ \A i \in 1..Len(TextOf(round)) : TextOf(round)[i].k = "text"
  BY DEF TextOf, Answer
<1>t. PICK t : t = TextOf(round)
  OBVIOUS
<1>c. PICK q : q = ReadyCalls(round)
  OBVIOUS
<1>4. /\ t \in Seq(Items) /\ q \in Seq(Items)
      /\ \A i \in 1..Len(t) : ~FromUser(t[i])
      /\ \A i \in 1..Len(q) : ~FromUser(q[i])
  BY <1>1, <1>2, <1>3, <1>t, <1>c DEF FromUser
<1>5. \A i \in 1..Len(t \o q) : ~FromUser((t \o q)[i])
  <2> SUFFICES ASSUME NEW i \in 1..Len(t \o q) PROVE ~FromUser((t \o q)[i])
    OBVIOUS
  <2>1. Len(t \o q) = Len(t) + Len(q) /\ Len(t) \in Nat /\ Len(q) \in Nat
    BY <1>4
  <2>2. CASE i <= Len(t)
    BY <1>4, <2>1, <2>2
  <2>3. CASE i > Len(t)
    <3>1. (t \o q)[i] = q[i - Len(t)] /\ i - Len(t) \in 1..Len(q)
      BY <1>4, <2>1, <2>3
    <3> QED BY <1>4, <3>1
  <2> QED BY <2>1, <2>2, <2>3
<1>6. t \o q \in Seq(Items) /\ Len(t \o q) = Len(t) + Len(q)
  BY <1>4
<1> QED BY <1>2, <1>3, <1>5, <1>6, <1>t, <1>c

\* The steps that leave the chain, the history and the stream alone.
LEMMA WholeFrame ==
    ASSUME WholeInv,
           UNCHANGED <<server, before, pc, messages, chain, lapses, fwd, shown,
                       round, turns, iter>>
    PROVE  WholeInv'
BY DEF WholeInv, Whole, StreamInv, Pending, TextOf, Answer, AllCalls, Call

\* A turn opens on a chain that stands for the history.
LEMMA OpensWhole ==
    ASSUME TInv, WholeInv,
           \/ BeginReused \/ BeginRollover
           \/ \E b \in BOOLEAN : BeginRebuilt(b)
    PROVE  WholeInv'
<1>1. /\ pc = "idle" /\ pc' = "start" /\ fwd' = fwd /\ server' = server
      /\ Idle
  BY DEF BeginReused, BeginRollover, BeginRebuilt, Open, Idle, stream
<1>2. Words \in Items /\ FromUser(Words)
  BY <1>1, WordsTyped DEF TInv, FromUser, Words
<1>3. CASE BeginReused
  <2>1. /\ messages' = Append(messages, Words) /\ chain' = chain /\ lapses' = lapses
        /\ before'.messages = messages /\ before'.chain = chain
        /\ before'.lapses = lapses
    BY <1>3 DEF BeginReused, Open
  <2>2. Whole(chain, lapses, messages)
    BY <1>1 DEF WholeInv
  <2>3. ASSUME chain # 0, lapses = {} PROVE Stands(server[chain], Append(messages, Words))
    <3>1. server[chain] \in Seq(Items) /\ messages \in Seq(Items)
      BY <2>3 DEF TInv, ServerTyped, ChainTyped, HistoryTyped, Ids
    <3> QED BY <1>2, <2>2, <2>3, <3>1, StandsAppend DEF Whole
  <2> QED BY <1>1, <2>1, <2>2, <2>3 DEF WholeInv, Whole
<1>4. CASE chain' = 0 /\ before'.chain = 0
  BY <1>1, <1>4 DEF WholeInv, Whole
<1> QED BY <1>3, <1>4 DEF BeginRollover, BeginRebuilt, Open

\* A turn ends with the runtime kept or dropped.
LEMMA EndsWhole ==
    ASSUME TInv, WholeInv,
           \/ BeginFails \/ Retarget
           \/ \E b \in BOOLEAN : EndOk(b) \/ EndErr(b)
    PROVE  WholeInv'
<1>1. /\ pc # "stream" /\ pc' = "idle" /\ fwd' = fwd /\ server' = server
      /\ before' = before
      /\ \/ chain' = 0
         \/ messages' = messages /\ chain' = chain /\ lapses' = lapses
  BY DEF BeginFails, Retarget, EndOk, EndErr, Dropped, Rest, Idle, stream, past,
         link, loop
<1> QED BY <1>1 DEF WholeInv, Whole

\* The stream is dropped: the snapshot comes back, or the chain is forgotten.
LEMMA DropsWhole ==
    ASSUME TInv, WholeInv,
           \/ Stopped \/ EndsUnclean
           \/ \E b \in BOOLEAN : ReceiveError(b) \/ EndsBad(b)
    PROVE  WholeInv'
<1>1. /\ pc' # "stream" /\ fwd' = NoFwd /\ server' = server /\ before' = before
      /\ \/ chain' = 0
         \/ lapses' # {}
         \/ messages' = before.messages /\ chain' = before.chain /\ lapses' = before.lapses
  BY DEF Stopped, EndsUnclean, ReceiveError, EndsBad, DropStream, Unchain, Rest, past
<1> QED BY <1>1 DEF WholeInv, Whole

\* A request is whole when its chain stands for the history.
LEMMA RequestsWhole ==
    ASSUME TInv, TInv', WholeInv, NEW r \in Rounds, NEW s \in Scripts,
           NEW b \in BOOLEAN, Request(r, s, b)
    PROVE  WholeInv'
<1> DEFINE c == IF attempt = 2 THEN 0 ELSE chain
<1>1. /\ pc = "start" /\ pc' = "stream" /\ chain' = c
      /\ lapses' = IF c = 0 THEN {} ELSE lapses
      /\ shown' = Shown(c) /\ round' = r
      /\ server' = IF b THEN Append(server, Shown(c) \o TextOf(r) \o AllCalls(r))
                   ELSE server
      /\ fwd' = [script |-> s, id |-> IF b THEN Len(server') ELSE 0,
                 effect |-> Nothing, lapses |-> lapses']
      /\ b => \E i \in DOMAIN s : s[i] = "clean"
      /\ messages' = messages /\ before' = before /\ turns' = turns /\ iter' = iter
  BY DEF Request, conversation, past, counts
<1>2. c \in Ids
  BY DEF TInv, ChainTyped, ServerTyped, Ids
<1>3. Whole(chain, lapses, messages) /\ (c = 0 \/ c = chain)
  BY <1>1 DEF WholeInv
<1> HIDE DEF c
<1>4. lapses' = {} => shown' = messages
  <2>1. CASE c = 0
    BY <1>1, <2>1 DEF Shown
  <2>2. CASE c # 0
    <3>1. server[c] \in Seq(Items) /\ messages \in Seq(Items)
      BY <1>2, <2>2 DEF TInv, ServerTyped, HistoryTyped, Ids
    <3>2. ASSUME lapses = {} PROVE server[c] \o Trailing(messages) = messages
      BY <1>3, <2>2, <3>1, <3>2, StandsShows DEF Whole
    <3> QED BY <1>1, <2>2, <3>2 DEF Shown
  <2> QED BY <2>1, <2>2
<1>5. /\ fwd'.script = s /\ fwd'.effect = Nothing /\ fwd'.lapses = lapses'
      /\ fwd'.id = IF b THEN Len(server') ELSE 0
  BY <1>1
<1>6. ASSUME b
      PROVE  /\ server'[fwd'.id] = Shown(c) \o TextOf(r) \o AllCalls(r)
             /\ Pending'
  <2>1. Len(server') = Len(server) + 1 /\ Len(server) \in Nat /\ server \in Seq(Seq(Items))
    BY <1>1, <1>6 DEF TInv, ServerTyped
  <2>2. PICK x : x = Shown(c) \o TextOf(r) \o AllCalls(r)
    OBVIOUS
  <2>3. server' = Append(server, x) /\ fwd'.id = Len(server) + 1
    BY <1>1, <1>5, <1>6, <2>1, <2>2
  <2>4. server'[Len(server) + 1] = x
    BY <2>1, <2>3
  <2> QED BY <1>1, <1>5, <1>6, <2>2, <2>3, <2>4 DEF Pending
<1>7. TextOf(round)' = TextOf(r) /\ AllCalls(round)' = AllCalls(r)
  BY <1>1 DEF TextOf, Answer, AllCalls, Call
<1>8. ~b => fwd'.id = 0
  BY <1>5
<1>9. StreamInv'
  BY <1>1, <1>4, <1>5, <1>6, <1>7, <1>8 DEF StreamInv
<1>10. Whole(before.chain, before.lapses, before.messages)'
  <2>1. before.chain \in Ids /\ Whole(before.chain, before.lapses, before.messages)
    BY DEF TInv, BeforeTyped, WholeInv
  <2>2. server' = server \/ \E x : server' = Append(server, x)
    BY <1>1
  <2>3. before.chain # 0 /\ before.lapses = {} =>
          Stands(server'[before.chain], before.messages)
    BY <2>1, <2>2, WholeLearns
  <2> QED BY <1>1, <2>3 DEF Whole
<1> QED BY <1>1, <1>9, <1>10 DEF WholeInv

\* The forwarder names a response only after the whole of it.
LEMMA ForwardsWhole ==
    ASSUME TInv, WholeInv, ForwardDeliver \/ ForwardApply \/ LateApply
    PROVE  WholeInv'
<1>1. /\ UNCHANGED <<server, before, pc, messages, shown, round, turns, iter>>
  BY DEF ForwardDeliver, ForwardApply, LateApply, conversation, past, loop, counts, stream
<1>2. TextOf(round)' = TextOf(round) /\ AllCalls(round)' = AllCalls(round)
  BY <1>1 DEF TextOf, Answer, AllCalls, Call
<1>3. fwd \in [script : Seq(Events), id : Ids, effect : Ids \cup {Nothing},
               lapses : SUBSET Lapses]
  BY DEF TInv, StreamTyped
<1>4. Whole(before.chain, before.lapses, before.messages)'
  BY <1>1 DEF WholeInv, Whole
<1>5. CASE ForwardDeliver
  <2>1. /\ fwd.script # <<>> /\ fwd.effect = Nothing /\ chain' = chain /\ lapses' = lapses
        /\ fwd'.script = Tail(fwd.script) /\ fwd'.id = fwd.id
        /\ fwd'.lapses = fwd.lapses
        /\ fwd'.effect = CASE Head(fwd.script) = "clean" /\ fwd.id # 0 -> fwd.id
                           [] Head(fwd.script) = "dirty" -> 0
                           [] OTHER -> Nothing
    BY <1>3, <1>5 DEF ForwardDeliver, link
  <2>2. fwd'.effect \in {Nothing, 0, fwd.id}
        /\ (Head(fwd.script) = "clean" /\ fwd.id # 0 => fwd'.effect = fwd.id)
    BY <2>1
  <2>3. pc = "stream"
    BY <2>1 DEF WholeInv, NoFwd
  <2>4. fwd.id # 0 => fwd.id # Nothing
    BY <1>3 DEF Ids, Nothing, TInv, ServerTyped
  <2>5. ASSUME fwd.id # 0, Pending PROVE Pending'
    <3>1. PICK i \in DOMAIN fwd.script : fwd.script[i] = "clean"
      BY <2>1, <2>5 DEF Pending
    <3>2. fwd.script \in Seq(Events) /\ i \in 1..Len(fwd.script)
      BY <1>3, <3>1
    <3>3. CASE i = 1
      BY <2>2, <2>4, <2>5, <3>1, <3>2, <3>3 DEF Pending
    <3>4. CASE i # 1
      <4>1. /\ i - 1 \in DOMAIN Tail(fwd.script)
            /\ Tail(fwd.script)[i - 1] = fwd.script[i]
        BY <3>2, <3>4
      <4> QED BY <2>1, <3>1, <4>1 DEF Pending
    <3> QED BY <3>3, <3>4
  <2>6. StreamInv
    BY <2>3 DEF WholeInv
  <2>7. StreamInv'
    BY <1>1, <1>2, <2>1, <2>2, <2>5, <2>6 DEF StreamInv
  <2> QED BY <1>1, <1>4, <2>3, <2>7 DEF WholeInv
<1>6. CASE ForwardApply
  <2>1. /\ fwd.effect # Nothing /\ chain' = fwd.effect
        /\ lapses' = IF fwd.effect = 0 THEN {} ELSE fwd.lapses
        /\ fwd'.effect = Nothing /\ fwd'.id = fwd.id /\ fwd'.lapses = fwd.lapses
    BY <1>3, <1>6 DEF ForwardApply
  <2>2. pc = "stream"
    BY <2>1 DEF WholeInv, NoFwd
  <2>3. StreamInv
    BY <2>2 DEF WholeInv
  <2>4. StreamInv'
    BY <1>1, <1>2, <2>1, <2>3 DEF StreamInv
  <2> QED BY <1>1, <1>4, <2>2, <2>4 DEF WholeInv
<1>7. CASE LateApply
  <2>1. fwd' = fwd /\ (chain' = 0 \/ lapses' # {})
    BY <1>7 DEF LateApply, stream
  <2>2. StreamInv => StreamInv'
    BY <1>1, <1>2, <2>1 DEF StreamInv, Pending
  <2> QED BY <1>1, <1>4, <2>1, <2>2 DEF WholeInv, Whole
<1> QED BY <1>5, <1>6, <1>7

\* A whole response of a whole request leaves a chain that stands for the
\* history with the response in it.
LEMMA AnswersWhole ==
    ASSUME TInv, WholeInv, EndsRound
    PROVE  WholeInv'
<1>1. /\ pc = "stream" /\ pc' # "stream" /\ fwd' = NoFwd /\ server' = server
      /\ before' = before /\ chain' = chain
      /\ fwd.script = <<>> /\ fwd.effect = Nothing
      /\ messages' = messages \o TextOf(round) \o ReadyCalls(round)
      /\ round.bad = 0 \/ round.bad > 0
  BY DEF EndsRound, Closed, DropStream, past, TInv, StreamTyped, Rounds
<1>2. ASSUME chain # 0, lapses' = {}
      PROVE  /\ lapses = {} /\ fwd.id # 0 /\ ~(round.bare > 0) /\ round # NoRound
             /\ ~(round.bad > 0)
  BY <1>2 DEF EndsRound, Bad
<1>3. ASSUME chain # 0, lapses' = {} PROVE Stands(server[chain], messages')
  <2>1. StreamInv /\ ~Pending
    BY <1>1 DEF WholeInv, Pending
  <2>2. /\ chain = fwd.id /\ shown = messages
        /\ server[chain] = shown \o TextOf(round) \o AllCalls(round)
    BY <1>2, <1>3, <2>1 DEF StreamInv
  <2>3. round \in Rounds /\ turns >= 1 /\ messages \in Seq(Items)
    BY <1>1 DEF TInv, StreamTyped, Shape, HistoryTyped
  <2>4. round.bare = 0 /\ round.bad = 0 /\ round.ready \in Nat /\ round.text \in BOOLEAN
    BY <1>2, <1>3, <2>3, AgentAssumption DEF Rounds
  <2>5. AllCalls(round) = ReadyCalls(round)
    BY <2>4 DEF AllCalls, ReadyCalls
  <2>6. round.text \/ round.ready > 0
    <3>1. round = [text |-> round.text, ready |-> round.ready, bare |-> round.bare,
                   bad |-> round.bad]
      BY <2>3 DEF Rounds
    <3> QED BY <1>2, <1>3, <2>4, <3>1 DEF NoRound
  <2>7. PICK t : t = TextOf(round)
    OBVIOUS
  <2>8. PICK q : q = ReadyCalls(round)
    OBVIOUS
  <2>9. /\ t \o q \in Seq(Items) /\ t \o q # <<>>
        /\ \A i \in 1..Len(t \o q) : ~FromUser((t \o q)[i])
    <3>1. Len(t \o q) = (IF round.text THEN 1 ELSE 0) + round.ready
      BY <2>3, <2>7, <2>8, AnswerFromModel
    <3>2. Len(t \o q) > 0
      BY <2>4, <2>6, <3>1
    <3> QED BY <2>3, <2>7, <2>8, <3>2, AnswerFromModel
  <2>10. Stands(messages \o (t \o q), messages \o (t \o q))
    BY <2>3, <2>9, StandsAnswered
  <2>11. messages \o (t \o q) = messages \o t \o q
    <3>1. t \in Seq(Items) /\ q \in Seq(Items)
      BY <2>3, <2>7, <2>8, TextTyped, CallsTyped DEF TInv
    <3> QED BY <2>3, <3>1, ConcatAssociative
  <2> QED BY <1>1, <2>2, <2>5, <2>7, <2>8, <2>10, <2>11
<1> QED BY <1>1, <1>3 DEF WholeInv, Whole

\* A tool's result joins the trailing run.
LEMMA ReturnsWhole ==
    ASSUME TInv, WholeInv, RunTool
    PROVE  WholeInv'
<1>1. /\ pc = "tools" /\ pc' # "stream" /\ fwd' = fwd /\ server' = server
      /\ before' = before /\ chain' = chain /\ lapses' = lapses
      /\ messages' = Append(messages, ResultOf(Head(todo)))
  BY DEF RunTool, stream, past, link
<1>2. todo \in Seq(Items) /\ todo # <<>> /\ messages \in Seq(Items)
  BY <1>1 DEF TInv, HistoryTyped, Shape
<1>3. Head(todo) \in Items
  BY <1>2
<1>4. ResultOf(Head(todo)) \in Items /\ FromUser(ResultOf(Head(todo)))
  BY <1>3, ResultTyped DEF FromUser
<1>5. Whole(chain, lapses, messages)
  BY <1>1 DEF WholeInv
<1>6. ASSUME chain # 0, lapses = {}
      PROVE  Stands(server[chain], Append(messages, ResultOf(Head(todo))))
  <2>1. server[chain] \in Seq(Items)
    BY <1>6 DEF TInv, ServerTyped, ChainTyped, Ids
  <2> QED BY <1>2, <1>4, <1>5, <1>6, <2>1, StandsAppend DEF Whole
<1> QED BY <1>1, <1>6 DEF WholeInv, Whole

LEMMA WholeKept == ASSUME TInv, WholeInv, [Next]_vars PROVE WholeInv'
<1>0. TInv'
  BY NextTyped
<1>1. ASSUME NEW b \in BOOLEAN, NEW retried \in BOOLEAN, StartFails(retried, b)
      PROVE  WholeInv'
  <2>1. /\ pc = "start" /\ pc' # "stream" /\ fwd' = fwd /\ server' = server
        /\ before' = before /\ messages' = messages
        /\ chain' = 0 \/ (chain' = chain /\ lapses' = lapses)
    BY <1>1 DEF StartFails, stream, past, link, conversation
  <2> QED BY <2>1 DEF WholeInv, Whole
<1>2. CASE ReceiveTerminal
  <2>1. /\ UNCHANGED <<server, before, pc, messages, shown, round, fwd, turns, iter>>
        /\ pc = "stream"
        /\ chain' = 0 \/ (chain' = chain /\ lapses' = lapses)
    BY <1>2 DEF ReceiveTerminal, Unchain, past, loop, counts
  <2>2. TextOf(round)' = TextOf(round) /\ AllCalls(round)' = AllCalls(round)
    BY <2>1 DEF TextOf, Answer, AllCalls, Call
  <2>3. StreamInv => StreamInv'
    BY <2>1, <2>2 DEF StreamInv, Pending
  <2> QED BY <2>1, <2>3 DEF WholeInv, Whole
<1>3. CASE Stop \/ UiDone \/ UNCHANGED vars
  <2>1. UNCHANGED <<server, before, pc, messages, chain, lapses, fwd, shown,
                    round, turns, iter>>
    BY <1>3 DEF Stop, UiDone, vars, conversation, link, stream, loop, counts, past
  <2> QED BY <2>1, WholeFrame
<1>4. ASSUME NEW r \in Rounds, NEW s \in Scripts, NEW b \in BOOLEAN, Request(r, s, b)
      PROVE  WholeInv'
  BY <1>0, <1>4, RequestsWhole
<1> QED BY <1>1, <1>2, <1>3, <1>4, OpensWhole, EndsWhole, DropsWhole, ForwardsWhole,
           AnswersWhole, ReturnsWhole DEF Next

\* Every request shows the model exactly the conversation the session holds,
\* replayed or chained, for any number of turns, round-trips, calls and
\* Stops, while no lapse has happened since the chain was last forgotten.
THEOREM RequestIsWholeHolds == Spec => []RequestIsWhole
<1>1. Init => TInv /\ WholeInv
  BY InitTyped DEF Init, WholeInv, Whole
<1>2. TInv /\ WholeInv /\ [Next]_vars => (TInv /\ WholeInv)'
  BY NextTyped, WholeKept
<1>3. WholeInv => RequestIsWhole
  BY DEF WholeInv, StreamInv, RequestIsWhole
<1> QED BY <1>1, <1>2, <1>3, PTL DEF Spec

=============================================================================
