------------------------ MODULE ApprovalBrokerProofs ------------------------
(***************************************************************************)
(* Proofs about ApprovalBroker, for any conversations, call identities and *)
(* number of calls: the map and the waiting calls agree, a grant is never  *)
(* written behind a resumed call, and the broker implements                *)
(* ApprovalPromise.                                                        *)
(***************************************************************************)
EXTENDS ApprovalBroker, TLAPS

\* A registration that was not made has left no trace; one that was has a key.
FreshCalls ==
  /\ \A n \in Calls : n <= nCalls => key[n] \in Keys
  /\ \A n \in Calls : n > nCalls =>
       /\ call[n] = "none" /\ chan[n] = "open" /\ verdict[n] = "none"
       /\ res[n] = "none" /\ n \notin granted

\* How a call's future, its oneshot and the decision about it hang together.
Settlement ==
  \A n \in Calls :
    /\ verdict[n] = "none" <=> call[n] \in {"none", "waiting"}
    /\ call[n] = "none" => n > nCalls
    /\ call[n] = "waiting" => chan[n] # "closed"
    /\ res[n] = "none" <=> decision[n] = "none"
    /\ res[n] = "persist" => decision[n] = "always"
    /\ chan[n] = "approved" => res[n] = "sent" /\ Approves(decision[n])
    /\ verdict[n] = "allow" => res[n] = "sent"

\* The inductive invariant: RowIsAwaited and WaitingIsReachable alone say
\* nothing of calls to come, of a receiver that is gone, or of the decision.
BrokerInv ==
  TypeOK /\ RowIsAwaited /\ WaitingIsReachable /\ FreshCalls /\ Settlement

-----------------------------------------------------------------------------
\* The initial state satisfies the invariant.
LEMMA BrokerInit == Init => BrokerInv
<1> SUFFICES ASSUME Init PROVE BrokerInv
  OBVIOUS
<1> USE BrokerAssumption
<1>1. TypeOK
  <2>1. nCalls \in 0..MaxCalls /\ pending \in [Keys -> 0..nCalls]
    BY DEF Init, NoEntry
  <2>2. key \in [Calls -> Keys \cup {<<>>}]
    BY DEF Init
  <2>3. /\ chan \in [Calls -> {"open", "approved", "denied", "dropped", "closed"}]
        /\ call \in [Calls -> {"none", "waiting", "ending", "done"}]
        /\ verdict \in [Calls -> {"none", "allow", "refuse"}]
        /\ res \in [Calls -> {"none", "taken", "persist", "send", "sent", "missed"}]
        /\ decision \in [Calls -> Choices \cup {"none"}]
    BY DEF Init
  <2>4. changed \in BOOLEAN /\ reading \in BOOLEAN
    BY DEF Init
  <2>5. granted \subseteq Calls /\ shown \subseteq Calls
    BY DEF Init
  <2> QED BY <2>1, <2>2, <2>3, <2>4, <2>5 DEF TypeOK
<1>2. RowIsAwaited /\ WaitingIsReachable /\ FreshCalls /\ Settlement
  BY DEF Init, RowIsAwaited, WaitingIsReachable, FreshCalls, Settlement, Calls,
         NoEntry, Approves
<1> QED BY <1>1, <1>2 DEF BrokerInv
-----------------------------------------------------------------------------
\* Every step keeps the types.
LEMMA TypeStep == TypeOK /\ [Next]_vars => TypeOK'
<1> SUFFICES ASSUME TypeOK, [Next]_vars PROVE TypeOK'
  OBVIOUS
<1> USE BrokerAssumption DEF TypeOK, mapVars, userVars, uiVars, futureVars
<1>1. ASSUME NEW k \in Keys, Begin(k) PROVE TypeOK'
  <2>1. nCalls + 1 \in Calls /\ nCalls' = nCalls + 1 /\ nCalls' \in 0..MaxCalls
    BY <1>1 DEF Begin, Calls
  <2>2. key' \in [Calls -> Keys \cup {<<>>}]
    BY <1>1, <2>1 DEF Begin
  <2>3. pending \in [Keys -> 0..nCalls']
    BY <2>1
  <2>4. pending' \in [Keys -> 0..nCalls']
    BY <1>1, <2>1, <2>3 DEF Begin
  <2>5. changed' \in BOOLEAN
    BY <1>1 DEF Begin, NotifyChanged
  <2>6. /\ call' \in [Calls -> {"none", "waiting", "ending", "done"}]
        /\ verdict' \in [Calls -> {"none", "allow", "refuse"}]
    BY <1>1, <2>1 DEF Begin
  <2> QED BY <1>1, <2>1, <2>2, <2>4, <2>5, <2>6 DEF Begin
<1>2. ASSUME NEW k \in Keys, NEW choice \in Choices, ResolveTake(k, choice) PROVE TypeOK'
  BY <1>2 DEF ResolveTake, NoEntry, Calls
<1>3. ASSUME NEW t \in Threads, CancelThread(t) PROVE TypeOK'
  BY <1>3 DEF CancelThread, NotifyChanged, NoEntry
<1>4. ASSUME NEW n \in Calls, ResolveNotify(n) PROVE TypeOK'
  BY <1>4 DEF ResolveNotify, NotifyChanged
<1>5. ASSUME NEW n \in Calls, ResolvePersist(n) PROVE TypeOK'
  BY <1>5 DEF ResolvePersist
<1>6. ASSUME NEW n \in Calls, ResolveSend(n) PROVE TypeOK'
  BY <1>6 DEF ResolveSend, Approves
<1>7. ASSUME NEW n \in Calls, Wake(n) PROVE TypeOK'
  BY <1>7 DEF Wake
<1>8. ASSUME NEW n \in Calls, GuardDrop(n) PROVE TypeOK'
  <2>1. pending' \in [Keys -> 0..nCalls] /\ changed' \in BOOLEAN
    <3>1. CASE pending[key[n]] = n
      BY <1>8, <3>1 DEF GuardDrop, NotifyChanged, NoEntry
    <3>2. CASE pending[key[n]] # n
      BY <1>8, <3>2 DEF GuardDrop
    <3> QED BY <3>1, <3>2
  <2> QED BY <1>8, <2>1 DEF GuardDrop
<1>9. ASSUME NEW n \in Calls, Abandon(n) PROVE TypeOK'
  BY <1>9 DEF Abandon
<1>10. ASSUME Forward PROVE TypeOK'
  BY <1>10 DEF Forward
<1>11. ASSUME Snapshot PROVE TypeOK'
  <2>1. Rows \subseteq Calls
    BY DEF Rows, Calls, NoEntry
  <2> QED BY <1>11, <2>1 DEF Snapshot
<1>12. ASSUME UNCHANGED vars PROVE TypeOK'
  BY <1>12 DEF vars
<1> QED BY <1>1, <1>2, <1>3, <1>4, <1>5, <1>6, <1>7, <1>8, <1>9, <1>10, <1>11,
           <1>12 DEF Next, Settle

\* Every step keeps the map, the calls and the decisions in agreement.
LEMMA BrokerStep == BrokerInv /\ [Next]_vars => BrokerInv'
<1> SUFFICES ASSUME BrokerInv, [Next]_vars PROVE BrokerInv'
  OBVIOUS
<1> USE BrokerAssumption DEF BrokerInv, mapVars, userVars, uiVars, futureVars
<1>0. TypeOK'
  BY TypeStep
<1>1. ASSUME NEW k \in Keys, Begin(k)
      PROVE  RowIsAwaited' /\ WaitingIsReachable' /\ FreshCalls' /\ Settlement'
  <2>1. RowIsAwaited'
    BY <1>0, <1>1 DEF Begin, TypeOK, Calls, NoEntry, Approves, RowIsAwaited, FreshCalls, Settlement
  <2>2. WaitingIsReachable'
    BY <1>0, <1>1 DEF Begin, TypeOK, Calls, NoEntry, Approves, WaitingIsReachable, FreshCalls, Settlement, RowIsAwaited
  <2>3. FreshCalls'
    BY <1>0, <1>1 DEF Begin, TypeOK, Calls, NoEntry, Approves, FreshCalls, RowIsAwaited, Settlement
  <2>4. Settlement'
    BY <1>0, <1>1 DEF Begin, TypeOK, Calls, NoEntry, Approves, Settlement, RowIsAwaited, FreshCalls
  <2> QED BY <2>1, <2>2, <2>3, <2>4
<1>2. ASSUME NEW k \in Keys, NEW choice \in Choices, ResolveTake(k, choice)
      PROVE  RowIsAwaited' /\ WaitingIsReachable' /\ FreshCalls' /\ Settlement'
  <2>1. RowIsAwaited'
    BY <1>0, <1>2 DEF ResolveTake, Choices, TypeOK, Calls, NoEntry, Approves, RowIsAwaited, FreshCalls, Settlement
  <2>2. WaitingIsReachable'
    BY <1>0, <1>2 DEF ResolveTake, Choices, TypeOK, Calls, NoEntry, Approves, WaitingIsReachable, FreshCalls, Settlement, RowIsAwaited
  <2>3. FreshCalls'
    BY <1>0, <1>2 DEF ResolveTake, Choices, TypeOK, Calls, NoEntry, Approves, FreshCalls, RowIsAwaited, Settlement
  <2>4. Settlement'
    BY <1>0, <1>2 DEF ResolveTake, Choices, TypeOK, Calls, NoEntry, Approves, Settlement, RowIsAwaited, FreshCalls
  <2> QED BY <2>1, <2>2, <2>3, <2>4
<1>3. ASSUME NEW t \in Threads, CancelThread(t)
      PROVE  RowIsAwaited' /\ WaitingIsReachable' /\ FreshCalls' /\ Settlement'
  <2>1. RowIsAwaited'
    BY <1>0, <1>3 DEF CancelThread, Rows, TypeOK, Calls, NoEntry, Approves, RowIsAwaited, FreshCalls, Settlement
  <2>2. WaitingIsReachable'
    BY <1>0, <1>3 DEF CancelThread, Rows, TypeOK, Calls, NoEntry, Approves, WaitingIsReachable, FreshCalls, Settlement, RowIsAwaited
  <2>3. FreshCalls'
    BY <1>0, <1>3 DEF CancelThread, Rows, TypeOK, Calls, NoEntry, Approves, FreshCalls, RowIsAwaited, Settlement
  <2>4. Settlement'
    BY <1>0, <1>3 DEF CancelThread, Rows, TypeOK, Calls, NoEntry, Approves, Settlement, RowIsAwaited, FreshCalls
  <2> QED BY <2>1, <2>2, <2>3, <2>4
<1>4. ASSUME NEW n \in Calls, ResolveNotify(n)
      PROVE  RowIsAwaited' /\ WaitingIsReachable' /\ FreshCalls' /\ Settlement'
  <2>1. RowIsAwaited'
    BY <1>0, <1>4 DEF ResolveNotify, TypeOK, Calls, NoEntry, Approves, RowIsAwaited, FreshCalls, Settlement
  <2>2. WaitingIsReachable'
    BY <1>0, <1>4 DEF ResolveNotify, TypeOK, Calls, NoEntry, Approves, WaitingIsReachable, FreshCalls, Settlement, RowIsAwaited
  <2>3. FreshCalls'
    BY <1>0, <1>4 DEF ResolveNotify, TypeOK, Calls, NoEntry, Approves, FreshCalls, RowIsAwaited, Settlement
  <2>4. Settlement'
    BY <1>0, <1>4 DEF ResolveNotify, TypeOK, Calls, NoEntry, Approves, Settlement, RowIsAwaited, FreshCalls
  <2> QED BY <2>1, <2>2, <2>3, <2>4
<1>5. ASSUME NEW n \in Calls, ResolvePersist(n)
      PROVE  RowIsAwaited' /\ WaitingIsReachable' /\ FreshCalls' /\ Settlement'
  <2>1. RowIsAwaited'
    BY <1>0, <1>5 DEF ResolvePersist, TypeOK, Calls, NoEntry, Approves, RowIsAwaited, FreshCalls, Settlement
  <2>2. WaitingIsReachable'
    BY <1>0, <1>5 DEF ResolvePersist, TypeOK, Calls, NoEntry, Approves, WaitingIsReachable, FreshCalls, Settlement, RowIsAwaited
  <2>3. FreshCalls'
    BY <1>0, <1>5 DEF ResolvePersist, TypeOK, Calls, NoEntry, Approves, FreshCalls, RowIsAwaited, Settlement
  <2>4. Settlement'
    BY <1>0, <1>5 DEF ResolvePersist, TypeOK, Calls, NoEntry, Approves, Settlement, RowIsAwaited, FreshCalls
  <2> QED BY <2>1, <2>2, <2>3, <2>4
<1>6. ASSUME NEW n \in Calls, ResolveSend(n)
      PROVE  RowIsAwaited' /\ WaitingIsReachable' /\ FreshCalls' /\ Settlement'
  <2>1. RowIsAwaited'
    BY <1>0, <1>6 DEF ResolveSend, TypeOK, Calls, NoEntry, Approves, RowIsAwaited, FreshCalls, Settlement
  <2>2. WaitingIsReachable'
    BY <1>0, <1>6 DEF ResolveSend, TypeOK, Calls, NoEntry, Approves, WaitingIsReachable, FreshCalls, Settlement, RowIsAwaited
  <2>3. FreshCalls'
    BY <1>0, <1>6 DEF ResolveSend, TypeOK, Calls, NoEntry, Approves, FreshCalls, RowIsAwaited, Settlement
  <2>4. Settlement'
    BY <1>0, <1>6 DEF ResolveSend, TypeOK, Calls, NoEntry, Approves, Settlement, RowIsAwaited, FreshCalls
  <2> QED BY <2>1, <2>2, <2>3, <2>4
<1>7. ASSUME NEW n \in Calls, Wake(n)
      PROVE  RowIsAwaited' /\ WaitingIsReachable' /\ FreshCalls' /\ Settlement'
  <2>1. RowIsAwaited'
    BY <1>0, <1>7 DEF Wake, TypeOK, Calls, NoEntry, Approves, RowIsAwaited, FreshCalls, Settlement
  <2>2. WaitingIsReachable'
    BY <1>0, <1>7 DEF Wake, TypeOK, Calls, NoEntry, Approves, WaitingIsReachable, FreshCalls, Settlement, RowIsAwaited
  <2>3. FreshCalls'
    BY <1>0, <1>7 DEF Wake, TypeOK, Calls, NoEntry, Approves, FreshCalls, RowIsAwaited, Settlement
  <2>4. Settlement'
    BY <1>0, <1>7 DEF Wake, TypeOK, Calls, NoEntry, Approves, Settlement, RowIsAwaited, FreshCalls
  <2> QED BY <2>1, <2>2, <2>3, <2>4
<1>8. ASSUME NEW n \in Calls, GuardDrop(n)
      PROVE  RowIsAwaited' /\ WaitingIsReachable' /\ FreshCalls' /\ Settlement'
  <2>1. RowIsAwaited'
    BY <1>0, <1>8 DEF GuardDrop, TypeOK, Calls, NoEntry, Approves, RowIsAwaited, FreshCalls, Settlement
  <2>2. WaitingIsReachable'
    BY <1>0, <1>8 DEF GuardDrop, TypeOK, Calls, NoEntry, Approves, WaitingIsReachable, FreshCalls, Settlement, RowIsAwaited
  <2>3. FreshCalls'
    BY <1>0, <1>8 DEF GuardDrop, TypeOK, Calls, NoEntry, Approves, FreshCalls, RowIsAwaited, Settlement
  <2>4. Settlement'
    BY <1>0, <1>8 DEF GuardDrop, TypeOK, Calls, NoEntry, Approves, Settlement, RowIsAwaited, FreshCalls
  <2> QED BY <2>1, <2>2, <2>3, <2>4
<1>9. ASSUME NEW n \in Calls, Abandon(n)
      PROVE  RowIsAwaited' /\ WaitingIsReachable' /\ FreshCalls' /\ Settlement'
  <2>1. RowIsAwaited'
    BY <1>0, <1>9 DEF Abandon, TypeOK, Calls, NoEntry, Approves, RowIsAwaited, FreshCalls, Settlement
  <2>2. WaitingIsReachable'
    BY <1>0, <1>9 DEF Abandon, TypeOK, Calls, NoEntry, Approves, WaitingIsReachable, FreshCalls, Settlement, RowIsAwaited
  <2>3. FreshCalls'
    BY <1>0, <1>9 DEF Abandon, TypeOK, Calls, NoEntry, Approves, FreshCalls, RowIsAwaited, Settlement
  <2>4. Settlement'
    BY <1>0, <1>9 DEF Abandon, TypeOK, Calls, NoEntry, Approves, Settlement, RowIsAwaited, FreshCalls
  <2> QED BY <2>1, <2>2, <2>3, <2>4
<1>10. ASSUME Forward
      PROVE  RowIsAwaited' /\ WaitingIsReachable' /\ FreshCalls' /\ Settlement'
  <2>1. RowIsAwaited'
    BY <1>0, <1>10 DEF Forward, TypeOK, Calls, NoEntry, Approves, RowIsAwaited, FreshCalls, Settlement
  <2>2. WaitingIsReachable'
    BY <1>0, <1>10 DEF Forward, TypeOK, Calls, NoEntry, Approves, WaitingIsReachable, FreshCalls, Settlement, RowIsAwaited
  <2>3. FreshCalls'
    BY <1>0, <1>10 DEF Forward, TypeOK, Calls, NoEntry, Approves, FreshCalls, RowIsAwaited, Settlement
  <2>4. Settlement'
    BY <1>0, <1>10 DEF Forward, TypeOK, Calls, NoEntry, Approves, Settlement, RowIsAwaited, FreshCalls
  <2> QED BY <2>1, <2>2, <2>3, <2>4
<1>11. ASSUME Snapshot
      PROVE  RowIsAwaited' /\ WaitingIsReachable' /\ FreshCalls' /\ Settlement'
  <2>1. RowIsAwaited'
    BY <1>0, <1>11 DEF Snapshot, TypeOK, Calls, NoEntry, Approves, RowIsAwaited, FreshCalls, Settlement
  <2>2. WaitingIsReachable'
    BY <1>0, <1>11 DEF Snapshot, TypeOK, Calls, NoEntry, Approves, WaitingIsReachable, FreshCalls, Settlement, RowIsAwaited
  <2>3. FreshCalls'
    BY <1>0, <1>11 DEF Snapshot, TypeOK, Calls, NoEntry, Approves, FreshCalls, RowIsAwaited, Settlement
  <2>4. Settlement'
    BY <1>0, <1>11 DEF Snapshot, TypeOK, Calls, NoEntry, Approves, Settlement, RowIsAwaited, FreshCalls
  <2> QED BY <2>1, <2>2, <2>3, <2>4
<1>12. ASSUME UNCHANGED vars
       PROVE  RowIsAwaited' /\ WaitingIsReachable' /\ FreshCalls' /\ Settlement'
  BY <1>12 DEF vars, RowIsAwaited, WaitingIsReachable, FreshCalls, Settlement
<1> QED BY <1>0, <1>1, <1>2, <1>3, <1>4, <1>5, <1>6, <1>7, <1>8, <1>9, <1>10,
           <1>11, <1>12 DEF Next, Settle
-----------------------------------------------------------------------------
\* The invariant holds in every state of every behaviour of the broker.
THEOREM BrokerInvariant == Spec => []BrokerInv
BY BrokerInit, BrokerStep, PTL DEF Spec

\* The pending map, the oneshots, the guards and the host's view of
\* ApprovalBroker keep their types through every operation.
THEOREM BrokerTyped == Spec => []TypeOK
<1>1. BrokerInv => TypeOK
  BY DEF BrokerInv
<1> QED BY <1>1, BrokerInvariant, PTL

\* Rows belong to calls whose future still exists and that nothing decided.
THEOREM RowsAreAwaited == Spec => []RowIsAwaited
<1>1. BrokerInv => RowIsAwaited
  BY DEF BrokerInv
<1> QED BY <1>1, BrokerInvariant, PTL

\* A waiting call can still be answered, whatever other calls used its key.
THEOREM WaitingCallsReachable == Spec => []WaitingIsReachable
<1>1. BrokerInv => WaitingIsReachable
  BY DEF BrokerInv
<1> QED BY <1>1, BrokerInvariant, PTL

\* No grant is written for a call that has already resumed with its approval.
THEOREM GrantComesFirst == Spec => GrantBeforeResume
<1> DEFINE Ordered ==
      \A n \in Calls : n \in granted' \ granted => verdict'[n] # "allow"
<1>1. BrokerInv /\ [Next]_vars => [Ordered]_vars
  <2> SUFFICES ASSUME BrokerInv, Next, NEW m \in Calls, m \in granted' \ granted
              PROVE  verdict'[m] # "allow"
    OBVIOUS
  <2>1. PICK n \in Calls : ResolvePersist(n)
    BY DEF Next, Settle, Begin, ResolveTake, CancelThread, ResolveNotify,
           ResolveSend, Wake, GuardDrop, Abandon, Forward, Snapshot, userVars
  <2>2. m = n /\ res[n] = "persist" /\ verdict' = verdict
    BY <2>1 DEF ResolvePersist, futureVars
  <2> QED BY <2>2 DEF BrokerInv, Settlement
<1> QED BY <1>1, BrokerInvariant, PTL DEF Spec, GrantBeforeResume

-----------------------------------------------------------------------------
(* The broker implements ApprovalPromise. *)

\* The initial state of the broker is one of the promise.
LEMMA PromiseInit == Init => Promise!Init
<1> SUFFICES ASSUME Init PROVE Promise!Init
  OBVIOUS
<1>1. 1..nCalls = {}
  BY DEF Init
<1>2. {n \in Calls : Approves(decision[n])} = {}
  BY DEF Init, Approves
<1> QED BY <1>1, <1>2 DEF Init, Promise!Init

\* Every step of the broker is a step of the promise, or leaves it alone.
LEMMA PromiseStep == BrokerInv /\ [Next]_vars => [Promise!Next]_(Promise!vars)
<1> SUFFICES ASSUME BrokerInv, [Next]_vars PROVE [Promise!Next]_(Promise!vars)
  OBVIOUS
<1> USE BrokerAssumption DEF BrokerInv, mapVars, userVars, uiVars, futureVars
<1> DEFINE Same == UNCHANGED <<nCalls, decision, verdict>>
<1>0. ASSUME Same PROVE UNCHANGED Promise!vars
  BY <1>0 DEF Promise!vars
<1>1. ASSUME NEW k \in Keys, Begin(k) PROVE Promise!Next
  <2>1. /\ nCalls + 1 \in Calls /\ nCalls' = nCalls + 1 /\ nCalls + 1 \notin 1..nCalls
        /\ 1..nCalls' = 1..nCalls \cup {nCalls + 1} /\ decision' = decision
    BY <1>1 DEF Begin, TypeOK, Calls
  <2>2. CASE pending[k] = NoEntry
    <3>1. Promise!Ask(nCalls + 1)
      BY <1>1, <2>1, <2>2 DEF Begin, Promise!Ask
    <3> QED BY <2>1, <3>1 DEF Promise!Next
  <2>3. CASE pending[k] # NoEntry
    <3>1. Promise!AskRefused(nCalls + 1)
      BY <1>1, <2>1, <2>3 DEF Begin, Promise!AskRefused
    <3> QED BY <2>1, <3>1 DEF Promise!Next
  <2> QED BY <2>2, <2>3
<1>2. ASSUME NEW k \in Keys, NEW choice \in Choices, ResolveTake(k, choice)
      PROVE  [Promise!Next]_(Promise!vars)
  <2> DEFINE m == pending[k]
  <2>1. m \in Calls /\ m \in 1..nCalls /\ decision[m] = "none"
    BY <1>2 DEF ResolveTake, TypeOK, RowIsAwaited, Settlement, Calls, NoEntry
  <2>2. /\ decision' = [decision EXCEPT ![m] = choice]
        /\ nCalls' = nCalls /\ verdict' = verdict
    BY <1>2 DEF ResolveTake
  <2>3. CASE Approves(choice)
    <3>1. {n \in Calls : Approves(decision'[n])}
            = {n \in Calls : Approves(decision[n])} \cup {m}
      BY <2>1, <2>2, <2>3 DEF TypeOK, Approves
    <3>2. m \notin {n \in Calls : Approves(decision[n])}
      BY <2>1 DEF Approves
    <3>3. Promise!Approve(m)
      BY <2>1, <2>2, <3>1, <3>2 DEF Promise!Approve
    <3> QED BY <2>1, <3>3 DEF Promise!Next
  <2>4. CASE ~Approves(choice)
    <3>1. {n \in Calls : Approves(decision'[n])} = {n \in Calls : Approves(decision[n])}
      BY <2>1, <2>2, <2>4 DEF TypeOK, Approves
    <3> QED BY <2>2, <3>1 DEF Promise!vars
  <2> QED BY <2>3, <2>4
<1>3. ASSUME NEW n \in Calls, Wake(n) PROVE Promise!Next
  <2>1. /\ n \in 1..nCalls /\ verdict[n] = "none"
        /\ nCalls' = nCalls /\ decision' = decision
    BY <1>3 DEF Wake, TypeOK, FreshCalls, Settlement, Calls
  <2>2. CASE chan[n] = "approved"
    <3>1. Approves(decision[n])
      BY <2>2 DEF Settlement
    <3>2. Promise!Allow(n)
      BY <1>3, <2>1, <2>2, <3>1 DEF Wake, Promise!Allow
    <3> QED BY <3>2 DEF Promise!Next
  <2>3. CASE chan[n] # "approved"
    <3>1. Promise!Refuse(n)
      BY <1>3, <2>1, <2>3 DEF Wake, Promise!Refuse
    <3> QED BY <3>1 DEF Promise!Next
  <2> QED BY <2>2, <2>3
<1>4. ASSUME NEW n \in Calls, Abandon(n) PROVE Promise!Next
  <2>1. n \in 1..nCalls /\ verdict[n] = "none"
    BY <1>4 DEF Abandon, TypeOK, FreshCalls, Settlement, Calls
  <2>2. Promise!Refuse(n)
    BY <1>4, <2>1 DEF Abandon, Promise!Refuse
  <2> QED BY <2>2 DEF Promise!Next
<1>5. ASSUME \/ \E t \in Threads : CancelThread(t)
             \/ \E n \in Calls : \/ ResolveNotify(n) \/ ResolvePersist(n)
                                 \/ ResolveSend(n) \/ GuardDrop(n)
             \/ Forward \/ Snapshot \/ UNCHANGED vars
      PROVE  Same
  BY <1>5 DEF CancelThread, ResolveNotify, ResolvePersist, ResolveSend, GuardDrop,
              Forward, Snapshot, vars
<1> QED BY <1>0, <1>1, <1>2, <1>3, <1>4, <1>5 DEF Next, Settle

\* The broker keeps the gate's promise: every call is settled at most once, and
\* it is allowed only after the user approved that very registration.
THEOREM BrokerKeepsPromise == Spec => KeepsPromise
BY PromiseInit, PromiseStep, BrokerInvariant, PTL DEF Spec, KeepsPromise, Promise!Spec
=============================================================================
