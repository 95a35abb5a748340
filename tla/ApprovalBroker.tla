--------------------------- MODULE ApprovalBroker ---------------------------
(***************************************************************************)
(* core/agent/approval.rs: the suspension point between the tool gateway   *)
(* and the approval card.  A call is one registration (one token); calls   *)
(* are numbered in the order of begin.  Every section of the code between  *)
(* two locks is an action, so a decision, a cancellation, a timeout and a  *)
(* later call with the same key interleave as threads do.                  *)
(***************************************************************************)
EXTENDS Naturals, FiniteSets

CONSTANTS Threads,   \* conversations
          CallIds,   \* call identities within a conversation
          MaxCalls   \* bound on registrations

ASSUME BrokerAssumption == MaxCalls \in Nat

Calls == 1..MaxCalls
Keys == Threads \X CallIds   \* ApprovalKey; the session is part of the call id
NoEntry == 0

\* The card's answer: approved and remember, which counts for an approval only.
Choices == {"deny", "once", "always"}
Approves(choice) == choice \in {"once", "always"}

VARIABLES
  nCalls, key,    \* registrations so far, and the key of each
  pending,        \* the map: which registration holds a key
  chan,           \* oneshot of each call: open, approved, denied, dropped, closed
  call,           \* future of each call: none, waiting, ending, done
  verdict,        \* what the session got from it
  res,            \* resolve of each entry: none, taken, persist, send, sent, missed
  decision,       \* what the user decided in that resolve
  granted,        \* calls whose always-allow grant was written
  changed,        \* the watch channel holds an unseen revision
  reading, shown  \* the host was told, and the cards of its last snapshot

mapVars == <<pending, changed>>
userVars == <<res, decision, granted>>
uiVars == <<reading, shown>>
futureVars == <<call, verdict>>
vars == <<nCalls, key, mapVars, chan, futureVars, userVars, uiVars>>

Init ==
  /\ nCalls = 0 /\ key = [n \in Calls |-> <<>>]
  /\ pending = [k \in Keys |-> NoEntry]
  /\ chan = [n \in Calls |-> "open"] /\ call = [n \in Calls |-> "none"]
  /\ verdict = [n \in Calls |-> "none"]
  /\ res = [n \in Calls |-> "none"]
  /\ decision = [n \in Calls |-> "none"]
  /\ granted = {} /\ changed = TRUE /\ reading = FALSE /\ shown = {}

\* Mutant: a snapshot includes keys that hold no request.
RowsUnfiltered == {pending[k] : k \in Keys}

\* The registrations in the map, what pending_for_thread lists.
Rows == {pending[k] : k \in Keys} \ {NoEntry}

\* notify_changed: a coalescing invalidation; subscribing marks it changed too.
NotifyChanged == changed' = TRUE

\* Mutant: a new row is not announced.
BeginSilent(k) ==
  /\ nCalls < MaxCalls /\ pending[k] = NoEntry
  /\ nCalls' = nCalls + 1 /\ key' = [key EXCEPT ![nCalls + 1] = k]
  /\ pending' = [pending EXCEPT ![k] = nCalls + 1]
  /\ call' = [call EXCEPT ![nCalls + 1] = "waiting"]
  /\ UNCHANGED <<changed, chan, verdict, userVars, uiVars>>

\* begin: a key that is already pending refuses the new call at once.
Begin(k) ==
  /\ nCalls < MaxCalls
  /\ LET n == nCalls + 1
     IN /\ nCalls' = n /\ key' = [key EXCEPT ![n] = k]
        /\ \/ /\ pending[k] # NoEntry
              /\ call' = [call EXCEPT ![n] = "done"]
              /\ verdict' = [verdict EXCEPT ![n] = "refuse"]
              /\ UNCHANGED mapVars
           \/ /\ pending[k] = NoEntry
              /\ pending' = [pending EXCEPT ![k] = n] /\ NotifyChanged
              /\ call' = [call EXCEPT ![n] = "waiting"]
              /\ UNCHANGED verdict
  /\ UNCHANGED <<chan, userVars, uiVars>>

\* resolve: take the entry, announce it, persist the grant, resume the call.
\* Without an entry it returns false and changes nothing.
ResolveTake(k, choice) ==
  /\ pending[k] # NoEntry
  /\ pending' = [pending EXCEPT ![k] = NoEntry]
  /\ res' = [res EXCEPT ![pending[k]] = "taken"]
  /\ decision' = [decision EXCEPT ![pending[k]] = choice]
  /\ UNCHANGED <<nCalls, key, changed, chan, futureVars, granted, uiVars>>

ResolveNotify(n) ==
  /\ res[n] = "taken" /\ NotifyChanged
  /\ res' = [res EXCEPT ![n] =
               IF decision[n] = "always" THEN "persist" ELSE "send"]
  /\ UNCHANGED <<nCalls, key, pending, chan, futureVars, decision, granted, uiVars>>

\* A grant that cannot be written downgrades to allow-once.
ResolvePersist(n) ==
  /\ res[n] = "persist" /\ res' = [res EXCEPT ![n] = "send"]
  /\ granted' \in {granted, granted \cup {n}}
  /\ UNCHANGED <<nCalls, key, mapVars, chan, futureVars, decision, uiVars>>

\* resolve returns whether the receiver was still there.
ResolveSend(n) ==
  /\ res[n] = "send"
  /\ \/ /\ chan[n] = "open" /\ res' = [res EXCEPT ![n] = "sent"]
        /\ chan' = [chan EXCEPT ![n] =
                      IF Approves(decision[n]) THEN "approved" ELSE "denied"]
     \/ /\ chan[n] = "closed" /\ res' = [res EXCEPT ![n] = "missed"]
        /\ UNCHANGED chan
  /\ UNCHANGED <<nCalls, key, mapVars, futureVars, decision, granted, uiVars>>

\* cancel_thread: every sender of the thread is dropped.
CancelThread(t) ==
  /\ pending' = [k \in Keys |-> IF k[1] = t THEN NoEntry ELSE pending[k]]
  /\ chan' = [n \in Calls |->
                IF n \in Rows /\ key[n][1] = t /\ chan[n] = "open"
                THEN "dropped" ELSE chan[n]]
  /\ NotifyChanged
  /\ UNCHANGED <<nCalls, key, futureVars, userVars, uiVars>>

\* Mutant: a dropped sender counts as an approval.
WakeAllows(n) ==
  /\ call[n] = "waiting" /\ chan[n] \in {"approved", "denied", "dropped"}
  /\ call' = [call EXCEPT ![n] = "ending"]
  /\ verdict' = [verdict EXCEPT ![n] =
                   IF chan[n] = "denied" THEN "refuse" ELSE "allow"]
  /\ UNCHANGED <<nCalls, key, mapVars, chan, userVars, uiVars>>

\* The awaiting session: the oneshot resolved, a dropped sender to false.
Wake(n) ==
  /\ call[n] = "waiting" /\ chan[n] \in {"approved", "denied", "dropped"}
  /\ call' = [call EXCEPT ![n] = "ending"]
  /\ verdict' = [verdict EXCEPT ![n] =
                   IF chan[n] = "approved" THEN "allow" ELSE "refuse"]
  /\ UNCHANGED <<nCalls, key, mapVars, chan, userVars, uiVars>>

\* The approval timeout, or a session that goes away: the receiver is dropped
\* before the guard.
Abandon(n) ==
  /\ call[n] = "waiting" /\ call' = [call EXCEPT ![n] = "ending"]
  /\ chan' = [chan EXCEPT ![n] = "closed"]
  /\ verdict' = [verdict EXCEPT ![n] = "refuse"]
  /\ UNCHANGED <<nCalls, key, mapVars, userVars, uiVars>>

\* Mutant: the guard does not compare the token.
GuardDropAnyToken(n) ==
  /\ call[n] = "ending" /\ call' = [call EXCEPT ![n] = "done"]
  /\ pending' = [pending EXCEPT ![key[n]] = NoEntry] /\ NotifyChanged
  /\ UNCHANGED <<nCalls, key, chan, verdict, userVars, uiVars>>

\* PendingApprovalGuard.drop: evicts the row only if the token is its own.
GuardDrop(n) ==
  /\ call[n] = "ending" /\ call' = [call EXCEPT ![n] = "done"]
  /\ IF pending[key[n]] = n
     THEN pending' = [pending EXCEPT ![key[n]] = NoEntry] /\ NotifyChanged
     ELSE UNCHANGED mapVars
  /\ UNCHANGED <<nCalls, key, chan, verdict, userVars, uiVars>>

\* spawn_max_approval_forwarder: the revision is marked seen before the host is
\* told, and the host then reads pending_for_thread.
Forward ==
  /\ changed /\ changed' = FALSE /\ reading' = TRUE
  /\ UNCHANGED <<nCalls, key, pending, chan, futureVars, userVars, shown>>

Snapshot ==
  /\ reading /\ reading' = FALSE /\ shown' = Rows
  /\ UNCHANGED <<nCalls, key, mapVars, chan, futureVars, userVars>>

-----------------------------------------------------------------------------
\* Steps of a resolve that has begun, and of a call that is ending.
Settle(n) ==
  ResolveNotify(n) \/ ResolvePersist(n) \/ ResolveSend(n) \/ Wake(n) \/ GuardDrop(n)

Next ==
  \/ \E k \in Keys : Begin(k)
  \/ \E k \in Keys, choice \in Choices : ResolveTake(k, choice)
  \/ \E t \in Threads : CancelThread(t)
  \/ \E n \in Calls : Settle(n) \/ Abandon(n)
  \/ Forward \/ Snapshot

Spec == Init /\ [][Next]_vars

\* The runtime schedules a resolve that has begun, a call whose oneshot is
\* resolved, and the forwarder with the host behind it.  Nothing obliges the
\* user to answer.
FairSpec ==
  /\ Spec /\ WF_vars(Forward) /\ WF_vars(Snapshot)
  /\ \A n \in Calls : WF_vars(Settle(n))

-----------------------------------------------------------------------------
(* Properties *)

\* Every variable has its type, and the map points at registrations.
TypeOK ==
  /\ nCalls \in 0..MaxCalls /\ key \in [Calls -> Keys \cup {<<>>}]
  /\ pending \in [Keys -> 0..nCalls] /\ changed \in BOOLEAN
  /\ chan \in [Calls -> {"open", "approved", "denied", "dropped", "closed"}]
  /\ call \in [Calls -> {"none", "waiting", "ending", "done"}]
  /\ verdict \in [Calls -> {"none", "allow", "refuse"}]
  /\ res \in [Calls -> {"none", "taken", "persist", "send", "sent", "missed"}]
  /\ decision \in [Calls -> Choices \cup {"none"}]
  /\ granted \subseteq Calls /\ reading \in BOOLEAN /\ shown \subseteq Calls

\* A row of the map belongs to a call whose future still exists under that key
\* and that no decision has taken: an abandoned call leaves no row behind
\* (begin, PendingApprovalGuard).
RowIsAwaited ==
  \A k \in Keys : pending[k] # NoEntry =>
    /\ key[pending[k]] = k /\ call[pending[k]] \in {"waiting", "ending"}
    /\ res[pending[k]] = "none"

\* A call nobody answered yet can still be answered: its row is in the map, or
\* a decision holds it.  The guard of an earlier call with the same key never
\* evicts it.
WaitingIsReachable ==
  \A n \in Calls : call[n] = "waiting" /\ chan[n] = "open" =>
    pending[key[n]] = n \/ res[n] \in {"taken", "persist", "send"}

\* The grant is written, or has failed to be, before the call resumes: the
\* tool's next invocation cannot race the write of its own grant.
GrantBeforeResume ==
  [][\A n \in Calls : n \in granted' \ granted => verdict'[n] # "allow"]_vars

\* The gate implements its promise: every call is settled at most once and is
\* allowed only after the user approved that registration.
Promise == INSTANCE ApprovalPromise WITH
  asked <- 1..nCalls,
  approved <- {n \in Calls : Approves(decision[n])}

KeepsPromise == Promise!Spec

\* The host's cards converge on the pending rows, however notifications
\* coalesce: a pending card does not stay invisible, a settled one not shown.
CardsConverge == (shown # Rows) ~> (shown = Rows)
=============================================================================
