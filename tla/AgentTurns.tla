----------------------------- MODULE AgentTurns -----------------------------
(***************************************************************************)
(* The turns of one voice conversation with the agent: the shared runtime  *)
(* (src/app/controller/helpers.rs), its session loop                       *)
(* (src/core/agent/session.rs), the provider that chains responses on the  *)
(* server (src/app/agent/openai_provider.rs) and the registry through      *)
(* which the user stops a turn (src/app/agent_delivery.rs).                *)
(*                                                                         *)
(* Turns are serialised by the runtime's mutex.  Inside a turn three       *)
(* parties run at once: the turn's task, which in a biased select polls    *)
(* the cancellation, the session's send and the UI events; the forwarder   *)
(* of the current stream, which delivers an event and only then updates    *)
(* the chain; and the user's Stop.  A forwarder whose stream was dropped   *)
(* between those two steps updates the chain later.                        *)
(*                                                                         *)
(* A message is what it is and where it comes from: the words of a turn,   *)
(* a text, a tool call, a tool result.  The blocks of one message all have *)
(* its role, so the history is kept block by block.                        *)
(***************************************************************************)
EXTENDS Integers, Sequences, FiniteSets

CONSTANTS
    MaxTurns,       \* bound: turns
    MaxIterations,  \* the loop guard, in provider round-trips
    MaxCalls,       \* bound: tool calls of one response
    MaxStops        \* bound: presses of Stop

ASSUME AgentAssumption ==
    /\ MaxTurns \in Nat
    /\ MaxIterations \in Nat \ {0}
    /\ MaxCalls \in Nat
    /\ MaxStops \in Nat

VARIABLES
    runtime,     \* AgentRuntimeState.runtime is Some
    messages,    \* AgentSession.messages
    thread,      \* AgentSession.thread_id, None = 0
    chain,       \* the provider's previous_response_id, None = 0
    disk,        \* the messages of the thread on disk
    server,      \* what the server holds under each response id
    pc,          \* where the turn's task is
    before,      \* the snapshot taken before the turn
    attempt,     \* stream_with_retry: attempt
    iter,        \* send: iteration
    round,       \* the response being streamed
    shown,       \* what the model was shown for it
    fwd,         \* the forwarder of the current stream
    chan,        \* events delivered to the session and not yet received
    clean,       \* clean_terminal_seen
    rejected,    \* terminal_rejected
    todo,        \* ready calls that have no result yet
    soft,        \* the send's error is transient
    uiDone,      \* Done is in the UI channel
    registered,  \* the turn is in the registry
    flag,        \* its cancellation flag
    out,         \* terminals published for the turn
    late,        \* chain updates owed by forwarders of dropped streams
    turns,       \* turns begun
    stops,       \* presses of Stop
    cancelled,   \* history: turns that ended as Cancelled
    lapses,      \* history: why the chain may not stand for the history
    blank        \* history: the runtime began empty on a thread with history

conversation == <<runtime, messages, thread, disk>>
link         == <<chain, lapses, late>>
stream       == <<round, shown, fwd, chan, clean, rejected>>
loop         == <<pc, attempt, iter, todo, soft>>
registry     == <<registered, flag>>
counts       == <<turns, stops>>
past         == <<before, cancelled, blank>>

vars == <<conversation, link, server, stream, loop, uiDone, registry, out,
          counts, past>>

-----------------------------------------------------------------------------
Kinds == {"user", "text", "call", "result"}
Items == [k : Kinds, t : 1..MaxTurns, r : 0..MaxIterations, i : 0..MaxCalls]

\* Role::User: the user's words and the results of tools.
FromUser(m) == m.k \in {"user", "result"}

Words          == [k |-> "user", t |-> turns + 1, r |-> 0, i |-> 0]
Answer         == [k |-> "text", t |-> turns, r |-> iter, i |-> 0]
Call(i)        == [k |-> "call", t |-> turns, r |-> iter, i |-> i]
ResultOf(call) == [call EXCEPT !.k = "result"]

\* The terminal events of a stream.  A transport error may follow a clean
\* terminal, and a clean terminal an event that could not be parsed.
Scripts == {<<"clean">>, <<"dirty">>, <<"dirty", "error">>, <<"error">>,
            <<"clean", "error">>, <<"error", "clean">>}

\* What a response holds: a text or none, and calls, each with its arguments,
\* with none at all, or with a fragment that does not parse.  The order among
\* the three makes no difference.
Rounds ==
    {r \in [text : BOOLEAN, ready : 0..MaxCalls, bare : 0..MaxCalls,
            bad : 0..MaxCalls] : r.ready + r.bare + r.bad <= MaxCalls}

NoRound == [text |-> FALSE, ready |-> 0, bare |-> 0, bad |-> 0]

\* Why the chain may not stand for the history any more.
Lapses == {"late", "unnamed", "unanswered", "unparsed", "empty"}

\* effect: what the forwarder owes the chain for the event it delivered
\* last; -1 is nothing.
Nothing == -1
NoFwd   == [script |-> <<>>, id |-> 0, effect |-> Nothing, lapses |-> {}]

TextOf(r) == IF r.text THEN <<Answer>> ELSE <<>>

ReadyCalls(r) == [i \in 1..r.ready |-> Call(i)]
AllCalls(r)   == [i \in 1..(r.ready + r.bare + r.bad) |-> Call(i)]

\* Mutant: one round-trip too many.
WithinBudgetOff(n) == n <= MaxIterations

\* The loop guard.
WithinBudget(n) == n < MaxIterations

\* Mutant: only the last message is sent.
TrailingLastOnly(m) == SubSeq(m, Len(m), Len(m))

\* request_messages: with a chain, only the trailing run of user messages.
Trailing(m) ==
    LET starts == {i \in 0..Len(m) : \A j \in (i + 1)..Len(m) : FromUser(m[j])}
        start  == CHOOSE i \in starts : \A j \in starts : i <= j
    IN  SubSeq(m, start + 1, Len(m))

Shown(c) == IF c = 0 THEN messages ELSE server[c] \o Trailing(messages)

-----------------------------------------------------------------------------
Init ==
    /\ runtime = FALSE /\ messages = <<>> /\ thread = 0 /\ chain = 0
    /\ disk = <<>> /\ server = <<>>
    /\ pc = "idle" /\ attempt = 1 /\ iter = 0 /\ todo = <<>> /\ soft = FALSE
    /\ before = [messages |-> <<>>, thread |-> 0, chain |-> 0, lapses |-> {}]
    /\ round = NoRound /\ shown = <<>> /\ fwd = NoFwd /\ chan = <<>>
    /\ clean = FALSE /\ rejected = FALSE
    /\ uiDone = FALSE
    /\ registered = FALSE /\ flag = FALSE /\ out = {}
    /\ late = {} /\ turns = 0 /\ stops = 0
    /\ cancelled = {} /\ lapses = {} /\ blank = FALSE

\* Mutant: the snapshot is taken after the user's words are pushed.
OpenSnapshotLate(m, th, c, l, owed) ==
    /\ runtime' = TRUE
    /\ messages' = Append(m, Words)
    /\ thread' = th /\ chain' = c /\ lapses' = l /\ late' = owed
    /\ before' = [messages |-> messages', thread |-> th, chain |-> c,
                  lapses |-> l]
    /\ turns' = turns + 1
    /\ registered' = TRUE /\ flag' = FALSE /\ out' = {}
    /\ pc' = "start" /\ attempt' = 1 /\ iter' = 0
    /\ UNCHANGED <<disk, server, stream, todo, soft, uiDone, stops, cancelled>>

\* The rest of run_agent_send_path_with_persist up to the select, and the
\* first step of send, on the session that ensure_runtime_generation_with
\* hands out: its history m, its thread id, chain, and what the chain lacks.
Open(m, th, c, l, owed) ==
    /\ runtime' = TRUE
    /\ messages' = Append(m, Words)
    /\ thread' = th /\ chain' = c /\ lapses' = l /\ late' = owed
    /\ before' = [messages |-> m, thread |-> th, chain |-> c, lapses |-> l]
    /\ turns' = turns + 1
    /\ registered' = TRUE /\ flag' = FALSE /\ out' = {}
    /\ pc' = "start" /\ attempt' = 1 /\ iter' = 0
    /\ UNCHANGED <<disk, server, stream, todo, soft, uiDone, stops, cancelled>>

Idle == pc = "idle" /\ turns < MaxTurns

\* The runtime of the current settings is reused.
BeginReused ==
    /\ Idle /\ runtime
    /\ Open(messages, thread, chain, lapses, late)
    /\ UNCHANGED blank

\* The settings changed: a new provider takes over the history.
BeginRollover ==
    /\ Idle /\ runtime
    /\ Open(messages, 0, 0, {}, {})
    /\ UNCHANGED blank

\* Mutant: the thread is not read back.
BeginRebuiltEmpty(loaded) ==
    /\ Idle /\ ~runtime
    /\ Open(<<>>, 0, 0, {}, {})
    /\ blank' = (~loaded /\ disk # <<>>)

\* No runtime: the thread is read back, or it cannot be read and the
\* conversation continues with an empty history.
BeginRebuilt(loaded) ==
    /\ Idle /\ ~runtime
    /\ Open(IF loaded THEN disk ELSE <<>>, 0, 0, {}, {})
    /\ blank' = (~loaded /\ disk # <<>>)

\* mark_runtime_degraded; also retarget_thread to another thread.
Dropped ==
    /\ runtime' = FALSE /\ messages' = <<>> /\ thread' = 0
    /\ chain' = 0 /\ lapses' = {} /\ late' = {} /\ blank' = FALSE

\* The runtime cannot be built: the turn ends before it opens.
BeginFails ==
    /\ Idle
    /\ Dropped
    /\ turns' = turns + 1 /\ out' = {"Error"}
    /\ UNCHANGED <<disk, server, stream, loop, uiDone, registry, stops,
                   before, cancelled>>

\* The lane went to another thread: this one is rebuilt when it comes back.
Retarget ==
    /\ pc = "idle" /\ runtime
    /\ Dropped
    /\ UNCHANGED <<disk, server, stream, loop, uiDone, registry, out,
                   counts, before, cancelled>>

-----------------------------------------------------------------------------
(* The select of the turn's task: the cancellation is polled first, so the  *)
(* send goes on only while no Stop is seen.  A step that the send takes     *)
(* between that poll and a Stop is the same step taken before the Stop;     *)
(* publishing Done is the one for which the order shows.                    *)

Proceeds == pc # "idle" /\ ~flag

\* Dropping the stream: the forwarder's next delivery fails, and an update of
\* the chain that it already owes is still made.
DropStream ==
    /\ fwd' = NoFwd /\ chan' = <<>> /\ round' = NoRound /\ shown' = <<>>
    /\ clean' = FALSE /\ rejected' = FALSE

Owed == late \cup (IF fwd.effect = Nothing THEN {} ELSE {<<turns, fwd.effect>>})

Rest == pc' = "idle" /\ attempt' = 1 /\ iter' = 0 /\ soft' = FALSE

\* Mutant: the history is not rolled back.
StoppedKeepsHistory ==
    /\ pc # "idle" /\ flag
    /\ thread' = before.thread
    /\ chain' = before.chain /\ lapses' = before.lapses /\ late' = Owed
    /\ DropStream
    /\ uiDone' = FALSE /\ registered' = FALSE
    /\ out' = out \cup {"Cancelled"}
    /\ cancelled' = cancelled \cup {turns}
    /\ Rest /\ todo' = <<>>
    /\ UNCHANGED <<runtime, messages, disk, server, flag, counts, before, blank>>

\* The first arm of the select, or a finish() that finds the Stop after the
\* send has returned: restore_after_user_stop, the UI channel drained,
\* Cancelled published.  The receiver still reads the flag after the turn has
\* left the registry.
Stopped ==
    /\ pc # "idle" /\ flag
    /\ messages' = before.messages /\ thread' = before.thread
    /\ chain' = before.chain /\ lapses' = before.lapses /\ late' = Owed
    /\ DropStream
    /\ uiDone' = FALSE /\ registered' = FALSE
    /\ out' = out \cup {"Cancelled"}
    /\ cancelled' = cancelled \cup {turns}
    /\ Rest /\ todo' = <<>>
    /\ UNCHANGED <<runtime, disk, server, flag, counts, before, blank>>

\* cancel_agent_delivery_turn, from the user interface.
Stop ==
    /\ registered /\ ~flag /\ stops < MaxStops
    /\ flag' = TRUE /\ stops' = stops + 1
    /\ UNCHANGED <<conversation, link, server, stream, loop, uiDone,
                   registered, out, turns, past>>

\* The UI arm with the last event of a turn, after a poll that saw no Stop:
\* what finish() says of a Stop that has come since is not looked at.
UiDone ==
    /\ pc = "done" /\ uiDone
    /\ uiDone' = FALSE /\ registered' = FALSE
    /\ out' = out \cup {"Done"}
    /\ UNCHANGED <<conversation, link, server, stream, loop, flag, counts, past>>

\* The send has returned Ok.
EndOk(saved) ==
    /\ pc = "done" /\ Proceeds
    /\ out' = out \cup (IF uiDone THEN {"Done"} ELSE {})
    /\ disk' = IF saved THEN messages ELSE disk
    /\ uiDone' = FALSE /\ registered' = FALSE
    /\ Rest
    /\ UNCHANGED <<runtime, messages, thread, link, server, stream, todo, flag,
                   counts, past>>

\* Mutant: nobody publishes the error.
FailedSilently(terminals) == terminals

\* A failed turn has one Error, unless its Done is out already.
Failed(terminals) ==
    IF "Done" \in terminals THEN terminals ELSE terminals \cup {"Error"}

\* The send has failed: restore_messages clears only the session's own id.
\* A transient failure keeps the runtime, any other one drops it.
EndErr(saved) ==
    /\ pc = "err" /\ Proceeds
    /\ disk' = IF saved THEN messages ELSE disk
    /\ out' = Failed(out)
    /\ registered' = FALSE
    /\ IF soft THEN thread' = 0 /\ UNCHANGED <<runtime, messages, link, blank>>
       ELSE Dropped
    /\ Rest
    /\ UNCHANGED <<server, stream, todo, uiDone, flag, counts, before, cancelled>>

-----------------------------------------------------------------------------
(* AgentSession::send, one step for each poll of it.                       *)

\* A first attempt that fails in a transient way is retried; its retry, and
\* any other failure, ends the turn.  The retry's request begins by
\* forgetting the chain.  The send path judges by the whole error, the retry
\* by its outermost message.
StartFails(retried, transient) ==
    /\ pc = "start" /\ Proceeds
    /\ IF attempt = 2
       THEN chain' = 0 /\ lapses' = {} /\ UNCHANGED late
       ELSE UNCHANGED link
    /\ IF retried
       THEN attempt = 1 /\ attempt' = 2 /\ UNCHANGED <<pc, soft>>
       ELSE pc' = "err" /\ soft' = transient /\ UNCHANGED attempt
    /\ UNCHANGED <<conversation, server, stream, iter, todo, uiDone, registry,
                   out, counts, past>>

\* The request goes out, and r is the answer it will get.  The session never
\* looks at the answer of a stream that fails, nor at its id without a clean
\* terminal.
Request(r, script, named) ==
    LET c    == IF attempt = 2 THEN 0 ELSE chain
        ends == \E i \in DOMAIN script : script[i] = "clean"
    IN  /\ pc = "start" /\ Proceeds
        /\ script = <<"clean">> \/ r = NoRound
        /\ named => ends
        /\ chain' = c
        /\ lapses' = IF c = 0 THEN {} ELSE lapses
        /\ shown' = Shown(c)
        /\ round' = r
        /\ server' = IF named
                     THEN Append(server, Shown(c) \o TextOf(r) \o AllCalls(r))
                     ELSE server
        /\ fwd' = [script |-> script, id |-> IF named THEN Len(server') ELSE 0,
                   effect |-> Nothing, lapses |-> lapses']
        /\ chan' = <<>> /\ clean' = FALSE /\ rejected' = FALSE
        /\ pc' = "stream"
        /\ UNCHANGED <<conversation, late, attempt, iter, todo, soft, uiDone,
                       registry, out, counts, past>>

\* forward_events_and_track_chain: deliver first ...
ForwardDeliver ==
    /\ fwd.script # <<>> /\ fwd.effect = Nothing
    /\ chan' = Append(chan, Head(fwd.script))
    /\ fwd' = [fwd EXCEPT
                 !.script = Tail(@),
                 !.effect = CASE Head(fwd.script) = "clean" /\ fwd.id # 0
                                   -> fwd.id
                              [] Head(fwd.script) = "dirty" -> 0
                              [] OTHER -> Nothing]
    /\ UNCHANGED <<conversation, link, server, round, shown, clean, rejected,
                   loop, uiDone, registry, out, counts, past>>

\* ... and update the chain second.
ForwardApply ==
    /\ fwd.effect # Nothing
    /\ chain' = fwd.effect
    /\ lapses' = IF fwd.effect = 0 THEN {} ELSE fwd.lapses
    /\ fwd' = [fwd EXCEPT !.effect = Nothing]
    /\ UNCHANGED <<conversation, late, server, round, shown, chan, clean,
                   rejected, loop, uiDone, registry, out, counts, past>>

\* The same second step of a forwarder whose stream is gone.
LateApply ==
    \E c \in late :
        /\ chain' = c[2] /\ late' = late \ {c}
        /\ lapses' = IF c[2] = 0 THEN {} ELSE {"late"}
        /\ UNCHANGED <<conversation, server, stream, loop, uiDone,
                       registry, out, counts, past>>

Unchain == chain' = 0 /\ lapses' = {} /\ thread' = 0

\* A terminal event: only a clean one that follows no other is adopted.
ReceiveTerminal ==
    /\ pc = "stream" /\ Proceeds
    /\ chan # <<>> /\ Head(chan) \in {"clean", "dirty"}
    /\ chan' = Tail(chan)
    /\ IF Head(chan) = "clean" /\ ~rejected
       THEN /\ clean' = TRUE /\ thread' = fwd.id
            /\ UNCHANGED <<rejected, chain, lapses>>
       ELSE rejected' = TRUE /\ Unchain /\ UNCHANGED clean
    /\ UNCHANGED <<runtime, messages, disk, late, server, round, shown, fwd,
                   loop, uiDone, registry, out, counts, past>>

\* AgentEvent::Error ends the send and drops the stream.
ReceiveError(transient) ==
    /\ pc = "stream" /\ Proceeds /\ chan # <<>> /\ Head(chan) = "error"
    /\ Unchain /\ late' = Owed
    /\ DropStream
    /\ pc' = "err" /\ soft' = transient
    /\ UNCHANGED <<runtime, messages, disk, server, attempt, iter, todo, uiDone,
                   registry, out, counts, past>>

\* The stream is closed: its forwarder has nothing left to do.
Closed ==
    /\ pc = "stream" /\ Proceeds /\ chan = <<>>
    /\ fwd.script = <<>> /\ fwd.effect = Nothing

Clean == clean /\ ~rejected

EndsUnclean ==
    /\ Closed /\ ~Clean
    /\ Unchain
    /\ DropStream
    /\ pc' = "err" /\ soft' = FALSE
    /\ UNCHANGED <<runtime, messages, disk, late, server, attempt, iter, todo,
                   uiDone, registry, out, counts, past>>

Bad == round.bad > 0

\* A fragment that does not parse: the text is kept, no call is.
EndsBad(transient) ==
    /\ Closed /\ Clean /\ Bad
    /\ messages' = messages \o TextOf(round)
    /\ lapses' = IF chain = 0 THEN {} ELSE lapses \cup {"unparsed"}
    /\ DropStream
    /\ pc' = "err" /\ soft' = transient
    /\ UNCHANGED <<runtime, thread, disk, chain, late, server, attempt, iter,
                   todo, uiDone, registry, out, counts, past>>

\* The answer, and the calls that are ready; the model finishes the turn when
\* there are none.  A call without arguments is passed over.
EndsRound ==
    /\ Closed /\ Clean /\ ~Bad
    /\ messages' = messages \o TextOf(round) \o ReadyCalls(round)
    /\ lapses' = IF chain = 0 THEN {}
                 ELSE lapses \cup (IF fwd.id = 0 THEN {"unnamed"} ELSE {})
                   \cup (IF round.bare > 0 THEN {"unanswered"} ELSE {})
                   \cup (IF round = NoRound THEN {"empty"} ELSE {})
    /\ todo' = ReadyCalls(round)
    /\ DropStream
    /\ IF round.ready = 0 THEN pc' = "done" /\ uiDone' = TRUE
       ELSE pc' = "tools" /\ UNCHANGED uiDone
    /\ UNCHANGED <<runtime, thread, disk, chain, late, server, attempt, iter,
                   soft, registry, out, counts, past>>

\* One tool call, run or refused; after the last one the next round-trip, or
\* the loop guard.
RunTool ==
    /\ pc = "tools" /\ Proceeds
    /\ messages' = Append(messages, ResultOf(Head(todo)))
    /\ todo' = Tail(todo)
    /\ IF Tail(todo) # <<>>
       THEN UNCHANGED <<pc, iter, attempt, soft>>
       ELSE IF WithinBudget(iter + 1)
            THEN pc' = "start" /\ iter' = iter + 1 /\ attempt' = 1
                 /\ UNCHANGED soft
            ELSE pc' = "err" /\ soft' = FALSE /\ UNCHANGED <<iter, attempt>>
    /\ UNCHANGED <<runtime, thread, disk, link, server, stream, uiDone, registry,
                   out, counts, past>>

-----------------------------------------------------------------------------
Next ==
    \/ BeginReused \/ BeginRollover \/ BeginFails \/ Retarget
    \/ \E b \in BOOLEAN : \/ BeginRebuilt(b) \/ EndOk(b) \/ EndErr(b)
                          \/ ReceiveError(b) \/ EndsBad(b)
                          \/ \E retried \in BOOLEAN : StartFails(retried, b)
    \/ /\ pc = "start"
       /\ \E r \in Rounds, s \in Scripts, b \in BOOLEAN : Request(r, s, b)
    \/ Stopped \/ Stop \/ UiDone
    \/ ForwardDeliver \/ ForwardApply \/ LateApply
    \/ ReceiveTerminal \/ EndsUnclean \/ EndsRound \/ RunTool

Spec == Init /\ [][Next]_vars

-----------------------------------------------------------------------------
Ids == 0..Len(server)

TypeOK ==
    /\ runtime \in BOOLEAN
    /\ messages \in Seq(Items)
    /\ thread \in Ids /\ chain \in Ids
    /\ disk \in Seq(Items)
    /\ server \in Seq(Seq(Items))
    /\ pc \in {"idle", "start", "stream", "tools", "done", "err"}
    /\ before \in [messages : Seq(Items), thread : Ids, chain : Ids,
                   lapses : SUBSET Lapses]
    /\ attempt \in 1..2
    /\ iter \in 0..(MaxIterations - 1)
    /\ round \in Rounds
    /\ shown \in Seq(Items)
    /\ fwd \in [script : Seq({"clean", "dirty", "error"}), id : Ids,
                effect : Ids \cup {Nothing}, lapses : SUBSET Lapses]
    /\ chan \in Seq({"clean", "dirty", "error"})
    /\ todo \in Seq(Items)
    /\ late \subseteq (1..MaxTurns) \X Ids
    /\ lapses \subseteq Lapses
    /\ turns \in 0..MaxTurns /\ stops \in 0..MaxStops
    /\ out \subseteq {"Done", "Error", "Cancelled"}
    /\ cancelled \subseteq 1..turns
    /\ clean \in BOOLEAN /\ rejected \in BOOLEAN /\ soft \in BOOLEAN
    /\ uiDone \in BOOLEAN /\ registered \in BOOLEAN /\ flag \in BOOLEAN
    /\ blank \in BOOLEAN

\* Every request shows the model exactly the conversation that the session
\* holds, whether it is replayed or chained (request_messages, stream), unless
\* one of the lapses has happened since the chain was last forgotten: a late
\* update after a Stop or an error, a response without an id, with calls that
\* were passed over or did not parse, or with nothing in it.
RequestIsWhole == pc = "stream" /\ fwd.lapses = {} => shown = messages

\* Calls and results pair up, in memory whenever no tool is running and on
\* disk always: a history is replayed to a server that refuses a call without
\* its result (send, restore_after_user_stop, deliver_runtime_thread).
Paired(m) ==
    \A i \in DOMAIN m :
        /\ m[i].k = "call" => \E j \in (i + 1)..Len(m) : m[j] = ResultOf(m[i])
        /\ m[i].k = "result" => \E j \in 1..(i - 1) : m[i] = ResultOf(m[j])
                                                   /\ m[j].k = "call"

HistoryPaired == Paired(disk) /\ (pc # "tools" => Paired(messages))

\* Nothing of a turn that ended as Cancelled is left in the history or on disk
\* (restore_after_user_stop; cancelled turns are not persisted).
CancelledLeavesNoTrace ==
    \A m \in {messages, disk} : \A i \in DOMAIN m : m[i].t \notin cancelled

\* A turn that is over has published a terminal, and an Error is its only one
\* (terminal_published and the arms of the select); once a terminal is out, no
\* Stop is taken any more (finish leaves the registry first).  The Error event
\* that reports a tool refused for want of an approval is not a terminal.
OutcomeAnnounced ==
    /\ pc = "idle" /\ turns > 0 =>
         out # {} /\ ("Error" \in out => out = {"Error"})
    /\ out # {} => ~registered

\* A turn ends as Done or as Cancelled, never as both.  So say the comments of
\* finish ("prevents a late Stop from producing Done + Cancelled") and of
\* run_agent_send_path_with_persist; the code does not keep it, since the UI
\* arm publishes Done whatever finish says of a Stop that came since the poll.
NoDoneAndCancelled == ~({"Done", "Cancelled"} \subseteq out)

\* The conversation on disk only ever grows, unless a thread that could not be
\* read back was continued as an empty one (ensure_runtime_generation_with;
\* deliver replaces the messages).
Extends(new, old) ==
    Len(old) <= Len(new) /\ \A i \in 1..Len(old) : new[i] = old[i]

DiskOnlyGrows == [][Extends(disk', disk) \/ blank]_vars
=============================================================================
