--------------------------- MODULE HotkeyDetector ---------------------------
(***************************************************************************)
(* The gesture detector (src/app/os/hotkeys/detector.rs) under the event   *)
(* tap that feeds it (src/app/os/hotkeys/platform.rs).  A user presses and *)
(* releases keys; the system turns each change into an event with its own  *)
(* time stamp; the tap's callback feeds the events to the detector in      *)
(* order, perhaps late; a timer on the same thread polls the detector at   *)
(* any time.  The tap may miss events while the system has disabled it,    *)
(* and does not see letters while secure keyboard entry is on.             *)
(*                                                                         *)
(* A time is kept as an age in ticks, saturating where no comparison can   *)
(* tell the difference any more.  hold_event_sent is TRUE whenever a hold  *)
(* is active and hold_mode is always Raw, so neither is kept; the fields   *)
(* that are always set and cleared together with a time stamp are that     *)
(* time stamp.  Wheel input and diagnostics are left out.                  *)
(***************************************************************************)
EXTENDS Integers, Sequences

CONSTANTS
    Configs,    \* the settings to check, each with the keys the user touches
    Delay,      \* hold_start_delay_ms, in ticks
    TapMax,     \* TAP_MAX_MS
    Interval,   \* double_tap_interval_ms
    MaxLag,     \* bound: how late a callback may run
    MaxQueue,   \* bound: events waiting for the callback
    MaxLost     \* bound: events the disabled tap may miss

Bindings == {"Disabled", "HoldFn", "HoldCtrl", "HoldCtrlAlt",
             "HoldCtrlShift", "HoldCtrlCmd", "DoubleCtrl",
             "DoubleLeftOption", "DoubleRightOption"}
Mods       == {"ctrl", "option", "shift", "cmd", "fn"}
ModKeys    == {"Fn", "Control", "LeftOption", "RightOption", "Shift",
               "Command"}
TapKeys    == {"Control", "LeftOption", "RightOption"}
TypingKeys == {"Other", "Digit", "V", "Space", "Letter"}
Keys       == ModKeys \cup TypingKeys \cup {"Middle"}

Config == [dictation : Bindings, formatting : Bindings, assistive : Bindings,
           tap : BOOLEAN,        \* fn_tap_toggles_dictation
           middle : BOOLEAN,     \* middle_mouse_acts_as_fn
           gesture : BOOLEAN,    \* middle_mouse_agent_gesture
           arm : {"shift", "cmd"},
           channel : {"ctrl", "fn", "off"},
           insert : SUBSET Mods, widget : SUBSET Mods,
           touched : SUBSET Keys]

ASSUME DetectorAssumption ==
    /\ Configs \subseteq Config
    /\ Delay \in Nat
    /\ TapMax \in Nat
    /\ Interval \in Nat
    /\ MaxLag \in Nat
    /\ MaxQueue \in Nat
    /\ MaxLost \in Nat

VARIABLES
    config,     \* the settings
    held,       \* the keys that are physically down
    secure,     \* secure keyboard entry: letters do not reach the tap
    hid,        \* age of the last key-down the HID system saw
    queue,      \* events waiting for the tap's callback, oldest first
    d,          \* the detector
    emitted,    \* what the last call of the detector returned
    open,       \* history: a Hold Down was delivered and no Hold Up since
    anchor,     \* history: the keys of that hold, down ever since its Down
    press,      \* history: age of the press of each key that can be tapped
                \* and whose release the tap has not seen, or that something
                \* was typed in it
    taps,       \* history: consecutive clean taps of each key, unspent
    seen,       \* history: the modifiers and button last reported as down
    lost        \* events missed so far

vars == <<config, held, secure, hid, queue, d, emitted, open, anchor, press,
          taps, seen, lost>>

user == <<held, hid, press>>

-----------------------------------------------------------------------------
NoTime == -1
Larger(a, b) == IF a >= b THEN a ELSE b
Cap    == MaxLag + Larger(Delay, 1 + Larger(TapMax, Interval))
Ages   == -1..Cap

TypedPress == Cap + 1     \* a press in which something was typed

Older(t) == IF t = NoTime \/ t >= Cap THEN t ELSE t + 1

\* elapsed_between, from a time stamp to the event of age e: never negative.
Elapsed(t, e) == IF t >= e THEN t - e ELSE 0

Detector == [active : Ages,     \* hold_active, hold_active_ts
             arm : BOOLEAN,     \* arm_modifier_down
             pending : Ages,    \* fn_press_pending, fn_press_started
             owed : BOOLEAN,    \* hold_up_owed
             middle : Ages,     \* middle_press_started
             promoted : BOOLEAN,\* middle_hold_promoted
             ctrl : Ages,       \* ctrl_down, ctrl_down_ts
             option : Ages,     \* option_down, option_down_ts
             right : BOOLEAN,   \* option_side
             lastLeft : Ages, lastRight : Ages, lastCtrl : Ages,
             used : BOOLEAN,    \* key_pressed_during_modifier
             latched : SUBSET Keys]

Fresh == [active |-> NoTime, arm |-> FALSE, pending |-> NoTime,
          owed |-> FALSE, middle |-> NoTime, promoted |-> FALSE,
          ctrl |-> NoTime, option |-> NoTime, right |-> FALSE,
          lastLeft |-> NoTime, lastRight |-> NoTime, lastCtrl |-> NoTime,
          used |-> FALSE, latched |-> {}]

Aged(x) == [x EXCEPT
              !.active = Older(@), !.pending = Older(@), !.middle = Older(@),
              !.ctrl = Older(@), !.option = Older(@), !.lastLeft = Older(@),
              !.lastRight = Older(@), !.lastCtrl = Older(@)]

\* What a call returns: the detector and at most one event.
Result(x, event) == [d |-> x, out |-> event]

\* Option::or
Or(event, other) == IF event # "None" THEN event ELSE other

-----------------------------------------------------------------------------
(* Chords.                                                                 *)

ModOf(key) ==
    CASE key = "Fn" -> "fn" [] key = "Control" -> "ctrl"
      [] key = "Shift" -> "shift" [] key = "Command" -> "cmd"
      [] OTHER -> "option"

Modifiers(keys) == {ModOf(k) : k \in keys \cap ModKeys}

channel_chord_matches(m) ==
    /\ "cmd" \notin m
    /\ \/ config.channel = "ctrl" /\ "ctrl" \in m /\ "fn" \notin m
       \/ config.channel = "fn" /\ "fn" \in m /\ "ctrl" \notin m

\* The command chords: Insert-Here, Show-Agent and the widget's, each one
\* key with exactly its modifiers; no modifiers means the chord is disabled.
ChordMods(key) ==
    CASE key = "V" -> config.insert [] key = "Space" -> {"cmd", "shift"}
      [] key = "Letter" -> config.widget [] OTHER -> {}

Command(key) ==
    CASE key = "V" -> "InsertHere" [] key = "Space" -> "ShowAgent"
      [] OTHER -> "ToggleWidget"

IsChord(key, m) == ChordMods(key) # {} /\ m = ChordMods(key)

\* The key-downs answered before handle_key_down comes to the modifier in use.
IsCommand(key, m) ==
    IsChord(key, m) \/ (key = "Digit" /\ channel_chord_matches(m))

\* The modifiers of a hold binding, none for a binding that does not hold.
HoldMods(binding) ==
    CASE binding = "HoldFn" -> {"fn"} [] binding = "HoldCtrl" -> {"ctrl"}
      [] binding = "HoldCtrlAlt" -> {"ctrl", "option"}
      [] binding = "HoldCtrlShift" -> {"ctrl", "shift"}
      [] binding = "HoldCtrlCmd" -> {"ctrl", "cmd"} [] OTHER -> {}

hold_base_pressed(m) ==
    LET base == HoldMods(config.dictation)
    IN  base # {} /\ base \subseteq m

\* Mutant: the combination has to be exact, as the chords are.
ExactHoldCombo(m) ==
    hold_base_pressed(m) /\ m = HoldMods(config.dictation)

\* A held Option vetoes every hold but those of Ctrl+Option and Fn.
check_hold_combo(m) ==
    /\ hold_base_pressed(m)
    /\ "option" \in m => config.dictation \in {"HoldCtrlAlt", "HoldFn"}

middle_button_dictates == config.middle /\ config.dictation = "HoldFn"

-----------------------------------------------------------------------------
(* handle_key_down and the KeyUp arm of feed.                              *)

\* A pending Fn press was typing.
PendingTyped(x) ==
    IF x.pending = NoTime THEN x
    ELSE [x EXCEPT !.pending = NoTime, !.used = TRUE]

\* A key inside the delay cancels the hold; a key under Ctrl or Option marks
\* the modifier as used and spends a first tap.
Typed(x, m, e) ==
    LET cancel  == /\ hold_base_pressed(m)
                   /\ x.active # NoTime
                   /\ Elapsed(x.active, e) < Delay
        y       == IF cancel THEN [x EXCEPT !.active = NoTime, !.arm = FALSE,
                                            !.used = TRUE]
                   ELSE x
        ctrl    == "ctrl" \in m /\ (y.ctrl # NoTime \/ y.active # NoTime)
        option  == "option" \in m /\ y.option # NoTime
    IN  Result([y EXCEPT
                  !.used = @ \/ ctrl \/ option,
                  !.lastCtrl = IF ctrl THEN NoTime ELSE @,
                  !.lastLeft = IF option THEN NoTime ELSE @,
                  !.lastRight = IF option THEN NoTime ELSE @],
               IF cancel THEN "HoldUp" ELSE "None")

handle_key_down(x, key, m, e) ==
    IF key = "Digit" /\ channel_chord_matches(m)
    THEN IF key \in x.latched THEN Result(x, "None")
         ELSE Result([x EXCEPT !.latched = @ \cup {key}, !.used = TRUE],
                     "AgentChannel")
    ELSE LET y == PendingTyped(x) IN
         IF IsChord(key, m)
         THEN IF key \in x.latched THEN Result(y, "None")
              ELSE Result([y EXCEPT !.latched = @ \cup {key}], Command(key))
         ELSE Typed(y, m, e)

key_up(x, key, m) ==
    Result([x EXCEPT !.latched = @ \ {key},
                     !.used = @ /\ m \cap {"ctrl", "option", "cmd", "fn"} # {}],
           "None")

-----------------------------------------------------------------------------
(* handle_flags_changed, in the order of the code.                         *)

\* A clean Fn press opens the choice between a tap and a hold; any other
\* modifier closes it.
FnPressed(x, key, m, e) ==
    IF /\ config.tap /\ key = "Fn" /\ m = {"fn"}
       /\ x.active = NoTime /\ x.pending = NoTime /\ ~x.owed
    THEN [x EXCEPT !.pending = e]
    ELSE IF "fn" \in m /\ m # {"fn"} THEN [x EXCEPT !.pending = NoTime]
    ELSE x

\* Mutant: any change of the modifiers under a hold starts it again.
HoldStepAgain(x, m, e) ==
    IF check_hold_combo(m) /\ ~(x.pending # NoTime /\ m = {"fn"})
    THEN Result([x EXCEPT !.active = e, !.arm = config.arm \in m], "HoldDown")
    ELSE IF ~check_hold_combo(m) /\ x.active # NoTime
    THEN Result([x EXCEPT !.active = NoTime, !.arm = FALSE], "HoldUp")
    ELSE Result(x, "None")

\* The hold transitions.  While the choice is open the hold does not start.
HoldStep(x, m, e) ==
    LET arm      == config.arm \in m
        suppress == x.pending # NoTime /\ m = {"fn"}
    IN
    IF check_hold_combo(m) /\ x.active = NoTime /\ ~suppress
    THEN Result([x EXCEPT !.active = e, !.arm = arm], "HoldDown")
    ELSE IF check_hold_combo(m) /\ x.active # NoTime
    THEN Result([x EXCEPT !.arm = arm],
                IF arm /\ ~x.arm THEN "AttachSelection" ELSE "None")
    ELSE IF ~check_hold_combo(m) /\ x.active # NoTime
    THEN Result([x EXCEPT !.active = NoTime, !.arm = FALSE], "HoldUp")
    ELSE Result(x, "None")

\* The release of a pending Fn press is a tap, or a hold the timer had not
\* promoted yet: the Down is emitted now and the Up is owed to the next poll.
FnReleased(r, m, e) ==
    LET x == [r.d EXCEPT !.pending = NoTime]
        h == Elapsed(r.d.pending, e)
    IN
    IF "fn" \in m \/ r.d.pending = NoTime THEN r
    ELSE IF config.tap /\ h < Delay THEN Result(x, Or(r.out, "ToggleRaw"))
    ELSE IF config.dictation = "HoldFn" /\ h >= Delay
    THEN Result([x EXCEPT !.active = e, !.owed = TRUE],
                Or(r.out, "HoldDown"))
    ELSE Result(x, r.out)

\* consume_double_tap
Pairs(last, e) == last # NoTime /\ Elapsed(last, e) <= Interval

\* Mutant: the tap that closes a pair also opens the next one.
TappedAlways(last, e) == e

Tapped(last, e) == IF Pairs(last, e) THEN NoTime ELSE e

CtrlTap(r, key, m, e) ==
    LET x   == r.d
        tap == /\ Elapsed(x.ctrl, e) <= TapMax
               /\ m \cap {"shift", "option", "cmd"} = {}
               /\ ~x.used
        y   == IF key = "Control" /\ "ctrl" \in m /\ x.ctrl = NoTime
               THEN Result([x EXCEPT !.ctrl = e], "None")
               ELSE IF key = "Control" /\ "ctrl" \notin m /\ x.ctrl # NoTime
               THEN IF tap
                    THEN Result([x EXCEPT !.ctrl = NoTime,
                                          !.lastCtrl = Tapped(@, e)],
                                IF Pairs(x.lastCtrl, e) THEN "ToggleRaw"
                                ELSE "None")
                    ELSE Result([x EXCEPT !.ctrl = NoTime, !.used = FALSE,
                                          !.lastCtrl = NoTime], "None")
               ELSE Result(x, "None")
    IN  Result([y.d EXCEPT !.used =
                  @ /\ m \cap {"ctrl", "option", "cmd"} # {}],
               Or(r.out, y.out))

\* No toggle is bound to Option: only its state is followed.
OptionFollowed(r, key, m, e) ==
    IF key \in {"LeftOption", "RightOption"} /\ "option" \in m
    THEN Result([r.d EXCEPT !.option = e, !.right = key = "RightOption"],
                r.out)
    ELSE IF "option" \notin m
    THEN Result([r.d EXCEPT !.option = NoTime, !.right = FALSE], r.out)
    ELSE r

Spent(x) == [x EXCEPT !.lastLeft = NoTime, !.lastRight = NoTime]

\* A clean tap of one Option: it pairs with an earlier one of its side, and
\* the pair toggles unless a hold or another modifier blocks it or the mode
\* is not bound to it.
OptionTapped(x, right, m, e) ==
    LET last    == IF right THEN x.lastRight ELSE x.lastLeft
        blocked == \/ "ctrl" \in m \/ x.active # NoTime
                   \/ config.dictation # "HoldCtrlAlt" /\ "cmd" \in m
        bound   == IF right THEN config.assistive = "DoubleRightOption"
                   ELSE config.formatting = "DoubleLeftOption"
    IN  Result([x EXCEPT
                  !.lastLeft = IF right THEN NoTime ELSE Tapped(last, e),
                  !.lastRight = IF right THEN Tapped(last, e) ELSE NoTime],
               IF ~Pairs(last, e) THEN "None"
               ELSE IF blocked \/ ~bound THEN "DoubleTapBlocked"
               ELSE IF right THEN "ToggleAssistive" ELSE "ToggleNormal")

\* The release of Option.  A key-down the HID system saw during the press,
\* age k, means the user typed with Option.
OptionReleased(x, key, m, e, k) ==
    LET y     == [x EXCEPT !.option = NoTime, !.right = FALSE]
        right == key = "RightOption"
        typed == k # NoTime /\ k <= x.option /\ k >= e
    IN
    IF key \notin {"LeftOption", "RightOption"}
    THEN Result([Spent(y) EXCEPT !.used = FALSE], "None")
    ELSE IF x.right # right THEN Result(Spent(y), "None")
    ELSE IF x.used THEN Result([y EXCEPT !.used = FALSE], "None")
    ELSE IF typed \/ Elapsed(x.option, e) > TapMax
    THEN Result(Spent(y), "None")
    ELSE LET t == OptionTapped(y, right, m, e) IN
         Result([t.d EXCEPT !.used =
                   @ /\ m \cap {"ctrl", "option", "cmd", "fn"} # {}], t.out)

OptionTap(r, key, m, e, k) ==
    LET x == r.d IN
    IF "option" \notin m /\ x.option # NoTime
    THEN LET y == OptionReleased(x, key, m, e, k)
         IN  Result(y.d, Or(r.out, y.out))
    ELSE LET y == IF /\ key \in {"LeftOption", "RightOption"}
                     /\ "option" \in m /\ x.option = NoTime
                  THEN [x EXCEPT !.option = e, !.right = key = "RightOption"]
                  ELSE x
         IN  Result([y EXCEPT !.used =
                       @ /\ m \cap {"ctrl", "option", "cmd", "fn"} # {}],
                    r.out)

handle_flags_changed(x, key, m, e, k) ==
    LET r == FnReleased(HoldStep(FnPressed(x, key, m, e), m, e), m, e) IN
    IF config.dictation = "DoubleCtrl" THEN CtrlTap(r, key, m, e)
    ELSE IF /\ config.formatting # "DoubleLeftOption"
            /\ config.assistive # "DoubleRightOption"
    THEN OptionFollowed(r, key, m, e)
    ELSE OptionTap(r, key, m, e, k)

-----------------------------------------------------------------------------
(* The middle button and the timer.                                        *)

\* With the agent gesture on: a click, or a hold that poll promoted, or one
\* that the release finds the timer late for.
handle_agent_middle_button(x, pressed, e) ==
    IF pressed
    THEN Result(IF x.middle = NoTime /\ ~x.promoted
                THEN [x EXCEPT !.middle = e] ELSE x, "None")
    ELSE IF x.promoted
    THEN Result([x EXCEPT !.promoted = FALSE, !.middle = NoTime,
                          !.active = NoTime,
                          !.arm = @ /\ x.active = NoTime],
                IF x.active = NoTime THEN "None" ELSE "HoldUp")
    ELSE IF x.middle = NoTime THEN Result(x, "None")
    ELSE IF /\ middle_button_dictates /\ x.active = NoTime
            /\ Elapsed(x.middle, e) >= Delay
    THEN Result([x EXCEPT !.middle = NoTime, !.active = x.middle,
                          !.arm = FALSE, !.owed = TRUE], "HoldDown")
    ELSE Result([x EXCEPT !.middle = NoTime], "MiddleClick")

MiddleButton(x, pressed, m, e, k) ==
    IF config.gesture THEN handle_agent_middle_button(x, pressed, e)
    ELSE IF config.middle
    THEN handle_flags_changed(x, "Fn", IF pressed THEN m \cup {"fn"} ELSE m,
                              e, k)
    ELSE Result(x, "None")

\* Mutant: the promoted hold is dated back by the delay.
pollBackdated(x) ==
    IF x.pending = NoTime \/ x.pending < Delay THEN Result(x, "None")
    ELSE Result([x EXCEPT !.active = x.pending + Delay, !.pending = NoTime,
                          !.arm = FALSE], "HoldDown")

\* Mutant: the timer clears the hold and forgets to report it.
pollForgets(x) ==
    IF x.owed
    THEN Result([x EXCEPT !.owed = FALSE, !.active = NoTime, !.arm = FALSE],
                "None")
    ELSE IF x.pending = NoTime \/ x.pending < Delay THEN Result(x, "None")
    ELSE Result([x EXCEPT !.active = x.pending, !.pending = NoTime,
                          !.arm = FALSE], "HoldDown")

\* The timer: pay the owed Up, else promote a held middle button, else
\* promote a held Fn.
poll(x) ==
    IF x.owed
    THEN Result([x EXCEPT !.owed = FALSE, !.active = NoTime, !.arm = FALSE],
                "HoldUp")
    ELSE IF /\ x.middle # NoTime /\ config.gesture /\ middle_button_dictates
            /\ ~x.promoted /\ x.active = NoTime /\ x.middle >= Delay
    THEN Result([x EXCEPT !.promoted = TRUE, !.active = x.middle,
                          !.arm = FALSE], "HoldDown")
    ELSE IF ~config.tap \/ x.pending = NoTime \/ x.pending < Delay
    THEN Result(x, "None")
    ELSE IF config.dictation # "HoldFn"
    THEN Result([x EXCEPT !.pending = NoTime], "None")
    ELSE Result([x EXCEPT !.active = x.pending, !.pending = NoTime,
                          !.arm = FALSE], "HoldDown")

\* feed: one event of the tap.
feed(x, ev) ==
    CASE ev.kind = "down"   -> handle_key_down(x, ev.key, ev.mods, ev.age)
      [] ev.kind = "up"     -> key_up(x, ev.key, ev.mods)
      [] ev.kind = "middle" -> MiddleButton(x, ev.down, ev.mods, ev.age, hid)
      [] OTHER -> handle_flags_changed(x, ev.key, ev.mods, ev.age, hid)

-----------------------------------------------------------------------------
(* The user and the system.                                                *)

Event == [kind : {"down", "up", "flags", "middle"}, key : Keys,
          mods : SUBSET Mods, down : BOOLEAN, age : 0..MaxLag,
          tap : {"none", "clean", "long", "typed"}]

Init ==
    /\ config \in Configs
    /\ held = {}
    /\ secure = FALSE
    /\ hid = NoTime
    /\ queue = <<>>
    /\ d = Fresh
    /\ emitted = "None"
    /\ open = FALSE
    /\ anchor = {}
    /\ press = [k \in TapKeys |-> NoTime]
    /\ taps = [k \in TapKeys |-> 0]
    /\ seen = {}
    /\ lost = 0

\* The system's event for a change of key k, the keys in keys being down
\* after it: queued for the tap, or missed.
Send(k, keys, down, tap) ==
    LET ev == [kind |-> IF k \in ModKeys THEN "flags"
                        ELSE IF k = "Middle" THEN "middle"
                        ELSE IF down THEN "down" ELSE "up",
               key |-> k, mods |-> Modifiers(keys), down |-> down, age |-> 0,
               tap |-> tap]
    IN  \/ /\ secure /\ k \in TypingKeys
           /\ UNCHANGED <<queue, lost>>
        \/ /\ ~(secure /\ k \in TypingKeys)
           /\ Len(queue) < MaxQueue
           /\ queue' = Append(queue, ev)
           /\ UNCHANGED lost
        \/ /\ lost < MaxLost
           /\ lost' = lost + 1
           /\ UNCHANGED queue

\* A key goes down, or repeats while it is down.  What counts as typed during
\* a press of Ctrl is what handle_key_down marks: what reaches the tap and is
\* no command, since a command returns before the mark (its comment says any
\* key; FindCtrlChord shows the difference).  The HID system is asked for
\* Option.  A missed press is known of only if the release before it was
\* missed too.
Press(k) ==
    /\ k \in config.touched
    /\ k \notin held \/ k \in TypingKeys
    /\ held' = held \cup {k}
    /\ hid' = IF k \in TypingKeys THEN 0 ELSE hid
    /\ Send(k, held', TRUE, "none")
    /\ press' = [t \in TapKeys |->
                   IF t = k
                   THEN IF queue' = queue /\ press[t] = NoTime THEN NoTime
                        ELSE 0
                   ELSE IF /\ k \in TypingKeys /\ t \in held
                           /\ press[t] # NoTime
                           /\ t = "Control" =>
                                /\ queue' # queue
                                /\ ~IsCommand(k, Modifiers(held'))
                   THEN TypedPress
                   ELSE press[t]]
    /\ emitted' = "None"
    /\ UNCHANGED <<config, secure, d, open, anchor, taps, seen>>

\* A key goes up.  The press it ends was a clean tap when it was short and
\* nothing was typed in it.
Lift(k) ==
    /\ k \in held
    /\ held' = held \ {k}
    /\ anchor' = IF k \in anchor THEN {} ELSE anchor
    /\ Send(k, held', FALSE, IF k \notin TapKeys \/ press[k] = NoTime THEN "none"
                             ELSE IF press[k] <= TapMax THEN "clean"
                             ELSE IF press[k] = TypedPress THEN "typed"
                             ELSE "long")
    /\ press' = IF queue' = queue \/ k \notin TapKeys THEN press
                ELSE [press EXCEPT ![k] = NoTime]
    /\ emitted' = "None"
    /\ UNCHANGED <<config, secure, hid, d, open, taps, seen>>

\* The focus moves into or out of a password field, which matters to typing.
SecureEntry ==
    /\ config.touched \cap TypingKeys # {}
    /\ secure' = ~secure
    /\ emitted' = "None"
    /\ UNCHANGED <<config, user, queue, d, open, anchor, taps, seen, lost>>

Tick ==
    /\ \A i \in 1..Len(queue) : queue[i].age < MaxLag
    /\ hid' = Older(hid)
    /\ queue' = [i \in 1..Len(queue) |-> [queue[i] EXCEPT !.age = @ + 1]]
    /\ d' = Aged(d)
    /\ press' = [t \in TapKeys |-> Older(press[t])]
    /\ emitted' = "None"
    /\ UNCHANGED <<config, held, secure, open, anchor, taps, seen, lost>>

\* The keys that make a hold, of those in keys that are still down and that no
\* waiting event reports as released.
HoldKeys(keys, rest) ==
    LET down == {k \in keys \cap held :
                   \A i \in 1..Len(rest) :
                     /\ rest[i].key # k
                     /\ k \in ModKeys => ModOf(k) \in rest[i].mods}
    IN  IF hold_base_pressed(Modifiers(down))
        THEN {k \in down \cap ModKeys :
                ModOf(k) \in HoldMods(config.dictation)}
        ELSE {k \in down : k = "Middle" /\ middle_button_dictates}

\* The detector's answer to what it was shown is delivered to the controller.
Deliver(r, keys, rest) ==
    /\ d' = r.d
    /\ emitted' = r.out
    /\ open' = IF r.out = "HoldDown" THEN TRUE
               ELSE IF r.out = "HoldUp" THEN FALSE ELSE open
    /\ anchor' = IF r.out = "HoldDown" THEN HoldKeys(keys, rest)
                 ELSE IF r.out = "HoldUp" THEN {} ELSE anchor

Shown(ev) ==
    {k \in ModKeys : ModOf(k) \in ev.mods}
      \cup (IF ev.kind = "middle" /\ ev.down THEN {"Middle"} ELSE {})

\* Consecutive clean taps of one key; a toggle spends two of them.  Of the
\* letters the tap does not see the callback knows the last: one typed while
\* the release waited masks those typed in the press, which then counts as
\* clean in the code (its comments say it never is one; FindOptionTyped shows
\* the difference).
Toggles == {"ToggleRaw", "ToggleNormal", "ToggleAssistive"}
Masked(ev) == ev.tap = "typed" /\ ev.key # "Control" /\ hid < ev.age
Count(ev) ==
    IF ev.tap = "none" THEN taps
    ELSE [taps EXCEPT ![ev.key] =
            IF ev.tap # "clean" /\ ~Masked(ev) THEN 0
            ELSE IF @ = 0 THEN 1 ELSE 2]

\* event_callback
Handle ==
    /\ queue # <<>>
    /\ LET ev == Head(queue)
           r  == feed(d, ev)
       IN  /\ Deliver(r, Shown(ev), Tail(queue))
           /\ taps' = IF r.out \in Toggles /\ ev.key \in TapKeys
                      THEN [taps EXCEPT ![ev.key] = 0] ELSE Count(ev)
           /\ seen' = IF ev.kind = "flags" THEN ev.mods \cup (seen \ Mods)
                      ELSE IF ev.kind # "middle" THEN seen
                      ELSE IF ev.down THEN seen \cup {"Middle"}
                      ELSE seen \ {"Middle"}
    /\ queue' = Tail(queue)
    /\ UNCHANGED <<config, user, secure, lost>>

\* fn_tap_timer_callback
Poll ==
    /\ Deliver(poll(d), held, queue)
    /\ UNCHANGED <<config, user, secure, queue, taps, seen, lost>>

Next ==
    \/ \E k \in Keys : Press(k) \/ Lift(k)
    \/ SecureEntry \/ Tick \/ Handle \/ Poll

Fairness == WF_vars(Handle) /\ WF_vars(Poll)

Spec == Init /\ [][Next]_vars

FairSpec == Spec /\ Fairness

-----------------------------------------------------------------------------
(* Properties.                                                             *)

\* Every stored time is a time the clock can have; the detector and its queue
\* have their shape.
TypeOK ==
    /\ config \in Configs
    /\ held \in SUBSET Keys
    /\ secure \in BOOLEAN
    /\ hid \in Ages
    /\ queue \in Seq(Event)
    /\ d \in Detector
    /\ open \in BOOLEAN
    /\ anchor \in SUBSET Keys
    /\ press \in [TapKeys -> Ages \cup {TypedPress}]
    /\ taps \in [TapKeys -> 0..2]
    /\ seen \in SUBSET (Mods \cup {"Middle"})
    /\ lost \in 0..MaxLost

\* Hold Down and Hold Up alternate: whatever the order of the modifier events
\* and of the timer's promotions, a Down is delivered (by handle_flags_changed,
\* handle_agent_middle_button or poll) only when the hold before it has been
\* ended by an Up.
DownOpensOnce == [][emitted' = "HoldDown" => ~open]_vars

\* A take is not cut under the user's fingers: while the keys of a hold stay
\* down, its Up comes only from a key typed inside the start delay
\* (handle_key_down), from Option under a hold that Option vetoes
\* (check_hold_combo), from an Up that was owed, or from the release of a
\* middle button promoted before (handle_agent_middle_button).  Other modifiers
\* pressed and released mid-hold, lost events and the timer never end a hold of
\* keys.  The hold of a middle button ends with a modifier event too, since
\* handle_flags_changed finds no Fn in it.
HoldIsNotCut ==
    [][emitted' = "HoldUp" =>
         \/ anchor = {}
         \/ d.owed
         \/ /\ queue # <<>> /\ queue' = Tail(queue)
            /\ LET ev == Head(queue) IN
               \/ ev.kind = "down" /\ Elapsed(d.active, ev.age) < Delay
               \/ ev.kind = "flags" /\ "Middle" \in anchor
               \/ /\ ev.kind = "middle" /\ ~ev.down /\ d.promoted
                  /\ "Middle" \notin anchor
               \/ /\ ev.kind \in {"flags", "middle"}
                  /\ "option" \in ev.mods
                  /\ config.dictation \notin {"HoldFn", "HoldCtrlAlt"}]_vars

\* A toggle of Ctrl or Option spends two taps of that key of its own: presses
\* that were short when the user made them, however late the callback ran, none
\* of them already spent by an earlier toggle (consume_double_tap), in which
\* nothing was typed that the code can tell (handle_key_down's mark, and the
\* HID check in handle_flags_changed).  What it cannot tell, a command chord
\* under Ctrl and a masked letter under Option, is exempt here and against the
\* code's comments: TypingIsNoTap (MCTypedTaps) states those, and fails.
ToggleIsDoubleTap ==
    [][emitted' \in Toggles /\ queue' # queue /\ Head(queue).key \in TapKeys =>
         Count(Head(queue))[Head(queue).key] = 2]_vars

\* Nothing stays recording: once no key is down and the last event of each
\* kind said so, an open hold gets its Up (or the user presses again), though
\* the release may have come before the timer promoted the press, and events
\* before the last ones may have been lost.
HoldEnds ==
    open /\ held = {} /\ seen = {} ~> ~open \/ held # {}
=============================================================================
