----------------------------- MODULE MCTypedTaps -----------------------------
(***************************************************************************)
(* The taps of HotkeyDetector beside what its comments say of a press in   *)
(* which the user typed.  The history is kept from the user's side alone,  *)
(* with none of the exemptions that Press and Masked take from the code.   *)
(* One event waits at a time and none is lost (MaxQueue = 1, MaxLost = 0), *)
(* so a release is handled before the next one of the same key.            *)
(***************************************************************************)
EXTENDS MCHotkeyDetector

VARIABLES
    struck,     \* the keys that can be tapped in whose press a key was struck
    untyped     \* consecutive presses of each of them with no key struck,
                \* since the last toggle

typing == <<vars, struck, untyped>>

\* A key struck while Ctrl or Option is down.  For Ctrl it has to reach the
\* tap; the letters of an Option press are those the HID system sees.
Strikes(k) ==
    {t \in TapKeys \cap held :
       k \in TypingKeys /\ (t = "Control" => queue' # queue)}

TypingInit == Init /\ struck = {} /\ untyped = [t \in TapKeys |-> 0]

TypingNext ==
    \/ \E k \in Keys :
         /\ Press(k)
         /\ struck' = (struck \cup Strikes(k)) \ {k}
         /\ UNCHANGED untyped
    \/ \E k \in Keys :
         /\ Lift(k)
         /\ untyped' = [t \in TapKeys |->
                          IF t # k THEN untyped[t]
                          ELSE IF t \in struck THEN 0
                          ELSE IF untyped[t] = 0 THEN 1 ELSE 2]
         /\ UNCHANGED struck
    \/ /\ Handle
       /\ untyped' = [t \in TapKeys |->
                        IF emitted' \in Toggles /\ Head(queue).key = t THEN 0
                        ELSE untyped[t]]
       /\ UNCHANGED struck
    \/ (SecureEntry \/ Tick \/ Poll) /\ UNCHANGED <<struck, untyped>>

TypingSpec == TypingInit /\ [][TypingNext]_typing /\ Fairness

\* The settings of the two runs: the default widget chord of Ctrl and Shift
\* where Ctrl toggles, and letters typed under Option.
ChordConfigs ==
    {[Defaults EXCEPT !.dictation = "DoubleCtrl", !.channel = "fn",
                      !.touched = {"Control", "Shift", "Letter"}]}
LetterConfigs == {[Defaults EXCEPT !.touched = {"RightOption", "Other"}]}

-----------------------------------------------------------------------------
\* A key struck during a press of Ctrl or Option disqualifies its release as a
\* tap: a toggle of the key needs two presses in which nothing was struck.  So
\* say the comments of handle_key_down ("any key struck while a modifier is
\* down marks that modifier as used") and of last_hid_key_down ("Option
\* released after such a key-down was typing, never a tap").
TypingIsNoTap ==
    [][emitted' \in Toggles /\ queue' # queue /\ Head(queue).key \in TapKeys =>
         untyped[Head(queue).key] = 2]_typing
=============================================================================
