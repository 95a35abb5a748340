-------------------------- MODULE MCHotkeyDetector --------------------------
(* Bounded instances of HotkeyDetector: settings, each with the keys that  *)
(* matter under them.                                                      *)
EXTENDS HotkeyDetector

Defaults == [dictation |-> "HoldFn", formatting |-> "DoubleLeftOption",
             assistive |-> "DoubleRightOption", tap |-> FALSE,
             middle |-> FALSE, gesture |-> FALSE, arm |-> "shift",
             channel |-> "ctrl", insert |-> {"cmd", "option"},
             widget |-> {"ctrl", "shift"}, touched |-> {}]

MCConfigs == {
    [Defaults EXCEPT !.touched = {"Fn", "Shift"}],
    [Defaults EXCEPT !.touched = {"Fn", "Other"}],
    [Defaults EXCEPT !.tap = TRUE, !.touched = {"Fn", "Shift"}],
    [Defaults EXCEPT !.tap = TRUE, !.channel = "fn",
                     !.touched = {"Fn", "Digit"}],
    [Defaults EXCEPT !.touched = {"LeftOption", "RightOption"}],
    [Defaults EXCEPT !.touched = {"RightOption", "Other"}],
    [Defaults EXCEPT !.touched = {"Fn", "LeftOption"}],
    [Defaults EXCEPT !.dictation = "DoubleCtrl", !.channel = "fn",
                     !.touched = {"Control", "Other"}],
    [Defaults EXCEPT !.dictation = "HoldCtrl",
                     !.formatting = "Disabled", !.assistive = "Disabled",
                     !.touched = {"Control", "LeftOption"}],
    [Defaults EXCEPT !.gesture = TRUE, !.middle = TRUE,
                     !.touched = {"Middle", "Other"}],
    [Defaults EXCEPT !.gesture = TRUE, !.middle = TRUE,
                     !.touched = {"Middle", "Shift"}],
    [Defaults EXCEPT !.middle = TRUE, !.tap = TRUE,
                     !.touched = {"Middle", "Other"}],
    [Defaults EXCEPT !.middle = TRUE, !.touched = {"Middle", "Shift"}],
    [Defaults EXCEPT !.widget = {"option"},
                     !.touched = {"LeftOption", "Letter"}]}
=============================================================================
