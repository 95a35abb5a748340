------------------------ MODULE HotkeyDetectorProofs ------------------------
(***************************************************************************)
(* Proofs about HotkeyDetector: its types, that Hold Down and Hold Up      *)
(* alternate under every setting but one, that no hold is cut while its    *)
(* keys stay down, and that where Ctrl toggles only two clean taps of it   *)
(* toggle.                                                                 *)
(***************************************************************************)
EXTENDS HotkeyDetector, TLAPS

Holds == {"HoldDown", "HoldUp"}

\* A call's result r on the detector x: a Down only opens a hold, an Up only
\* closes one, anything else leaves the hold as it is.
KeepsHold(x, r) ==
    /\ r.out = "HoldDown" => x.active = NoTime /\ r.d.active # NoTime
    /\ r.out = "HoldUp" => r.d.active = NoTime
    /\ r.out \notin Holds => (r.d.active = NoTime <=> x.active = NoTime)

\* The tap/hold choice is open only while no hold is active.
PendingInv(x) == x.pending # NoTime => config.tap /\ x.active = NoTime

\* The detector's hold is the one the controller was told of, unless both the
\* agent gesture of the middle button and the Fn tap are on.
OpenInv ==
    ~(config.gesture /\ config.tap) =>
      (open <=> d.active # NoTime) /\ PendingInv(d)

\* No setting turns both on.
NotBoth == \A c \in Configs : ~(c.gesture /\ c.tap)

-----------------------------------------------------------------------------
(* Times.                                                                  *)

LEMMA TimesTyped ==
    /\ Cap \in Nat
    /\ NoTime \in Ages
    /\ 0 \in Ages
    /\ 0..MaxLag \subseteq Ages
    /\ \A t \in Ages : Older(t) \in Ages
    /\ \A t \in Ages : Older(t) = NoTime <=> t = NoTime
    /\ Older(TypedPress) = TypedPress
BY DetectorAssumption DEF Cap, Larger, NoTime, Ages, Older, TypedPress

LEMMA EventTimes == \A e \in 0..MaxLag : e \in Ages /\ e # NoTime
BY TimesTyped, DetectorAssumption DEF NoTime

-----------------------------------------------------------------------------
(* The parts of handle_flags_changed.                                      *)

LEMMA FnPressedTyped ==
    ASSUME NEW x \in Detector, NEW key, NEW m, NEW e \in 0..MaxLag
    PROVE  LET y == FnPressed(x, key, m, e) IN
           /\ y \in Detector
           /\ y.active = x.active
           /\ y.promoted = x.promoted
           /\ PendingInv(x) => PendingInv(y)
           /\ "fn" \in m /\ y.pending # NoTime /\ PendingInv(x) =>
                m = {"fn"}
<1> USE TimesTyped, EventTimes
<1>1. CASE /\ config.tap /\ key = "Fn" /\ m = {"fn"}
           /\ x.active = NoTime /\ x.pending = NoTime /\ ~x.owed
  BY <1>1 DEF FnPressed, Detector, PendingInv
<1>2. CASE ~(/\ config.tap /\ key = "Fn" /\ m = {"fn"}
             /\ x.active = NoTime /\ x.pending = NoTime /\ ~x.owed)
  BY <1>2 DEF FnPressed, Detector, PendingInv
<1> QED BY <1>1, <1>2

LEMMA HoldStepTyped ==
    ASSUME NEW x \in Detector, NEW m, NEW e \in 0..MaxLag
    PROVE  LET r == HoldStep(x, m, e) IN
           /\ r.d \in Detector
           /\ KeepsHold(x, r)
           /\ r.d.pending = x.pending
           /\ r.d.promoted = x.promoted
           /\ r.out = "HoldUp" => ~check_hold_combo(m)
           /\ x.active = NoTime => r.out \in {"None", "HoldDown"}
           /\ x.active = NoTime /\ x.pending # NoTime /\ m = {"fn"} =>
                r.d = x
<1> USE TimesTyped, EventTimes
<1> DEFINE arm == config.arm \in m
           suppress == x.pending # NoTime /\ m = {"fn"}
<1>0. arm \in BOOLEAN
  OBVIOUS
<1>1. CASE check_hold_combo(m) /\ x.active = NoTime /\ ~suppress
  <2> DEFINE w == [x EXCEPT !.active = e, !.arm = arm]
  <2>1. HoldStep(x, m, e) = Result(w, "HoldDown")
    BY <1>1 DEF HoldStep
  <2>2. /\ w \in Detector /\ w.active = e /\ w.pending = x.pending
        /\ w.promoted = x.promoted
    <3> HIDE DEF arm
    <3> QED BY <1>0 DEF Detector
  <2> HIDE DEF w
  <2> QED BY <2>1, <2>2, <1>1 DEF Result, KeepsHold, Holds
<1>2. CASE check_hold_combo(m) /\ x.active # NoTime
  <2> DEFINE w == [x EXCEPT !.arm = arm]
             out == IF arm /\ ~x.arm THEN "AttachSelection" ELSE "None"
  <2>1. HoldStep(x, m, e) = Result(w, out)
    BY <1>2 DEF HoldStep
  <2>2. /\ w \in Detector /\ w.active = x.active /\ w.pending = x.pending
        /\ w.promoted = x.promoted
    <3> HIDE DEF arm
    <3> QED BY <1>0 DEF Detector
  <2>3. out \in {"AttachSelection", "None"}
    OBVIOUS
  <2> HIDE DEF w, out
  <2> QED BY <2>1, <2>2, <2>3, <1>2 DEF Result, KeepsHold, Holds
<1>3. CASE ~check_hold_combo(m) /\ x.active # NoTime
  BY <1>3 DEF HoldStep, Result, Detector, KeepsHold, Holds
<1>4. CASE /\ x.active = NoTime
           /\ suppress \/ ~check_hold_combo(m)
  BY <1>4 DEF HoldStep, Result, KeepsHold, Holds
<1> QED BY <1>1, <1>2, <1>3, <1>4

\* The first three parts together.
LEMMA HoldPartTyped ==
    ASSUME NEW x \in Detector, NEW key, NEW m, NEW e \in 0..MaxLag
    PROVE  LET r == FnReleased(HoldStep(FnPressed(x, key, m, e), m, e), m, e)
           IN  /\ r.d \in Detector
               /\ r.d.promoted = x.promoted
               /\ r.out = "HoldUp" => ~check_hold_combo(m)
<1> USE TimesTyped, EventTimes
<1> DEFINE y == FnPressed(x, key, m, e)
           q == HoldStep(y, m, e)
<1>1. y \in Detector /\ y.promoted = x.promoted
  BY FnPressedTyped
<1>2. /\ q.d \in Detector
      /\ q.d.promoted = x.promoted
      /\ q.out = "HoldUp" => ~check_hold_combo(m)
  BY <1>1, HoldStepTyped
<1> HIDE DEF q
<1>3. FnReleased(q, m, e).d \in Detector
  BY <1>2 DEF FnReleased, Result, Detector
<1>4. FnReleased(q, m, e).d.promoted = x.promoted
  BY <1>2 DEF FnReleased, Result, Detector
<1>5. FnReleased(q, m, e).out \in {q.out, "ToggleRaw", "HoldDown"}
  BY Zenon DEF FnReleased, Result, Or
<1> QED BY <1>2, <1>3, <1>4, <1>5 DEF q

LEMMA HoldPartKept ==
    ASSUME NEW x \in Detector, PendingInv(x), NEW key, NEW m,
           NEW e \in 0..MaxLag
    PROVE  LET r == FnReleased(HoldStep(FnPressed(x, key, m, e), m, e), m, e)
           IN  /\ r.d \in Detector
               /\ KeepsHold(x, r)
               /\ PendingInv(r.d)
<1> USE TimesTyped, EventTimes
<1> DEFINE y == FnPressed(x, key, m, e)
           q == HoldStep(y, m, e)
           r == FnReleased(q, m, e)
<1> SUFFICES /\ r.d \in Detector
             /\ KeepsHold(x, r)
             /\ PendingInv(r.d)
  OBVIOUS
<1>1. /\ y \in Detector
      /\ y.active = x.active
      /\ PendingInv(y)
      /\ "fn" \in m /\ y.pending # NoTime => m = {"fn"}
  BY FnPressedTyped
<1>2. /\ q.d \in Detector
      /\ KeepsHold(y, q)
      /\ q.d.pending = y.pending
      /\ y.active = NoTime => q.out \in {"None", "HoldDown"}
      /\ y.active = NoTime /\ y.pending # NoTime /\ m = {"fn"} => q.d = y
  BY <1>1, HoldStepTyped
<1> HIDE DEF y, q
<1>3. CASE "fn" \in m \/ q.d.pending = NoTime
  <2>1. r = q
    BY <1>3 DEF FnReleased
  <2>2. KeepsHold(x, q)
    BY <1>1, <1>2 DEF KeepsHold
  <2>3. PendingInv(q.d)
    BY <1>1, <1>2, <1>3 DEF PendingInv
  <2> QED BY <2>1, <2>2, <2>3, <1>2
<1>4. CASE "fn" \notin m /\ q.d.pending # NoTime
  <2> DEFINE z == [q.d EXCEPT !.pending = NoTime]
             h == Elapsed(q.d.pending, e)
  <2>1. x.active = NoTime /\ y.active = NoTime
    BY <1>1, <1>2, <1>4 DEF PendingInv
  <2>2. /\ z \in Detector
        /\ z.active = q.d.active
        /\ z.pending = NoTime
    BY <1>2 DEF Detector
  <2>3. q.out \in {"None", "HoldDown"}
    BY <1>2, <2>1
  <2>4. CASE config.tap /\ h < Delay
    <3>1. r = Result(z, Or(q.out, "ToggleRaw"))
      BY <1>4, <2>4 DEF FnReleased
    <3> HIDE DEF z, h, r
    <3> QED BY <3>1, <2>1, <2>2, <2>3, <1>1, <1>2
            DEF Result, Or, KeepsHold, Holds, PendingInv
  <2>5. CASE ~(config.tap /\ h < Delay) /\ config.dictation = "HoldFn" /\ h >= Delay
    <3> DEFINE w == [z EXCEPT !.active = e, !.owed = TRUE]
    <3>1. r = Result(w, Or(q.out, "HoldDown"))
      BY <1>4, <2>5 DEF FnReleased
    <3>2. w \in Detector /\ w.active = e /\ w.pending = NoTime
      <4> HIDE DEF z
      <4> QED BY <2>2 DEF Detector
    <3> HIDE DEF w, r
    <3> QED BY <3>1, <3>2, <2>1, <2>3
            DEF Result, Or, KeepsHold, Holds, PendingInv
  <2>6. CASE ~(config.tap /\ h < Delay) /\ ~(config.dictation = "HoldFn" /\ h >= Delay)
    <3>1. r = Result(z, q.out)
      BY <1>4, <2>6 DEF FnReleased
    <3> HIDE DEF z, h, r
    <3> QED BY <3>1, <2>1, <2>2, <2>3, <1>1, <1>2
            DEF Result, KeepsHold, Holds, PendingInv
  <2> QED BY <2>4, <2>5, <2>6
<1> QED BY <1>3, <1>4
-----------------------------------------------------------------------------
(* The taps.  They report only when the hold did not, and leave it alone.  *)

\* What a tap part makes of the hold part's result q.
TapPart(q, r) ==
    /\ r.d \in Detector
    /\ r.d.active = q.d.active
    /\ r.d.pending = q.d.pending
    /\ r.d.promoted = q.d.promoted
    /\ \/ r.out = q.out
       \/ q.out = "None" /\ r.out \notin Holds

LEMMA TapPartKeeps ==
    ASSUME NEW x, NEW q, NEW r, KeepsHold(x, q), PendingInv(q.d),
           TapPart(q, r)
    PROVE  KeepsHold(x, r) /\ PendingInv(r.d)
BY DEF TapPart, KeepsHold, PendingInv, Holds

LEMMA TappedTyped ==
    ASSUME NEW last \in Ages, NEW e \in 0..MaxLag
    PROVE  Tapped(last, e) \in Ages
BY TimesTyped, EventTimes DEF Tapped

LEMMA OptionFollowedTyped ==
    ASSUME NEW q, q.d \in Detector, NEW key, NEW m, NEW e \in 0..MaxLag
    PROVE  TapPart(q, OptionFollowed(q, key, m, e))
<1> USE TimesTyped, EventTimes
<1> DEFINE right == key = "RightOption"
<1>0. right \in BOOLEAN
  OBVIOUS
<1>1. CASE key \in {"LeftOption", "RightOption"} /\ "option" \in m
  <2> DEFINE w == [q.d EXCEPT !.option = e, !.right = right]
  <2>1. OptionFollowed(q, key, m, e) = Result(w, q.out)
    BY <1>1 DEF OptionFollowed
  <2>2. /\ w \in Detector /\ w.active = q.d.active
        /\ w.pending = q.d.pending /\ w.promoted = q.d.promoted
    <3> HIDE DEF right
    <3> QED BY <1>0 DEF Detector
  <2> HIDE DEF w
  <2> QED BY <2>1, <2>2 DEF Result, TapPart
<1>2. CASE /\ ~(key \in {"LeftOption", "RightOption"} /\ "option" \in m)
           /\ "option" \notin m
  BY <1>2 DEF OptionFollowed, Result, TapPart, Detector
<1>3. CASE /\ ~(key \in {"LeftOption", "RightOption"} /\ "option" \in m)
           /\ "option" \in m
  BY <1>3 DEF OptionFollowed, TapPart
<1> QED BY <1>1, <1>2, <1>3

LEMMA CtrlTapTyped ==
    ASSUME NEW q, q.d \in Detector, NEW key, NEW m, NEW e \in 0..MaxLag
    PROVE  TapPart(q, CtrlTap(q, key, m, e))
<1> USE TimesTyped, EventTimes
<1> DEFINE x == q.d
           tap == /\ Elapsed(x.ctrl, e) <= TapMax
                  /\ m \cap {"shift", "option", "cmd"} = {}
                  /\ ~x.used
           out == IF Pairs(x.lastCtrl, e) THEN "ToggleRaw" ELSE "None"
           y == IF key = "Control" /\ "ctrl" \in m /\ x.ctrl = NoTime
                THEN Result([x EXCEPT !.ctrl = e], "None")
                ELSE IF key = "Control" /\ "ctrl" \notin m /\ x.ctrl # NoTime
                THEN IF tap
                     THEN Result([x EXCEPT !.ctrl = NoTime,
                                           !.lastCtrl = Tapped(@, e)], out)
                     ELSE Result([x EXCEPT !.ctrl = NoTime, !.used = FALSE,
                                           !.lastCtrl = NoTime], "None")
                ELSE Result(x, "None")
           used == y.d.used /\ m \cap {"ctrl", "option", "cmd"} # {}
           w == [y.d EXCEPT !.used = used]
<1>1. CtrlTap(q, key, m, e) = Result(w, Or(q.out, y.out))
  BY DEF CtrlTap
<1>2. /\ y.d \in Detector
      /\ y.d.active = x.active
      /\ y.d.pending = x.pending
      /\ y.d.promoted = x.promoted
      /\ y.out \in {"ToggleRaw", "None"}
  <2>1. out \in {"ToggleRaw", "None"}
    OBVIOUS
  <2>2. x.lastCtrl \in Ages
    BY DEF Detector
  <2>3. Tapped(x.lastCtrl, e) \in Ages
    BY <2>2, TappedTyped
  <2> HIDE DEF out, tap
  <2> QED BY <2>1, <2>3 DEF Result, Detector
<1>3. used \in BOOLEAN
  OBVIOUS
<1>4. /\ w \in Detector /\ w.active = x.active
      /\ w.pending = x.pending /\ w.promoted = x.promoted
  <2> HIDE DEF used, y
  <2> QED BY <1>2, <1>3 DEF Detector
<1> HIDE DEF w, y
<1> QED BY <1>1, <1>2, <1>4 DEF Result, Or, TapPart, Holds

\* An Option tap keeps the hold and reports no hold.
LEMMA OptionTappedTyped ==
    ASSUME NEW x \in Detector, NEW right, NEW m, NEW e \in 0..MaxLag
    PROVE  LET r == OptionTapped(x, right, m, e) IN
           /\ r.d \in Detector
           /\ r.d.active = x.active
           /\ r.d.pending = x.pending
           /\ r.d.promoted = x.promoted
           /\ r.out \notin Holds
<1> USE TimesTyped
<1> DEFINE last == IF right THEN x.lastRight ELSE x.lastLeft
           newLeft == IF right THEN NoTime ELSE Tapped(last, e)
           newRight == IF right THEN Tapped(last, e) ELSE NoTime
           w == [x EXCEPT !.lastLeft = newLeft, !.lastRight = newRight]
           r == OptionTapped(x, right, m, e)
<1>1. last \in Ages
  BY DEF Detector
<1>2. newLeft \in Ages /\ newRight \in Ages
  <2>1. Tapped(last, e) \in Ages
    BY <1>1, TappedTyped
  <2> QED BY <2>1
<1>3. r.d = w /\ r.out \notin Holds
  BY DEF OptionTapped, Result, Holds
<1>4. /\ w \in Detector /\ w.active = x.active
      /\ w.pending = x.pending /\ w.promoted = x.promoted
  <2> HIDE DEF newLeft, newRight
  <2> QED BY <1>2 DEF Detector
<1> QED BY <1>3, <1>4

LEMMA OptionReleasedTyped ==
    ASSUME NEW x \in Detector, NEW key, NEW m, NEW e \in 0..MaxLag, NEW k
    PROVE  LET r == OptionReleased(x, key, m, e, k) IN
           /\ r.d \in Detector
           /\ r.d.active = x.active
           /\ r.d.pending = x.pending
           /\ r.d.promoted = x.promoted
           /\ r.out \notin Holds
<1> USE TimesTyped
<1> DEFINE y == [x EXCEPT !.option = NoTime, !.right = FALSE]
           right == key = "RightOption"
           typed == k # NoTime /\ k <= x.option /\ k >= e
           t == OptionTapped(y, right, m, e)
           used == t.d.used /\ m \cap {"ctrl", "option", "cmd", "fn"} # {}
           w == [t.d EXCEPT !.used = used]
           r == OptionReleased(x, key, m, e, k)
<1> SUFFICES /\ r.d \in Detector
             /\ r.d.active = x.active
             /\ r.d.pending = x.pending
             /\ r.d.promoted = x.promoted
             /\ r.out \notin Holds
  OBVIOUS
<1>1. /\ y \in Detector /\ y.active = x.active
      /\ y.pending = x.pending /\ y.promoted = x.promoted
  BY DEF Detector
<1>2. /\ t.d \in Detector
      /\ t.d.active = x.active
      /\ t.d.pending = x.pending
      /\ t.d.promoted = x.promoted
      /\ t.out \notin Holds
  <2> HIDE DEF y, right
  <2> QED BY <1>1, OptionTappedTyped
<1>3. used \in BOOLEAN
  OBVIOUS
<1>4. /\ w \in Detector /\ w.active = x.active
      /\ w.pending = x.pending /\ w.promoted = x.promoted
  <2> HIDE DEF t, used
  <2> QED BY <1>2, <1>3 DEF Detector
<1>5. \/ r = Result([Spent(y) EXCEPT !.used = FALSE], "None")
      \/ r = Result(Spent(y), "None")
      \/ r = Result([y EXCEPT !.used = FALSE], "None")
      \/ r = Result(w, t.out)
  BY Zenon DEF OptionReleased
<1> HIDE DEF y, t, w, r
<1>6. CASE r = Result([Spent(y) EXCEPT !.used = FALSE], "None")
  BY <1>1, <1>6 DEF Result, Spent, Detector, Holds
<1>7. CASE r = Result(Spent(y), "None")
  BY <1>1, <1>7 DEF Result, Spent, Detector, Holds
<1>8. CASE r = Result([y EXCEPT !.used = FALSE], "None")
  BY <1>1, <1>8 DEF Result, Detector, Holds
<1>9. CASE r = Result(w, t.out)
  BY <1>2, <1>4, <1>9 DEF Result
<1> QED BY <1>5, <1>6, <1>7, <1>8, <1>9

LEMMA OptionTapTyped ==
    ASSUME NEW q, q.d \in Detector, NEW key, NEW m, NEW e \in 0..MaxLag,
           NEW k
    PROVE  TapPart(q, OptionTap(q, key, m, e, k))
<1> USE TimesTyped, EventTimes
<1> DEFINE x == q.d
           right == key = "RightOption"
           z == OptionReleased(x, key, m, e, k)
           y == IF /\ key \in {"LeftOption", "RightOption"}
                   /\ "option" \in m /\ x.option = NoTime
                THEN [x EXCEPT !.option = e, !.right = right]
                ELSE x
           used == y.used /\ m \cap {"ctrl", "option", "cmd", "fn"} # {}
           w == [y EXCEPT !.used = used]
<1>1. CASE "option" \notin m /\ x.option # NoTime
  <2>1. OptionTap(q, key, m, e, k) = Result(z.d, Or(q.out, z.out))
    BY <1>1 DEF OptionTap
  <2>2. /\ z.d \in Detector
        /\ z.d.active = x.active
        /\ z.d.pending = x.pending
        /\ z.d.promoted = x.promoted
        /\ z.out \notin Holds
    BY OptionReleasedTyped
  <2> HIDE DEF z
  <2> QED BY <2>1, <2>2 DEF Result, Or, TapPart
<1>2. CASE ~("option" \notin m /\ x.option # NoTime)
  <2>1. OptionTap(q, key, m, e, k) = Result(w, q.out)
    BY <1>2 DEF OptionTap
  <2>2. right \in BOOLEAN /\ used \in BOOLEAN
    OBVIOUS
  <2>3. /\ y \in Detector /\ y.active = x.active
        /\ y.pending = x.pending /\ y.promoted = x.promoted
    <3> HIDE DEF right
    <3> QED BY <2>2 DEF Detector
  <2>4. /\ w \in Detector /\ w.active = x.active
        /\ w.pending = x.pending /\ w.promoted = x.promoted
    <3> HIDE DEF y, used
    <3> QED BY <2>2, <2>3 DEF Detector
  <2> HIDE DEF w
  <2> QED BY <2>1, <2>4 DEF Result, TapPart
<1> QED BY <1>1, <1>2

-----------------------------------------------------------------------------
(* The handlers.                                                           *)

\* What every call guarantees of its result r on a detector x.
Kept(x, r) ==
    /\ r.d \in Detector
    /\ \/ r.d.promoted \in {x.promoted, FALSE}
       \/ config.gesture /\ middle_button_dictates
    /\ PendingInv(x) /\ ~(config.gesture /\ config.tap) =>
         KeepsHold(x, r) /\ PendingInv(r.d)

LEMMA FlagsChangedKept ==
    ASSUME NEW x \in Detector, NEW key, NEW m,
           NEW e \in 0..MaxLag, NEW k
    PROVE  LET r == handle_flags_changed(x, key, m, e, k) IN
           /\ Kept(x, r)
           /\ r.out = "HoldUp" => ~check_hold_combo(m)
<1> DEFINE q == FnReleased(HoldStep(FnPressed(x, key, m, e), m, e), m, e)
           r == handle_flags_changed(x, key, m, e, k)
<1>1. /\ q.d \in Detector
      /\ q.d.promoted = x.promoted
      /\ q.out = "HoldUp" => ~check_hold_combo(m)
      /\ PendingInv(x) => KeepsHold(x, q) /\ PendingInv(q.d)
  BY HoldPartTyped, HoldPartKept
<1>2. \/ r = CtrlTap(q, key, m, e)
      \/ r = OptionFollowed(q, key, m, e)
      \/ r = OptionTap(q, key, m, e, k)
  BY Zenon DEF handle_flags_changed
<1>3. TapPart(q, r)
  <2> HIDE DEF q, r
  <2> QED BY <1>1, <1>2, CtrlTapTyped, OptionFollowedTyped, OptionTapTyped
<1> HIDE DEF q, r
<1>4. r.d \in Detector /\ r.d.promoted = x.promoted
  BY <1>1, <1>3 DEF TapPart
<1>5. PendingInv(x) => KeepsHold(x, r) /\ PendingInv(r.d)
  BY <1>1, <1>3, TapPartKeeps
<1>6. r.out = "HoldUp" => ~check_hold_combo(m)
  BY <1>1, <1>3 DEF TapPart, Holds
<1> QED BY <1>4, <1>5, <1>6 DEF Kept, r

LEMMA KeyDownKept ==
    ASSUME NEW x \in Detector, NEW key \in Keys, NEW m,
           NEW e \in 0..MaxLag
    PROVE  LET r == handle_key_down(x, key, m, e) IN
           /\ Kept(x, r)
           /\ r.out = "HoldUp" => Elapsed(x.active, e) < Delay
<1> USE TimesTyped
<1> DEFINE r == handle_key_down(x, key, m, e)
           y == PendingTyped(x)
           lx == [x EXCEPT !.latched = @ \cup {key}, !.used = TRUE]
           ly == [y EXCEPT !.latched = @ \cup {key}]
           up(res) == res.out = "HoldUp" => Elapsed(x.active, e) < Delay
<1> SUFFICES Kept(x, r) /\ up(r)
  OBVIOUS
<1>1. /\ y \in Detector /\ y.active = x.active
      /\ y.pending = NoTime /\ y.promoted = x.promoted
  BY DEF PendingTyped, Detector
<1>2. /\ lx \in Detector /\ lx.active = x.active
      /\ lx.pending = x.pending /\ lx.promoted = x.promoted
  BY DEF Detector
<1>3. /\ ly \in Detector /\ ly.active = x.active
      /\ ly.pending = NoTime /\ ly.promoted = x.promoted
  <2> HIDE DEF y
  <2> QED BY <1>1 DEF Detector
<1>4. Command(key) \notin Holds
  BY DEF Command, Holds
<1>5. \/ r = Result(x, "None")
      \/ r = Result(lx, "AgentChannel")
      \/ r = Result(y, "None")
      \/ r = Result(ly, Command(key))
      \/ r = Typed(y, m, e)
  BY Zenon DEF handle_key_down
<1>6. Kept(x, Typed(y, m, e)) /\ up(Typed(y, m, e))
  <2> HIDE DEF y
  <2> DEFINE cancel == /\ hold_base_pressed(m)
                       /\ y.active # NoTime
                       /\ Elapsed(y.active, e) < Delay
             z == IF cancel THEN [y EXCEPT !.active = NoTime, !.arm = FALSE,
                                           !.used = TRUE]
                  ELSE y
             ctrl == "ctrl" \in m /\ (z.ctrl # NoTime \/ z.active # NoTime)
             option == "option" \in m /\ z.option # NoTime
             used == z.used \/ ctrl \/ option
             lastCtrl == IF ctrl THEN NoTime ELSE z.lastCtrl
             lastLeft == IF option THEN NoTime ELSE z.lastLeft
             lastRight == IF option THEN NoTime ELSE z.lastRight
             w == [z EXCEPT !.used = used, !.lastCtrl = lastCtrl,
                            !.lastLeft = lastLeft, !.lastRight = lastRight]
             out == IF cancel THEN "HoldUp" ELSE "None"
  <2>1. Typed(y, m, e) = Result(w, out)
    BY Zenon DEF Typed
  <2>2. /\ z \in Detector
        /\ z.active = IF cancel THEN NoTime ELSE x.active
        /\ z.pending = NoTime
        /\ z.promoted = x.promoted
    <3> HIDE DEF cancel
    <3> QED BY <1>1 DEF Detector
  <2>3. used \in BOOLEAN
    OBVIOUS
  <2>4. lastCtrl \in Ages /\ lastLeft \in Ages /\ lastRight \in Ages
    <3> HIDE DEF z
    <3> QED BY <2>2 DEF Detector
  <2>5. /\ w \in Detector /\ w.active = z.active
        /\ w.pending = NoTime /\ w.promoted = x.promoted
    <3> HIDE DEF z, used, lastCtrl, lastLeft, lastRight
    <3> QED BY <2>2, <2>3, <2>4 DEF Detector
  <2>6. cancel => Elapsed(x.active, e) < Delay
    BY <1>1
  <2> HIDE DEF w, z, cancel
  <2>7. Kept(x, Typed(y, m, e))
    <3>1. Typed(y, m, e).d = w /\ Typed(y, m, e).out = out
      BY <2>1 DEF Result
    <3>2. w.promoted \in {x.promoted, FALSE}
      BY <2>5
    <3> QED BY <2>2, <2>5, <3>1, <3>2
            DEF Kept, KeepsHold, Holds, PendingInv
  <2>8. up(Typed(y, m, e))
    BY <2>1, <2>6 DEF Result
  <2> QED BY <2>7, <2>8
<1> HIDE DEF r, y, lx, ly
<1>7. Kept(x, r)
  <2>1. Kept(x, Result(x, "None")) /\ Kept(x, Result(lx, "AgentChannel"))
    BY <1>2 DEF Result, Kept, KeepsHold, PendingInv, Holds
  <2>2. Kept(x, Result(y, "None"))
    BY <1>1 DEF Result, Kept, KeepsHold, PendingInv, Holds
  <2>3. Kept(x, Result(ly, Command(key)))
    BY <1>3, <1>4 DEF Result, Kept, KeepsHold, PendingInv, Holds
  <2> QED BY <1>5, <1>6, <2>1, <2>2, <2>3
<1>8. up(r)
  BY <1>4, <1>5, <1>6 DEF Result, Holds
<1> QED BY <1>7, <1>8

LEMMA KeyUpKept ==
    ASSUME NEW x \in Detector, NEW key, NEW m
    PROVE  Kept(x, key_up(x, key, m)) /\ key_up(x, key, m).out # "HoldUp"
<1> DEFINE used == x.used /\ m \cap {"ctrl", "option", "cmd", "fn"} # {}
           latched == x.latched \ {key}
           w == [x EXCEPT !.latched = latched, !.used = used]
<1>1. key_up(x, key, m) = Result(w, "None")
  BY DEF key_up
<1>2. used \in BOOLEAN /\ latched \in SUBSET Keys
  BY DEF Detector
<1>3. /\ w \in Detector /\ w.active = x.active
      /\ w.pending = x.pending /\ w.promoted = x.promoted
  <2> HIDE DEF used, latched
  <2> QED BY <1>2 DEF Detector
<1> HIDE DEF w
<1>4. Kept(x, Result(w, "None"))
  BY <1>3 DEF Result, Kept, KeepsHold, PendingInv, Holds
<1> QED BY <1>1, <1>4 DEF Result

\* The agent gesture can promote a hold while an Fn press is pending; where
\* the Fn tap is off none is.
LEMMA AgentMiddleKept ==
    ASSUME NEW x \in Detector, config.gesture,
           NEW pressed \in BOOLEAN, NEW e \in 0..MaxLag
    PROVE  LET r == handle_agent_middle_button(x, pressed, e) IN
           /\ Kept(x, r)
           /\ r.out = "HoldUp" => x.promoted /\ ~pressed
<1> USE TimesTyped, EventTimes
<1>0. PendingInv(x) /\ ~(config.gesture /\ config.tap) => x.pending = NoTime
  BY DEF PendingInv
<1>1. CASE pressed
  BY <1>0, <1>1 DEF handle_agent_middle_button, Result, Kept, KeepsHold,
                    PendingInv, Holds, Detector
<1>2. CASE ~pressed /\ x.promoted
  <2> DEFINE arm == x.arm /\ x.active = NoTime
             out == IF x.active = NoTime THEN "None" ELSE "HoldUp"
             w == [x EXCEPT !.promoted = FALSE, !.middle = NoTime,
                            !.active = NoTime, !.arm = arm]
  <2>1. handle_agent_middle_button(x, pressed, e) = Result(w, out)
    BY <1>2 DEF handle_agent_middle_button
  <2>2. arm \in BOOLEAN
    OBVIOUS
  <2>3. /\ w \in Detector /\ w.active = NoTime
        /\ w.pending = x.pending /\ w.promoted = FALSE
    <3> HIDE DEF arm
    <3> QED BY <2>2 DEF Detector
  <2> HIDE DEF w
  <2>4. Kept(x, Result(w, out))
    BY <1>0, <2>3 DEF Result, Kept, KeepsHold, PendingInv, Holds
  <2> QED BY <1>2, <2>1, <2>4
<1>3. CASE ~pressed /\ ~x.promoted
  BY <1>0, <1>3 DEF handle_agent_middle_button, Result, Kept, KeepsHold,
                    PendingInv, Holds, Detector
<1> QED BY <1>1, <1>2, <1>3

LEMMA PollKept ==
    ASSUME NEW x \in Detector
    PROVE  Kept(x, poll(x)) /\ (poll(x).out = "HoldUp" => x.owed)
<1> USE TimesTyped
<1>1. CASE x.owed
  BY <1>1 DEF poll, Result, Kept, KeepsHold, PendingInv, Holds, Detector
<1>2. CASE /\ ~x.owed
           /\ x.middle # NoTime /\ config.gesture /\ middle_button_dictates
           /\ ~x.promoted /\ x.active = NoTime /\ x.middle >= Delay
  BY <1>2 DEF poll, Result, Kept, KeepsHold, PendingInv, Holds, Detector
<1>3. CASE /\ ~x.owed
           /\ ~(/\ x.middle # NoTime /\ config.gesture
                /\ middle_button_dictates
                /\ ~x.promoted /\ x.active = NoTime /\ x.middle >= Delay)
  BY <1>3 DEF poll, Result, Kept, KeepsHold, PendingInv, Holds, Detector
<1> QED BY <1>1, <1>2, <1>3

LEMMA FeedKept ==
    ASSUME NEW x \in Detector, NEW ev \in Event
    PROVE  Kept(x, feed(x, ev))
<1>1. /\ ev.age \in 0..MaxLag
      /\ ev.down \in BOOLEAN
      /\ ev.key \in Keys
      /\ ev.kind \in {"down", "up", "flags", "middle"}
  BY DEF Event
<1>2. CASE ev.kind = "down"
  BY <1>1, <1>2, KeyDownKept DEF feed
<1>3. CASE ev.kind = "up"
  BY <1>1, <1>3, KeyUpKept DEF feed
<1>4. CASE ev.kind = "middle"
  <2>1. Kept(x, MiddleButton(x, ev.down, ev.mods, ev.age, hid))
    <3>1. CASE config.gesture
      BY <1>1, <3>1, AgentMiddleKept DEF MiddleButton
    <3>2. CASE ~config.gesture /\ config.middle
      <4> DEFINE m == IF ev.down THEN ev.mods \cup {"fn"} ELSE ev.mods
      <4>1. Kept(x, handle_flags_changed(x, "Fn", m, ev.age, hid))
        BY <1>1, FlagsChangedKept
      <4> QED BY <3>2, <4>1 DEF MiddleButton
    <3>3. CASE ~config.gesture /\ ~config.middle
      BY <3>3 DEF MiddleButton, Result, Kept, KeepsHold, PendingInv, Holds
    <3> QED BY <3>1, <3>2, <3>3
  <2> QED BY <1>4, <2>1 DEF feed
<1>5. CASE ev.kind = "flags"
  BY <1>1, <1>5, FlagsChangedKept DEF feed
<1> QED BY <1>1, <1>2, <1>3, <1>4, <1>5

-----------------------------------------------------------------------------
(* The invariant, action by action.                                        *)

LEMMA AgedTyped ==
    ASSUME NEW x \in Detector
    PROVE  /\ Aged(x) \in Detector
           /\ Aged(x).active = NoTime <=> x.active = NoTime
           /\ Aged(x).pending = NoTime <=> x.pending = NoTime
<1>1. \A t \in Ages : Older(t) \in Ages /\ (Older(t) = NoTime <=> t = NoTime)
  BY TimesTyped
<1> QED BY <1>1 DEF Aged, Detector

LEMMA SendTyped ==
    ASSUME TypeOK, NEW k \in Keys, NEW keys \in SUBSET Keys,
           NEW down \in BOOLEAN,
           NEW tap \in {"none", "clean", "long", "typed"},
           Send(k, keys, down, tap)
    PROVE  queue' \in Seq(Event) /\ lost' \in 0..MaxLost
<1> DEFINE kind == IF k \in ModKeys THEN "flags"
                   ELSE IF k = "Middle" THEN "middle"
                   ELSE IF down THEN "down" ELSE "up"
           ev == [kind |-> kind, key |-> k, mods |-> Modifiers(keys),
                  down |-> down, age |-> 0, tap |-> tap]
<1>1. kind \in {"down", "up", "flags", "middle"}
  OBVIOUS
<1>2. Modifiers(keys) \in SUBSET Mods
  BY DEF Modifiers, ModOf, Mods
<1>3. ev \in Event
  <2> HIDE DEF kind
  <2> QED BY <1>1, <1>2, DetectorAssumption DEF Event
<1>4. \/ UNCHANGED <<queue, lost>>
      \/ queue' = Append(queue, ev) /\ UNCHANGED lost
      \/ lost < MaxLost /\ lost' = lost + 1 /\ UNCHANGED queue
  BY Zenon DEF Send
<1>5. queue \in Seq(Event) /\ lost \in 0..MaxLost
  BY DEF TypeOK
<1> HIDE DEF ev
<1>6. Append(queue, ev) \in Seq(Event)
  BY <1>3, <1>5
<1>7. lost < MaxLost => lost + 1 \in 0..MaxLost
  BY <1>5, DetectorAssumption
<1> QED BY <1>4, <1>5, <1>6, <1>7

LEMMA DeliverTyped ==
    ASSUME TypeOK, NEW r, Kept(d, r), NEW keys, NEW rest, Deliver(r, keys, rest)
    PROVE  d' \in Detector /\ open' \in BOOLEAN /\ anchor' \in SUBSET Keys
<1>1. HoldKeys(keys, rest) \in SUBSET Keys
  BY DEF HoldKeys, Keys, ModKeys
<1> QED BY <1>1 DEF Deliver, Kept, TypeOK

LEMMA DeliverKeeps ==
    ASSUME TypeOK, OpenInv, NEW r, Kept(d, r), NEW keys, NEW rest,
           Deliver(r, keys, rest), config' = config
    PROVE  OpenInv'
BY DEF OpenInv, Deliver, Kept, KeepsHold, PendingInv, Holds, TypeOK

LEMMA NextTyped ==
    TypeOK /\ [Next]_vars => TypeOK'
<1> SUFFICES ASSUME TypeOK, [Next]_vars PROVE TypeOK'
  OBVIOUS
<1> USE TimesTyped
<1>1. ASSUME NEW k \in Keys, Press(k) PROVE TypeOK'
  <2>1. held' \in SUBSET Keys
    BY <1>1 DEF Press, TypeOK
  <2>2. queue' \in Seq(Event) /\ lost' \in 0..MaxLost
    BY <1>1, <2>1, SendTyped DEF Press
  <2>3. hid' \in Ages
    BY <1>1 DEF Press, TypeOK
  <2>4. press' \in [TapKeys -> Ages \cup {TypedPress}]
    BY <1>1 DEF Press, TypeOK
  <2> QED BY <1>1, <2>1, <2>2, <2>3, <2>4 DEF Press, TypeOK
<1>2. ASSUME NEW k \in Keys, Lift(k) PROVE TypeOK'
  <2> DEFINE tap == IF k \notin TapKeys \/ press[k] = NoTime THEN "none"
                    ELSE IF press[k] <= TapMax THEN "clean"
                    ELSE IF press[k] = TypedPress THEN "typed"
                    ELSE "long"
  <2>1. held' \in SUBSET Keys
    BY <1>2 DEF Lift, TypeOK
  <2>2. Send(k, held', FALSE, tap)
    BY <1>2 DEF Lift
  <2>3. tap \in {"none", "clean", "long", "typed"}
    OBVIOUS
  <2> HIDE DEF tap
  <2>4. queue' \in Seq(Event) /\ lost' \in 0..MaxLost
    BY <2>1, <2>2, <2>3, SendTyped
  <2>5. press' \in [TapKeys -> Ages \cup {TypedPress}]
    BY <1>2 DEF Lift, TypeOK
  <2>6. anchor' \in SUBSET Keys
    BY <1>2 DEF Lift, TypeOK
  <2> QED BY <1>2, <2>1, <2>4, <2>5, <2>6 DEF Lift, TypeOK
<1>3. CASE SecureEntry
  BY <1>3 DEF SecureEntry, user, TypeOK
<1>4. CASE Tick
  <2>1. queue' \in Seq(Event)
    <3> DEFINE older(i) == [queue[i] EXCEPT !.age = @ + 1]
    <3>1. Len(queue) \in Nat
      BY DEF TypeOK
    <3>2. ASSUME NEW i \in 1..Len(queue) PROVE older(i) \in Event
      <4>1. queue[i] \in Event /\ queue[i].age < MaxLag
        BY <1>4 DEF Tick, TypeOK
      <4> DEFINE q == queue[i]
                 age == q.age + 1
      <4>2. q.age \in 0..MaxLag
        BY <4>1 DEF Event
      <4>3. age \in 0..MaxLag
        BY <4>1, <4>2, DetectorAssumption
      <4>4. older(i) = [q EXCEPT !.age = age]
        OBVIOUS
      <4> HIDE DEF age, q
      <4>5. q \in Event
        BY <4>1 DEF q
      <4>6. [q EXCEPT !.age = age] \in Event
        BY <4>3, <4>5 DEF Event
      <4> QED BY <4>4, <4>6
    <3>3. queue' = [i \in 1..Len(queue) |-> older(i)]
      BY <1>4 DEF Tick
    <3> HIDE DEF older
    <3> QED BY <3>1, <3>2, <3>3
  <2>2. d' \in Detector
    BY <1>4, AgedTyped DEF Tick, TypeOK
  <2>3. hid' \in Ages
    BY <1>4 DEF Tick, TypeOK
  <2>4. press' \in [TapKeys -> Ages \cup {TypedPress}]
    BY <1>4 DEF Tick, TypeOK
  <2> QED BY <1>4, <2>1, <2>2, <2>3, <2>4 DEF Tick, TypeOK
<1>5. CASE Handle
  <2> DEFINE ev == Head(queue)
             r == feed(d, ev)
  <2>1. ev \in Event /\ queue' \in Seq(Event)
    BY <1>5 DEF Handle, TypeOK
  <2>2. Kept(d, r)
    BY <2>1, FeedKept DEF TypeOK
  <2>3. Deliver(r, Shown(ev), Tail(queue))
    BY <1>5 DEF Handle
  <2>4. d' \in Detector /\ open' \in BOOLEAN /\ anchor' \in SUBSET Keys
    <3> HIDE DEF r
    <3> QED BY <2>2, <2>3, DeliverTyped
  <2>5. taps' \in [TapKeys -> 0..2]
    <3>1. Count(ev) \in [TapKeys -> 0..2]
      <4> DEFINE n == IF ev.tap # "clean" /\ ~Masked(ev) THEN 0
                      ELSE IF taps[ev.key] = 0 THEN 1 ELSE 2
      <4>1. n \in 0..2
        OBVIOUS
      <4>2. Count(ev) = taps \/ Count(ev) = [taps EXCEPT ![ev.key] = n]
        BY DEF Count
      <4> HIDE DEF n
      <4> QED BY <4>1, <4>2 DEF TypeOK
    <3> QED BY <1>5, <3>1 DEF Handle, TypeOK
  <2>6. seen' \in SUBSET (Mods \cup {"Middle"})
    <3>1. ev.mods \in SUBSET Mods
      BY <2>1 DEF Event
    <3> QED BY <1>5, <3>1 DEF Handle, TypeOK
  <2> QED BY <1>5, <2>1, <2>4, <2>5, <2>6 DEF Handle, user, TypeOK
<1>6. CASE Poll
  <2>1. d' \in Detector /\ open' \in BOOLEAN /\ anchor' \in SUBSET Keys
    BY <1>6, PollKept, DeliverTyped DEF Poll, TypeOK
  <2> QED BY <1>6, <2>1 DEF Poll, user, TypeOK
<1>7. CASE UNCHANGED vars
  BY <1>7 DEF vars, TypeOK
<1> QED BY <1>1, <1>2, <1>3, <1>4, <1>5, <1>6, <1>7 DEF Next

LEMMA NextKeepsOpen ==
    TypeOK /\ OpenInv /\ [Next]_vars => OpenInv'
<1> SUFFICES ASSUME TypeOK, OpenInv, [Next]_vars PROVE OpenInv'
  OBVIOUS
<1>1. ASSUME NEW k \in Keys, Press(k) \/ Lift(k) PROVE OpenInv'
  BY <1>1 DEF Press, Lift, OpenInv, PendingInv
<1>2. CASE SecureEntry
  BY <1>2 DEF SecureEntry, OpenInv, PendingInv
<1>3. CASE Tick
  <2>1. /\ d' = Aged(d)
        /\ d.active = NoTime <=> d'.active = NoTime
        /\ d.pending = NoTime <=> d'.pending = NoTime
    BY <1>3, AgedTyped DEF Tick, TypeOK
  <2> QED BY <1>3, <2>1 DEF Tick, OpenInv, PendingInv
<1>4. CASE Handle
  <2> DEFINE ev == Head(queue)
             r == feed(d, ev)
  <2>1. ev \in Event
    BY <1>4 DEF Handle, TypeOK
  <2>2. Kept(d, r)
    BY <2>1, FeedKept DEF TypeOK
  <2>3. Deliver(r, Shown(ev), Tail(queue)) /\ config' = config
    BY <1>4 DEF Handle
  <2> HIDE DEF r
  <2> QED BY <2>2, <2>3, DeliverKeeps
<1>5. CASE Poll
  BY <1>5, PollKept, DeliverKeeps DEF Poll, TypeOK
<1>6. CASE UNCHANGED vars
  BY <1>6 DEF vars, OpenInv, PendingInv
<1> QED BY <1>1, <1>2, <1>3, <1>4, <1>5, <1>6 DEF Next

LEMMA InitHolds == Init => TypeOK /\ OpenInv
<1> SUFFICES ASSUME Init PROVE TypeOK /\ OpenInv
  OBVIOUS
<1>1. Fresh \in Detector /\ Fresh.active = NoTime /\ Fresh.pending = NoTime
  BY TimesTyped DEF Fresh, Detector
<1>2. OpenInv
  BY <1>1 DEF Init, OpenInv, PendingInv
<1>3. TypeOK
  <2>1. <<>> \in Seq(Event)
    OBVIOUS
  <2>2. /\ [k \in TapKeys |-> NoTime] \in [TapKeys -> Ages \cup {TypedPress}]
        /\ [k \in TapKeys |-> 0] \in [TapKeys -> 0..2]
    BY TimesTyped
  <2>3. press \in [TapKeys -> Ages \cup {TypedPress}] /\ taps \in [TapKeys -> 0..2]
    BY <2>2 DEF Init
  <2>4. lost \in 0..MaxLost
    BY DetectorAssumption DEF Init
  <2>5. /\ config \in Configs /\ held \in SUBSET Keys /\ secure \in BOOLEAN
        /\ hid \in Ages /\ queue \in Seq(Event) /\ d \in Detector
        /\ open \in BOOLEAN /\ anchor \in SUBSET Keys
        /\ seen \in SUBSET (Mods \cup {"Middle"})
    BY <1>1, <2>1, TimesTyped DEF Init
  <2> QED BY <2>3, <2>4, <2>5 DEF TypeOK
<1> QED BY <1>2, <1>3

-----------------------------------------------------------------------------
(* A hold is not cut.                                                      *)

\* While the keys of a hold stay down, they carry its modifiers and every
\* event that waits for the callback reports those modifiers; while its button
\* stays down, no event of the button waits.
Anchored(keys, events) ==
    /\ keys \subseteq held
    /\ "Middle" \in keys =>
         /\ middle_button_dictates
         /\ \A i \in 1..Len(events) : events[i].key # "Middle"
    /\ keys # {} /\ "Middle" \notin keys =>
         /\ keys \subseteq ModKeys
         /\ HoldMods(config.dictation) # {}
         /\ HoldMods(config.dictation) \subseteq Modifiers(keys)
         /\ \A i \in 1..Len(events) :
              HoldMods(config.dictation) \subseteq events[i].mods

Buttons(events) ==
    \A i \in 1..Len(events) : events[i].kind = "middle" => events[i].key = "Middle"

AnchorInv == Anchored(anchor, queue) /\ Buttons(queue)

\* poll promotes only a button that dictates and has the gesture.
PromotedInv ==
    \/ d.promoted = FALSE
    \/ config.gesture /\ middle_button_dictates

\* What ends a hold whose keys are still down.
Excused ==
    \/ d.owed
    \/ /\ queue # <<>> /\ queue' = Tail(queue)
       /\ LET ev == Head(queue) IN
          \/ ev.kind = "down" /\ Elapsed(d.active, ev.age) < Delay
          \/ ev.kind = "flags" /\ "Middle" \in anchor
          \/ /\ ev.kind = "middle" /\ ~ev.down /\ d.promoted
             /\ "Middle" \notin anchor
          \/ /\ ev.kind \in {"flags", "middle"}
             /\ "option" \in ev.mods
             /\ config.dictation \notin {"HoldFn", "HoldCtrlAlt"}

LEMMA HoldKeysAnchored ==
    ASSUME NEW keys, NEW rest \in Seq(Event)
    PROVE  Anchored(HoldKeys(keys, rest), rest)
<1> DEFINE base == HoldMods(config.dictation)
           down == {k \in keys \cap held :
                      \A i \in 1..Len(rest) :
                        /\ rest[i].key # k
                        /\ k \in ModKeys => ModOf(k) \in rest[i].mods}
           a == HoldKeys(keys, rest)
<1>1. CASE hold_base_pressed(Modifiers(down))
  <2>1. a = {k \in down \cap ModKeys : ModOf(k) \in base}
    BY <1>1 DEF HoldKeys
  <2>2. base # {} /\ base \subseteq Modifiers(down)
    BY <1>1 DEF hold_base_pressed
  <2> HIDE DEF base
  <2>3. a \subseteq held /\ a \subseteq ModKeys /\ "Middle" \notin a
    BY <2>1 DEF ModKeys
  <2>4. ASSUME NEW b \in base
        PROVE  \E k \in a : ModOf(k) = b
    <3>1. PICK k \in down \cap ModKeys : ModOf(k) = b
      BY <2>2 DEF Modifiers
    <3> QED BY <2>1, <3>1
  <2>5. base \subseteq Modifiers(a)
    BY <2>3, <2>4 DEF Modifiers
  <2>6. ASSUME NEW i \in 1..Len(rest)
        PROVE  base \subseteq rest[i].mods
    BY <2>1, <2>4, <2>6
  <2> HIDE DEF a
  <2> QED BY <2>2, <2>3, <2>5, <2>6 DEF Anchored, base, a
<1>2. CASE ~hold_base_pressed(Modifiers(down))
  <2>1. a = {k \in down : k = "Middle" /\ middle_button_dictates}
    BY <1>2 DEF HoldKeys
  <2>2. /\ a \subseteq held
        /\ "Middle" \in a =>
             /\ middle_button_dictates
             /\ \A i \in 1..Len(rest) : rest[i].key # "Middle"
        /\ a = {} \/ "Middle" \in a
    BY <2>1
  <2> HIDE DEF a
  <2> QED BY <2>2 DEF Anchored, a
<1> QED BY <1>1, <1>2

\* The event sent for a change that leaves the anchor down reports its
\* modifiers too, and is not one of its button.
LEMMA SendAnchored ==
    ASSUME TypeOK, NEW k, NEW keys, anchor \subseteq keys, NEW down, NEW tap,
           Send(k, keys, down, tap), AnchorInv
    PROVE  /\ anchor # {} /\ "Middle" \notin anchor =>
                \A i \in 1..Len(queue') :
                  HoldMods(config.dictation) \subseteq queue'[i].mods
           /\ "Middle" \in anchor /\ k # "Middle" =>
                \A i \in 1..Len(queue') : queue'[i].key # "Middle"
<1> DEFINE kind == IF k \in ModKeys THEN "flags"
                   ELSE IF k = "Middle" THEN "middle"
                   ELSE IF down THEN "down" ELSE "up"
           ev == [kind |-> kind, key |-> k, mods |-> Modifiers(keys),
                  down |-> down, age |-> 0, tap |-> tap]
           base == HoldMods(config.dictation)
<1>1. queue' = queue \/ queue' = Append(queue, ev)
  BY Zenon DEF Send
<1>2. ev.mods = Modifiers(keys) /\ ev.key = k
  OBVIOUS
<1>3. queue \in Seq(Event) /\ Len(queue) \in Nat
  BY DEF TypeOK
<1> HIDE DEF ev, base
<1>4. ASSUME queue' = Append(queue, ev)
      PROVE  /\ Len(queue') = Len(queue) + 1
             /\ queue'[Len(queue) + 1] = ev
             /\ \A i \in 1..Len(queue) : queue'[i] = queue[i]
  BY <1>3, <1>4
<1>5. ASSUME anchor # {}, "Middle" \notin anchor
      PROVE  \A i \in 1..Len(queue') : base \subseteq queue'[i].mods
  <2>1. base \subseteq Modifiers(keys)
    BY <1>5 DEF AnchorInv, Anchored, Modifiers, base
  <2>2. \A i \in 1..Len(queue) : base \subseteq queue[i].mods
    BY <1>5 DEF AnchorInv, Anchored, base
  <2> QED BY <1>1, <1>2, <1>3, <1>4, <2>1, <2>2
<1>6. ASSUME "Middle" \in anchor, k # "Middle"
      PROVE  \A i \in 1..Len(queue') : queue'[i].key # "Middle"
  <2>1. \A i \in 1..Len(queue) : queue[i].key # "Middle"
    BY <1>6 DEF AnchorInv, Anchored
  <2> QED BY <1>1, <1>2, <1>3, <1>4, <1>6, <2>1
<1> QED BY <1>5, <1>6 DEF base

LEMMA SendButtons ==
    ASSUME TypeOK, NEW k, NEW keys, NEW down, NEW tap,
           Send(k, keys, down, tap), Buttons(queue)
    PROVE  Buttons(queue')
<1> DEFINE kind == IF k \in ModKeys THEN "flags"
                   ELSE IF k = "Middle" THEN "middle"
                   ELSE IF down THEN "down" ELSE "up"
           ev == [kind |-> kind, key |-> k, mods |-> Modifiers(keys),
                  down |-> down, age |-> 0, tap |-> tap]
<1>1. queue' = queue \/ queue' = Append(queue, ev)
  BY Zenon DEF Send
<1>2. ev.kind = "middle" => ev.key = "Middle"
  OBVIOUS
<1>3. queue \in Seq(Event)
  BY DEF TypeOK
<1> HIDE DEF ev
<1>4. ASSUME queue' = Append(queue, ev), NEW i \in 1..Len(queue')
      PROVE  queue'[i] = ev \/ (i \in 1..Len(queue) /\ queue'[i] = queue[i])
  BY <1>3, <1>4
<1> QED BY <1>1, <1>2, <1>4 DEF Buttons

LEMMA DeliverAnchored ==
    ASSUME TypeOK, AnchorInv, NEW r, NEW keys, NEW rest \in Seq(Event),
           Deliver(r, keys, rest), Anchored(anchor, rest)
    PROVE  Anchored(anchor', rest)
<1>1. Anchored(HoldKeys(keys, rest), rest)
  BY HoldKeysAnchored
<1>2. Anchored({}, rest)
  BY DEF Anchored
<1>3. anchor' \in {HoldKeys(keys, rest), {}, anchor}
  BY DEF Deliver
<1> QED BY <1>1, <1>2, <1>3

LEMMA NextAnchored ==
    TypeOK /\ AnchorInv /\ [Next]_vars => AnchorInv'
<1> SUFFICES ASSUME TypeOK, AnchorInv, [Next]_vars PROVE AnchorInv'
  OBVIOUS
<1>0. queue \in Seq(Event)
  BY DEF TypeOK
<1>1. ASSUME NEW k \in Keys, Press(k) PROVE AnchorInv'
  <2>1. /\ anchor' = anchor /\ config' = config /\ held' = held \cup {k}
        /\ Send(k, held', TRUE, "none")
    BY <1>1 DEF Press
  <2>2. anchor \subseteq held'
    BY <2>1 DEF AnchorInv, Anchored
  <2>3. "Middle" \in anchor => k # "Middle"
    BY <1>1 DEF Press, AnchorInv, Anchored, TypingKeys
  <2>4. /\ anchor # {} /\ "Middle" \notin anchor =>
             \A i \in 1..Len(queue') :
               HoldMods(config.dictation) \subseteq queue'[i].mods
        /\ "Middle" \in anchor =>
             \A i \in 1..Len(queue') : queue'[i].key # "Middle"
    BY <2>1, <2>2, <2>3, SendAnchored
  <2>5. Buttons(queue')
    BY <2>1, SendButtons DEF AnchorInv
  <2> QED BY <2>1, <2>2, <2>4, <2>5
          DEF AnchorInv, Anchored, Buttons, middle_button_dictates
<1>2. ASSUME NEW k \in Keys, Lift(k) PROVE AnchorInv'
  <2> DEFINE tap == IF k \notin TapKeys \/ press[k] = NoTime THEN "none"
                    ELSE IF press[k] <= TapMax THEN "clean"
                    ELSE IF press[k] = TypedPress THEN "typed"
                    ELSE "long"
  <2>1. /\ anchor' = IF k \in anchor THEN {} ELSE anchor
        /\ config' = config /\ held' = held \ {k}
        /\ Send(k, held', FALSE, tap)
    BY <1>2 DEF Lift
  <2> HIDE DEF tap
  <2>0. Buttons(queue')
    BY <2>1, SendButtons DEF AnchorInv
  <2>2. CASE k \in anchor
    BY <2>0, <2>1, <2>2 DEF AnchorInv, Anchored, Buttons
  <2>3. CASE k \notin anchor
    <3>1. anchor \subseteq held'
      BY <2>1, <2>3 DEF AnchorInv, Anchored
    <3>2. /\ anchor # {} /\ "Middle" \notin anchor =>
               \A i \in 1..Len(queue') :
                 HoldMods(config.dictation) \subseteq queue'[i].mods
          /\ "Middle" \in anchor =>
               \A i \in 1..Len(queue') : queue'[i].key # "Middle"
      BY <2>1, <2>3, <3>1, SendAnchored
    <3> QED BY <2>0, <2>1, <2>3, <3>1, <3>2
            DEF AnchorInv, Anchored, Buttons, middle_button_dictates
  <2> QED BY <2>2, <2>3
<1>3. CASE SecureEntry \/ UNCHANGED vars
  BY <1>3 DEF SecureEntry, user, vars, AnchorInv, Anchored, Buttons,
              middle_button_dictates
<1>4. CASE Tick
  <2>1. /\ Len(queue') = Len(queue)
        /\ \A i \in 1..Len(queue) :
             /\ queue'[i].mods = queue[i].mods
             /\ queue'[i].key = queue[i].key
             /\ queue'[i].kind = queue[i].kind
    <3>1. queue' = [i \in 1..Len(queue) |-> [queue[i] EXCEPT !.age = @ + 1]]
      BY <1>4 DEF Tick
    <3>2. \A i \in 1..Len(queue) : queue[i] \in Event
      BY <1>0
    <3>3. Len(queue) \in Nat
      BY <1>0
    <3>4. Len(queue') = Len(queue)
      BY <3>1, <3>3
    <3>5. ASSUME NEW i \in 1..Len(queue)
          PROVE  /\ queue'[i].mods = queue[i].mods
                 /\ queue'[i].key = queue[i].key
                 /\ queue'[i].kind = queue[i].kind
      <4>1. queue'[i] = [queue[i] EXCEPT !.age = @ + 1]
        BY <3>1
      <4> QED BY <3>2, <4>1 DEF Event
    <3> QED BY <3>4, <3>5
  <2>2. anchor' = anchor /\ held' = held /\ config' = config
    BY <1>4 DEF Tick
  <2> QED BY <2>1, <2>2
          DEF AnchorInv, Anchored, Buttons, middle_button_dictates
<1>5. CASE Handle
  <2> DEFINE ev == Head(queue)
             r == feed(d, ev)
             rest == Tail(queue)
  <2>1. /\ queue # <<>> /\ queue' = rest /\ held' = held /\ config' = config
        /\ Deliver(r, Shown(ev), rest)
    BY <1>5 DEF Handle, user
  <2>2. rest \in Seq(Event) /\ Len(rest) = Len(queue) - 1
    BY <1>0, <2>1
  <2>3. \A i \in 1..Len(rest) : rest[i] = queue[i + 1]
    BY <1>0, <2>1
  <2>4. \A i \in 1..Len(rest) : i + 1 \in 1..Len(queue)
    BY <1>0, <2>2
  <2>5. Anchored(anchor, rest) /\ Buttons(rest)
    <3> HIDE DEF rest
    <3> QED BY <2>3, <2>4 DEF AnchorInv, Anchored, Buttons
  <2> HIDE DEF ev, r, rest
  <2>6. Anchored(anchor', rest)
    BY <2>1, <2>2, <2>5, DeliverAnchored
  <2> QED BY <2>1, <2>5, <2>6
          DEF AnchorInv, Anchored, Buttons, middle_button_dictates
<1>6. CASE Poll
  <2>1. /\ queue' = queue /\ held' = held /\ config' = config
        /\ Deliver(poll(d), held, queue)
    BY <1>6 DEF Poll, user
  <2>2. Anchored(anchor', queue)
    BY <1>0, <2>1, DeliverAnchored DEF AnchorInv
  <2> QED BY <2>1, <2>2
          DEF AnchorInv, Anchored, Buttons, middle_button_dictates
<1> QED BY <1>1, <1>2, <1>3, <1>4, <1>5, <1>6 DEF Next

LEMMA NextPromoted ==
    TypeOK /\ PromotedInv /\ [Next]_vars => PromotedInv'
<1> SUFFICES ASSUME TypeOK, PromotedInv, [Next]_vars PROVE PromotedInv'
  OBVIOUS
<1>1. ASSUME d' = d, config' = config PROVE PromotedInv'
  BY <1>1 DEF PromotedInv, middle_button_dictates
<1>2. ASSUME NEW r, Kept(d, r), d' = r.d, config' = config PROVE PromotedInv'
  BY <1>2 DEF PromotedInv, Kept, middle_button_dictates
<1>3. ASSUME NEW k \in Keys, Press(k) \/ Lift(k) PROVE PromotedInv'
  BY <1>1, <1>3 DEF Press, Lift
<1>4. CASE SecureEntry \/ UNCHANGED vars
  BY <1>1, <1>4 DEF SecureEntry, vars
<1>5. CASE Tick
  <2>1. d'.promoted = d.promoted /\ config' = config
    BY <1>5 DEF Tick, Aged, TypeOK, Detector
  <2> QED BY <2>1 DEF PromotedInv, middle_button_dictates
<1>6. CASE Handle
  <2> DEFINE r == feed(d, Head(queue))
  <2>1. Head(queue) \in Event
    BY <1>6 DEF Handle, TypeOK
  <2>2. Kept(d, r)
    BY <2>1, FeedKept DEF TypeOK
  <2>3. d' = r.d /\ config' = config
    BY <1>6 DEF Handle, Deliver
  <2> HIDE DEF r
  <2> QED BY <1>2, <2>2, <2>3
<1>7. CASE Poll
  BY <1>2, <1>7, PollKept DEF Poll, Deliver, TypeOK
<1> QED BY <1>3, <1>4, <1>5, <1>6, <1>7 DEF Next

\* What an Up of one event says of that event: a key inside the delay, the
\* end of the combination, or the release of a promoted button.
LEMMA UpFromFeed ==
    ASSUME NEW x \in Detector, NEW ev \in Event, feed(x, ev).out = "HoldUp"
    PROVE  \/ x.promoted /\ ev.kind = "middle" /\ ~ev.down
           \/ ev.kind = "down" /\ Elapsed(x.active, ev.age) < Delay
           \/ ev.kind \in {"flags", "middle"} /\ ~check_hold_combo(ev.mods)
           \/ /\ ev.kind = "middle" /\ ev.down
              /\ ~check_hold_combo(ev.mods \cup {"fn"})
<1>1. /\ ev.age \in 0..MaxLag
      /\ ev.down \in BOOLEAN
      /\ ev.key \in Keys
      /\ ev.kind \in {"down", "up", "flags", "middle"}
  BY DEF Event
<1>2. CASE ev.kind = "down"
  BY <1>1, <1>2, KeyDownKept DEF feed
<1>3. CASE ev.kind = "up"
  BY <1>1, <1>3, KeyUpKept DEF feed
<1>4. CASE ev.kind = "middle"
  <2>1. feed(x, ev) = MiddleButton(x, ev.down, ev.mods, ev.age, hid)
    BY <1>4 DEF feed
  <2>2. CASE config.gesture
    BY <1>1, <1>4, <2>1, <2>2, AgentMiddleKept DEF MiddleButton
  <2>3. CASE ~config.gesture /\ config.middle
    <3> DEFINE m == IF ev.down THEN ev.mods \cup {"fn"} ELSE ev.mods
    <3>1. feed(x, ev) = handle_flags_changed(x, "Fn", m, ev.age, hid)
      BY <2>1, <2>3 DEF MiddleButton
    <3>2. ~check_hold_combo(m)
      <4> HIDE DEF m
      <4> QED BY <1>1, <3>1, FlagsChangedKept
    <3> QED BY <1>4, <3>2
  <2>4. CASE ~config.gesture /\ ~config.middle
    BY <2>1, <2>4 DEF MiddleButton, Result
  <2> QED BY <2>2, <2>3, <2>4
<1>5. CASE ev.kind = "flags"
  BY <1>1, <1>5, FlagsChangedKept DEF feed
<1> QED BY <1>1, <1>2, <1>3, <1>4, <1>5

LEMMA UpIsExcused ==
    ASSUME TypeOK, AnchorInv, Next, emitted' = "HoldUp"
    PROVE  anchor = {} \/ Excused
<1> SUFFICES ASSUME anchor # {}
             PROVE  Excused
  OBVIOUS
<1>1. CASE Handle
  <2> DEFINE ev == Head(queue)
             r == feed(d, ev)
  <2>1. /\ queue # <<>> /\ queue' = Tail(queue) /\ r.out = "HoldUp"
    BY <1>1 DEF Handle, Deliver
  <2>2. queue \in Seq(Event) /\ ev \in Event /\ ev = queue[1]
        /\ 1 \in 1..Len(queue) /\ d \in Detector
    BY <2>1 DEF TypeOK
  <2>3. \/ d.promoted /\ ev.kind = "middle" /\ ~ev.down
        \/ ev.kind = "down" /\ Elapsed(d.active, ev.age) < Delay
        \/ ev.kind \in {"flags", "middle"} /\ ~check_hold_combo(ev.mods)
        \/ ev.kind = "middle" /\ ~check_hold_combo(ev.mods \cup {"fn"})
    BY <2>1, <2>2, UpFromFeed
  <2> HIDE DEF ev, r
  <2>4. CASE "Middle" \in anchor
    <3>1. ev.kind # "middle"
      BY <2>2, <2>4 DEF AnchorInv, Anchored, Buttons
    <3>2. \/ ev.kind = "down" /\ Elapsed(d.active, ev.age) < Delay
          \/ ev.kind = "flags"
      BY <2>3, <3>1
    <3> QED BY <2>1, <2>4, <3>2 DEF Excused, ev
  <2>5. CASE "Middle" \notin anchor
    <3>1. hold_base_pressed(ev.mods) /\ hold_base_pressed(ev.mods \cup {"fn"})
      BY <2>2, <2>5 DEF AnchorInv, Anchored, hold_base_pressed
    <3>2. \/ ev.kind = "middle" /\ ~ev.down /\ d.promoted
          \/ ev.kind = "down" /\ Elapsed(d.active, ev.age) < Delay
          \/ /\ ev.kind \in {"flags", "middle"}
             /\ "option" \in ev.mods
             /\ config.dictation \notin {"HoldFn", "HoldCtrlAlt"}
      BY <2>3, <3>1 DEF check_hold_combo
    <3> QED BY <2>1, <2>5, <3>2 DEF Excused, ev
  <2> QED BY <2>4, <2>5
<1>2. CASE Poll
  BY <1>2, PollKept DEF Poll, Deliver, Excused, TypeOK
<1>3. CASE ~Handle /\ ~Poll
  BY <1>3 DEF Next, Press, Lift, SecureEntry, Tick
<1> QED BY <1>1, <1>2, <1>3

-----------------------------------------------------------------------------
(* Where Ctrl toggles, a toggle is two clean taps: the detector's side.    *)

CtrlToggling == config.dictation = "DoubleCtrl" /\ ~config.tap

IsCtrl(ev)   == ev.key = "Control"
CtrlDown(ev) == IsCtrl(ev) /\ "ctrl" \in ev.mods
CtrlUp(ev)   == IsCtrl(ev) /\ "ctrl" \notin ev.mods

Commands == {c \in Keys \X SUBSET Mods : IsCommand(c[1], c[2])}

\* A key typed under Ctrl, the commands in C aside.
Typing(C, ev) ==
    ev.kind = "down" /\ "ctrl" \in ev.mods /\ <<ev.key, ev.mods>> \notin C

SameTaps(x, y) ==
    y.ctrl = x.ctrl /\ y.lastCtrl = x.lastCtrl /\ y.used = x.used

\* What one event does to the detector's view of Ctrl, by the event.
OtherEffect(x, ev, r) ==
    /\ r.d.ctrl = x.ctrl
    /\ r.d.lastCtrl \in {x.lastCtrl, NoTime}
    /\ r.out \notin Toggles
    /\ "ctrl" \in ev.mods /\ x.used = TRUE => r.d.used = TRUE
    /\ Typing(Commands, ev) /\ x.ctrl # NoTime => r.d.used = TRUE

DownEffect(x, e, r) ==
    /\ r.d.ctrl = IF x.ctrl = NoTime THEN e ELSE x.ctrl
    /\ r.d.lastCtrl = x.lastCtrl
    /\ r.out \notin Toggles

UpEffect(x, e, r) ==
    /\ r.d.ctrl = NoTime
    /\ x.ctrl = NoTime =>
         r.d.lastCtrl = x.lastCtrl /\ r.out \notin Toggles
    /\ x.ctrl # NoTime /\ (x.used = TRUE \/ Elapsed(x.ctrl, e) > TapMax) =>
         r.d.lastCtrl = NoTime /\ r.out \notin Toggles
    /\ r.out \in Toggles => x.lastCtrl # NoTime /\ r.d.lastCtrl = NoTime

\* The same for a modifier change, by the key that changed.
FlagsEffect(x, key, m, e, r) ==
    /\ key # "Control" =>
         /\ r.d.ctrl = x.ctrl /\ r.d.lastCtrl = x.lastCtrl
         /\ r.out \notin Toggles
         /\ "ctrl" \in m /\ x.used = TRUE => r.d.used = TRUE
    /\ key = "Control" /\ "ctrl" \in m => DownEffect(x, e, r)
    /\ key = "Control" /\ "ctrl" \notin m => UpEffect(x, e, r)

LEMMA HoldPartTaps ==
    ASSUME NEW x \in Detector, ~config.tap, x.pending = NoTime, NEW key,
           NEW m, NEW e \in 0..MaxLag
    PROVE  LET r == FnReleased(HoldStep(FnPressed(x, key, m, e), m, e), m, e)
           IN  r.d \in Detector /\ SameTaps(x, r.d) /\ r.out \notin Toggles
<1> DEFINE y == FnPressed(x, key, m, e)
           q == HoldStep(y, m, e)
           r == FnReleased(q, m, e)
<1>1. y \in Detector /\ SameTaps(x, y) /\ y.pending = NoTime
  <2>1. y \in {x, [x EXCEPT !.pending = NoTime]}
    BY DEF FnPressed
  <2> QED BY <2>1, TimesTyped DEF SameTaps, Detector
<1> HIDE DEF y
<1>2. q.d \in Detector /\ q.d.pending = NoTime
  BY <1>1, HoldStepTyped
<1>3. q.out \notin Toggles
  BY Zenon DEF HoldStep, Result, Toggles
<1>4. SameTaps(y, q.d)
  <2> DEFINE arm == config.arm \in m
  <2>1. q.d \in {y, [y EXCEPT !.active = e, !.arm = arm],
                 [y EXCEPT !.arm = arm],
                 [y EXCEPT !.active = NoTime, !.arm = FALSE]}
    BY Zenon DEF HoldStep, Result
  <2> HIDE DEF arm, q
  <2> QED BY <1>1, <2>1 DEF SameTaps, Detector
<1> HIDE DEF q
<1>5. r = q
  BY <1>2 DEF FnReleased
<1>6. SameTaps(x, q.d)
  BY <1>1, <1>4 DEF SameTaps
<1> QED BY <1>2, <1>3, <1>5, <1>6 DEF q, y

LEMMA CtrlTapEffect ==
    ASSUME NEW q, q.d \in Detector, q.out \notin Toggles, NEW key, NEW m,
           NEW e \in 0..MaxLag
    PROVE  FlagsEffect(q.d, key, m, e, CtrlTap(q, key, m, e))
<1> USE TimesTyped, EventTimes
<1> DEFINE x == q.d
           tap == /\ Elapsed(x.ctrl, e) <= TapMax
                  /\ m \cap {"shift", "option", "cmd"} = {}
                  /\ ~x.used
           out == IF Pairs(x.lastCtrl, e) THEN "ToggleRaw" ELSE "None"
           down == key = "Control" /\ "ctrl" \in m /\ x.ctrl = NoTime
           up == key = "Control" /\ "ctrl" \notin m /\ x.ctrl # NoTime
           y == IF down THEN Result([x EXCEPT !.ctrl = e], "None")
                ELSE IF up
                THEN IF tap
                     THEN Result([x EXCEPT !.ctrl = NoTime,
                                           !.lastCtrl = Tapped(@, e)], out)
                     ELSE Result([x EXCEPT !.ctrl = NoTime, !.used = FALSE,
                                           !.lastCtrl = NoTime], "None")
                ELSE Result(x, "None")
           r == CtrlTap(q, key, m, e)
<1> SUFFICES /\ key # "Control" =>
                  /\ r.d.ctrl = x.ctrl /\ r.d.lastCtrl = x.lastCtrl
                  /\ r.out \notin Toggles
                  /\ "ctrl" \in m /\ x.used = TRUE => r.d.used = TRUE
             /\ key = "Control" /\ "ctrl" \in m => DownEffect(x, e, r)
             /\ key = "Control" /\ "ctrl" \notin m => UpEffect(x, e, r)
  BY DEF FlagsEffect
<1>1. /\ r.d.ctrl = y.d.ctrl /\ r.d.lastCtrl = y.d.lastCtrl
      /\ r.out = Or(q.out, y.out)
      /\ "ctrl" \in m /\ y.d.used = TRUE => r.d.used = TRUE
  <2> DEFINE used == y.d.used /\ m \cap {"ctrl", "option", "cmd"} # {}
             w == [y.d EXCEPT !.used = used]
  <2>1. r = Result(w, Or(q.out, y.out))
    BY DEF CtrlTap
  <2>2. y.d \in Detector
    <3>1. x.lastCtrl \in Ages
      BY DEF Detector
    <3>2. Tapped(x.lastCtrl, e) \in Ages
      BY <3>1, TappedTyped
    <3> HIDE DEF out, tap, down, up
    <3> QED BY <3>2 DEF Result, Detector
  <2>3. "ctrl" \in m /\ y.d.used = TRUE => used = TRUE
    OBVIOUS
  <2>4. /\ w.ctrl = y.d.ctrl /\ w.lastCtrl = y.d.lastCtrl
        /\ w.used = used
    <3> HIDE DEF y, used
    <3> QED BY <2>2 DEF Detector
  <2> HIDE DEF w, used, y, r
  <2> QED BY <2>1, <2>3, <2>4 DEF Result
<1>2. Or(q.out, y.out) \in Toggles => y.out \in Toggles
  BY DEF Or
<1>3. "None" \notin Toggles
  BY DEF Toggles
<1>4. CASE down
  <2>1. y.d.ctrl = e /\ y.d.lastCtrl = x.lastCtrl /\ y.out = "None"
    BY <1>4 DEF Result, Detector
  <2> HIDE DEF y, r
  <2> QED BY <1>1, <1>2, <1>3, <1>4, <2>1 DEF DownEffect
<1>5. CASE up /\ tap
  <2>1. /\ y.d.ctrl = NoTime /\ y.d.lastCtrl = Tapped(x.lastCtrl, e)
        /\ y.out = out
    BY <1>5 DEF Result, Detector
  <2>2. out \in Toggles => x.lastCtrl # NoTime /\ Tapped(x.lastCtrl, e) = NoTime
    BY <1>3 DEF Pairs, Tapped
  <2>3. ~(x.used = TRUE \/ Elapsed(x.ctrl, e) > TapMax)
    <3>1. x.ctrl \in Ages /\ Elapsed(x.ctrl, e) \in Int
      BY DetectorAssumption DEF Detector, Elapsed, Ages
    <3> QED BY <1>5, <3>1, DetectorAssumption
  <2>4. key = "Control" /\ "ctrl" \notin m /\ x.ctrl # NoTime
    BY <1>5
  <2> HIDE DEF y, r, out, tap, up, x
  <2> QED BY <1>1, <1>2, <2>1, <2>2, <2>3, <2>4 DEF UpEffect, x
<1>6. CASE up /\ ~tap
  <2>1. y.d.ctrl = NoTime /\ y.d.lastCtrl = NoTime /\ y.out = "None"
    BY <1>6 DEF Result, Detector
  <2>2. key = "Control" /\ "ctrl" \notin m /\ x.ctrl # NoTime
    BY <1>6
  <2> HIDE DEF y, r, x
  <2> QED BY <1>1, <1>2, <1>3, <2>1, <2>2 DEF UpEffect, x
<1>7. CASE ~down /\ ~up
  <2>1. y.d = x /\ y.out = "None"
    BY <1>7 DEF Result
  <2>2. /\ key = "Control" /\ "ctrl" \in m => x.ctrl # NoTime
        /\ key = "Control" /\ "ctrl" \notin m => x.ctrl = NoTime
    BY <1>7
  <2> HIDE DEF y, r, x
  <2> QED BY <1>1, <1>2, <1>3, <2>1, <2>2 DEF UpEffect, DownEffect, x
<1> QED BY <1>4, <1>5, <1>6, <1>7

LEMMA KeyDownTaps ==
    ASSUME NEW x \in Detector, NEW ev \in Event, ev.kind = "down",
           ~IsCtrl(ev)
    PROVE  OtherEffect(x, ev, handle_key_down(x, ev.key, ev.mods, ev.age))
<1> DEFINE key == ev.key
           m == ev.mods
           e == ev.age
           r == handle_key_down(x, key, m, e)
           y == PendingTyped(x)
           lx == [x EXCEPT !.latched = @ \cup {key}, !.used = TRUE]
           ly == [y EXCEPT !.latched = @ \cup {key}]
           same(z) == /\ z.ctrl = x.ctrl /\ z.lastCtrl = x.lastCtrl
                      /\ x.used = TRUE => z.used = TRUE
<1>1. key \in Keys /\ m \in SUBSET Mods
  BY DEF Event
<1>2. Typing(Commands, ev) => ~IsCommand(key, m)
  BY <1>1 DEF Typing, Commands
<1>3. y \in Detector /\ same(y)
  BY TimesTyped DEF PendingTyped, Detector
<1>4. same(lx)
  BY DEF Detector
<1>5. same(ly)
  <2> HIDE DEF y
  <2> QED BY <1>3 DEF Detector
<1>6. Command(key) \notin Toggles /\ "None" \notin Toggles
      /\ "AgentChannel" \notin Toggles /\ "HoldUp" \notin Toggles
  BY DEF Command, Toggles
<1>7. \/ /\ IsCommand(key, m)
         /\ r \in {Result(x, "None"), Result(lx, "AgentChannel"),
                  Result(y, "None"), Result(ly, Command(key))}
      \/ r = Typed(y, m, e)
  BY Zenon DEF handle_key_down, IsCommand
<1>8. CASE r = Typed(y, m, e)
  <2> HIDE DEF y
  <2> DEFINE cancel == /\ hold_base_pressed(m)
                       /\ y.active # NoTime
                       /\ Elapsed(y.active, e) < Delay
             z == IF cancel THEN [y EXCEPT !.active = NoTime, !.arm = FALSE,
                                           !.used = TRUE]
                  ELSE y
             ctrl == "ctrl" \in m /\ (z.ctrl # NoTime \/ z.active # NoTime)
             option == "option" \in m /\ z.option # NoTime
             used == z.used \/ ctrl \/ option
             lastCtrl == IF ctrl THEN NoTime ELSE z.lastCtrl
             lastLeft == IF option THEN NoTime ELSE z.lastLeft
             lastRight == IF option THEN NoTime ELSE z.lastRight
             w == [z EXCEPT !.used = used, !.lastCtrl = lastCtrl,
                            !.lastLeft = lastLeft, !.lastRight = lastRight]
             out == IF cancel THEN "HoldUp" ELSE "None"
  <2>1. r = Result(w, out)
    BY <1>8, Zenon DEF Typed
  <2>2. z \in Detector /\ same(z)
    <3> HIDE DEF cancel
    <3> QED BY <1>3, TimesTyped DEF Detector
  <2>3. z.used = TRUE \/ ctrl => used = TRUE
    OBVIOUS
  <2>4. w.ctrl = z.ctrl /\ w.lastCtrl = lastCtrl /\ w.used = used
    <3> HIDE DEF z, used, lastCtrl, lastLeft, lastRight
    <3> QED BY <2>2 DEF Detector
  <2>5. lastCtrl \in {x.lastCtrl, NoTime}
    BY <2>2
  <2>6. "ctrl" \in m /\ x.ctrl # NoTime => ctrl
    BY <2>2
  <2>7. out \notin Toggles
    BY <1>6
  <2>8. r.d = w /\ r.out = out
    BY <2>1 DEF Result
  <2> HIDE DEF w, z, out, lastCtrl, used, ctrl, r
  <2> QED BY <2>2, <2>3, <2>4, <2>5, <2>6, <2>7, <2>8
          DEF OtherEffect, Typing, r
<1>9. CASE /\ IsCommand(key, m)
           /\ r \in {Result(x, "None"), Result(lx, "AgentChannel"),
                     Result(y, "None"), Result(ly, Command(key))}
  <2>1. r.d \in {x, lx, y, ly} /\ r.out \notin Toggles
    BY <1>6, <1>9 DEF Result
  <2>2. same(r.d)
    <3> HIDE DEF r, y, lx, ly
    <3> QED BY <1>3, <1>4, <1>5, <2>1
  <2> HIDE DEF r
  <2> QED BY <1>2, <1>9, <2>1, <2>2 DEF OtherEffect, r
<1> QED BY <1>7, <1>8, <1>9

LEMMA FeedTaps ==
    ASSUME NEW x \in Detector, CtrlToggling, x.pending = NoTime,
           NEW ev \in Event, IsCtrl(ev) => ev.kind = "flags"
    PROVE  LET r == feed(x, ev) IN
           /\ ~IsCtrl(ev) => OtherEffect(x, ev, r)
           /\ CtrlDown(ev) => DownEffect(x, ev.age, r)
           /\ CtrlUp(ev) => UpEffect(x, ev.age, r)
<1>1. /\ ev.age \in 0..MaxLag
      /\ ev.down \in BOOLEAN
      /\ ev.key \in Keys
      /\ ev.kind \in {"down", "up", "flags", "middle"}
  BY DEF Event
<1>2. ASSUME NEW key, NEW m
      PROVE  FlagsEffect(x, key, m, ev.age,
                         handle_flags_changed(x, key, m, ev.age, hid))
  <2> DEFINE q == FnReleased(HoldStep(FnPressed(x, key, m, ev.age), m, ev.age),
                             m, ev.age)
             r == handle_flags_changed(x, key, m, ev.age, hid)
  <2>1. q.d \in Detector /\ SameTaps(x, q.d) /\ q.out \notin Toggles
    BY <1>1, HoldPartTaps DEF CtrlToggling
  <2>2. r = CtrlTap(q, key, m, ev.age)
    BY DEF handle_flags_changed, CtrlToggling
  <2> HIDE DEF q, r
  <2>3. FlagsEffect(q.d, key, m, ev.age, r)
    BY <1>1, <2>1, <2>2, CtrlTapEffect
  <2>4. FlagsEffect(x, key, m, ev.age, r)
    BY <2>1, <2>3 DEF SameTaps, FlagsEffect, DownEffect, UpEffect
  <2> QED BY <2>4 DEF r
<1>3. CASE ev.kind = "flags"
  <2>1. feed(x, ev) = handle_flags_changed(x, ev.key, ev.mods, ev.age, hid)
    BY <1>3 DEF feed
  <2>2. ~Typing(Commands, ev)
    BY <1>3 DEF Typing
  <2>3. FlagsEffect(x, ev.key, ev.mods, ev.age, feed(x, ev))
    BY <1>2, <2>1
  <2> QED BY <2>2, <2>3
          DEF IsCtrl, CtrlDown, CtrlUp, OtherEffect, FlagsEffect
<1>4. CASE ev.kind = "down"
  <2>1. feed(x, ev) = handle_key_down(x, ev.key, ev.mods, ev.age)
    BY <1>4 DEF feed
  <2> QED BY <1>4, <2>1, KeyDownTaps DEF CtrlDown, CtrlUp
<1>5. CASE ev.kind = "up"
  <2> DEFINE used == /\ x.used
                     /\ ev.mods \cap {"ctrl", "option", "cmd", "fn"} # {}
             w == [x EXCEPT !.latched = @ \ {ev.key}, !.used = used]
  <2>1. feed(x, ev) = Result(w, "None")
    BY <1>5 DEF feed, key_up
  <2>2. w.ctrl = x.ctrl /\ w.lastCtrl = x.lastCtrl /\ w.used = used
    <3> HIDE DEF used
    <3> QED BY DEF Detector
  <2>3. "ctrl" \in ev.mods /\ x.used = TRUE => used = TRUE
    OBVIOUS
  <2>4. ~Typing(Commands, ev) /\ "None" \notin Toggles
    BY <1>5 DEF Typing, Toggles
  <2>5. feed(x, ev).d = w /\ feed(x, ev).out = "None"
    BY <2>1 DEF Result
  <2> HIDE DEF w, used
  <2>6. OtherEffect(x, ev, feed(x, ev))
    BY <2>2, <2>3, <2>4, <2>5 DEF OtherEffect
  <2> QED BY <1>5, <2>6 DEF CtrlDown, CtrlUp
<1>6. CASE ev.kind = "middle"
  <2> DEFINE r == MiddleButton(x, ev.down, ev.mods, ev.age, hid)
  <2>0. ~Typing(Commands, ev) /\ "None" \notin Toggles
    BY <1>6 DEF Typing, Toggles
  <2> SUFFICES OtherEffect(x, ev, r)
    <3>1. feed(x, ev) = r
      BY <1>6 DEF feed
    <3> HIDE DEF r
    <3> QED BY <1>6, <3>1 DEF CtrlDown, CtrlUp
  <2>1. CASE config.gesture
    <3>1. r = handle_agent_middle_button(x, ev.down, ev.age)
      BY <2>1 DEF MiddleButton
    <3>2. r.out \notin Toggles
      BY <3>1 DEF handle_agent_middle_button, Result, Toggles
    <3>3. SameTaps(x, r.d)
      <4> DEFINE arm == x.arm /\ x.active = NoTime
      <4>1. r.d \in {x, [x EXCEPT !.middle = ev.age],
                     [x EXCEPT !.promoted = FALSE, !.middle = NoTime,
                               !.active = NoTime, !.arm = arm],
                     [x EXCEPT !.middle = NoTime, !.active = x.middle,
                               !.arm = FALSE, !.owed = TRUE],
                     [x EXCEPT !.middle = NoTime]}
        BY <3>1 DEF handle_agent_middle_button, Result
      <4> HIDE DEF r, arm
      <4> QED BY <4>1 DEF SameTaps, Detector
    <3> HIDE DEF r
    <3> QED BY <2>0, <3>2, <3>3 DEF OtherEffect, SameTaps
  <2>2. CASE ~config.gesture /\ config.middle
    <3> DEFINE m == IF ev.down THEN ev.mods \cup {"fn"} ELSE ev.mods
    <3>1. r = handle_flags_changed(x, "Fn", m, ev.age, hid)
      BY <2>2 DEF MiddleButton
    <3>2. "ctrl" \in ev.mods => "ctrl" \in m
      OBVIOUS
    <3> HIDE DEF m, r
    <3>3. /\ r.d.ctrl = x.ctrl /\ r.d.lastCtrl = x.lastCtrl
          /\ r.out \notin Toggles
          /\ "ctrl" \in m /\ x.used = TRUE => r.d.used = TRUE
      BY <1>2, <3>1 DEF FlagsEffect
    <3> QED BY <2>0, <3>2, <3>3 DEF OtherEffect
  <2>3. CASE ~config.gesture /\ ~config.middle
    <3>1. r.d = x /\ r.out = "None"
      BY <2>3 DEF MiddleButton, Result
    <3> HIDE DEF r
    <3> QED BY <2>0, <3>1 DEF OtherEffect
  <2> QED BY <2>1, <2>2, <2>3
<1> QED BY <1>1, <1>3, <1>4, <1>5, <1>6

LEMMA PollTaps ==
    ASSUME NEW x \in Detector
    PROVE  SameTaps(x, poll(x).d) /\ poll(x).out \notin Toggles
<1>1. poll(x).out \notin Toggles
  BY Zenon DEF poll, Result, Toggles
<1>2. poll(x).d \in
        {x, [x EXCEPT !.owed = FALSE, !.active = NoTime, !.arm = FALSE],
         [x EXCEPT !.promoted = TRUE, !.active = x.middle, !.arm = FALSE],
         [x EXCEPT !.pending = NoTime],
         [x EXCEPT !.active = x.pending, !.pending = NoTime, !.arm = FALSE]}
  BY DEF poll, Result
<1> QED BY <1>1, <1>2 DEF SameTaps, Detector

-----------------------------------------------------------------------------
(* Where Ctrl toggles: the events on their way.  After event i of the      *)
(* queue the detector will take Ctrl for down (i is in F), and something   *)
(* has been typed in that press (i is in G).                               *)

Follows(C, ev, i, F, G) ==
    /\ CtrlDown(ev) => i \in F
    /\ CtrlUp(ev) => /\ i \notin F
                     /\ ev.tap = "none" <=> i - 1 \notin F
                     /\ ev.tap = "typed" => i - 1 \in G
    /\ ~IsCtrl(ev) => (i \in F <=> i - 1 \in F)
    /\ i \in G => \/ Typing(C, ev) /\ i - 1 \in F
                  \/ i - 1 \in G /\ "ctrl" \in ev.mods /\ ~IsCtrl(ev)

Belief(C, q, x, F, G) ==
    /\ F \subseteq 0..Len(q)
    /\ G \subseteq 0..Len(q)
    /\ 0 \in F <=> x.ctrl # NoTime
    /\ 0 \in G => x.used = TRUE
    /\ \A i \in 1..Len(q) : Follows(C, q[i], i, F, G)

\* What the press t of the user, with Ctrl down or up as h says, comes to
\* once the n waiting events are handled.
Known(n, t, h, F, G) ==
    /\ t = NoTime <=> n \notin F
    /\ t = TypedPress /\ h => n \in G

\* A press that was long when its release was sent is long for the detector.
LongInv(q, x) ==
    \A i \in 1..Len(q) : CtrlUp(q[i]) /\ q[i].tap = "long" =>
      /\ \A j \in 1..Len(q) : j < i /\ CtrlDown(q[j]) =>
           q[j].age > q[i].age + TapMax
      /\ x.ctrl # NoTime => x.ctrl > q[i].age + TapMax

YoungInv(q, x, t) ==
    t \notin {NoTime, TypedPress} =>
      /\ \A j \in 1..Len(q) : CtrlDown(q[j]) => q[j].age >= t
      /\ x.ctrl # NoTime => x.ctrl >= t

\* A change of Ctrl is a modifier event, and only its release ends a tap.
KindInv(q) ==
    \A i \in 1..Len(q) : /\ IsCtrl(q[i]) => q[i].kind = "flags"
                         /\ CtrlDown(q[i]) => q[i].tap = "none"

LastInv == d.lastCtrl # NoTime => taps["Control"] # 0

BeliefInv ==
    \E F, G : /\ Belief(Commands, queue, d, F, G)
              /\ Known(Len(queue), press["Control"], "Control" \in held, F, G)

CtrlInv ==
    CtrlToggling =>
      /\ BeliefInv
      /\ LongInv(queue, d)
      /\ YoungInv(queue, d, press["Control"])
      /\ KindInv(queue)
      /\ LastInv

LEMMA AppendBelief ==
    ASSUME NEW C, NEW q \in Seq(Event), NEW x, NEW F, NEW G,
           Belief(C, q, x, F, G), NEW ev \in Event,
           CtrlUp(ev) => /\ ev.tap = "none" <=> Len(q) \notin F
                         /\ ev.tap = "typed" => Len(q) \in G
    PROVE  \E F2, G2 :
             /\ Belief(C, Append(q, ev), x, F2, G2)
             /\ Len(q) + 1 \in F2 <=>
                  CtrlDown(ev) \/ (~IsCtrl(ev) /\ Len(q) \in F)
             /\ Len(q) + 1 \in G2 <=>
                  \/ Typing(C, ev) /\ Len(q) \in F
                  \/ Len(q) \in G /\ "ctrl" \in ev.mods /\ ~IsCtrl(ev)
<1> DEFINE n == Len(q)
           p == Append(q, ev)
           inF == CtrlDown(ev) \/ (~IsCtrl(ev) /\ n \in F)
           inG == \/ Typing(C, ev) /\ n \in F
                  \/ n \in G /\ "ctrl" \in ev.mods /\ ~IsCtrl(ev)
           F2 == {i \in 0..n + 1 : i \in F \/ (i = n + 1 /\ inF)}
           G2 == {i \in 0..n + 1 : i \in G \/ (i = n + 1 /\ inG)}
<1>1. n \in Nat /\ Len(p) = n + 1 /\ p[n + 1] = ev
      /\ \A i \in 1..n : p[i] = q[i]
  OBVIOUS
<1>2. F \subseteq 0..n /\ G \subseteq 0..n
  BY DEF Belief
<1> HIDE DEF p, n, inF, inG
<1>3. /\ \A i \in 0..n : (i \in F2 <=> i \in F) /\ (i \in G2 <=> i \in G)
      /\ n + 1 \in F2 <=> inF
      /\ n + 1 \in G2 <=> inG
      /\ F2 \subseteq 0..n + 1 /\ G2 \subseteq 0..n + 1
  BY <1>1, <1>2
<1> HIDE DEF F2, G2
<1>4. ASSUME NEW i \in 1..n PROVE Follows(C, p[i], i, F2, G2)
  <2>1. i \in 0..n /\ i - 1 \in 0..n
    BY <1>1
  <2>2. Follows(C, p[i], i, F, G)
    BY <1>1 DEF Belief, n
  <2> QED BY <1>3, <2>1, <2>2 DEF Follows
<1>5. Follows(C, p[n + 1], n + 1, F2, G2)
  <2>1. n + 1 - 1 = n /\ n \in 0..n
    BY <1>1
  <2> QED BY <1>1, <1>3, <2>1 DEF Follows, inF, inG, n, CtrlDown, CtrlUp
<1>6. Belief(C, p, x, F2, G2)
  <2>1. \A i \in 1..Len(p) : Follows(C, p[i], i, F2, G2)
    BY <1>1, <1>4, <1>5
  <2>2. 0 \in 0..n
    BY <1>1
  <2> QED BY <1>1, <1>3, <2>1, <2>2 DEF Belief
<1> QED BY <1>3, <1>6 DEF p, n, inF, inG

LEMMA PopBelief ==
    ASSUME NEW C, NEW q \in Seq(Event), q # <<>>, NEW x, NEW F, NEW G,
           Belief(C, q, x, F, G), NEW y,
           y.ctrl # NoTime <=> 1 \in F, 1 \in G => y.used = TRUE
    PROVE  \E F2, G2 :
             /\ Belief(C, Tail(q), y, F2, G2)
             /\ Len(Tail(q)) \in F2 <=> Len(q) \in F
             /\ Len(Tail(q)) \in G2 <=> Len(q) \in G
<1> DEFINE n == Len(q)
           p == Tail(q)
           F2 == {i \in 0..n - 1 : i + 1 \in F}
           G2 == {i \in 0..n - 1 : i + 1 \in G}
<1>1. n \in Nat /\ n > 0 /\ Len(p) = n - 1
  OBVIOUS
<1>2. \A i \in 1..n - 1 : p[i] = q[i + 1]
  OBVIOUS
<1> HIDE DEF p, n
<1>3. /\ \A i \in 0..n - 1 : (i \in F2 <=> i + 1 \in F)
                            /\ (i \in G2 <=> i + 1 \in G)
      /\ F2 \subseteq 0..n - 1 /\ G2 \subseteq 0..n - 1
  OBVIOUS
<1> HIDE DEF F2, G2
<1>4. ASSUME NEW i \in 1..n - 1 PROVE Follows(C, p[i], i, F2, G2)
  <2>1. i \in 0..n - 1 /\ i - 1 \in 0..n - 1 /\ i + 1 \in 1..n
        /\ i - 1 + 1 = i /\ i + 1 - 1 = i
    BY <1>1
  <2>2. Follows(C, p[i], i + 1, F, G)
    BY <1>2, <2>1 DEF Belief, n
  <2>3. /\ i \in F2 <=> i + 1 \in F
        /\ i \in G2 <=> i + 1 \in G
        /\ i - 1 \in F2 <=> i \in F
        /\ i - 1 \in G2 <=> i \in G
    BY <1>3, <2>1
  <2> QED BY <2>1, <2>2, <2>3 DEF Follows
<1>5. Belief(C, p, y, F2, G2)
  <2>1. 0 \in 0..n - 1 /\ 0 + 1 = 1
    BY <1>1
  <2>2. (0 \in F2 <=> 1 \in F) /\ (0 \in G2 <=> 1 \in G)
    BY <1>3, <2>1
  <2> QED BY <1>1, <1>3, <1>4, <2>2 DEF Belief
<1>6. n - 1 \in 0..n - 1 /\ n - 1 + 1 = n
  BY <1>1
<1>7. (n - 1 \in F2 <=> n \in F) /\ (n - 1 \in G2 <=> n \in G)
  BY <1>3, <1>6
<1> QED BY <1>1, <1>5, <1>7 DEF p, n

LEMMA CtrlMods ==
    ASSUME NEW keys \in SUBSET Keys
    PROVE  "ctrl" \in Modifiers(keys) <=> "Control" \in keys
BY DEF Modifiers, ModOf, ModKeys

LEMMA CommandsStay == config' = config => Commands' = Commands
BY DEF Commands, IsCommand, IsChord, ChordMods, channel_chord_matches

\* What sending ev to the queue q makes of the queue p and the beliefs F and G.
Extended(C, q, x, F, G, t, ev, p) ==
    /\ \E F2, G2 :
         /\ Belief(C, p, x, F2, G2)
         /\ Len(p) \in F2 <=> CtrlDown(ev) \/ (~IsCtrl(ev) /\ Len(q) \in F)
         /\ Len(p) \in G2 <=>
              \/ Typing(C, ev) /\ Len(q) \in F
              \/ Len(q) \in G /\ "ctrl" \in ev.mods /\ ~IsCtrl(ev)
    /\ LongInv(p, x)
    /\ KindInv(p)
    /\ CtrlDown(ev) \/ YoungInv(p, x, t)

LEMMA SentCtrl ==
    ASSUME NEW C, NEW q \in Seq(Event), NEW x \in Detector, NEW F, NEW G,
           Belief(C, q, x, F, G), LongInv(q, x), KindInv(q), NEW t,
           YoungInv(q, x, t), t = NoTime <=> Len(q) \notin F,
           NEW ev \in Event, ev.age = 0, IsCtrl(ev) => ev.kind = "flags",
           CtrlDown(ev) => ev.tap = "none",
           CtrlUp(ev) =>
             /\ ev.tap = "none" <=> t = NoTime
             /\ ev.tap = "typed" => Len(q) \in G
             /\ ev.tap = "long" =>
                  t \in Ages /\ t # NoTime /\ t # TypedPress /\ t > TapMax
    PROVE  Extended(C, q, x, F, G, t, ev, Append(q, ev))
<1> DEFINE p == Append(q, ev)
           n == Len(q)
<1>1. n \in Nat /\ Len(p) = n + 1 /\ p[n + 1] = ev
      /\ \A i \in 1..n : p[i] = q[i]
  OBVIOUS
<1>2. \E F2, G2 :
        /\ Belief(C, p, x, F2, G2)
        /\ Len(p) \in F2 <=> CtrlDown(ev) \/ (~IsCtrl(ev) /\ n \in F)
        /\ Len(p) \in G2 <=>
             \/ Typing(C, ev) /\ n \in F
             \/ n \in G /\ "ctrl" \in ev.mods /\ ~IsCtrl(ev)
  <2>1. Len(p) = Len(q) + 1
    BY <1>1
  <2> HIDE DEF p
  <2> QED BY <2>1, AppendBelief DEF p
<1>3. \A i \in 1..n : q[i].age \in Nat
  <2>1. \A i \in 1..n : q[i] \in Event
    OBVIOUS
  <2>2. \A y \in Event : y.age \in Nat
    BY DetectorAssumption DEF Event
  <2> QED BY <2>1, <2>2
<1>4. x.ctrl \in Int /\ TapMax \in Nat
  BY DetectorAssumption DEF Detector, Ages
<1> HIDE DEF p, n
<1>5. KindInv(p)
  BY <1>1 DEF KindInv, n
<1>6. LongInv(p, x)
  <2> SUFFICES ASSUME NEW i \in 1..Len(p), CtrlUp(p[i]), p[i].tap = "long"
               PROVE  /\ \A j \in 1..Len(p) : j < i /\ CtrlDown(p[j]) =>
                           p[j].age > p[i].age + TapMax
                      /\ x.ctrl # NoTime => x.ctrl > p[i].age + TapMax
    BY DEF LongInv
  <2>1. CASE i \in 1..n
    <3>1. p[i] = q[i]
      BY <1>1, <2>1
    <3>2. \A j \in 1..Len(p) : j < i => j \in 1..n /\ p[j] = q[j]
      BY <1>1, <2>1
    <3>3. /\ \A j \in 1..n : j < i /\ CtrlDown(q[j]) =>
              q[j].age > q[i].age + TapMax
          /\ x.ctrl # NoTime => x.ctrl > q[i].age + TapMax
      BY <2>1, <3>1 DEF LongInv, n
    <3> QED BY <3>1, <3>2, <3>3
  <2>2. CASE i = n + 1
    <3>1. p[i] = ev /\ t \in Ages /\ t \notin {NoTime, TypedPress} /\ t > TapMax
      BY <1>1, <2>2
    <3>2. /\ \A j \in 1..n : CtrlDown(q[j]) => q[j].age >= t
          /\ x.ctrl # NoTime => x.ctrl >= t
      BY <3>1 DEF YoungInv, n
    <3>3. t \in Int
      BY <3>1 DEF Ages
    <3>4. \A j \in 1..Len(p) : j < i => j \in 1..n /\ p[j] = q[j]
      BY <1>1, <2>2
    <3>5. p[i].age + TapMax = TapMax
      BY <1>4, <3>1
    <3>6. ASSUME NEW j \in 1..Len(p), j < i, CtrlDown(p[j])
          PROVE  p[j].age > TapMax
      <4>1. j \in 1..n /\ p[j].age >= t /\ p[j].age \in Nat
        BY <1>3, <3>2, <3>4, <3>6
      <4> QED BY <1>4, <3>1, <3>3, <4>1
    <3>7. x.ctrl # NoTime => x.ctrl > TapMax
      BY <1>4, <3>1, <3>2, <3>3
    <3> QED BY <3>5, <3>6, <3>7
  <2> QED BY <1>1, <2>1, <2>2
<1>7. ~CtrlDown(ev) => YoungInv(p, x, t)
  <2> SUFFICES ASSUME ~CtrlDown(ev), t \notin {NoTime, TypedPress},
                      NEW j \in 1..Len(p), CtrlDown(p[j])
               PROVE  p[j].age >= t
    BY DEF YoungInv
  <2>1. j \in 1..n /\ p[j] = q[j]
    BY <1>1
  <2> QED BY <2>1 DEF YoungInv, n
<1> QED BY <1>2, <1>5, <1>6, <1>7 DEF Extended, p, n

\* The event of a change, as Send makes it.
Sent(k, keys, down, tap) ==
    [kind |-> IF k \in ModKeys THEN "flags"
              ELSE IF k = "Middle" THEN "middle"
              ELSE IF down THEN "down" ELSE "up",
     key |-> k, mods |-> Modifiers(keys), down |-> down, age |-> 0,
     tap |-> tap]

\* ev is that event, and it was queued or missed.
SentAs(ev, k, keys, down, tap) ==
    /\ ev \in Event
    /\ ev.key = k /\ ev.age = 0 /\ ev.tap = tap
    /\ ev.mods = Modifiers(keys)
    /\ k = "Control" => ev.kind = "flags"
    /\ k \in TypingKeys /\ down => ev.kind = "down"
    /\ queue' = queue \/ queue' = Append(queue, ev)
    /\ Append(queue, ev) # queue

LEMMA SendSends ==
    ASSUME TypeOK, NEW k \in Keys, NEW keys \in SUBSET Keys,
           NEW down \in BOOLEAN,
           NEW tap \in {"none", "clean", "long", "typed"},
           Send(k, keys, down, tap)
    PROVE  SentAs(Sent(k, keys, down, tap), k, keys, down, tap)
<1> DEFINE kind == IF k \in ModKeys THEN "flags"
                   ELSE IF k = "Middle" THEN "middle"
                   ELSE IF down THEN "down" ELSE "up"
           ev == Sent(k, keys, down, tap)
<1>1. ev = [kind |-> kind, key |-> k, mods |-> Modifiers(keys),
            down |-> down, age |-> 0, tap |-> tap]
  BY DEF Sent
<1>2. /\ kind \in {"down", "up", "flags", "middle"}
      /\ k = "Control" => kind = "flags"
      /\ k \in TypingKeys /\ down => kind = "down"
  BY DEF ModKeys, TypingKeys
<1>3. Modifiers(keys) \in SUBSET Mods
  BY DEF Modifiers, ModOf, Mods
<1>4. queue' = queue \/ queue' = Append(queue, ev)
  BY Zenon DEF Send, Sent
<1> HIDE DEF kind
<1>5. ev \in Event
  BY <1>1, <1>2, <1>3, DetectorAssumption DEF Event
<1>6. queue \in Seq(Event)
  BY DEF TypeOK
<1> HIDE DEF ev
<1>7. Append(queue, ev) # queue
  <2>1. Len(Append(queue, ev)) = Len(queue) + 1 /\ Len(queue) \in Nat
    BY <1>5, <1>6
  <2> QED BY <2>1
<1> QED BY <1>1, <1>2, <1>4, <1>5, <1>7 DEF SentAs, ev

LEMMA PressCtrl ==
    ASSUME TypeOK, CtrlToggling, CtrlInv, NEW k \in Keys, Press(k)
    PROVE  CtrlInv'
<1> DEFINE t == press["Control"]
           u == press'["Control"]
           ev == Sent(k, held', TRUE, "none")
           n == Len(queue)
<1>1. /\ held' = held \cup {k} /\ held' \in SUBSET Keys
      /\ Send(k, held', TRUE, "none")
      /\ k \notin held \/ k \in TypingKeys
    BY DEF Press, TypeOK
<1>2. /\ d' = d /\ taps' = taps /\ config' = config
  BY DEF Press
<1>3. /\ ev \in Event
      /\ ev.key = k /\ ev.age = 0 /\ ev.tap = "none"
      /\ ev.mods = Modifiers(held')
      /\ k = "Control" => ev.kind = "flags"
      /\ k \in TypingKeys => ev.kind = "down"
      /\ queue' = queue \/ queue' = Append(queue, ev)
      /\ Append(queue, ev) # queue
  <2>1. SentAs(ev, k, held', TRUE, "none")
    BY <1>1, SendSends
  <2> HIDE DEF ev
  <2> QED BY <2>1 DEF SentAs
<1>4. "ctrl" \in ev.mods <=> "Control" \in held'
  BY <1>1, <1>3, CtrlMods
<1>5. /\ queue \in Seq(Event) /\ d \in Detector
      /\ t \in Ages \cup {TypedPress}
  BY DEF TypeOK, TapKeys
<1>6. "Control" \in TapKeys
  BY DEF TapKeys
<1>7. /\ k = "Control" =>
           u = IF queue' = queue /\ t = NoTime THEN NoTime ELSE 0
      /\ k # "Control" =>
           u = IF /\ k \in TypingKeys /\ "Control" \in held /\ t # NoTime
                  /\ queue' # queue /\ ~IsCommand(k, Modifiers(held'))
               THEN TypedPress ELSE t
  <2>1. press' = [s \in TapKeys |->
                    IF s = k
                    THEN IF queue' = queue /\ press[s] = NoTime THEN NoTime
                         ELSE 0
                    ELSE IF /\ k \in TypingKeys /\ s \in held
                            /\ press[s] # NoTime
                            /\ s = "Control" =>
                                 /\ queue' # queue
                                 /\ ~IsCommand(k, Modifiers(held'))
                    THEN TypedPress
                    ELSE press[s]]
    BY DEF Press
  <2>2. u = IF "Control" = k
            THEN IF queue' = queue /\ t = NoTime THEN NoTime ELSE 0
            ELSE IF /\ k \in TypingKeys /\ "Control" \in held /\ t # NoTime
                    /\ queue' # queue /\ ~IsCommand(k, Modifiers(held'))
            THEN TypedPress ELSE t
    BY <1>6, <2>1, Zenon
  <2> QED BY <2>2
<1>8. PICK F, G : /\ Belief(Commands, queue, d, F, G)
                  /\ Known(n, t, "Control" \in held, F, G)
  BY DEF CtrlInv, BeliefInv
<1>9. /\ LongInv(queue, d) /\ YoungInv(queue, d, t) /\ KindInv(queue)
      /\ LastInv
  BY DEF CtrlInv
<1>10. 0 # NoTime /\ 0 # TypedPress /\ NoTime # TypedPress
  BY TimesTyped DEF NoTime, TypedPress
<1>11. ASSUME NEW q \in Seq(Event) PROVE YoungInv(q, d, 0)
  <2>1. \A i \in 1..Len(q) : q[i] \in Event
    OBVIOUS
  <2>2. \A y \in Event : y.age >= 0
    BY DetectorAssumption DEF Event
  <2>3. d.ctrl # NoTime => d.ctrl >= 0
    BY <1>5, TimesTyped DEF Detector, Ages, NoTime
  <2> QED BY <2>1, <2>2, <2>3 DEF YoungInv
<1>12. Commands' = Commands
  BY <1>2, CommandsStay
<1>13. ASSUME NEW F2, NEW G2, Belief(Commands, queue', d, F2, G2),
              Known(Len(queue'), u, "Control" \in held', F2, G2),
              LongInv(queue', d), YoungInv(queue', d, u), KindInv(queue')
       PROVE  CtrlInv'
  <2>1. BeliefInv'
    BY <1>2, <1>12, <1>13 DEF BeliefInv
  <2>2. LastInv'
    BY <1>2, <1>9 DEF LastInv
  <2> QED BY <1>2, <1>13, <2>1, <2>2 DEF CtrlInv
<1> HIDE DEF t, u, ev
<1>14. CASE queue' = queue
  <2>1. (u = NoTime <=> t = NoTime) /\ (u # t => u = 0)
    BY <1>7, <1>10, <1>14
  <2>2. u = TypedPress /\ "Control" \in held' => "Control" \in held
    BY <1>1, <1>7, <1>10, <1>14
  <2>3. Known(n, u, "Control" \in held', F, G)
    BY <1>8, <1>10, <2>1, <2>2 DEF Known
  <2>4. YoungInv(queue, d, u)
    BY <1>5, <1>9, <1>11, <2>1
  <2> QED BY <1>8, <1>9, <1>13, <1>14, <2>3, <2>4
<1>15. CASE queue' = Append(queue, ev)
  <2>1. queue' # queue
    BY <1>3, <1>15
  <2>2. IsCtrl(ev) <=> k = "Control"
    BY <1>3 DEF IsCtrl
  <2>3. CtrlDown(ev) <=> k = "Control"
    BY <1>1, <1>4, <2>2 DEF CtrlDown
  <2>4. ~CtrlUp(ev)
    BY <2>2, <2>3 DEF CtrlUp, CtrlDown
  <2>5. t = NoTime <=> n \notin F
    BY <1>8 DEF Known
  <2>6. Extended(Commands, queue, d, F, G, t, ev, queue')
    BY <1>3, <1>5, <1>8, <1>9, <1>15, <2>2, <2>4, <2>5, SentCtrl
  <2>7. /\ \E F2, G2 :
             /\ Belief(Commands, queue', d, F2, G2)
             /\ Len(queue') \in F2 <=>
                  CtrlDown(ev) \/ (~IsCtrl(ev) /\ n \in F)
             /\ Len(queue') \in G2 <=>
                  \/ Typing(Commands, ev) /\ n \in F
                  \/ n \in G /\ "ctrl" \in ev.mods /\ ~IsCtrl(ev)
        /\ LongInv(queue', d)
        /\ KindInv(queue')
        /\ CtrlDown(ev) \/ YoungInv(queue', d, t)
    BY <2>6 DEF Extended
  <2>8. PICK F2, G2 :
             /\ Belief(Commands, queue', d, F2, G2)
             /\ Len(queue') \in F2 <=>
                  CtrlDown(ev) \/ (~IsCtrl(ev) /\ n \in F)
             /\ Len(queue') \in G2 <=>
                  \/ Typing(Commands, ev) /\ n \in F
                  \/ n \in G /\ "ctrl" \in ev.mods /\ ~IsCtrl(ev)
    BY <2>7
  <2>9. CASE k = "Control"
    <3>1. u = 0
      BY <1>7, <2>1, <2>9
    <3>2. Known(Len(queue'), u, "Control" \in held', F2, G2)
      BY <1>10, <2>3, <2>8, <2>9, <3>1 DEF Known
    <3>3. queue' \in Seq(Event)
      BY <1>3, <1>5, <1>15
    <3>4. YoungInv(queue', d, u)
      BY <1>11, <3>1, <3>3
    <3> QED BY <1>13, <2>7, <2>8, <3>2, <3>4
  <2>10. CASE k # "Control"
    <3>1. "Control" \in held' <=> "Control" \in held
      BY <1>1, <2>10
    <3>2. CASE /\ k \in TypingKeys /\ "Control" \in held /\ t # NoTime
               /\ ~IsCommand(k, Modifiers(held'))
      <4>1. u = TypedPress
        BY <1>7, <2>1, <2>10, <3>2
      <4>2. <<ev.key, ev.mods>> \notin Commands
        BY <1>3, <3>2 DEF Commands
      <4>3. Typing(Commands, ev)
        BY <1>3, <1>4, <3>1, <3>2, <4>2 DEF Typing
      <4>4. n \in F
        BY <2>5, <3>2
      <4>5. Known(Len(queue'), u, "Control" \in held', F2, G2)
        BY <1>10, <2>2, <2>8, <2>10, <4>1, <4>3, <4>4 DEF Known
      <4>6. YoungInv(queue', d, u)
        BY <4>1 DEF YoungInv
      <4> QED BY <1>13, <2>7, <2>8, <4>5, <4>6
    <3>3. CASE ~(/\ k \in TypingKeys /\ "Control" \in held /\ t # NoTime
                 /\ ~IsCommand(k, Modifiers(held')))
      <4>1. u = t
        BY <1>7, <2>10, <3>3
      <4>2. Known(Len(queue'), u, "Control" \in held', F2, G2)
        BY <1>4, <1>8, <2>2, <2>3, <2>8, <2>10, <3>1, <4>1 DEF Known
      <4>3. YoungInv(queue', d, u)
        BY <2>3, <2>7, <2>10, <4>1
      <4> QED BY <1>13, <2>7, <2>8, <4>2, <4>3
    <3> QED BY <3>2, <3>3
  <2> QED BY <2>9, <2>10
<1> QED BY <1>3, <1>14, <1>15

LEMMA LiftCtrl ==
    ASSUME TypeOK, CtrlToggling, CtrlInv, NEW k \in Keys, Lift(k)
    PROVE  CtrlInv'
<1> DEFINE t == press["Control"]
           u == press'["Control"]
           tap == IF k \notin TapKeys \/ press[k] = NoTime THEN "none"
                  ELSE IF press[k] <= TapMax THEN "clean"
                  ELSE IF press[k] = TypedPress THEN "typed"
                  ELSE "long"
           ev == Sent(k, held', FALSE, tap)
           n == Len(queue)
<1>1. /\ held' = held \ {k} /\ held' \in SUBSET Keys /\ k \in held
      /\ Send(k, held', FALSE, tap)
    BY DEF Lift, TypeOK
<1>2. /\ d' = d /\ taps' = taps /\ config' = config
  BY DEF Lift
<1>3. tap \in {"none", "clean", "long", "typed"}
  OBVIOUS
<1>4. /\ queue \in Seq(Event) /\ d \in Detector
      /\ t \in Ages \cup {TypedPress}
  BY DEF TypeOK, TapKeys
<1>5. "Control" \in TapKeys
  BY DEF TapKeys
<1>6. TypedPress \in Int /\ TypedPress > TapMax /\ TapMax \in Nat
       /\ NoTime # TypedPress
  BY DetectorAssumption, TimesTyped DEF TypedPress, Cap, Larger, NoTime
<1>7. k = "Control" =>
         /\ tap = "none" <=> t = NoTime
         /\ tap = "typed" => t = TypedPress
         /\ tap = "long" =>
              t \in Ages /\ t # NoTime /\ t # TypedPress /\ t > TapMax
  <2> SUFFICES ASSUME k = "Control"
               PROVE  /\ tap = "none" <=> t = NoTime
                      /\ tap = "typed" => t = TypedPress
                      /\ tap = "long" => /\ t \in Ages /\ t # NoTime
                                         /\ t # TypedPress /\ t > TapMax
    OBVIOUS
  <2>1. tap = IF t = NoTime THEN "none"
              ELSE IF t <= TapMax THEN "clean"
              ELSE IF t = TypedPress THEN "typed" ELSE "long"
    BY <1>5
  <2>2. t \in Int
    BY <1>4, <1>6 DEF Ages
  <2> HIDE DEF t, tap
  <2> QED BY <1>4, <1>6, <2>1, <2>2
<1>8. /\ k = "Control" => u = IF queue' = queue THEN t ELSE NoTime
      /\ k # "Control" => u = t
  <2>1. press' = IF queue' = queue \/ k \notin TapKeys THEN press
                 ELSE [press EXCEPT ![k] = NoTime]
    BY DEF Lift
  <2> QED BY <1>5, <2>1 DEF TypeOK
<1> HIDE DEF tap
<1>9. /\ ev \in Event
      /\ ev.key = k /\ ev.age = 0 /\ ev.tap = tap
      /\ ev.mods = Modifiers(held')
      /\ k = "Control" => ev.kind = "flags"
      /\ queue' = queue \/ queue' = Append(queue, ev)
      /\ Append(queue, ev) # queue
  <2>1. SentAs(ev, k, held', FALSE, tap)
    BY <1>3, <1>1, SendSends
  <2> HIDE DEF ev
  <2> QED BY <2>1 DEF SentAs
<1>10. "ctrl" \in ev.mods <=> "Control" \in held'
  BY <1>1, <1>9, CtrlMods
<1>11. PICK F, G : /\ Belief(Commands, queue, d, F, G)
                  /\ Known(n, t, "Control" \in held, F, G)
  BY DEF CtrlInv, BeliefInv
<1>12. /\ LongInv(queue, d) /\ YoungInv(queue, d, t) /\ KindInv(queue)
      /\ LastInv
  BY DEF CtrlInv
<1>13. Commands' = Commands
  BY <1>2, CommandsStay
<1>14. ASSUME NEW F2, NEW G2, Belief(Commands, queue', d, F2, G2),
              Known(Len(queue'), u, "Control" \in held', F2, G2),
              LongInv(queue', d), YoungInv(queue', d, u), KindInv(queue')
       PROVE  CtrlInv'
  <2>1. BeliefInv'
    BY <1>2, <1>13, <1>14 DEF BeliefInv
  <2>2. LastInv'
    BY <1>2, <1>12 DEF LastInv
  <2> QED BY <1>2, <1>14, <2>1, <2>2 DEF CtrlInv
<1> HIDE DEF t, u, ev
<1>15. CASE queue' = queue
  <2>1. u = t
    BY <1>8, <1>15
  <2>2. "Control" \in held' => "Control" \in held
    BY <1>1
  <2>3. Known(n, u, "Control" \in held', F, G)
    BY <1>11, <2>1, <2>2 DEF Known
  <2> QED BY <1>11, <1>12, <1>14, <1>15, <2>1, <2>3
<1>16. CASE queue' = Append(queue, ev)
  <2>1. queue' # queue
    BY <1>9, <1>16
  <2>2. IsCtrl(ev) <=> k = "Control"
    BY <1>9 DEF IsCtrl
  <2>3. ~CtrlDown(ev)
    BY <1>1, <1>10, <2>2 DEF CtrlDown
  <2>4. CtrlUp(ev) <=> k = "Control"
    BY <2>2, <2>3 DEF CtrlUp, CtrlDown
  <2>5. t = NoTime <=> n \notin F
    BY <1>11 DEF Known
  <2>6. k = "Control" /\ t = TypedPress => n \in G
    BY <1>1, <1>11 DEF Known
  <2>7. CtrlUp(ev) =>
          /\ ev.tap = "none" <=> t = NoTime
          /\ ev.tap = "typed" => n \in G
          /\ ev.tap = "long" =>
               t \in Ages /\ t # NoTime /\ t # TypedPress /\ t > TapMax
    BY <1>9, <1>7, <2>4, <2>6
  <2>8. Extended(Commands, queue, d, F, G, t, ev, queue')
    BY <1>9, <1>4, <1>11, <1>12, <1>16, <2>2, <2>3, <2>5, <2>7, SentCtrl
  <2>9. /\ \E F2, G2 :
             /\ Belief(Commands, queue', d, F2, G2)
             /\ Len(queue') \in F2 <=>
                  CtrlDown(ev) \/ (~IsCtrl(ev) /\ n \in F)
             /\ Len(queue') \in G2 <=>
                  \/ Typing(Commands, ev) /\ n \in F
                  \/ n \in G /\ "ctrl" \in ev.mods /\ ~IsCtrl(ev)
        /\ LongInv(queue', d)
        /\ KindInv(queue')
        /\ CtrlDown(ev) \/ YoungInv(queue', d, t)
    BY <2>8 DEF Extended
  <2>10. PICK F2, G2 :
             /\ Belief(Commands, queue', d, F2, G2)
             /\ Len(queue') \in F2 <=>
                  CtrlDown(ev) \/ (~IsCtrl(ev) /\ n \in F)
             /\ Len(queue') \in G2 <=>
                  \/ Typing(Commands, ev) /\ n \in F
                  \/ n \in G /\ "ctrl" \in ev.mods /\ ~IsCtrl(ev)
    BY <2>9
  <2>11. Known(Len(queue'), u, "Control" \in held', F2, G2)
    <3>1. CASE k = "Control"
      <4>1. u = NoTime /\ "Control" \notin held'
        BY <1>1, <1>8, <2>1, <3>1
      <4> QED BY <2>2, <2>3, <2>10, <3>1, <4>1 DEF Known
    <3>2. CASE k # "Control"
      <4>1. u = t /\ ("Control" \in held' <=> "Control" \in held)
        BY <1>1, <1>8, <3>2
      <4> QED BY <1>10, <1>11, <2>2, <2>3, <2>10, <3>2, <4>1 DEF Known
    <3> QED BY <3>1, <3>2
  <2>12. YoungInv(queue', d, u)
    <3>1. u \in {t, NoTime}
      BY <1>8
    <3> QED BY <2>3, <2>9, <3>1 DEF YoungInv
  <2> QED BY <1>14, <2>9, <2>10, <2>11, <2>12
<1> QED BY <1>9, <1>15, <1>16

LEMMA TickCtrl ==
    ASSUME TypeOK, CtrlToggling, CtrlInv, Tick
    PROVE  CtrlInv'
<1> DEFINE t == press["Control"]
           n == Len(queue)
           older(i) == [queue[i] EXCEPT !.age = @ + 1]
<1>1. /\ queue \in Seq(Event) /\ d \in Detector
      /\ t \in Ages \cup {TypedPress}
  BY DEF TypeOK, TapKeys
<1>2. n \in Nat /\ \A i \in 1..n : queue[i] \in Event
  BY <1>1
<1>3. queue' = [i \in 1..n |-> older(i)]
  BY DEF Tick
<1>4. \A i \in 1..n : queue[i].age < MaxLag
  BY DEF Tick
<1>5. Len(queue') = n /\ \A i \in 1..n : queue'[i] = older(i)
  <2> HIDE DEF older
  <2> QED BY <1>2, <1>3
<1>6. ASSUME NEW i \in 1..n
      PROVE  /\ queue'[i].key = queue[i].key
             /\ queue'[i].mods = queue[i].mods
             /\ queue'[i].kind = queue[i].kind
             /\ queue'[i].tap = queue[i].tap
             /\ queue'[i].age = queue[i].age + 1
             /\ queue[i].age \in 0..MaxLag
  BY <1>2, <1>5 DEF Event
<1>7. /\ held' = held /\ taps' = taps /\ config' = config /\ d' = Aged(d)
      /\ press'["Control"] = Older(t)
  BY DEF Tick, TapKeys
<1>8. /\ d'.ctrl = Older(d.ctrl) /\ d'.lastCtrl = Older(d.lastCtrl)
      /\ d'.used = d.used /\ d.ctrl \in Ages /\ d.lastCtrl \in Ages
  BY <1>1, <1>7 DEF Aged, Detector
<1>9. /\ Older(d.ctrl) = NoTime <=> d.ctrl = NoTime
      /\ Older(d.lastCtrl) = NoTime <=> d.lastCtrl = NoTime
  BY <1>8, TimesTyped
<1>10. /\ Older(t) = NoTime <=> t = NoTime
       /\ Older(t) = TypedPress <=> t = TypedPress
  <2>1. TypedPress \notin Ages /\ NoTime # TypedPress
    BY TimesTyped DEF Ages, TypedPress, NoTime
  <2> QED BY <1>1, <2>1, TimesTyped
<1>11. \A i \in 1..n : /\ CtrlDown(queue'[i]) <=> CtrlDown(queue[i])
                       /\ CtrlUp(queue'[i]) <=> CtrlUp(queue[i])
                       /\ IsCtrl(queue'[i]) <=> IsCtrl(queue[i])
  BY <1>6 DEF CtrlDown, CtrlUp, IsCtrl
<1>12. Commands' = Commands
  BY <1>7, CommandsStay
<1> HIDE DEF t, n, older
<1>13. BeliefInv'
  <2>1. PICK F, G : /\ Belief(Commands, queue, d, F, G)
                    /\ Known(n, t, "Control" \in held, F, G)
    BY DEF CtrlInv, BeliefInv, n, t
  <2>2. ASSUME NEW i \in 1..n
        PROVE  Follows(Commands, queue'[i], i, F, G)
    <3>1. Follows(Commands, queue[i], i, F, G)
      BY <2>1 DEF Belief, n
    <3> QED BY <1>6, <1>11, <3>1 DEF Follows, Typing
  <2>3. Belief(Commands, queue', d', F, G)
    BY <1>5, <1>8, <1>9, <2>1, <2>2 DEF Belief, n
  <2>4. Known(n, Older(t), "Control" \in held, F, G)
    BY <1>10, <2>1 DEF Known
  <2> QED BY <1>5, <1>7, <1>12, <2>3, <2>4 DEF BeliefInv
<1>14. /\ MaxLag \in Nat /\ TapMax \in Nat /\ Cap \in Nat
       /\ Cap >= MaxLag + TapMax + 1
  BY DetectorAssumption, TimesTyped DEF Cap, Larger
<1>15. LongInv(queue', d')
  <2> SUFFICES ASSUME NEW i \in 1..n, CtrlUp(queue'[i]),
                      queue'[i].tap = "long"
               PROVE  /\ \A j \in 1..n : j < i /\ CtrlDown(queue'[j]) =>
                           queue'[j].age > queue'[i].age + TapMax
                      /\ d'.ctrl # NoTime => d'.ctrl > queue'[i].age + TapMax
    BY <1>5 DEF LongInv
  <2>1. /\ \A j \in 1..n : j < i /\ CtrlDown(queue[j]) =>
             queue[j].age > queue[i].age + TapMax
        /\ d.ctrl # NoTime => d.ctrl > queue[i].age + TapMax
    BY <1>6, <1>11 DEF CtrlInv, LongInv, n
  <2>2. ASSUME NEW j \in 1..n, j < i, CtrlDown(queue'[j])
        PROVE  queue'[j].age > queue'[i].age + TapMax
    <3>1. queue[j].age > queue[i].age + TapMax
      BY <1>11, <2>1, <2>2
    <3> QED BY <1>6, <1>14, <3>1
  <2>3. ASSUME d'.ctrl # NoTime PROVE d'.ctrl > queue'[i].age + TapMax
    <3>1. d.ctrl # NoTime /\ d.ctrl > queue[i].age + TapMax
      BY <1>8, <1>9, <2>1, <2>3
    <3>2. queue[i].age + 1 <= MaxLag /\ queue[i].age \in Nat
      BY <1>4, <1>6, <1>14
    <3>3. d'.ctrl = IF d.ctrl >= Cap THEN d.ctrl ELSE d.ctrl + 1
      BY <1>8, <3>1 DEF Older
    <3>4. d.ctrl \in Int
      BY <1>8, <1>14 DEF Ages
    <3> QED BY <1>6, <1>14, <3>1, <3>2, <3>3, <3>4
  <2> QED BY <2>2, <2>3
<1>16. YoungInv(queue', d', Older(t))
  <2> SUFFICES ASSUME Older(t) \notin {NoTime, TypedPress}
               PROVE  /\ \A j \in 1..n : CtrlDown(queue'[j]) =>
                           queue'[j].age >= Older(t)
                      /\ d'.ctrl # NoTime => d'.ctrl >= Older(t)
    BY <1>5 DEF YoungInv
  <2>1. t \notin {NoTime, TypedPress}
    BY <1>10
  <2>2. /\ \A j \in 1..n : CtrlDown(queue[j]) => queue[j].age >= t
        /\ d.ctrl # NoTime => d.ctrl >= t
    BY <2>1 DEF CtrlInv, YoungInv, n, t
  <2>3. t \in Int /\ t <= Cap /\ d.ctrl \in Int /\ d.ctrl <= Cap
    BY <1>1, <1>8, <1>14, <2>1 DEF Ages
  <2>4. Older(t) = IF t >= Cap THEN t ELSE t + 1
    BY <2>1 DEF Older
  <2>5. ASSUME NEW j \in 1..n, CtrlDown(queue'[j])
        PROVE  queue'[j].age >= Older(t)
    <3>1. queue[j].age >= t
      BY <1>11, <2>2, <2>5
    <3> QED BY <1>6, <1>14, <2>3, <2>4, <3>1
  <2>6. ASSUME d'.ctrl # NoTime PROVE d'.ctrl >= Older(t)
    <3>1. d.ctrl # NoTime /\ d.ctrl >= t
      BY <1>8, <1>9, <2>2, <2>6
    <3>2. d'.ctrl = IF d.ctrl >= Cap THEN d.ctrl ELSE d.ctrl + 1
      BY <1>8, <3>1 DEF Older
    <3> QED BY <1>14, <2>3, <2>4, <3>1, <3>2
  <2> QED BY <2>5, <2>6
<1>17. KindInv(queue') /\ LastInv'
  BY <1>5, <1>6, <1>7, <1>8, <1>9, <1>11 DEF CtrlInv, KindInv, LastInv, n
<1> QED BY <1>7, <1>13, <1>15, <1>16, <1>17 DEF CtrlInv

\* A tap the detector accepts was counted as clean, and one that it refuses
\* leaves it no first tap.
LEMMA HandleCtrl ==
    ASSUME TypeOK, OpenInv, CtrlToggling, CtrlInv, Handle
    PROVE  /\ CtrlInv'
           /\ emitted' \in Toggles =>
                Count(Head(queue))[Head(queue).key] = 2
<1> DEFINE t == press["Control"]
           n == Len(queue)
           ev == Head(queue)
           rest == Tail(queue)
           r == feed(d, ev)
<1>1. /\ queue \in Seq(Event) /\ d \in Detector
      /\ t \in Ages \cup {TypedPress}
      /\ taps \in [TapKeys -> 0..2]
  BY DEF TypeOK, TapKeys
<1>2. /\ queue # <<>> /\ queue' = rest /\ held' = held /\ press' = press
      /\ config' = config /\ d' = r.d /\ emitted' = r.out
  BY DEF Handle, Deliver, user
<1>3. taps' = IF r.out \in Toggles /\ ev.key \in TapKeys
              THEN [taps EXCEPT ![ev.key] = 0] ELSE Count(ev)
  BY DEF Handle
<1>4. /\ ev \in Event /\ ev = queue[1] /\ n \in Nat /\ 1 \in 1..n
      /\ rest \in Seq(Event) /\ Len(rest) = n - 1
      /\ \A i \in 1..n - 1 : rest[i] = queue[i + 1]
  BY <1>1, <1>2
<1>5. d.pending = NoTime
  BY DEF OpenInv, PendingInv, CtrlToggling
<1>6. /\ BeliefInv /\ LongInv(queue, d) /\ YoungInv(queue, d, t)
      /\ KindInv(queue) /\ LastInv
  BY DEF CtrlInv
<1> HIDE DEF t, n, ev, rest, r
<1>7. IsCtrl(ev) => ev.kind = "flags"
  BY <1>4, <1>6 DEF KindInv, n
<1>8. /\ ~IsCtrl(ev) => OtherEffect(d, ev, r)
      /\ CtrlDown(ev) => DownEffect(d, ev.age, r)
      /\ CtrlUp(ev) => UpEffect(d, ev.age, r)
  BY <1>1, <1>4, <1>5, <1>7, FeedTaps DEF r
<1>9. /\ IsCtrl(ev) <=> CtrlDown(ev) \/ CtrlUp(ev)
      /\ ~(CtrlDown(ev) /\ CtrlUp(ev))
  BY DEF CtrlDown, CtrlUp
<1>10. PICK F, G : /\ Belief(Commands, queue, d, F, G)
                   /\ Known(n, t, "Control" \in held, F, G)
  BY <1>6 DEF BeliefInv, n, t
<1>11. Follows(Commands, ev, 1, F, G)
  BY <1>4, <1>10 DEF Belief, n
<1>12. (0 \in F <=> d.ctrl # NoTime) /\ (0 \in G => d.used = TRUE) /\ 1 - 1 = 0
  BY <1>10 DEF Belief
<1>13. ev.age \in 0..MaxLag /\ ev.age # NoTime /\ ev.age \in Nat
  <2>1. ev.age \in 0..MaxLag
    BY <1>4 DEF Event
  <2> QED BY <2>1, EventTimes, DetectorAssumption
<1>14. r.d.ctrl # NoTime <=> 1 \in F
  BY <1>8, <1>9, <1>11, <1>12, <1>13
     DEF Follows, OtherEffect, DownEffect, UpEffect
<1>15. ASSUME 1 \in G PROVE r.d.used = TRUE
  <2>1. \/ Typing(Commands, ev) /\ 0 \in F
        \/ 0 \in G /\ "ctrl" \in ev.mods /\ ~IsCtrl(ev)
    BY <1>11, <1>12, <1>15 DEF Follows
  <2>2. CASE Typing(Commands, ev) /\ 0 \in F
    <3>1. ev.kind = "down"
      BY <2>2 DEF Typing
    <3>2. ~IsCtrl(ev)
      BY <1>7, <3>1
    <3>3. d.ctrl # NoTime
      BY <1>12, <2>2
    <3> QED BY <1>8, <2>2, <3>2, <3>3 DEF OtherEffect
  <2>3. CASE 0 \in G /\ "ctrl" \in ev.mods /\ ~IsCtrl(ev)
    <3>1. d.used = TRUE
      BY <1>12, <2>3
    <3> QED BY <1>8, <2>3, <3>1 DEF OtherEffect
  <2> QED BY <2>1, <2>2, <2>3
<1>16. BeliefInv'
  <2>1. PICK F2, G2 : /\ Belief(Commands, rest, r.d, F2, G2)
                      /\ Len(rest) \in F2 <=> n \in F
                      /\ Len(rest) \in G2 <=> n \in G
    BY <1>1, <1>2, <1>10, <1>14, <1>15, PopBelief DEF rest, n
  <2>2. Known(Len(rest), t, "Control" \in held, F2, G2)
    BY <1>10, <2>1 DEF Known
  <2>3. Commands' = Commands
    BY <1>2, CommandsStay
  <2>4. press'["Control"] = t
    BY <1>2 DEF t
  <2> QED BY <1>2, <2>1, <2>2, <2>3, <2>4 DEF BeliefInv
<1>17. r.d.ctrl \in {NoTime, d.ctrl} \/ (CtrlDown(ev) /\ r.d.ctrl = ev.age)
  BY <1>8, <1>9 DEF OtherEffect, DownEffect, UpEffect
<1>18. LongInv(rest, r.d)
  <2> SUFFICES ASSUME NEW i \in 1..n - 1, CtrlUp(rest[i]),
                      rest[i].tap = "long"
               PROVE  /\ \A j \in 1..n - 1 : j < i /\ CtrlDown(rest[j]) =>
                           rest[j].age > rest[i].age + TapMax
                      /\ r.d.ctrl # NoTime => r.d.ctrl > rest[i].age + TapMax
    BY <1>4 DEF LongInv
  <2>1. i + 1 \in 1..n /\ rest[i] = queue[i + 1]
    BY <1>4
  <2>2. /\ \A j \in 1..n : j < i + 1 /\ CtrlDown(queue[j]) =>
             queue[j].age > rest[i].age + TapMax
        /\ d.ctrl # NoTime => d.ctrl > rest[i].age + TapMax
    BY <1>6, <2>1 DEF LongInv, n
  <2>3. ASSUME NEW j \in 1..n - 1, j < i, CtrlDown(rest[j])
        PROVE  rest[j].age > rest[i].age + TapMax
    <3>1. j + 1 \in 1..n /\ j + 1 < i + 1 /\ rest[j] = queue[j + 1]
      BY <1>4, <2>3
    <3> QED BY <2>2, <2>3, <3>1
  <2>4. CtrlDown(ev) => ev.age > rest[i].age + TapMax
    <3>1. 1 < i + 1
      BY <1>4
    <3> QED BY <1>4, <2>2, <3>1
  <2> QED BY <1>17, <2>2, <2>3, <2>4
<1>19. YoungInv(rest, r.d, t)
  <2> SUFFICES ASSUME t \notin {NoTime, TypedPress}
               PROVE  /\ \A j \in 1..n - 1 : CtrlDown(rest[j]) =>
                           rest[j].age >= t
                      /\ r.d.ctrl # NoTime => r.d.ctrl >= t
    BY <1>4 DEF YoungInv
  <2>1. /\ \A j \in 1..n : CtrlDown(queue[j]) => queue[j].age >= t
        /\ d.ctrl # NoTime => d.ctrl >= t
    BY <1>6 DEF YoungInv, n
  <2>2. ASSUME NEW j \in 1..n - 1, CtrlDown(rest[j]) PROVE rest[j].age >= t
    <3>1. j + 1 \in 1..n /\ rest[j] = queue[j + 1]
      BY <1>4
    <3> QED BY <2>1, <2>2, <3>1
  <2>3. CtrlDown(ev) => ev.age >= t
    BY <1>4, <2>1
  <2> QED BY <1>17, <2>1, <2>2, <2>3
<1>20. KindInv(rest)
  <2> SUFFICES ASSUME NEW i \in 1..n - 1
               PROVE  /\ IsCtrl(rest[i]) => rest[i].kind = "flags"
                      /\ CtrlDown(rest[i]) => rest[i].tap = "none"
    BY <1>4 DEF KindInv
  <2>1. i + 1 \in 1..n /\ rest[i] = queue[i + 1]
    BY <1>4
  <2> QED BY <1>6, <2>1 DEF KindInv, n
<1>21. "Control" \in TapKeys /\ taps["Control"] \in 0..2
  BY <1>1 DEF TapKeys
<1>22. ASSUME LastInv' PROVE CtrlInv'
  <2>1. press'["Control"] = t
    BY <1>2 DEF t
  <2> QED BY <1>2, <1>16, <1>18, <1>19, <1>20, <1>22, <2>1 DEF CtrlInv
<1>23. CASE ~CtrlUp(ev)
  <2>1. r.out \notin Toggles /\ r.d.lastCtrl \in {d.lastCtrl, NoTime}
    BY <1>8, <1>9, <1>23 DEF OtherEffect, DownEffect
  <2>2. taps' = Count(ev)
    BY <1>3, <2>1
  <2>3. IsCtrl(ev) => ev.tap = "none"
    BY <1>4, <1>6, <1>9, <1>23 DEF KindInv, n
  <2>4. Count(ev)["Control"] = taps["Control"]
    <3>1. CASE IsCtrl(ev)
      BY <2>3, <3>1 DEF Count
    <3>2. CASE ~IsCtrl(ev)
      <4> DEFINE c == IF ev.tap # "clean" /\ ~Masked(ev) THEN 0
                      ELSE IF taps[ev.key] = 0 THEN 1 ELSE 2
      <4>1. Count(ev) = taps \/ Count(ev) = [taps EXCEPT ![ev.key] = c]
        BY DEF Count
      <4> HIDE DEF c
      <4> QED BY <1>1, <1>21, <3>2, <4>1 DEF IsCtrl
    <3> QED BY <3>1, <3>2
  <2>5. LastInv'
    BY <1>2, <1>6, <2>1, <2>2, <2>4 DEF LastInv
  <2> QED BY <1>2, <1>22, <2>1, <2>5
<1>24. CASE CtrlUp(ev)
  <2>1. ev.key = "Control" /\ ~Masked(ev)
    BY <1>24 DEF CtrlUp, IsCtrl, Masked
  <2>2. /\ ev.tap = "none" <=> d.ctrl = NoTime
        /\ ev.tap = "typed" => d.used = TRUE
    BY <1>11, <1>12, <1>24 DEF Follows
  <2>3. UpEffect(d, ev.age, r)
    BY <1>8, <1>24
  <2>4. CASE ev.tap = "none"
    <3>1. r.out \notin Toggles /\ r.d.lastCtrl = d.lastCtrl
      BY <2>2, <2>3, <2>4 DEF UpEffect
    <3>2. taps' = taps
      BY <1>3, <2>4, <3>1 DEF Count
    <3>3. LastInv'
      BY <1>2, <1>6, <3>1, <3>2 DEF LastInv
    <3> QED BY <1>2, <1>22, <3>1, <3>3
  <2>5. CASE ev.tap \in {"typed", "long"}
    <3>1. d.ctrl # NoTime
      BY <2>2, <2>5
    <3>2. ev.tap = "long" => Elapsed(d.ctrl, ev.age) > TapMax
      <4>1. ev.tap = "long" => d.ctrl > ev.age + TapMax
        BY <1>4, <1>6, <1>24, <3>1 DEF LongInv, n
      <4>2. d.ctrl \in Int /\ TapMax \in Nat
        BY <1>1, DetectorAssumption DEF Detector, Ages
      <4> QED BY <1>13, <4>1, <4>2 DEF Elapsed
    <3>3. r.d.lastCtrl = NoTime /\ r.out \notin Toggles
      BY <2>2, <2>3, <2>5, <3>1, <3>2 DEF UpEffect
    <3>4. LastInv'
      BY <1>2, <3>3 DEF LastInv
    <3> QED BY <1>2, <1>22, <3>3, <3>4
  <2>6. CASE ev.tap = "clean"
    <3>1. Count(ev)["Control"] = IF taps["Control"] = 0 THEN 1 ELSE 2
      BY <1>1, <1>21, <2>1, <2>6 DEF Count
    <3>2. CASE r.out \in Toggles
      <4>1. d.lastCtrl # NoTime /\ r.d.lastCtrl = NoTime
        BY <2>3, <3>2 DEF UpEffect
      <4>2. taps["Control"] # 0
        BY <1>6, <4>1 DEF LastInv
      <4>3. LastInv'
        BY <1>2, <4>1 DEF LastInv
      <4> QED BY <1>22, <2>1, <3>1, <4>2, <4>3 DEF ev
    <3>3. CASE r.out \notin Toggles
      <4>1. LastInv'
        BY <1>3, <3>1, <3>3 DEF LastInv
      <4> QED BY <1>2, <1>22, <3>3, <4>1
    <3> QED BY <3>2, <3>3
  <2>7. ev.tap \in {"none", "clean", "long", "typed"}
    BY <1>4 DEF Event
  <2> QED BY <2>4, <2>5, <2>6, <2>7
<1> QED BY <1>23, <1>24

LEMMA NextCtrl ==
    TypeOK /\ OpenInv /\ CtrlInv /\ [Next]_vars => CtrlInv'
<1> SUFFICES ASSUME TypeOK, OpenInv, CtrlInv, [Next]_vars PROVE CtrlInv'
  OBVIOUS
<1>1. config' = config
  BY DEF Next, Press, Lift, SecureEntry, Tick, Handle, Poll, vars
<1>2. CASE ~CtrlToggling
  BY <1>1, <1>2 DEF CtrlInv, CtrlToggling
<1>3. CASE CtrlToggling
  <2>1. ASSUME queue' = queue, press' = press, held' = held, taps' = taps,
               SameTaps(d, d')
        PROVE  CtrlInv'
    <3>1. Commands' = Commands
      BY <1>1, CommandsStay
    <3>2. BeliefInv'
      <4>1. PICK F, G :
              /\ Belief(Commands, queue, d, F, G)
              /\ Known(Len(queue), press["Control"], "Control" \in held, F, G)
        BY <1>3 DEF CtrlInv, BeliefInv
      <4>2. Belief(Commands, queue, d', F, G)
        BY <2>1, <4>1 DEF Belief, SameTaps
      <4> QED BY <2>1, <3>1, <4>1, <4>2 DEF BeliefInv
    <3>3. LongInv(queue, d') /\ YoungInv(queue, d', press["Control"])
      BY <1>3, <2>1 DEF CtrlInv, LongInv, YoungInv, SameTaps
    <3>4. KindInv(queue) /\ LastInv'
      BY <1>3, <2>1 DEF CtrlInv, LastInv, SameTaps
    <3> QED BY <2>1, <3>2, <3>3, <3>4 DEF CtrlInv
  <2>2. CASE \E k \in Keys : Press(k) \/ Lift(k)
    BY <1>3, <2>2, PressCtrl, LiftCtrl
  <2>3. CASE SecureEntry \/ UNCHANGED vars
    BY <2>1, <2>3 DEF SecureEntry, user, vars, SameTaps
  <2>4. CASE Tick
    BY <1>3, <2>4, TickCtrl
  <2>5. CASE Handle
    BY <1>3, <2>5, HandleCtrl
  <2>6. CASE Poll
    <3>1. /\ queue' = queue /\ press' = press /\ held' = held /\ taps' = taps
          /\ d' = poll(d).d
      BY <2>6 DEF Poll, Deliver, user
    <3>2. SameTaps(d, d')
      BY <3>1, PollTaps DEF TypeOK
    <3> QED BY <2>1, <3>1, <3>2
  <2> QED BY <2>2, <2>3, <2>4, <2>5, <2>6 DEF Next
<1> QED BY <1>2, <1>3

LEMMA InitCtrl == Init => CtrlInv
<1> SUFFICES ASSUME Init PROVE CtrlInv
  OBVIOUS
<1>1. queue = <<>> /\ Len(queue) = 0 /\ d.ctrl = NoTime /\ d.lastCtrl = NoTime
      /\ press["Control"] = NoTime
  BY DEF Init, Fresh, TapKeys
<1>2. NoTime # TypedPress
  BY TimesTyped DEF NoTime, TypedPress
<1>3. Belief(Commands, queue, d, {}, {})
  BY <1>1 DEF Belief
<1>4. Known(Len(queue), press["Control"], "Control" \in held, {}, {})
  BY <1>1, <1>2 DEF Known
<1>5. BeliefInv
  BY <1>3, <1>4 DEF BeliefInv
<1> QED BY <1>1, <1>5 DEF CtrlInv, LongInv, YoungInv, KindInv, LastInv

-----------------------------------------------------------------------------
(* Theorems.                                                               *)

\* The detector and its environment keep their types, under every setting:
\* no handler stores a time outside the clock or a key that does not exist.
THEOREM DetectorTyped == Spec => []TypeOK
<1>1. Init => TypeOK
  BY InitHolds
<1> QED BY <1>1, NextTyped, PTL DEF Spec

\* The controller's view of the hold and the detector's own never differ, nor
\* is a press both pending and held, under every setting but the two that
\* poll promotes independently.
THEOREM OpenIsActive == Spec => []OpenInv
<1> QED BY InitHolds, NextTyped, NextKeepsOpen, PTL DEF Spec

\* Hold Down and Hold Up alternate: whatever the settings (but those two
\* together), the order and lateness of events, the events lost and the
\* timer's moments, no Down is delivered into an open hold.
THEOREM DownsAlternate ==
    ASSUME NotBoth
    PROVE  Spec => DownOpensOnce
<1>1. TypeOK /\ OpenInv /\ [Next]_vars =>
        [emitted' = "HoldDown" => ~open]_vars
  <2> SUFFICES ASSUME TypeOK, OpenInv, Next, emitted' = "HoldDown"
               PROVE  ~open
    BY DEF vars
  <2>1. ~(config.gesture /\ config.tap)
    BY NotBoth DEF NotBoth, TypeOK
  <2>2. ASSUME NEW r, Kept(d, r), NEW keys, NEW rest, Deliver(r, keys, rest)
        PROVE  ~open
    BY <2>1, <2>2 DEF Deliver, Kept, KeepsHold, OpenInv
  <2>3. CASE Handle
    <3> DEFINE ev == Head(queue)
               r == feed(d, ev)
    <3>1. ev \in Event
      BY <2>3 DEF Handle, TypeOK
    <3>2. Kept(d, r)
      BY <3>1, FeedKept DEF TypeOK
    <3>3. Deliver(r, Shown(ev), Tail(queue))
      BY <2>3 DEF Handle
    <3> HIDE DEF r
    <3> QED BY <2>2, <3>2, <3>3
  <2>4. CASE Poll
    BY <2>2, <2>4, PollKept DEF Poll, TypeOK
  <2>5. CASE ~Handle /\ ~Poll
    BY <2>5 DEF Next, Press, Lift, SecureEntry, Tick
  <2> QED BY <2>3, <2>4, <2>5
<1> QED BY <1>1, DetectorTyped, OpenIsActive, PTL DEF Spec, DownOpensOnce

\* While the keys or the button of a hold stay down, no waiting event reports
\* one of them as released, and only a button that dictates is ever promoted: under every
\* setting, however many events wait, are late or are lost.
THEOREM HoldStaysAnchored == Spec => [](AnchorInv /\ PromotedInv)
<1>1. Init => AnchorInv /\ PromotedInv
  <2>1. Init => AnchorInv
    BY DEF Init, AnchorInv, Anchored, Buttons
  <2>2. Init => d.promoted = FALSE
    BY DEF Init, Fresh
  <2> QED BY <2>1, <2>2 DEF PromotedInv
<1> QED BY <1>1, InitHolds, NextTyped, NextAnchored, NextPromoted, PTL DEF Spec

\* No hold is cut under the user's fingers, under every setting: while its
\* keys stay down its Up comes from a key typed inside the delay, from Option
\* where Option vetoes the hold, from an Up that was owed or from the release
\* of a button promoted before; while its button stays down, from a key inside
\* the delay, an owed Up or a modifier event.  However many events wait, are
\* late or are lost, nothing else ends it.
THEOREM HoldNotCut == Spec => HoldIsNotCut
<1>1. TypeOK /\ AnchorInv /\ [Next]_vars =>
        [emitted' = "HoldUp" => anchor = {} \/ Excused]_vars
  BY UpIsExcused
<1> QED BY <1>1, DetectorTyped, HoldStaysAnchored, PTL
        DEF Spec, HoldIsNotCut, Excused

\* Ctrl toggles, and the Fn tap does not.
CtrlToggles == \A c \in Configs : c.dictation = "DoubleCtrl" /\ ~c.tap

\* A double tap of Ctrl is two clean taps: whatever the times of the events,
\* however many wait or are lost and whenever the timer fires, a toggle spends
\* two presses that were short when the user made them and in which nothing
\* reached the tap but commands, neither spent before.
THEOREM CtrlToggleIsDoubleTap ==
    ASSUME CtrlToggles
    PROVE  Spec => ToggleIsDoubleTap
<1>1. TypeOK /\ OpenInv /\ CtrlInv /\ [Next]_vars =>
        [emitted' \in Toggles /\ queue' # queue /\ Head(queue).key \in TapKeys =>
           Count(Head(queue))[Head(queue).key] = 2]_vars
  <2> SUFFICES ASSUME TypeOK, OpenInv, CtrlInv, Next, emitted' \in Toggles
               PROVE  Count(Head(queue))[Head(queue).key] = 2
    OBVIOUS
  <2>1. CtrlToggling
    BY CtrlToggles DEF CtrlToggles, CtrlToggling, TypeOK
  <2>2. CASE Handle
    BY <2>1, <2>2, HandleCtrl
  <2>3. CASE Poll
    <3>1. emitted' = poll(d).out /\ d \in Detector
      BY <2>3 DEF Poll, Deliver, TypeOK
    <3> QED BY <3>1, PollTaps
  <2>4. CASE ~Handle /\ ~Poll
    <3>1. emitted' = "None"
      BY <2>4 DEF Next, Press, Lift, SecureEntry, Tick
    <3> QED BY <3>1 DEF Toggles
  <2> QED BY <2>2, <2>3, <2>4
<1> QED BY <1>1, InitHolds, NextTyped, NextKeepsOpen, InitCtrl, NextCtrl, PTL
        DEF Spec, ToggleIsDoubleTap
=============================================================================
