-------------------------- MODULE Controller_proofs --------------------------
(***************************************************************************)
(* What is proved of the hand controller, for any long-press time and any   *)
(* knob: that a press gets one answer however the network comes and goes,   *)
(* and that the train's speed follows the knob over its whole range.        *)
(***************************************************************************)
EXTENDS Controller, TLAPS

-----------------------------------------------------------------------------
(* The button.                                                              *)

ButtonTypeOK ==
    /\ oldButtonState \in BOOLEAN /\ sentStop \in BOOLEAN
    /\ down \in BOOLEAN /\ missed \in BOOLEAN
    /\ sincePressed \in 0 .. Cap
    /\ held \in {NoPress} \cup 0 .. Cap
    /\ answers \in Seq({"stop", "coast"})

(* A press that has been answered is over for the sketch: it remembers the   *)
(* stop until it sees the hand let go, or it has seen that and the hand has  *)
(* not pressed again.  The sketch alone does not know this of a press that   *)
(* it has seen in part only; without it a second answer could not be         *)
(* excluded there.                                                          *)
AnsweredIsOver ==
    /\ Len(answers) <= 1
    /\ answers # <<>> => (oldButtonState /\ sentStop) \/ (~oldButtonState /\ ~down)

(* Of a press that it sees whole the sketch knows what the hand knows.      *)
SketchFollowsHand ==
    ~missed =>
        /\ oldButtonState = down
        /\ down => held # NoPress /\ sincePressed = held
        /\ held # NoPress =>
              /\ (sentStop <=> held > LongPressTime)
              /\ answers = IF held > LongPressTime THEN <<"stop">>
                           ELSE IF down THEN <<>> ELSE <<"coast">>

ButtonInv == ButtonTypeOK /\ AnsweredIsOver /\ SketchFollowsHand

\* What a pass that reads the button does to the commands.
LEMMA Commands ==
    ASSUME NEW level \in BOOLEAN, ReadButton(level)
    PROVE  \/ /\ PressLasts(level) /\ sincePressed' > LongPressTime
              /\ answers' = Append(Answered(level), "stop") /\ sentStop' = TRUE
           \/ /\ PressEnds(level) /\ ~sentStop
              /\ answers' = Append(Answered(level), "coast") /\ sentStop' = FALSE
           \/ /\ ~(PressLasts(level) /\ sincePressed' > LongPressTime)
              /\ ~(PressEnds(level) /\ ~sentStop)
              /\ answers' = Answered(level)
              /\ (sentStop' <=> sentStop /\ ~PressStarts(level)) /\ sentStop' \in BOOLEAN
BY DEF ReadButton, Command, NoCommand, PressLasts, PressEnds, PressStarts

(* The commands of a press after a pass.                                    *)
LEMMA AnsweredType ==
    ASSUME ButtonTypeOK, NEW level \in BOOLEAN
    PROVE  /\ Answered(level) \in Seq({"stop", "coast"})
           /\ Append(Answered(level), "stop") \in Seq({"stop", "coast"})
           /\ Append(Answered(level), "coast") \in Seq({"stop", "coast"})
           /\ Append(<<>>, "stop") = <<"stop">> /\ Append(<<>>, "coast") = <<"coast">>
<1>1. Answered(level) \in Seq({"stop", "coast"})
  BY DEF ButtonTypeOK, Answered
<1>2. QED
  BY <1>1

LEMMA ButtonTypeStep ==
    ASSUME ButtonTypeOK, NEW level \in BOOLEAN, Press(level),
           \/ \E r \in Readings : PassReady(level, r)
           \/ PassNotReady(level)
    PROVE  ButtonTypeOK'
<1>1. Cap \in Nat /\ Cap > 0
  BY ControllerAssumption DEF Cap
<1>2. down' \in BOOLEAN /\ held' \in {NoPress} \cup 0 .. Cap
  BY <1>1 DEF Press, Least, ButtonTypeOK, NoPress
<1>3. CASE \E r \in Readings : PassReady(level, r)
  <2>1. ReadButton(level) /\ missed' \in BOOLEAN
    BY <1>3 DEF PassReady, ButtonTypeOK
  <2>2. oldButtonState' \in BOOLEAN /\ sincePressed' \in 0 .. Cap
    BY <1>1, <2>1 DEF ReadButton, Least, ButtonTypeOK
  <2>3. answers' \in Seq({"stop", "coast"}) /\ sentStop' \in BOOLEAN
    BY <2>1, Commands, AnsweredType DEF ButtonTypeOK
  <2>4. QED
    BY <1>2, <2>1, <2>2, <2>3 DEF ButtonTypeOK
<1>4. CASE PassNotReady(level)
  <2>1. sincePressed' \in 0 .. Cap
    BY <1>1, <1>4 DEF PassNotReady, Least, ButtonTypeOK
  <2>2. answers' \in Seq({"stop", "coast"})
    BY <1>4, AnsweredType DEF PassNotReady, NoCommand
  <2>3. QED
    BY <1>2, <1>4, <2>1, <2>2 DEF PassNotReady, ButtonTypeOK
<1>5. QED
  BY <1>3, <1>4

LEMMA AnsweredIsOverStep ==
    ASSUME ButtonTypeOK, AnsweredIsOver, NEW level \in BOOLEAN, Press(level),
           \/ \E r \in Readings : PassReady(level, r)
           \/ PassNotReady(level)
    PROVE  AnsweredIsOver'
<1>1. /\ Answered(level) \in Seq({"stop", "coast"}) /\ Len(Answered(level)) <= 1
      /\ Answered(level) # <<>> => (oldButtonState /\ sentStop) \/ (~oldButtonState /\ ~level)
  BY AnsweredType DEF AnsweredIsOver, Answered, ButtonTypeOK
<1>2. down' = level
  BY DEF Press
<1>3. CASE \E r \in Readings : PassReady(level, r)
  <2>1. ReadButton(level) /\ oldButtonState' = level
    BY <1>3 DEF PassReady, ReadButton
  <2>2. CASE \/ PressLasts(level) /\ answers' = Append(Answered(level), "stop") /\ sentStop'
             \/ /\ PressEnds(level) /\ ~sentStop
                /\ answers' = Append(Answered(level), "coast")
    <3>1. Answered(level) = <<>>
      BY <1>1, <2>2 DEF PressLasts, PressEnds
    <3>2. Len(answers') = 1
      BY <2>2, <3>1
    <3>3. QED
      BY <1>2, <2>1, <2>2, <3>2 DEF AnsweredIsOver, PressLasts, PressEnds
  <2>3. CASE answers' = Answered(level) /\ (sentStop' <=> sentStop /\ ~PressStarts(level))
    BY <1>1, <1>2, <2>1, <2>3 DEF AnsweredIsOver, PressStarts
  <2>4. QED
    BY <2>1, <2>2, <2>3, Commands
<1>4. CASE PassNotReady(level)
  BY <1>1, <1>2, <1>4 DEF PassNotReady, NoCommand, AnsweredIsOver
<1>5. QED
  BY <1>3, <1>4

LEMMA SketchFollowsHandStep ==
    ASSUME ButtonTypeOK, SketchFollowsHand, NEW level \in BOOLEAN, Press(level),
           \/ \E r \in Readings : PassReady(level, r)
           \/ PassNotReady(level)
    PROVE  SketchFollowsHand'
<1>1. CASE PassNotReady(level)
  BY <1>1 DEF PassNotReady, SketchFollowsHand
<1>2. CASE \E r \in Readings : PassReady(level, r)
  <2>1. /\ ReadButton(level) /\ oldButtonState' = level /\ down' = level
        /\ missed' = (missed /\ ~(level /\ ~down /\ ~oldButtonState))
        /\ sincePressed' = IF PressStarts(level) THEN 0 ELSE Least(sincePressed + 1, Cap)
        /\ held' = IF ~level THEN held ELSE IF down THEN Least(held + 1, Cap) ELSE 0
    BY <1>2 DEF PassReady, ReadButton, Press
  <2>2. LongPressTime \in Nat /\ Cap = LongPressTime + 1 /\ NoPress = -1
    BY ControllerAssumption DEF Cap, NoPress
  <2>0. oldButtonState' = down' /\ (down' <=> level) /\ down' \in BOOLEAN
    BY <2>1
  <2>3. SUFFICES ASSUME ~missed' PROVE SketchFollowsHand'
    BY DEF SketchFollowsHand
  <2>4. CASE level /\ ~down
    \* A press begins, and the sketch knows that the one before is over.
    <3>1. ~oldButtonState
      BY <2>1, <2>3, <2>4 DEF SketchFollowsHand
    <3>2. answers' = <<>> /\ ~sentStop'
      BY <2>1, <2>4, <3>1, Commands DEF PressLasts, PressEnds, PressStarts, Answered
    <3>3. held' = 0 /\ sincePressed' = 0
      BY <2>1, <2>4, <3>1 DEF PressStarts
    <3>4. QED
      BY <2>0, <2>2, <2>4, <3>2, <3>3 DEF SketchFollowsHand
  <2>5. CASE ~(level /\ ~down)
    <3>1. ~missed /\ oldButtonState = down /\ Answered(level) = answers
      BY <2>1, <2>3, <2>5 DEF SketchFollowsHand, ButtonTypeOK, Answered
    <3>2. CASE level
      \* It lasts.
      <4>1. /\ down /\ held \in 0 .. Cap /\ sincePressed = held
            /\ (sentStop <=> held > LongPressTime)
            /\ answers = IF held > LongPressTime THEN <<"stop">> ELSE <<>>
        BY <2>5, <3>1, <3>2 DEF SketchFollowsHand, ButtonTypeOK
      <4>2. held' = Least(held + 1, Cap) /\ sincePressed' = held' /\ held' \in 0 .. Cap
        BY <2>1, <2>2, <3>1, <3>2, <4>1 DEF PressStarts, Least
      <4>3. held > LongPressTime => held' > LongPressTime
        BY <2>2, <4>1, <4>2 DEF Least
      <4>4. ~PressStarts(level) /\ ~PressEnds(level) /\ (PressLasts(level) <=> ~sentStop)
        BY <3>1, <3>2, <4>1 DEF PressStarts, PressEnds, PressLasts
      <4>5. /\ (sentStop' <=> held' > LongPressTime)
            /\ answers' = IF held' > LongPressTime THEN <<"stop">> ELSE <<>>
        <5>1. CASE held > LongPressTime
          BY <2>1, <3>1, <4>1, <4>3, <4>4, <5>1, Commands
        <5>2. CASE ~(held > LongPressTime) /\ held' > LongPressTime
          BY <2>1, <3>1, <4>1, <4>2, <4>4, <5>2, Commands, AnsweredType
        <5>3. CASE ~(held' > LongPressTime)
          BY <2>1, <3>1, <4>1, <4>2, <4>3, <4>4, <5>3, Commands
        <5>4. QED
          BY <5>1, <5>2, <5>3
      <4>6. QED
        BY <2>0, <2>2, <3>2, <4>2, <4>5 DEF SketchFollowsHand
    <3>3. CASE ~level /\ down
      \* The hand lets go.
      <4>1. /\ held \in 0 .. Cap /\ (sentStop <=> held > LongPressTime)
            /\ answers = IF held > LongPressTime THEN <<"stop">> ELSE <<>>
        BY <3>1, <3>3 DEF SketchFollowsHand, ButtonTypeOK
      <4>2. PressEnds(level) /\ ~PressLasts(level) /\ ~PressStarts(level) /\ held' = held
        BY <2>1, <3>1, <3>3 DEF PressEnds, PressLasts, PressStarts
      <4>3. /\ (sentStop' <=> held > LongPressTime)
            /\ answers' = IF held > LongPressTime THEN <<"stop">> ELSE <<"coast">>
        <5>1. CASE held > LongPressTime
          BY <2>1, <3>1, <4>1, <4>2, <5>1, Commands
        <5>2. CASE ~(held > LongPressTime)
          BY <2>1, <3>1, <4>1, <4>2, <5>2, Commands, AnsweredType
        <5>3. QED
          BY <5>1, <5>2
      <4>4. QED
        BY <2>0, <2>2, <3>3, <4>1, <4>2, <4>3 DEF SketchFollowsHand
    <3>4. CASE ~level /\ ~down
      <4>1. ~PressEnds(level) /\ ~PressLasts(level) /\ ~PressStarts(level) /\ held' = held
        BY <2>1, <3>1, <3>4 DEF PressEnds, PressLasts, PressStarts
      <4>2. answers' = answers /\ (sentStop' <=> sentStop)
        BY <2>1, <3>1, <4>1, Commands DEF ButtonTypeOK
      <4>3. QED
        BY <2>1, <3>1, <3>4, <4>1, <4>2 DEF SketchFollowsHand
    <3>5. QED
      BY <3>2, <3>3, <3>4 DEF ButtonTypeOK
  <2>6. QED
    BY <2>4, <2>5
<1>3. QED
  BY <1>1, <1>2

(* A press that the sketch sees whole gets the one answer its length asks   *)
(* for, and no press gets two, whenever Beeton stops being ready: between   *)
(* the press and the stop, or between the stop and the release (loop()).    *)
THEOREM PressesAnswered == Spec => []OneAnswerPerPress
<1>1. Init => ButtonInv
  <2> SUFFICES ASSUME Init PROVE ButtonInv
    OBVIOUS
  <2>1. Cap \in Nat /\ answers \in Seq({"stop", "coast"}) /\ Len(answers) = 0
    BY ControllerAssumption DEF Init, Cap
  <2>2. held = NoPress /\ sincePressed = Cap
    BY DEF Init
  <2>3. oldButtonState = FALSE /\ sentStop = FALSE /\ down = FALSE /\ missed = FALSE
    BY DEF Init
  <2>4. answers = <<>>
    BY DEF Init
  <2>5. ButtonTypeOK
    <3>1. /\ oldButtonState \in BOOLEAN /\ sentStop \in BOOLEAN
          /\ down \in BOOLEAN /\ missed \in BOOLEAN
      BY <2>3
    <3>2. sincePressed \in 0 .. Cap /\ held \in {NoPress} \cup 0 .. Cap
      BY <2>1, <2>2
    <3>3. QED
      BY <2>1, <3>1, <3>2 DEF ButtonTypeOK
  <2>6. AnsweredIsOver
    BY <2>1, <2>4 DEF AnsweredIsOver
  <2>7. SketchFollowsHand
    BY <2>2, <2>3 DEF SketchFollowsHand
  <2>8. QED
    BY <2>5, <2>6, <2>7 DEF ButtonInv
<1>2. ButtonInv /\ [Next]_vars => ButtonInv'
  <2> SUFFICES ASSUME ButtonInv, [Next]_vars PROVE ButtonInv'
    OBVIOUS
  <2>1. CASE Next
    BY <2>1, ButtonTypeStep, AnsweredIsOverStep, SketchFollowsHandStep DEF Next, ButtonInv
  <2>2. CASE UNCHANGED vars
    BY <2>2 DEF vars, buttonVars, knobVars, ButtonInv, ButtonTypeOK, AnsweredIsOver,
                SketchFollowsHand
  <2>3. QED
    BY <2>1, <2>2
<1>3. ButtonInv => OneAnswerPerPress
  BY DEF ButtonInv, AnsweredIsOver, SketchFollowsHand, OneAnswerPerPress
<1>4. QED
  BY <1>1, <1>2, <1>3, PTL DEF Spec

-----------------------------------------------------------------------------
(* The knob.                                                                *)

(* map() stays within eight bits as long as the reading stays on the knob.  *)
LEMMA KnobInRange ==
    ASSUME NEW r \in 0 .. KnobMax
    PROVE  MapKnob(r) \in -128 .. 127
<1> DEFINE q == (r * 255) \div KnobMax
<1>1. KnobMax \in Nat /\ KnobMax > 0 /\ r * 255 \in Nat /\ r * 255 <= 255 * KnobMax
  BY ControllerAssumption
<1>2. q \in Nat /\ KnobMax * q <= r * 255
  BY <1>1
<1> HIDE DEF q
<1>3. q <= 255
  <2> SUFFICES ASSUME q >= 256 PROVE FALSE
    BY <1>2
  <2>1. KnobMax * q >= KnobMax * 256
    BY <1>1, <1>2
  <2>2. QED
    BY <1>1, <1>2, <2>1
<1>4. QED
  BY <1>2, <1>3 DEF MapKnob, q

(* There the cast of the sketch changes nothing.                            *)
LEMMA CastKeeps ==
    ASSUME NEW v \in -128 .. 127
    PROVE  ToInt8(v) = v
BY DEF ToInt8

(* The speed is the position that was sent, and the last reading is within  *)
(* the play of it.                                                          *)
KnobInv ==
    /\ oldKnobPos \in -128 .. 127
    /\ speed = oldKnobPos
    /\ reading = NoReading \/ reading \in 0 .. KnobMax
    /\ reading # NoReading => Distance(oldKnobPos, MapKnob(reading)) <= 10

(* The train runs at the speed the knob asks for, up to the ten steps of    *)
(* play, as long as the knob gives no reading beyond the end that map() is  *)
(* told of: (int8_t) would make of that a speed in the other direction.     *)
THEOREM SpeedFollowsKnob ==
    ASSUME Readings \subseteq 0 .. KnobMax
    PROVE  Spec => []SpeedNearKnob
<1>1. Init => KnobInv
  BY DEF Init, KnobInv
<1>2. KnobInv /\ [Next]_vars => KnobInv'
  <2> SUFFICES ASSUME KnobInv, [Next]_vars PROVE KnobInv'
    OBVIOUS
  <2>1. ASSUME NEW r \in Readings, ReadKnob(r) PROVE KnobInv'
    <3>1. MapKnob(r) \in -128 .. 127 /\ r # NoReading /\ reading' = r
      BY <2>1, KnobInRange DEF NoReading, ReadKnob
    <3>2. CASE Distance(MapKnob(r), oldKnobPos) > 10
      BY <2>1, <3>1, <3>2, CastKeeps DEF ReadKnob, KnobInv, Distance
    <3>3. CASE ~(Distance(MapKnob(r), oldKnobPos) > 10)
      <4>1. Distance(oldKnobPos, MapKnob(r)) <= 10
        BY <3>1, <3>3 DEF KnobInv, Distance
      <4>2. QED
        BY <2>1, <3>1, <3>3, <4>1 DEF ReadKnob, KnobInv
    <3>4. QED
      BY <3>2, <3>3
  <2>2. CASE UNCHANGED knobVars
    BY <2>2 DEF knobVars, KnobInv
  <2>3. QED
    BY <2>1, <2>2 DEF Next, PassReady, PassNotReady, vars
<1>3. KnobInv => SpeedNearKnob
  BY DEF KnobInv, SpeedNearKnob
<1>4. QED
  BY <1>1, <1>2, <1>3, PTL DEF Spec

=============================================================================
