----------------------------- MODULE Controller -----------------------------
(***************************************************************************)
(* The hand controller of a train (examples/beeton-joiner-controller): a    *)
(* button, where a short press means coast and a long one stop, and a knob  *)
(* that sets the speed.  Each pass of loop() reads both, unless Beeton is   *)
(* not ready: then it reads nothing and the sketch keeps what it had.       *)
(*                                                                         *)
(* A pass takes one tick and meets any level of the button and any reading  *)
(* of the knob; the hand is taken to be slower than the loop.  The sketch   *)
(* does not look at what send() returns, so commands are counted as made.   *)
(***************************************************************************)
EXTENDS Integers, Sequences

CONSTANTS
    LongPressTime, \* LONG_PRESS_TIME, in passes
    Readings,      \* what analogRead returns
    KnobMax        \* the reading that map() takes for the end of the knob

ASSUME ControllerAssumption ==
    /\ LongPressTime \in Nat
    /\ KnobMax \in Nat \ {0} /\ Readings \subseteq 0 .. 255

VARIABLES
    oldButtonState,
    sincePressed,   \* millis() - pressedTime, capped
    sentStop,
    oldKnobPos,
    speed,          \* the last speed given to send, 0 before
    down,           \* the level of the button in the last pass
    held,           \* how many passes the last press has lasted, capped
    answers,        \* the commands sent since that press began
    missed,         \* a pass without the network fell into that press, or the
                    \* sketch did not see where it began
    reading         \* the last reading of the knob, or NoReading

buttonVars == <<oldButtonState, sincePressed, sentStop, answers>>
knobVars == <<oldKnobPos, speed, reading>>
vars == <<buttonVars, knobVars, down, held, missed>>

Cap == LongPressTime + 1
NoReading == -1
NoPress == -1

Init ==
    /\ oldButtonState = FALSE /\ sincePressed = Cap /\ sentStop = FALSE
    /\ oldKnobPos = 0 /\ speed = 0
    /\ down = FALSE /\ held = NoPress /\ answers = <<>> /\ missed = FALSE
    /\ reading = NoReading

Least(a, b) == IF a <= b THEN a ELSE b
Distance(a, b) == IF a >= b THEN a - b ELSE b - a

\* map(r, 0, KnobMax, -128, 127).
MapKnob(r) == (r * 255) \div KnobMax - 128

\* (int8_t) of a wider number.
ToInt8(v) == ((v + 128) % 256) - 128

-----------------------------------------------------------------------------
(* One pass.                                                                *)

\* The hand, before the sketch looks.
Press(level) ==
    /\ down' = level
    /\ held' = IF ~level THEN held ELSE IF down THEN Least(held + 1, Cap) ELSE 0

PressStarts(level) == ~oldButtonState /\ level
PressLasts(level) == oldButtonState /\ level /\ ~sentStop
PressEnds(level) == oldButtonState /\ ~level

\* The commands of a press are counted from where the hand pressed.
Answered(level) == IF level /\ ~down THEN <<>> ELSE answers

Command(level, command) == answers' = Append(Answered(level), command)

NoCommand(level) == answers' = Answered(level)

\* Mutant of ReadButton: the stop is not remembered when the button is let go.
ReadButton_CoastsAlways(level) ==
    /\ oldButtonState' = level
    /\ sincePressed' = IF PressStarts(level) THEN 0 ELSE Least(sincePressed + 1, Cap)
    /\ IF PressLasts(level) /\ sincePressed' > LongPressTime
       THEN Command(level, "stop") /\ sentStop' = TRUE
       ELSE /\ IF PressEnds(level)
               THEN Command(level, "coast")
               ELSE NoCommand(level)
            /\ sentStop' = (sentStop /\ ~PressStarts(level))

ReadButton(level) ==
    /\ oldButtonState' = level
    /\ sincePressed' = IF PressStarts(level) THEN 0 ELSE Least(sincePressed + 1, Cap)
    /\ IF PressLasts(level) /\ sincePressed' > LongPressTime
       THEN Command(level, "stop") /\ sentStop' = TRUE
       ELSE /\ IF PressEnds(level) /\ ~sentStop
               THEN Command(level, "coast")
               ELSE NoCommand(level)
            /\ sentStop' = (sentStop /\ ~PressStarts(level))

\* Mutant of ReadKnob: the old position follows every reading.
ReadKnob_Drifts(r) ==
    /\ reading' = r
    /\ oldKnobPos' = MapKnob(r)
    /\ speed' = IF Distance(MapKnob(r), oldKnobPos) > 10
                THEN ToInt8(MapKnob(r))
                ELSE speed

ReadKnob(r) ==
    /\ reading' = r
    /\ IF Distance(MapKnob(r), oldKnobPos) > 10
       THEN oldKnobPos' = MapKnob(r) /\ speed' = ToInt8(MapKnob(r))
       ELSE UNCHANGED <<oldKnobPos, speed>>

\* A press that begins here is seen whole so far if the sketch knows of the
\* end of the one before.
PassReady(level, r) ==
    /\ ReadButton(level)
    /\ ReadKnob(r)
    /\ missed' = (missed /\ ~(level /\ ~down /\ ~oldButtonState))

PassNotReady(level) ==
    /\ sincePressed' = Least(sincePressed + 1, Cap)
    /\ NoCommand(level)
    /\ missed' = TRUE
    /\ UNCHANGED <<oldButtonState, sentStop, knobVars>>

Next ==
    \E level \in BOOLEAN :
        /\ Press(level)
        /\ \/ \E r \in Readings : PassReady(level, r)
           \/ PassNotReady(level)

Spec == Init /\ [][Next]_vars

-----------------------------------------------------------------------------
(* Properties.                                                              *)

(* Every press that the sketch sees whole gets one answer: a stop as soon   *)
(* as it has lasted too long, or a coast when it is let go before.  However  *)
(* often the network goes away around it, no press gets two.                 *)
OneAnswerPerPress ==
    /\ Len(answers) <= 1
    /\ held # NoPress /\ ~missed =>
          answers = IF held > LongPressTime THEN <<"stop">>
                    ELSE IF down THEN <<>> ELSE <<"coast">>

(* The train never runs further from the knob than the ten steps of play    *)
(* the sketch allows, however slowly the knob is turned.                    *)
SpeedNearKnob ==
    reading # NoReading => Distance(speed, MapKnob(reading)) <= 10

=============================================================================
