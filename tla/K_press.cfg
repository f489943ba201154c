SPECIFICATION Spec
CONSTANTS
    LongPressTime = 3
    Readings = {0, 90, 94, 98, 102, 106, 110, 114, 206}
    KnobMax = 206
INVARIANTS
    OneAnswerPerPress
    SpeedNearKnob
