-------------------------------- MODULE Audio --------------------------------
(***************************************************************************)
(* The WAV player (BeetonAudio.cpp): play and stop from the sketch, and    *)
(* update, which moves a chunk of frames from the file to the DMA queue of *)
(* the I2S driver on every pass of loop().                                 *)
(*                                                                         *)
(* Clips are counted in frames; samples and volume are left out, and so is *)
(* the header, which either passes every check of play or fails one.  File *)
(* and driver are external: a read may fail at any frame, a seek or write  *)
(* may fail, and the queue drains at a pace of its own.                    *)
(***************************************************************************)
EXTENDS Integers

CONSTANTS
    ClipLengths,  \* frames of the valid WAV files
    ChunkFrames,  \* FRAMES_PER_CHUNK
    DmaFrames,    \* what the DMA queue holds
    MaxPlays      \* bound on the calls of play

ASSUME FramesAssumption ==
    /\ ClipLengths \subseteq Nat \ {0}
    /\ ChunkFrames \in Nat \ {0}
    /\ DmaFrames \in Nat
    /\ MaxPlays \in Nat

VARIABLES
    opened,     \* _txChan is not null
    file,       \* _file is open
    playing,    \* _playing
    loop,       \* _loop
    frames,     \* _wav.dataSize, in frames
    remaining,  \* _dataBytesRemaining, in frames
    position,   \* the read position of _file after _wav.dataStart, in frames
    queued,     \* frames in the DMA queue
    written,    \* frames of this pass over the clip given to the queue
    readFailed, \* a read failed in this pass
    ending,     \* how the last playback ended
    plays       \* calls of play so far

playerVars == <<file, playing, loop, frames, remaining, position>>
recordVars == <<written, readFailed, ending>>
vars == <<opened, playerVars, queued, recordVars, plays>>

Ending == {"none", "stopped", "finished", "failed", "overrun"}

(* Every variable has its type: no count goes below zero.                   *)
TypeOK ==
    /\ opened \in BOOLEAN /\ file \in BOOLEAN
    /\ playing \in BOOLEAN /\ loop \in BOOLEAN /\ readFailed \in BOOLEAN
    /\ frames \in Nat /\ remaining \in Nat /\ position \in Nat
    /\ written \in Nat
    /\ queued \in 0 .. DmaFrames
    /\ ending \in Ending
    /\ plays \in 0 .. MaxPlays

Init ==
    /\ opened = FALSE /\ file = FALSE
    /\ playing = FALSE /\ loop = FALSE
    /\ frames = 0 /\ remaining = 0 /\ position = 0
    /\ queued = 0
    /\ written = 0 /\ readFailed = FALSE
    /\ ending = "none"
    /\ plays = 0

-----------------------------------------------------------------------------

CloseFile ==
    /\ file' = FALSE /\ playing' = FALSE /\ loop' = FALSE
    /\ remaining' = 0
    /\ UNCHANGED <<frames, position>>

\* A playback ends; what it was and how far it came stays on record.
End(how) ==
    /\ CloseFile
    /\ ending' = how
    /\ UNCHANGED <<written, readFailed>>

\* _initI2S succeeds; when it fails _txChan stays null, and so does all else.
Begin ==
    /\ ~opened
    /\ opened' = TRUE
    /\ queued' = 0
    /\ UNCHANGED <<playerVars, recordVars, plays>>

\* play closes what it played before it looks at the new path.  A header it
\* read before it gave up stays in _wav, where nothing reads it.
PlayRejected ==
    /\ plays < MaxPlays
    /\ End(IF playing THEN "stopped" ELSE ending)
    /\ plays' = plays + 1
    /\ UNCHANGED <<opened, queued>>

Play(length, again) ==
    /\ opened /\ plays < MaxPlays
    /\ file' = TRUE /\ playing' = TRUE /\ loop' = again
    /\ frames' = length /\ remaining' = length /\ position' = 0
    /\ written' = 0 /\ readFailed' = FALSE
    /\ ending' = "none"
    /\ plays' = plays + 1
    /\ UNCHANGED <<opened, queued>>

Stop ==
    /\ End(IF playing THEN "stopped" ELSE ending)
    /\ UNCHANGED <<opened, queued, plays>>

-----------------------------------------------------------------------------
(* update: refill the chunk, rewind a looping clip that has run out, write. *)

\* Mutant of ToRead: the last chunk is taken to be full.
ToRead_Full(left) == IF left = 0 THEN 0 ELSE ChunkFrames

ToRead(left) == IF left < ChunkFrames THEN left ELSE ChunkFrames

\* What a refill may produce with `left` frames to go.
Refills(left) ==
    {[got |-> ToRead(left), failed |-> FALSE]}
      \cup {[got |-> k, failed |-> TRUE] : k \in 0 .. ToRead(left) - 1}

\* Where a pass over the clip stands: position, frames left, frames written.
Standing == [at |-> position, left |-> remaining, out |-> written]

\* Mutant of Rewound: the file is not moved back.
Rewound_NoSeek == [at |-> position, left |-> frames, out |-> 0]

Rewound == [at |-> 0, left |-> frames, out |-> 0]

\* Mutant of Write: a write that took only part of the chunk is not noticed.
Write_ShortIgnored(pass, r) ==
    LET taken == IF r.got < DmaFrames - queued THEN r.got ELSE DmaFrames - queued
    IN  /\ queued' = queued + taken
        /\ position' = pass.at + r.got
        /\ remaining' = IF r.failed THEN 0 ELSE pass.left - r.got
        /\ written' = pass.out + taken
        /\ readFailed' = r.failed
        /\ UNCHANGED <<file, playing, loop, frames, ending>>

\* i2s_channel_write with no timeout takes the whole chunk, or what fits, or
\* fails; playback goes on only in the first case.
Write(pass, r) ==
    \/ /\ r.got <= DmaFrames - queued
       /\ queued' = queued + r.got
       /\ position' = pass.at + r.got
       /\ remaining' = IF r.failed THEN 0 ELSE pass.left - r.got
       /\ written' = pass.out + r.got
       /\ readFailed' = r.failed
       /\ UNCHANGED <<file, playing, loop, frames, ending>>
    \/ /\ r.got > DmaFrames - queued
       /\ queued' = DmaFrames
       /\ End("overrun")
    \/ /\ UNCHANGED queued
       /\ End("failed")

\* Mutant of GoesRound: a clip is played again whether or not it loops.
GoesRound_Always == TRUE

GoesRound == loop

Update ==
    /\ playing
    /\ \E r \in Refills(remaining) :
         \/ /\ r.got > 0
            /\ Write(Standing, r)
         \/ /\ r.got = 0 /\ ~GoesRound
            /\ End(IF readFailed \/ r.failed THEN "failed" ELSE "finished")
            /\ UNCHANGED queued
         \/ /\ r.got = 0 /\ GoesRound
            /\ End("failed")
            /\ UNCHANGED queued
         \/ /\ r.got = 0 /\ GoesRound
            /\ \E s \in Refills(frames) : s.got > 0 /\ Write(Rewound, s)
    /\ UNCHANGED <<opened, plays>>

Drain ==
    /\ queued > 0
    /\ queued' = queued - 1
    /\ UNCHANGED <<opened, playerVars, recordVars, plays>>

Next ==
    \/ Begin
    \/ PlayRejected
    \/ \E length \in ClipLengths, again \in BOOLEAN : Play(length, again)
    \/ Stop
    \/ Update
    \/ Drain

Spec == Init /\ [][Next]_vars

-----------------------------------------------------------------------------
(* Properties.                                                              *)

(* While a clip plays, the channel and the file are open, and file, byte    *)
(* count and queue agree about how far it is: no frame is skipped, doubled  *)
(* or lost on the way, across chunks, rewinds and a partial last chunk.     *)
InStep ==
    playing =>
        /\ opened /\ file
        /\ written = position
        /\ readFailed \/ position + remaining = frames
        /\ readFailed => remaining = 0

(* A clip that runs to its end with every read answered was given to the    *)
(* queue in full: no short write and no rewind made it end early.           *)
WholeClip == ending = "finished" => written = frames

(* A clip that does not loop comes to an end.                               *)
Ends == (playing /\ ~loop) ~> (~playing \/ loop)

\* What makes the two inductive: nothing is on record as ended while it plays.
PlayerInv ==
    /\ TypeOK
    /\ InStep
    /\ WholeClip
    /\ playing => ending = "none"

(* Playback is never cut short because the queue is full: "Big DMA          *)
(* buffering avoids starvation/beeping" (BeetonAudio.cpp:21), and the       *)
(* sketch in examples/beeton-audio plays a clip in a loop by calling update *)
(* as fast as it can.                                                       *)
NeverCut == ending # "overrun"

=============================================================================
