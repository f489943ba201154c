------------------------------ MODULE WavHeader ------------------------------
(***************************************************************************)
(* How BeetonAudio::play finds the clip in a WAV file: the RIFF header, the *)
(* walk over chunks of _parseWavHeader, and the checks of play that follow. *)
(* What it leaves to Audio is a file, the offset of its samples and their   *)
(* number of bytes.                                                         *)
(*                                                                         *)
(* The walk only goes forward, so what a file holds is chosen where it is   *)
(* read.  Sizes are 32 bits wide (Word), sums of them 64, as in the code.   *)
(***************************************************************************)
EXTENDS Integers

CONSTANTS
    Word,      \* 2^32
    FileSizes, \* sizes of files on the card
    Formats    \* what fmt chunks hold

ASSUME WordAssumption == Word \in Nat /\ Word > 16
ASSUME FileSizesAssumption == FileSizes \subseteq 0 .. Word - 1

\* `pcm16` stands for the fields that play compares with fixed values: format,
\* rate, sample width and the byte rate that follows from them.
Format == [pcm16 : BOOLEAN, channels : Nat, blockAlign : Nat]

ASSUME FormatsAssumption == Formats \subseteq Format

NoFormat == [pcm16 |-> FALSE, channels |-> 0, blockAlign |-> 0]

VARIABLES
    stage,     \* how far play() is
    size,      \* file.size()
    pos,       \* file.position()
    riffEnd,   \* where the RIFF chunk ends
    foundFmt, foundData,
    wav,       \* the format fields of _wav
    dataStart, dataSize

headerVars == <<stage, size, pos, riffEnd, foundFmt, foundData, wav, dataStart, dataSize>>

Stage == {"opened", "walking", "parsed", "playing", "closed"}
Uint32 == 0 .. Word - 1
RiffHeader == 12
ChunkHeader == 8
FmtFields == 16

(* Every variable has its type.                                             *)
HeaderTypeOK ==
    /\ stage \in Stage
    /\ size \in Uint32 /\ pos \in 0 .. size
    /\ riffEnd \in Nat
    /\ foundFmt \in BOOLEAN /\ foundData \in BOOLEAN
    /\ wav \in Format
    /\ dataStart \in Uint32 /\ dataSize \in Uint32

\* SD.open has succeeded and _parseWavHeader has reset the fields.
HeaderInit ==
    /\ stage = "opened"
    /\ size \in FileSizes
    /\ pos = 0 /\ riffEnd = 0
    /\ foundFmt = FALSE /\ foundData = FALSE
    /\ wav = NoFormat
    /\ dataStart = 0 /\ dataSize = 0

\* A read or seek that fails, at the end of the file or by a fault of the card,
\* closes the file; so does every check that is not passed.
Reject ==
    /\ stage \in {"opened", "walking", "parsed"}
    /\ stage' = "closed"
    /\ UNCHANGED <<size, pos, riffEnd, foundFmt, foundData, wav, dataStart, dataSize>>

ReadRiffHeader(riffSize) ==
    /\ stage = "opened"
    /\ RiffHeader <= size
    /\ riffSize + 8 >= RiffHeader /\ riffSize + 8 <= size
    /\ riffEnd' = riffSize + 8
    /\ pos' = RiffHeader
    /\ stage' = "walking"
    /\ UNCHANGED <<size, foundFmt, foundData, wav, dataStart, dataSize>>

-----------------------------------------------------------------------------
(* The walk.                                                                *)

AtChunk == stage = "walking" /\ pos + ChunkHeader <= riffEnd

\* Mutant of Padded: the padding byte is forgotten.
Padded_Never(n) == n

\* RIFF chunks of odd size are followed by a padding byte.
Padded(n) == n + (n % 2)

\* Mutant of Destination: the sum is computed in 32 bits.
Destination_Wraps(from, n) == (from + n) % Word

Destination(from, n) == from + n

\* The position after seekForward(n) from `from`, and what follows any chunk:
\* a position beyond the RIFF chunk is refused, and the walk is over once both
\* chunks are found.
GoOn(from, n) ==
    /\ Destination(from, n) <= size
    /\ Destination(from, n) <= riffEnd
    /\ pos' = Destination(from, n)
    /\ stage' = IF foundFmt' /\ foundData' THEN "parsed" ELSE "walking"

ReadFmt(chunkSize, format) ==
    /\ AtChunk
    /\ chunkSize >= FmtFields
    /\ pos + ChunkHeader + FmtFields <= size
    /\ wav' = format
    /\ foundFmt' = TRUE /\ UNCHANGED foundData
    /\ GoOn(pos + ChunkHeader + FmtFields, Padded(chunkSize) - FmtFields)
    /\ UNCHANGED <<size, riffEnd, dataStart, dataSize>>

\* Mutant of ReadData: the samples are taken to start at the chunk header.
ReadData_AtHeader(chunkSize) ==
    /\ AtChunk
    /\ dataStart' = pos
    /\ dataSize' = chunkSize
    /\ foundData' = TRUE /\ UNCHANGED foundFmt
    /\ GoOn(pos + ChunkHeader, Padded(chunkSize))
    /\ UNCHANGED <<size, riffEnd, wav>>

ReadData(chunkSize) ==
    /\ AtChunk
    /\ dataStart' = pos + ChunkHeader
    /\ dataSize' = chunkSize
    /\ foundData' = TRUE /\ UNCHANGED foundFmt
    /\ GoOn(pos + ChunkHeader, Padded(chunkSize))
    /\ UNCHANGED <<size, riffEnd, wav>>

SkipChunk(chunkSize) ==
    /\ AtChunk
    /\ UNCHANGED <<foundFmt, foundData>>
    /\ GoOn(pos + ChunkHeader, Padded(chunkSize))
    /\ UNCHANGED <<size, riffEnd, wav, dataStart, dataSize>>

-----------------------------------------------------------------------------
(* play().                                                                  *)

Playable ==
    /\ wav.pcm16
    /\ wav.channels \in {1, 2}
    /\ wav.blockAlign = 2 * wav.channels
    /\ dataSize # 0 /\ dataSize % wav.blockAlign = 0

NotTruncated == dataStart + dataSize <= size

StartPlaying ==
    /\ stage = "parsed"
    /\ Playable /\ NotTruncated
    /\ pos' = dataStart
    /\ stage' = "playing"
    /\ UNCHANGED <<size, riffEnd, foundFmt, foundData, wav, dataStart, dataSize>>

HeaderNext ==
    \/ Reject
    \/ \E n \in Uint32 :
         \/ ReadRiffHeader(n)
         \/ \E format \in Formats : ReadFmt(n, format)
         \/ ReadData(n)
         \/ SkipChunk(n)
    \/ StartPlaying

\* Where no other guard holds, Reject is the only way on.
HeaderSpec == HeaderInit /\ [][HeaderNext]_headerVars

-----------------------------------------------------------------------------
(* Properties.                                                              *)

(* The clip lies where the walk found it: behind the RIFF and fmt headers,  *)
(* inside the RIFF chunk and so inside the file, whatever sizes the headers *)
(* claim.  So rewinding to dataStart and reading dataSize bytes never       *)
(* leaves it, and the check for truncation in play never fires.             *)
ClipInside ==
    stage \in {"parsed", "playing"} =>
        /\ dataStart >= RiffHeader + ChunkHeader
        /\ dataStart + dataSize <= riffEnd /\ riffEnd <= size

(* Chunk headers are looked for only where a chunk may start: at even       *)
(* offsets, after chunks of odd size too.                                   *)
OnGrid == stage = "walking" => pos % 2 = 0

(* The file is at the first sample and holds whole frames of 16-bit samples *)
(* from there: what Audio takes for granted of a clip.                      *)
WholeFrames ==
    stage = "playing" =>
        /\ pos = dataStart /\ pos % 2 = 0
        /\ dataSize \in Nat \ {0}
        /\ dataSize % (2 * wav.channels) = 0
        /\ pos + dataSize <= size

(* play() returns: the walk cannot go round in a file, however its headers  *)
(* are made.                                                                *)
Returns == stage = "walking" ~> stage \in {"playing", "closed"}

=============================================================================
