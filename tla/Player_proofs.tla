---------------------------- MODULE Player_proofs ----------------------------
(***************************************************************************)
(* Proofs about the whole player, for files, clips, chunks and queues of    *)
(* any size: where the walk of _parseWavHeader leaves a clip, and that       *)
(* update neither loses nor doubles a frame of it.                          *)
(***************************************************************************)
EXTENDS Player, TLAPS

(* What the walk keeps: the position is even and inside the RIFF chunk, and *)
(* samples that were found lie behind the headers and before the position.  *)
Walked ==
    /\ stage \in {"walking", "parsed"} =>
         /\ RiffHeader <= pos /\ pos <= riffEnd /\ riffEnd <= size
         /\ pos % 2 = 0
         /\ foundData => /\ RiffHeader + ChunkHeader <= dataStart
                         /\ dataStart % 2 = 0
                         /\ dataStart + dataSize <= pos
    /\ stage = "parsed" => foundData

HeaderInv == HeaderTypeOK /\ Walked /\ ClipInside /\ WholeFrames

(* With what play has checked of a file it plays.                           *)
FileInv ==
    /\ HeaderInv
    /\ stage = "opened" => ~foundData
    /\ stage = "playing" => Playable

(* Padding brings every even position to an even one, past the chunk.       *)
LEMMA PaddedEven ==
    ASSUME NEW from \in Nat, from % 2 = 0, NEW n \in Nat
    PROVE  /\ Padded(n) \in Nat /\ n <= Padded(n)
           /\ (from + Padded(n)) % 2 = 0
<1>1. n % 2 \in {0, 1}
  OBVIOUS
<1>2. (n + (n % 2)) % 2 = 0
  OBVIOUS
<1>3. QED
  BY <1>1, <1>2 DEF Padded

(* A step of the walk keeps the position even and inside the RIFF chunk.    *)
LEMMA GoOnForward ==
    ASSUME HeaderInv, stage = "walking", AtChunk,
           NEW n \in Nat, NEW from \in Nat, from >= pos, NEW m \in Int,
           from + m = pos + ChunkHeader + Padded(n), GoOn(from, m)
    PROVE  /\ pos' = pos + ChunkHeader + Padded(n)
           /\ n <= Padded(n) /\ Padded(n) \in Nat
           /\ pos' \in 0 .. size /\ pos' <= riffEnd /\ riffEnd <= size
           /\ RiffHeader <= pos' /\ pos' % 2 = 0
           /\ stage' \in {"walking", "parsed"}
           /\ stage' = "parsed" => foundData'
<1>1. pos \in Nat /\ size \in Nat /\ riffEnd \in Nat /\ pos % 2 = 0 /\ RiffHeader <= pos
      /\ riffEnd <= size
  BY WordAssumption DEF HeaderInv, HeaderTypeOK, Walked, Uint32
<1>2. (pos + ChunkHeader) % 2 = 0 /\ pos + ChunkHeader \in Nat
  BY <1>1 DEF ChunkHeader
<1>3. /\ Padded(n) \in Nat /\ n <= Padded(n)
      /\ (pos + ChunkHeader + Padded(n)) % 2 = 0
  BY <1>2, PaddedEven
<1>4. pos' = pos + ChunkHeader + Padded(n) /\ pos' <= size /\ pos' <= riffEnd
  BY DEF GoOn, Destination
<1>5. stage' \in {"walking", "parsed"} /\ (stage' = "parsed" => foundData')
  BY DEF GoOn
<1>6. pos' \in 0 .. size /\ RiffHeader <= pos'
  BY <1>1, <1>3, <1>4 DEF ChunkHeader, RiffHeader
<1>7. pos' % 2 = 0
  BY <1>3, <1>4
<1>8. QED
  BY <1>1, <1>3, <1>4, <1>5, <1>6, <1>7, Zenon

(* Each kind of chunk, and the header before them, keeps the walk inside.   *)
LEMMA RiffHeaderInv ==
    ASSUME HeaderInv, NEW n \in Uint32, ReadRiffHeader(n),
           stage = "opened" => ~foundData
    PROVE  HeaderInv'
BY WordAssumption
DEF HeaderInv, HeaderTypeOK, Walked, ClipInside, WholeFrames, ReadRiffHeader, Stage, Uint32,
    RiffHeader, ChunkHeader

LEMMA ReadFmtInv ==
    ASSUME HeaderInv, NEW n \in Uint32, NEW format \in Formats, ReadFmt(n, format)
    PROVE  HeaderInv'
<1> DEFINE from == pos + ChunkHeader + FmtFields
           m == Padded(n) - FmtFields
<1>1. /\ n \in Nat /\ pos \in Nat /\ stage = "walking" /\ AtChunk /\ GoOn(from, m)
      /\ wav' = format /\ foundFmt' = TRUE
      /\ UNCHANGED <<foundData, size, riffEnd, dataStart, dataSize>>
  BY WordAssumption DEF ReadFmt, AtChunk, HeaderInv, HeaderTypeOK, Uint32
<1>2. Padded(n) \in Nat
  BY <1>1 DEF Padded
<1>3. from \in Nat /\ from >= pos /\ m \in Int /\ from + m = pos + ChunkHeader + Padded(n)
  BY <1>1, <1>2 DEF ChunkHeader, FmtFields
<1> HIDE DEF from, m
<1>4. /\ pos' = pos + ChunkHeader + Padded(n)
      /\ pos' \in 0 .. size /\ pos' <= riffEnd /\ riffEnd <= size
      /\ RiffHeader <= pos' /\ pos' % 2 = 0
      /\ stage' \in {"walking", "parsed"}
      /\ stage' = "parsed" => foundData'
  BY <1>1, <1>3, GoOnForward
<1>5. format \in Format
  BY FormatsAssumption
<1>6. HeaderTypeOK'
  BY <1>1, <1>4, <1>5 DEF HeaderInv, HeaderTypeOK, Stage
<1>7. foundData => /\ RiffHeader + ChunkHeader <= dataStart
                   /\ dataStart % 2 = 0
                   /\ dataStart + dataSize <= pos'
  <2>1. pos <= pos'
    BY <1>1, <1>2, <1>4 DEF ChunkHeader
  <2>2. dataStart \in Nat /\ dataSize \in Nat /\ pos' \in Nat
    BY <1>4, WordAssumption DEF HeaderInv, HeaderTypeOK, Uint32
  <2>3. QED
    BY <1>1, <2>1, <2>2 DEF HeaderInv, Walked
<1>8. Walked'
  BY <1>1, <1>4, <1>7 DEF Walked
<1>9. ClipInside' /\ WholeFrames'
  BY <1>1, <1>4, <1>6, <1>7, <1>8, WordAssumption
  DEF ClipInside, WholeFrames, Walked, HeaderTypeOK, Uint32
<1>10. QED
  BY <1>6, <1>8, <1>9 DEF HeaderInv

LEMMA ReadDataInv ==
    ASSUME HeaderInv, NEW n \in Uint32, ReadData(n)
    PROVE  HeaderInv'
<1> DEFINE from == pos + ChunkHeader
<1>1. /\ n \in Nat /\ pos \in Nat /\ stage = "walking" /\ AtChunk
      /\ GoOn(from, Padded(n))
      /\ foundData' = TRUE /\ dataStart' = from /\ dataSize' = n
      /\ UNCHANGED <<foundFmt, size, riffEnd, wav>>
  BY WordAssumption DEF ReadData, AtChunk, HeaderInv, HeaderTypeOK, Uint32
<1>2. Padded(n) \in Nat
  BY <1>1 DEF Padded
<1>3. from \in Nat /\ from >= pos /\ Padded(n) \in Int
      /\ from + Padded(n) = pos + ChunkHeader + Padded(n)
  BY <1>1, <1>2 DEF ChunkHeader
<1>4. /\ pos' = pos + ChunkHeader + Padded(n) /\ n <= Padded(n)
      /\ pos' \in 0 .. size /\ pos' <= riffEnd /\ riffEnd <= size
      /\ RiffHeader <= pos' /\ pos' % 2 = 0
      /\ stage' \in {"walking", "parsed"}
      /\ stage' = "parsed" => foundData'
  <2> HIDE DEF from
  <2>1. QED
    BY <1>1, <1>3, GoOnForward
<1>5. pos % 2 = 0 /\ RiffHeader <= pos /\ size \in Uint32
  BY <1>1 DEF HeaderInv, Walked, HeaderTypeOK
<1>6. from \in Uint32 /\ from % 2 = 0 /\ RiffHeader + ChunkHeader <= from
      /\ from + n <= pos'
  BY <1>1, <1>2, <1>4, <1>5, WordAssumption DEF ChunkHeader, RiffHeader, Uint32
<1> HIDE DEF from
<1>7. HeaderTypeOK'
  BY <1>1, <1>4, <1>6 DEF HeaderInv, HeaderTypeOK, Stage
<1>8. Walked'
  BY <1>1, <1>4, <1>6 DEF Walked
<1>9. ClipInside' /\ WholeFrames'
  BY <1>1, <1>4, <1>6, <1>7, <1>8, WordAssumption
  DEF ClipInside, WholeFrames, Walked, HeaderTypeOK, Uint32
<1>10. QED
  BY <1>7, <1>8, <1>9 DEF HeaderInv

LEMMA SkipChunkInv ==
    ASSUME HeaderInv, NEW n \in Uint32, SkipChunk(n)
    PROVE  HeaderInv'
<1> DEFINE from == pos + ChunkHeader
<1>1. /\ n \in Nat /\ pos \in Nat /\ stage = "walking" /\ AtChunk
      /\ GoOn(from, Padded(n))
      /\ UNCHANGED <<foundFmt, foundData, size, riffEnd, wav, dataStart, dataSize>>
  BY WordAssumption DEF SkipChunk, AtChunk, HeaderInv, HeaderTypeOK, Uint32
<1>2. Padded(n) \in Nat
  BY <1>1 DEF Padded
<1>3. from \in Nat /\ from >= pos /\ Padded(n) \in Int
      /\ from + Padded(n) = pos + ChunkHeader + Padded(n)
  BY <1>1, <1>2 DEF ChunkHeader
<1> HIDE DEF from
<1>4. /\ pos' = pos + ChunkHeader + Padded(n)
      /\ pos' \in 0 .. size /\ pos' <= riffEnd /\ riffEnd <= size
      /\ RiffHeader <= pos' /\ pos' % 2 = 0
      /\ stage' \in {"walking", "parsed"}
      /\ stage' = "parsed" => foundData'
  BY <1>1, <1>3, GoOnForward
<1>5. HeaderTypeOK'
  BY <1>1, <1>4 DEF HeaderInv, HeaderTypeOK, Stage
<1>6. foundData => /\ RiffHeader + ChunkHeader <= dataStart
                   /\ dataStart % 2 = 0
                   /\ dataStart + dataSize <= pos'
  <2>1. pos <= pos'
    BY <1>1, <1>2, <1>4 DEF ChunkHeader
  <2>2. dataStart \in Nat /\ dataSize \in Nat /\ pos' \in Nat
    BY <1>4, WordAssumption DEF HeaderInv, HeaderTypeOK, Uint32
  <2>3. QED
    BY <1>1, <2>1, <2>2 DEF HeaderInv, Walked
<1>7. Walked'
  BY <1>1, <1>4, <1>6 DEF Walked
<1>8. ClipInside' /\ WholeFrames'
  BY <1>1, <1>4, <1>5, <1>6, <1>7, WordAssumption
  DEF ClipInside, WholeFrames, Walked, HeaderTypeOK, Uint32
<1>9. QED
  BY <1>5, <1>7, <1>8 DEF HeaderInv

LEMMA StartPlayingInv ==
    ASSUME HeaderInv, StartPlaying
    PROVE  HeaderInv'
<1>1. /\ size \in Nat /\ dataStart \in Nat /\ dataSize \in Nat /\ riffEnd \in Nat
      /\ dataStart % 2 = 0 /\ dataStart + dataSize <= riffEnd /\ riffEnd <= size
      /\ RiffHeader + ChunkHeader <= dataStart
  BY WordAssumption DEF HeaderInv, HeaderTypeOK, Walked, ClipInside, StartPlaying, Uint32
<1>2. dataSize # 0 /\ dataSize % (2 * wav.channels) = 0
  <2>1. wav.blockAlign = 2 * wav.channels /\ dataSize # 0 /\ dataSize % wav.blockAlign = 0
    BY DEF StartPlaying, Playable
  <2>2. QED
    BY <2>1, Zenon
<1>3. /\ pos' = dataStart /\ stage' = "playing"
      /\ UNCHANGED <<size, riffEnd, foundFmt, foundData, wav, dataStart, dataSize>>
  BY DEF StartPlaying
<1>4. HeaderTypeOK'
  BY <1>1, <1>3 DEF HeaderInv, HeaderTypeOK, Stage
<1>5. ClipInside' /\ Walked'
  BY <1>1, <1>3 DEF ClipInside, Walked
<1>6. WholeFrames'
  BY <1>1, <1>2, <1>3 DEF WholeFrames
<1>7. QED
  BY <1>4, <1>5, <1>6 DEF HeaderInv

(* The walk starts on a file of which nothing has been read.                *)
LEMMA FileInvInit ==
    ASSUME HeaderInit
    PROVE  FileInv
<1>1. stage = "opened" /\ pos = 0 /\ riffEnd = 0 /\ dataStart = 0 /\ dataSize = 0
      /\ foundFmt = FALSE /\ foundData = FALSE /\ wav = NoFormat
      /\ size \in Uint32
  BY FileSizesAssumption DEF HeaderInit, Uint32
<1>2. NoFormat \in Format
  BY DEF NoFormat, Format
<1>3. HeaderTypeOK
  <2>1. stage \in Stage /\ foundFmt \in BOOLEAN /\ foundData \in BOOLEAN
    BY <1>1, Zenon DEF Stage
  <2>2. pos \in 0 .. size /\ riffEnd \in Nat /\ dataStart \in Uint32 /\ dataSize \in Uint32
    BY <1>1, WordAssumption DEF Uint32
  <2>3. wav \in Format
    BY <1>1, <1>2
  <2>4. QED
    BY <1>1, <2>1, <2>2, <2>3 DEF HeaderTypeOK
<1>4. HeaderInv
  BY <1>1, <1>3 DEF HeaderInv, Walked, ClipInside, WholeFrames
<1>5. QED
  BY <1>1, <1>4 DEF FileInv

(* Every step of the walk, and of play after it, keeps what is known of the *)
(* file.                                                                    *)
LEMMA FileInvStep ==
    ASSUME FileInv, HeaderNext
    PROVE  FileInv'
<1>0. HeaderInv /\ (stage = "opened" => ~foundData)
  BY DEF FileInv
<1>1. CASE Reject
  BY <1>0, <1>1 DEF Reject, FileInv, HeaderInv, HeaderTypeOK, Walked, ClipInside, WholeFrames, Stage
<1>2. CASE \E n \in Uint32 : ReadRiffHeader(n)
  <2>1. HeaderInv'
    BY <1>0, <1>2, RiffHeaderInv
  <2>2. stage' = "walking"
    BY <1>2 DEF ReadRiffHeader
  <2>3. QED
    BY <2>1, <2>2 DEF FileInv
<1>3. CASE \E n \in Uint32, format \in Formats : ReadFmt(n, format)
  <2>1. HeaderInv'
    BY <1>0, <1>3, ReadFmtInv
  <2>2. stage' \notin {"opened", "playing"}
    BY <1>3 DEF ReadFmt, GoOn
  <2>3. QED
    BY <2>1, <2>2 DEF FileInv
<1>4. CASE \E n \in Uint32 : ReadData(n)
  <2>1. HeaderInv'
    BY <1>0, <1>4, ReadDataInv
  <2>2. stage' \notin {"opened", "playing"}
    BY <1>4 DEF ReadData, GoOn
  <2>3. QED
    BY <2>1, <2>2 DEF FileInv
<1>5. CASE \E n \in Uint32 : SkipChunk(n)
  <2>1. HeaderInv'
    BY <1>0, <1>5, SkipChunkInv
  <2>2. stage' \notin {"opened", "playing"}
    BY <1>5 DEF SkipChunk, GoOn
  <2>3. QED
    BY <2>1, <2>2 DEF FileInv
<1>6. CASE StartPlaying
  <2>1. HeaderInv'
    BY <1>0, <1>6, StartPlayingInv
  <2>2. stage' # "opened" /\ Playable'
    BY <1>6 DEF StartPlaying, Playable
  <2>3. QED
    BY <2>1, <2>2 DEF FileInv
<1>7. QED
  BY <1>1, <1>2, <1>3, <1>4, <1>5, <1>6 DEF HeaderNext

(* play only ever starts on whole frames that lie inside the RIFF chunk and *)
(* the file, whatever the sizes in the headers and the order of the chunks. *)
THEOREM ClipFound == HeaderSpec => [](ClipInside /\ OnGrid /\ WholeFrames)
<1>1. HeaderInit => FileInv
  BY FileInvInit
<1>2. FileInv /\ [HeaderNext]_headerVars => FileInv'
  <2>1. FileInv /\ UNCHANGED headerVars => FileInv'
    BY DEF headerVars, FileInv, HeaderInv, HeaderTypeOK, Walked, ClipInside, WholeFrames,
           Playable
  <2>2. QED
    BY <2>1, FileInvStep
<1>3. FileInv => ClipInside /\ OnGrid /\ WholeFrames
  BY DEF FileInv, HeaderInv, Walked, OnGrid
<1>4. QED
  BY <1>1, <1>2, <1>3, PTL DEF HeaderSpec

-----------------------------------------------------------------------------
(* The clip, from play on.                                                  *)

(* A refill never takes more than is left, and nothing only at the end or   *)
(* when its first read fails.                                               *)
LEMMA RefillsBounded ==
    ASSUME NEW left \in Nat, NEW r \in Refills(left)
    PROVE  /\ r.got \in Nat /\ r.got <= left
           /\ r.failed \in BOOLEAN
           /\ r.got = 0 /\ ~r.failed => left = 0
<1>1. ToRead(left) \in Nat /\ ToRead(left) <= left /\ (ToRead(left) = 0 => left = 0)
  BY FramesAssumption DEF ToRead
<1>2. CASE r = [got |-> ToRead(left), failed |-> FALSE]
  BY <1>1, <1>2
<1>3. CASE \E k \in 0 .. ToRead(left) - 1 : r = [got |-> k, failed |-> TRUE]
  BY <1>1, <1>3
<1>4. QED
  BY <1>2, <1>3 DEF Refills

(* Whatever ends a playback keeps the invariant, as long as only a whole    *)
(* clip is called finished.                                                 *)
LEMMA EndKeepsInv ==
    ASSUME PlayerInv, NEW how \in Ending, End(how),
           how = "finished" => written = frames,
           opened' = opened, queued' \in 0 .. DmaFrames, plays' \in 0 .. MaxPlays
    PROVE  PlayerInv'
<1>1. /\ opened' \in BOOLEAN /\ file' \in BOOLEAN
      /\ playing' \in BOOLEAN /\ loop' \in BOOLEAN /\ readFailed' \in BOOLEAN
  BY Zenon DEF PlayerInv, TypeOK, End, CloseFile
<1>2. /\ frames' \in Nat /\ remaining' \in Nat /\ position' \in Nat
      /\ written' \in Nat /\ ending' \in Ending
  BY DEF PlayerInv, TypeOK, End, CloseFile
<1>3. InStep' /\ (playing' => ending' = "none")
  BY Zenon DEF InStep, End, CloseFile
<1>4. WholeClip'
  BY DEF WholeClip, End, CloseFile
<1>5. QED
  BY <1>1, <1>2, <1>3, <1>4 DEF PlayerInv, TypeOK

(* A write from a pass in step leaves the player in step, or ends playback. *)
LEMMA WriteInStep ==
    ASSUME PlayerInv, playing, UNCHANGED <<opened, plays>>,
           NEW pass \in [at : Nat, left : Nat, out : Nat],
           pass.at + pass.left = frames, pass.out = pass.at,
           NEW r \in Refills(pass.left), Write(pass, r)
    PROVE  PlayerInv'
<1>1. /\ r.got \in Nat /\ r.got <= pass.left /\ r.failed \in BOOLEAN
      /\ pass.at \in Nat /\ pass.left \in Nat /\ pass.out \in Nat
  BY RefillsBounded
<1>2. CASE /\ r.got <= DmaFrames - queued
           /\ queued' = queued + r.got
           /\ position' = pass.at + r.got
           /\ remaining' = IF r.failed THEN 0 ELSE pass.left - r.got
           /\ written' = pass.out + r.got
           /\ readFailed' = r.failed
           /\ UNCHANGED <<file, playing, loop, frames, ending>>
  <2>1. TypeOK'
    BY <1>1, <1>2, FramesAssumption DEF PlayerInv, TypeOK
  <2>2. InStep'
    BY <1>1, <1>2 DEF PlayerInv, TypeOK, InStep
  <2>3. QED
    BY <1>2, <2>1, <2>2 DEF PlayerInv, WholeClip
<1>3. /\ "overrun" \in Ending /\ "failed" \in Ending /\ plays' \in 0 .. MaxPlays
      /\ queued \in 0 .. DmaFrames /\ DmaFrames \in 0 .. DmaFrames
  BY FramesAssumption DEF Ending, PlayerInv, TypeOK
<1>4. CASE End("overrun") /\ queued' = DmaFrames
  BY <1>3, <1>4, EndKeepsInv
<1>5. CASE End("failed") /\ UNCHANGED queued
  BY <1>3, <1>5, EndKeepsInv
<1>6. \/ /\ r.got <= DmaFrames - queued
         /\ queued' = queued + r.got
         /\ position' = pass.at + r.got
         /\ remaining' = IF r.failed THEN 0 ELSE pass.left - r.got
         /\ written' = pass.out + r.got
         /\ readFailed' = r.failed
         /\ UNCHANGED <<file, playing, loop, frames, ending>>
      \/ End("overrun") /\ queued' = DmaFrames
      \/ End("failed") /\ UNCHANGED queued
  BY Zenon DEF Write
<1>7. QED
  BY ONLY <1>2, <1>4, <1>5, <1>6, Zenon

(* A clip that starts is at its beginning, whatever was played before.      *)
LEMMA PlayKeeps ==
    ASSUME PlayerInv, NEW length \in Nat, NEW again \in BOOLEAN, Play(length, again)
    PROVE  PlayerInv'
<1>1. /\ length \in Nat /\ again \in BOOLEAN /\ "none" \in Ending
      /\ queued \in 0 .. DmaFrames /\ opened \in BOOLEAN
      /\ plays + 1 \in 0 .. MaxPlays
  BY FramesAssumption DEF Play, Ending, PlayerInv, TypeOK
<1>2. TypeOK'
  <2>1. 0 \in Nat
    OBVIOUS
  <2>2. QED
    BY <1>1, <2>1, Zenon DEF Play, TypeOK
<1>3. InStep'
  BY <1>1 DEF Play, InStep
<1>4. WholeClip' /\ (playing' => ending' = "none")
  BY DEF Play, WholeClip
<1>5. QED
  BY <1>2, <1>3, <1>4 DEF PlayerInv

(* Begin, stop, update and the queue keep the player in step, and so does a *)
(* play that is refused.                                                    *)
LEMMA PlayerStep == PlayerInv /\ [Next]_vars => PlayerInv'
<1> SUFFICES ASSUME PlayerInv, [Next]_vars PROVE PlayerInv'
  OBVIOUS
<1>1. CASE Begin
  BY <1>1, FramesAssumption
     DEF Begin, PlayerInv, TypeOK, InStep, WholeClip, playerVars, recordVars
<1>2. CASE PlayRejected
  <2>1. PICK how \in Ending : End(how) /\ (how = "finished" => written = frames)
    BY <1>2 DEF PlayRejected, PlayerInv, TypeOK, WholeClip, Ending
  <2>2. queued' \in 0 .. DmaFrames /\ plays' \in 0 .. MaxPlays /\ opened' = opened
    BY <1>2, FramesAssumption DEF PlayRejected, PlayerInv, TypeOK
  <2>3. QED
    BY <2>1, <2>2, EndKeepsInv
<1>3. ASSUME NEW length \in ClipLengths, NEW again \in BOOLEAN, Play(length, again)
      PROVE  PlayerInv'
  BY <1>3, PlayKeeps, FramesAssumption
<1>4. CASE Stop
  <2>1. PICK how \in Ending : End(how) /\ (how = "finished" => written = frames)
    BY <1>4 DEF Stop, PlayerInv, TypeOK, WholeClip, Ending
  <2>2. queued' \in 0 .. DmaFrames /\ plays' \in 0 .. MaxPlays /\ opened' = opened
    BY <1>4, FramesAssumption DEF Stop, PlayerInv, TypeOK
  <2>3. QED
    BY <2>1, <2>2, EndKeepsInv
<1>5. CASE Update
  <2>0. /\ queued \in 0 .. DmaFrames /\ plays' \in 0 .. MaxPlays /\ "failed" \in Ending
    BY <1>5 DEF Update, PlayerInv, TypeOK, Ending
  <2>1. playing /\ UNCHANGED <<opened, plays>> /\ remaining \in Nat /\ frames \in Nat
    BY <1>5 DEF Update, PlayerInv, TypeOK
  <2>2. PICK r \in Refills(remaining) :
          \/ r.got > 0 /\ Write(Standing, r)
          \/ /\ r.got = 0 /\ ~GoesRound
             /\ End(IF readFailed \/ r.failed THEN "failed" ELSE "finished")
             /\ UNCHANGED queued
          \/ r.got = 0 /\ GoesRound /\ End("failed") /\ UNCHANGED queued
          \/ /\ r.got = 0 /\ GoesRound
             /\ \E s \in Refills(frames) : s.got > 0 /\ Write(Rewound, s)
    BY <1>5 DEF Update
  <2>3. r.got \in Nat /\ r.got <= remaining /\ (r.got = 0 /\ ~r.failed => remaining = 0)
    BY <2>1, RefillsBounded
  <2>4. CASE r.got > 0 /\ Write(Standing, r)
    <3>1. remaining # 0
      BY <2>1, <2>3, <2>4
    <3>2. /\ Standing \in [at : Nat, left : Nat, out : Nat]
          /\ Standing.left = remaining
          /\ Standing.at + Standing.left = frames /\ Standing.out = Standing.at
      BY <2>1, <3>1 DEF Standing, PlayerInv, InStep, TypeOK
    <3>3. QED
      BY <2>1, <2>2, <2>4, <3>2, WriteInStep
  <2>5. CASE /\ r.got = 0 /\ ~GoesRound
             /\ End(IF readFailed \/ r.failed THEN "failed" ELSE "finished")
             /\ UNCHANGED queued
    <3>1. readFailed \/ r.failed \/ written = frames
      BY <2>1, <2>3, <2>5 DEF PlayerInv, InStep, TypeOK
    <3>2. PICK how \in Ending : End(how) /\ (how = "finished" => written = frames)
      BY <2>5, <3>1 DEF Ending
    <3>3. QED
      BY <2>0, <2>1, <2>5, <3>2, EndKeepsInv
  <2>6. CASE r.got = 0 /\ GoesRound /\ End("failed") /\ UNCHANGED queued
    BY <2>0, <2>1, <2>6, EndKeepsInv
  <2>7. ASSUME NEW s \in Refills(frames), Write(Rewound, s)
        PROVE  PlayerInv'
    <3>1. /\ Rewound \in [at : Nat, left : Nat, out : Nat]
          /\ Rewound.left = frames
          /\ Rewound.at + Rewound.left = frames /\ Rewound.out = Rewound.at
      BY <2>1 DEF Rewound
    <3>2. QED
      BY <2>1, <2>7, <3>1, WriteInStep
  <2>8. QED
    BY <2>2, <2>4, <2>5, <2>6, <2>7
<1>6. CASE Drain
  BY <1>6, FramesAssumption
     DEF Drain, PlayerInv, TypeOK, InStep, WholeClip, playerVars, recordVars
<1>7. CASE UNCHANGED vars
  BY <1>7 DEF vars, PlayerInv, TypeOK, InStep, WholeClip, playerVars, recordVars
<1>8. QED
  BY <1>1, <1>2, <1>3, <1>4, <1>5, <1>6, <1>7 DEF Next

(* Nothing plays at first.                                                  *)
LEMMA PlayerInvInit == Init => PlayerInv
<1>1. Init => TypeOK
  <2>1. 0 \in 0 .. DmaFrames /\ 0 \in 0 .. MaxPlays /\ "none" \in Ending /\ 0 \in Nat
    BY FramesAssumption DEF Ending
  <2>2. QED
    BY <2>1, Zenon DEF Init, TypeOK
<1>2. Init => InStep /\ WholeClip /\ (playing => ending = "none")
  BY DEF Init, InStep, WholeClip
<1>3. QED
  BY <1>1, <1>2 DEF PlayerInv

(* File, byte count and queue stay in step, and a clip that ends by itself  *)
(* was played whole.                                                        *)
THEOREM NoFrameLost == Spec => [](InStep /\ WholeClip)
<1>1. PlayerInv => InStep /\ WholeClip
  BY DEF PlayerInv
<1>2. QED
  BY <1>1, PlayerInvInit, PlayerStep, PTL DEF Spec

-----------------------------------------------------------------------------
(* The two together.                                                        *)

(* What play hands on of a file it plays is a clip of at least one frame,   *)
(* and the frames make up all the bytes that the header gives its samples.  *)
LEMMA ClipHandedOver ==
    ASSUME FileInv, stage = "playing"
    PROVE  /\ dataSize \div wav.blockAlign \in Nat \ {0}
           /\ (dataSize \div wav.blockAlign) * wav.blockAlign = dataSize
<1>1. /\ dataSize \in Nat /\ dataSize # 0
      /\ wav.blockAlign \in {2, 4} /\ dataSize % wav.blockAlign = 0
  BY WordAssumption DEF FileInv, Playable, HeaderInv, HeaderTypeOK, Uint32
<1>2. CASE wav.blockAlign = 2
  BY <1>1, <1>2
<1>3. CASE wav.blockAlign = 4
  BY <1>1, <1>3
<1>4. QED
  BY <1>1, <1>2, <1>3

WholePlayerInv == PlayerInv /\ FileInv

LEMMA WholePlayerInit == PlayerInit => WholePlayerInv
BY PlayerInvInit, FileInvInit DEF PlayerInit, WholePlayerInv

(* A header that nobody needs any more says nothing.                        *)
LEMMA ForgottenInv ==
    ASSUME FileInv, ForgetHeader
    PROVE  FileInv'
<1>1. /\ stage' = "closed" /\ size' = 0 /\ pos' = 0 /\ riffEnd' = 0
      /\ foundFmt' = FALSE /\ foundData' = FALSE /\ wav' = NoFormat
      /\ dataStart' = 0 /\ dataSize' = 0
  BY DEF ForgetHeader
<1>2. NoFormat \in Format
  BY DEF NoFormat, Format
<1>3. HeaderTypeOK'
  <2>1. stage' \in Stage /\ foundFmt' \in BOOLEAN /\ foundData' \in BOOLEAN
    BY <1>1, Zenon DEF Stage
  <2>2. /\ size' \in Uint32 /\ pos' \in 0 .. size' /\ riffEnd' \in Nat
        /\ dataStart' \in Uint32 /\ dataSize' \in Uint32
    BY <1>1, WordAssumption DEF Uint32
  <2>3. wav' \in Format
    BY <1>1, <1>2
  <2>4. QED
    BY <2>1, <2>2, <2>3 DEF HeaderTypeOK
<1>4. HeaderInv'
  BY <1>1, <1>3 DEF HeaderInv, Walked, ClipInside, WholeFrames
<1>5. QED
  BY <1>1, <1>4 DEF FileInv

LEMMA WholePlayerStep == WholePlayerInv /\ [PlayerNext]_playerStateVars => WholePlayerInv'
<1> SUFFICES ASSUME WholePlayerInv, [PlayerNext]_playerStateVars PROVE WholePlayerInv'
  OBVIOUS
<1>1. PlayerInv /\ FileInv
  BY DEF WholePlayerInv
<1>2. UNCHANGED headerVars => FileInv'
  BY <1>1 DEF headerVars, FileInv, HeaderInv, HeaderTypeOK, Walked, ClipInside, WholeFrames,
              Playable
<1>3. [Next]_vars => PlayerInv'
  BY <1>1, PlayerStep
<1>4. CASE Walk
  BY <1>1, <1>3, <1>4, FileInvStep DEF Walk, WholePlayerInv
<1>5. CASE HandOver
  <2>1. stage = "playing" /\ ForgetHeader
    BY <1>5 DEF HandOver
  <2>2. PICK again \in BOOLEAN : Play(dataSize \div wav.blockAlign, again)
    BY <1>5 DEF HandOver
  <2>3. dataSize \div wav.blockAlign \in Nat
    BY <1>1, <2>1, ClipHandedOver
  <2>4. PlayerInv'
    BY <1>1, <2>2, <2>3, PlayKeeps
  <2>5. QED
    BY <1>1, <2>1, <2>4, ForgottenInv DEF WholePlayerInv
<1>6. CASE GiveUp
  BY <1>1, <1>3, <1>6, ForgottenInv DEF GiveUp, Next, WholePlayerInv
<1>7. CASE PlayLater
  BY <1>2, <1>3, <1>7 DEF PlayLater, Next, WholePlayerInv
<1>8. CASE Otherwise
  BY <1>2, <1>3, <1>8 DEF Otherwise, Next, WholePlayerInv
<1>9. CASE UNCHANGED playerStateVars
  BY <1>2, <1>3, <1>9 DEF playerStateVars, WholePlayerInv
<1>10. QED
  BY <1>4, <1>5, <1>6, <1>7, <1>8, <1>9 DEF PlayerNext

LEMMA WholePlayerInvariant == PlayerSpec => []WholePlayerInv
BY WholePlayerInit, WholePlayerStep, PTL DEF PlayerSpec

(* No count of the player goes below zero or, in the queue, above its size. *)
THEOREM CountsInRange == PlayerSpec => []TypeOK
<1>1. WholePlayerInv => TypeOK
  BY DEF WholePlayerInv, PlayerInv
<1>2. QED
  BY <1>1, WholePlayerInvariant, PTL

(* Whatever file play is given, position, byte count and queue agree while  *)
(* its clip plays.                                                          *)
THEOREM PlayedInStep == PlayerSpec => []InStep
<1>1. WholePlayerInv => InStep
  BY DEF WholePlayerInv, PlayerInv
<1>2. QED
  BY <1>1, WholePlayerInvariant, PTL

(* A clip that ends by itself, with every read answered, was given to the   *)
(* queue in full.                                                           *)
THEOREM PlayedWhole == PlayerSpec => []WholeClip
<1>1. WholePlayerInv => WholeClip
  BY DEF WholePlayerInv, PlayerInv
<1>2. QED
  BY <1>1, WholePlayerInvariant, PTL

(* The clip that play found lies inside the RIFF chunk and the file.        *)
THEOREM PlayedInside == PlayerSpec => []ClipInside
<1>1. WholePlayerInv => ClipInside
  BY DEF WholePlayerInv, FileInv, HeaderInv
<1>2. QED
  BY <1>1, WholePlayerInvariant, PTL

(* play looks for chunks at even offsets only.                              *)
THEOREM WalksOnGrid == PlayerSpec => []OnGrid
<1>1. WholePlayerInv => OnGrid
  BY DEF WholePlayerInv, FileInv, HeaderInv, Walked, OnGrid
<1>2. QED
  BY <1>1, WholePlayerInvariant, PTL

=============================================================================
