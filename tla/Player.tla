-------------------------------- MODULE Player --------------------------------
(***************************************************************************)
(* The whole player: play walks the header of a file (WavHeader) and hands  *)
(* the clip it found to update (Audio), while the sketch may call play and  *)
(* stop again and the DMA queue drains.                                     *)
(*                                                                         *)
(* The header of the first file is walked chunk by chunk; later calls of    *)
(* play meet headers that are in order, with clips of ClipLengths, or any    *)
(* that are not.  play is one call: the sketch does nothing meanwhile.      *)
(***************************************************************************)
EXTENDS Audio, WavHeader

playerStateVars == <<vars, headerVars>>

PlayerInit == Init /\ HeaderInit

\* The first call of play is between the opening of the file and its return.
InPlay == plays = 0 /\ stage # "opened"

Walk ==
    /\ opened /\ plays = 0
    /\ HeaderNext
    /\ UNCHANGED vars

\* What the header was made of is of no use to the rest of the player, except
\* for dataStart, dataSize and blockAlign, which Audio counts in frames.
ForgetHeader ==
    /\ stage' = "closed"
    /\ size' = 0 /\ pos' = 0 /\ riffEnd' = 0
    /\ foundFmt' = FALSE /\ foundData' = FALSE
    /\ wav' = NoFormat
    /\ dataStart' = 0 /\ dataSize' = 0

HandOver ==
    /\ InPlay /\ stage = "playing"
    /\ \E again \in BOOLEAN : Play(dataSize \div wav.blockAlign, again)
    /\ ForgetHeader

GiveUp ==
    /\ InPlay /\ stage = "closed"
    /\ PlayRejected
    /\ ForgetHeader

\* The sketch calls play with a file that is not looked at any closer: before
\* begin, or after the first.
PlayLater ==
    /\ \/ (plays > 0 \/ ~opened) /\ PlayRejected
       \/ \E length \in ClipLengths, again \in BOOLEAN : plays > 0 /\ Play(length, again)
    /\ UNCHANGED headerVars

Otherwise ==
    /\ ~InPlay
    /\ Begin \/ Stop \/ Update \/ Drain
    /\ UNCHANGED headerVars

PlayerNext == Walk \/ HandOver \/ GiveUp \/ PlayLater \/ Otherwise

PlayerSpec == PlayerInit /\ [][PlayerNext]_playerStateVars

(* A call of play goes on until it returns, and loop() keeps calling update. *)
PlayerFairSpec ==
    /\ PlayerSpec
    /\ WF_playerStateVars(Walk) /\ WF_playerStateVars(HandOver \/ GiveUp)
    /\ WF_playerStateVars(Update /\ Otherwise)

=============================================================================
