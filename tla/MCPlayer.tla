------------------------------ MODULE MCPlayer ------------------------------
(* An instance of Player for TLC: files below 64 bytes, which hold the       *)
(* smallest playable one of 46 bytes with a chunk to spare, and formats that *)
(* play accepts or refuses.                                                  *)
EXTENDS Player

Mono == [pcm16 |-> TRUE, channels |-> 1, blockAlign |-> 2]
Stereo == [pcm16 |-> TRUE, channels |-> 2, blockAlign |-> 4]
Compressed == [pcm16 |-> FALSE, channels |-> 2, blockAlign |-> 4]
Inconsistent == [pcm16 |-> TRUE, channels |-> 2, blockAlign |-> 2]

SomeFormats == {Mono, Stereo, Compressed, Inconsistent}

=============================================================================
