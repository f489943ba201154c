------------------------------- MODULE UsbLine -------------------------------
(***************************************************************************)
(* The USB command line of the leader (usb.cpp, splitCsv and                *)
(* parseUnsignedField in util.cpp).  The host's text arrives in pieces of    *)
(* any size; updateUsb() reads what there is, character by character, and    *)
(* keeps an unfinished line for a later call.  A finished line is trimmed    *)
(* and answered: SEND,reliable,thing,id,action,bytes... calls send().        *)
(*                                                                         *)
(* A text is a sequence of characters; a command's name counts as one. The  *)
(* serial driver is external and loses nothing.  What an answer prints is    *)
(* left out, its kind is kept.                                              *)
(***************************************************************************)
EXTENDS Widths, Sequences, FiniteSets, SequencesExt, FiniteSetsExt

CONSTANT Texts  \* what the host may type

ASSUME TextsAssumption == Texts \subseteq Seq(STRING)

VARIABLES
    typing,   \* what has not arrived yet
    serial,   \* what Serial has available
    input,    \* the unfinished line
    heard,    \* all that was read
    answers   \* the answers so far

usbVars == <<typing, serial, input, heard, answers>>

LineEnds == {"LF", "CR"}
Blank == {" "}
Comma == ","

\* The digits, by what they are worth.
Digit == [c \in {"0", "1", "2", "3", "4", "5", "6", "7", "8", "9"} |->
    CASE c = "0" -> 0 [] c = "1" -> 1 [] c = "2" -> 2 [] c = "3" -> 3
      [] c = "4" -> 4 [] c = "5" -> 5 [] c = "6" -> 6 [] c = "7" -> 7
      [] c = "8" -> 8 [] OTHER -> 9]

Invalid == -1

\* 2^32: unsigned numbers are computed modulo Word.
Word == (MaxThing + 1) * (MaxThing + 1)

UsbInit ==
    /\ typing \in Texts
    /\ serial = <<>> /\ input = <<>> /\ heard = <<>> /\ answers = <<>>

-----------------------------------------------------------------------------
(* Answering a line.                                                        *)

Trim(s) ==
    LET solid == {i \in DOMAIN s : s[i] \notin Blank}
    IN  IF solid = {} THEN <<>> ELSE SubSeq(s, Min(solid), Max(solid))

\* The k-th place of a set of places, and what stands in s before each of them.
Kth(places, k) == CHOOSE i \in places : Cardinality({j \in places : j <= i}) = k

Cut(places, k) == IF k = 0 THEN 0 ELSE Kth(places, k)

Pieces(s, places) ==
    [k \in 1 .. Cardinality(places) |->
        SubSeq(s, Cut(places, k - 1) + 1, Cut(places, k) - 1)]

\* The field between each comma, or end, and the next.
SplitCsv(s) == Pieces(s, {i \in DOMAIN s : s[i] = Comma} \cup {Len(s) + 1})

\* Mutant of AddDigit: the last digit is not held against the maximum.
AddDigit_Loose(maximum, parsed, c) ==
    IF parsed = Invalid \/ c \notin DOMAIN Digit \/ parsed > maximum \div 10
    THEN Invalid
    ELSE (parsed * 10 + Digit[c]) % Word

AddDigit(maximum, parsed, c) ==
    IF \/ parsed = Invalid
       \/ c \notin DOMAIN Digit
       \/ parsed > maximum \div 10
       \/ parsed = maximum \div 10 /\ Digit[c] > maximum % 10
    THEN Invalid
    ELSE (parsed * 10 + Digit[c]) % Word

ParseUnsigned(field, maximum) ==
    LET value == Trim(field)
        parsed[i \in 0 .. Len(value)] ==
            IF i = 0 THEN 0 ELSE AddDigit(maximum, parsed[i - 1], value[i])
    IN  IF value = <<>> THEN Invalid ELSE parsed[Len(value)]

\* The largest value each field may have: reliable, thing, id, action, bytes.
Maximum(k) == CASE k = 1 -> 1 [] k = 2 -> MaxThing [] OTHER -> MaxByte

SendCommand(command) ==
    LET fields == SplitCsv(command)
        parsed == [k \in DOMAIN fields |-> ParseUnsigned(fields[k], Maximum(k))]
    IN  IF Len(fields) < 4 \/ Invalid \in ToSet(parsed)
        THEN [kind |-> "error"]
        ELSE [kind |-> "send",
              reliable |-> parsed[1] = 1,
              thing |-> parsed[2] % (MaxThing + 1),
              id |-> parsed[3] % Base,
              action |-> parsed[4] % Base,
              payload |-> [k \in 1 .. Len(parsed) - 4 |-> parsed[k + 4] % Base]]

\* handleUsbLine: the answer to a line, none to a blank one.  SEND and GETFILE
\* are taken in capitals only, GETTHINGS and PACKETTEST in any.
Answer(text) ==
    LET line == Trim(text)
    IN  CASE line = <<>> -> <<>>
          [] line \in {<<"GETTHINGS">>, <<"getthings">>} -> <<[kind |-> "things"]>>
          [] IsPrefix(<<"GETFILE", Comma>>, line) ->
                <<[kind |-> "file", name |-> Trim(SubSeq(line, 3, Len(line)))]>>
          [] IsPrefix(<<"SEND", Comma>>, line) ->
                <<SendCommand(SubSeq(line, 3, Len(line)))>>
          [] line \in {<<"PACKETTEST">>, <<"packettest">>} -> <<[kind |-> "test"]>>
          [] OTHER -> <<[kind |-> "echo", line |-> line]>>

-----------------------------------------------------------------------------
(* Reading.                                                                 *)

Arrive ==
    \E n \in 1 .. Len(typing) :
        /\ serial' = serial \o SubSeq(typing, 1, n)
        /\ typing' = SubSeq(typing, n + 1, Len(typing))
        /\ UNCHANGED <<input, heard, answers>>

\* Mutant of Keep: the unfinished line does not outlive the call.
Keep_Local(line) == IF Len(serial) = 1 THEN <<>> ELSE line

\* The unfinished line is static: it outlives the call of updateUsb().
Keep(line) == line

\* One turn of the loop in updateUsb(), or a call of its own.
ReadChar ==
    /\ serial # <<>>
    /\ serial' = Tail(serial)
    /\ heard' = Append(heard, Head(serial))
    /\ IF Head(serial) \notin LineEnds
       THEN input' = Keep(Append(input, Head(serial))) /\ UNCHANGED answers
       ELSE input' = <<>> /\ answers' = answers \o Answer(input)
    /\ UNCHANGED typing

UsbNext == Arrive \/ ReadChar

UsbSpec == UsbInit /\ [][UsbNext]_usbVars

-----------------------------------------------------------------------------
(* Properties.                                                              *)

\* The lines of a text that are finished: what stands between two ends.
Lines(text) == Pieces(text, {i \in DOMAIN text : text[i] \in LineEnds})

(* However the text was cut into pieces and whatever ends its lines, LF, CR  *)
(* or both, each line that is not blank is answered once, whole, in order.   *)
LinesWhole == answers = FlattenSeq([k \in DOMAIN Lines(heard) |-> Answer(Lines(heard)[k])])

\* A field says n: digits only, worth n with no width to fit, and n is allowed.
Worth(digits) ==
    LET worth[i \in 0 .. Len(digits)] ==
            IF i = 0 THEN 0 ELSE 10 * worth[i - 1] + Digit[digits[i]]
    IN  worth[Len(digits)]

Says(field, maximum) ==
    /\ Trim(field) # <<>>
    /\ ToSet(Trim(field)) \subseteq DOMAIN Digit
    /\ Worth(Trim(field)) <= maximum

\* The fields of a line that is a well-formed SEND.
SendFields(line) == Tail(SplitCsv(Trim(line)))

IsSend(line) ==
    /\ Trim(line) # <<>> /\ SplitCsv(Trim(line))[1] = <<"SEND">>
    /\ Len(SendFields(line)) >= 4
    /\ \A k \in DOMAIN SendFields(line) : Says(SendFields(line)[k], Maximum(k))

\* The numbers that a line says, and those that an answer sends.
SaidBy(line) == [i \in DOMAIN SendFields(line) |-> Worth(Trim(SendFields(line)[i]))]

SentBy(answer) ==
    <<IF answer.reliable THEN 1 ELSE 0, answer.thing, answer.id, answer.action>>
        \o answer.payload

\* The call of send() that a line asks for, and the one an answer makes, if any.
Asked(line) == IF IsSend(line) THEN <<SaidBy(line)>> ELSE <<>>
Made(answer) == IF answer.kind = "send" THEN <<SentBy(answer)>> ELSE <<>>

(* send() is called for exactly the SEND lines whose fields are all decimal  *)
(* numbers within their ranges, with the numbers they say: nothing wraps, is *)
(* cut to its width or shifted by a missing field, and no bad line gets      *)
(* through because only its last field is bad.                               *)
SendsExact ==
    FlattenSeq([k \in DOMAIN answers |-> Made(answers[k])])
      = FlattenSeq([k \in DOMAIN Lines(heard) |-> Asked(Lines(heard)[k])])

=============================================================================
