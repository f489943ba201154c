--------------------------- MODULE Endpoints_proofs ---------------------------
(***************************************************************************)
(* Proofs about what people write and devices read: the tables that the      *)
(* mapping files leave agree with one another, whatever the files hold;      *)
(* messages and announced tables survive the wire, for bytes of every even   *)
(* size; and both hold in the device that announces its files to the leader. *)
(***************************************************************************)
EXTENDS Endpoints, UsbLine_proofs

(* The widest numbers are numbers.                                          *)
LEMMA Maxima == MaxByte \in Nat /\ MaxThing \in Nat
<1>1. Base * Base \in Nat /\ Base * Base >= 1
  BY BaseAssumption
<1>2. QED
  BY <1>1, BaseAssumption DEF MaxByte, MaxThing

(* What Accepts lets through a field of a given width fits that width, and  *)
(* is not taken for a missing entry.                                        *)
LEMMA AcceptsFits ==
    ASSUME NEW number \in Number \cup {NotANumber}, NEW maximum \in Nat,
           Accepts(number, maximum)
    PROVE  number \in 0 .. maximum /\ number # None
BY NumberAssumption DEF Accepts

(* A row with a name stores it under a name that can be stored.             *)
LEMMA NamesStored ==
    ASSUME NEW rawThing \in RawName, Names(rawThing)
    PROVE  Lower[rawThing] \in StoredName /\ Lower[rawThing] # None
BY NamesAssumption DEF Names, StoredName

MappingsInv == MappingsTypeOK /\ ThingsTwoWay /\ ActionsTwoWay /\ Grounded /\ HostedOnce

(* Loading starts with empty tables.                                        *)
LEMMA LoadInv ==
    ASSUME MappingsInv, LoadMappings
    PROVE  MappingsInv'
<1>0. MappingsTypeOK /\ ThingsTwoWay /\ ActionsTwoWay /\ Grounded /\ HostedOnce
  BY DEF MappingsInv
<1> USE <1>0
<1> USE DEF LoadMappings
<1>1. MappingsTypeOK'
  BY DEF MappingsTypeOK, Phase, NoThings, NoNames, NoActions, NoActionNames
<1>2. ThingsTwoWay'
  BY NamesAssumption, NumberAssumption, Maxima
  DEF ThingsTwoWay, GetThingId, GetThingName, NoThings, NoNames, StoredName, Thing
<1>3. ActionsTwoWay'
  BY NamesAssumption, NumberAssumption, Maxima
  DEF ActionsTwoWay, GetActionId, GetActionName, NoActions, NoActionNames, StoredName, Byte
<1>4. Grounded' /\ HostedOnce'
  BY DEF Grounded, HostedOnce, GetActionId, NoActions
<1>5. QED
  BY <1>1, <1>2, <1>3, <1>4 DEF MappingsInv

(* A row of things keeps the tables in agreement.                           *)
LEMMA ReadThingInv ==
    ASSUME MappingsInv,
           NEW rawThing \in RawName, NEW number \in Number \cup {NotANumber},
           ReadThing(rawThing, number)
    PROVE  MappingsInv'
<1>0. MappingsTypeOK /\ ThingsTwoWay /\ ActionsTwoWay /\ Grounded /\ HostedOnce
  BY DEF MappingsInv
<1> USE <1>0
<1> DEFINE name == Lower[rawThing]
<1>1. name \in StoredName /\ number \in Thing /\ number # None /\ name # None
  BY AcceptsFits, NamesStored, NumberAssumption, Maxima DEF ReadThing, Thing
<1>2. /\ nameToThing' = [nameToThing EXCEPT ![name] = number]
      /\ thingToName' = [thingToName EXCEPT ![number] = name]
      /\ nameToThing[name] = None /\ thingToName[number] = None
      /\ UNCHANGED <<phase, actionNameToId, actionIdToName, localThings>>
  BY DEF ReadThing, NewThing
<1> HIDE DEF name
<1>3. MappingsTypeOK'
  BY <1>1, <1>2 DEF MappingsTypeOK
<1>4. ThingsTwoWay'
  <2> SUFFICES ASSUME NEW n \in StoredName, NEW t \in Thing
               PROVE  nameToThing'[n] = t <=> thingToName'[t] = n
    BY DEF ThingsTwoWay, GetThingId, GetThingName
  <2>1. nameToThing[n] = t <=> thingToName[t] = n
    BY DEF ThingsTwoWay, GetThingId, GetThingName
  <2>2. None # t /\ None # n
    BY NamesAssumption, NumberAssumption, Maxima DEF StoredName, Thing
  <2>3. QED
    BY <1>1, <1>2, <2>1, <2>2 DEF MappingsTypeOK
<1>5. ActionsTwoWay' /\ HostedOnce'
  BY <1>2 DEF ActionsTwoWay, HostedOnce, GetActionId, GetActionName
<1>6. Grounded'
  <2>1. \A n \in StoredName : nameToThing[n] # None => nameToThing'[n] # None
    BY <1>1, <1>2 DEF MappingsTypeOK
  <2>2. \A t \in Thing : thingToName[t] # None => thingToName'[t] # None
    BY <1>1, <1>2 DEF MappingsTypeOK
  <2>3. \A i \in 1 .. Len(localThings) : localThings[i].thing \in Thing
    <3>1. localThings \in Seq(LocalThing)
      BY DEF MappingsTypeOK
    <3>2. \A i \in 1 .. Len(localThings) : localThings[i] \in LocalThing
      BY <3>1
    <3>3. QED
      BY <3>2 DEF LocalThing
  <2>4. QED
    BY <1>2, <2>1, <2>2, <2>3 DEF Grounded, GetActionId, GetThingId, GetThingName
<1>7. QED
  BY <1>3, <1>4, <1>5, <1>6 DEF MappingsInv

(* A row of actions keeps the tables in agreement.                          *)
LEMMA ReadActionInv ==
    ASSUME MappingsInv,
           NEW rawThing \in RawName, NEW rawAction \in RawName,
           NEW number \in Number \cup {NotANumber},
           ReadAction(rawThing, rawAction, number)
    PROVE  MappingsInv'
<1>0. MappingsTypeOK /\ ThingsTwoWay /\ ActionsTwoWay /\ Grounded /\ HostedOnce
  BY DEF MappingsInv
<1> USE <1>0
<1> DEFINE name == Lower[rawThing]
           action == Lower[rawAction]
<1>1. /\ name \in StoredName /\ action \in StoredName /\ action # None
      /\ number \in Byte /\ number # None
      /\ nameToThing[name] # None
  BY AcceptsFits, NamesStored, NumberAssumption, Maxima DEF ReadAction, Known, Byte
<1>2. /\ actionNameToId' = [actionNameToId EXCEPT ![name][action] = number]
      /\ actionIdToName' = [actionIdToName EXCEPT ![name][number] = action]
      /\ actionNameToId[name][action] = None /\ actionIdToName[name][number] = None
      /\ UNCHANGED <<phase, nameToThing, thingToName, localThings>>
  BY DEF ReadAction, NewAction
<1> HIDE DEF name, action
<1>3. MappingsTypeOK'
  BY <1>1, <1>2 DEF MappingsTypeOK
<1>4. ThingsTwoWay' /\ HostedOnce'
  BY <1>2 DEF ThingsTwoWay, HostedOnce, GetThingId, GetThingName
<1>5. ActionsTwoWay'
  <2> SUFFICES ASSUME NEW n \in StoredName, NEW a \in StoredName, NEW id \in Byte
               PROVE  actionNameToId'[n][a] = id <=> actionIdToName'[n][id] = a
    BY DEF ActionsTwoWay, GetActionId, GetActionName
  <2>1. actionNameToId[n][a] = id <=> actionIdToName[n][id] = a
    BY DEF ActionsTwoWay, GetActionId, GetActionName
  <2>2. None # id /\ None # a
    BY NamesAssumption, NumberAssumption, Maxima DEF StoredName, Byte
  <2>3. actionNameToId'[n][a] =
          IF n = name /\ a = action THEN number ELSE actionNameToId[n][a]
    BY <1>1, <1>2 DEF MappingsTypeOK
  <2>4. actionIdToName'[n][id] =
          IF n = name /\ id = number THEN action ELSE actionIdToName[n][id]
    BY <1>1, <1>2 DEF MappingsTypeOK
  <2>5. QED
    BY <1>2, <2>1, <2>2, <2>3, <2>4
<1>6. Grounded'
  <2> SUFFICES ASSUME NEW n \in StoredName, NEW a \in StoredName,
                      actionNameToId'[n][a] # None
               PROVE  nameToThing[n] # None
    BY <1>2 DEF Grounded, GetActionId, GetThingId, GetThingName
  <2>1. CASE n = name
    BY <1>1, <2>1
  <2>2. CASE n # name
    BY <1>1, <1>2, <2>2 DEF MappingsTypeOK, Grounded, GetActionId, GetThingId
  <2>3. QED
    BY <2>1, <2>2
<1>7. QED
  BY <1>3, <1>4, <1>5, <1>6 DEF MappingsInv

(* A row of defines keeps the tables in agreement.                          *)
LEMMA ReadDefineInv ==
    ASSUME MappingsInv,
           NEW rawThing \in RawName, NEW number \in Number \cup {NotANumber},
           ReadDefine(rawThing, number)
    PROVE  MappingsInv'
<1>0. MappingsTypeOK /\ ThingsTwoWay /\ ActionsTwoWay /\ Grounded /\ HostedOnce
  BY DEF MappingsInv
<1> USE <1>0
<1> DEFINE name == Lower[rawThing]
           thing == nameToThing[name]
           local == [thing |-> thing, id |-> number]
<1>1. name \in StoredName /\ number \in Byte
  BY AcceptsFits, NamesStored, NumberAssumption, Maxima DEF ReadDefine, Known, Byte
<1>2. thing \in Thing /\ local \in LocalThing
  BY <1>1 DEF ReadDefine, Known, MappingsTypeOK, LocalThing
<1>3. thingToName[thing] # None
  <2>1. thingToName[thing] = name
    BY <1>1, <1>2 DEF ThingsTwoWay, GetThingId, GetThingName
  <2>2. QED
    BY <1>1, <2>1, NamesAssumption DEF StoredName
<1>4. /\ localThings' = Append(localThings, local)
      /\ \A i \in 1 .. Len(localThings) : localThings[i] # local
      /\ UNCHANGED <<phase, nameToThing, thingToName, actionNameToId, actionIdToName>>
  BY DEF ReadDefine, NewLocal
<1>5. local.thing = thing
  OBVIOUS
<1> HIDE DEF name, thing, local
<1>6. localThings \in Seq(LocalThing)
  BY DEF MappingsTypeOK
<1>7. MappingsTypeOK'
  BY <1>2, <1>4, <1>6 DEF MappingsTypeOK
<1>8. ThingsTwoWay' /\ ActionsTwoWay'
  BY <1>4 DEF ThingsTwoWay, ActionsTwoWay, GetThingId, GetThingName,
              GetActionId, GetActionName
<1>9. /\ Len(localThings') = Len(localThings) + 1
      /\ Len(localThings) \in Nat
      /\ \A i \in 1 .. Len(localThings) : localThings'[i] = localThings[i]
      /\ localThings'[Len(localThings) + 1] = local
  BY <1>2, <1>4, <1>6
<1>10. Grounded'
  BY <1>3, <1>4, <1>5, <1>9 DEF Grounded, GetActionId, GetThingId, GetThingName
<1>11. HostedOnce'
  BY <1>4, <1>9 DEF HostedOnce
<1>12. QED
  BY <1>7, <1>8, <1>10, <1>11 DEF MappingsInv

(* The tables are empty at first.                                           *)
LEMMA MappingsInvInit ==
    ASSUME MappingsInit
    PROVE  MappingsInv
<1> USE DEF MappingsInit
<1>1. MappingsTypeOK
  BY DEF MappingsTypeOK, Phase, NoThings, NoNames, NoActions, NoActionNames
<1>2. ThingsTwoWay
  BY NamesAssumption, NumberAssumption, Maxima
  DEF ThingsTwoWay, GetThingId, GetThingName, NoThings, NoNames, StoredName, Thing
<1>3. ActionsTwoWay
  BY NamesAssumption, NumberAssumption, Maxima
  DEF ActionsTwoWay, GetActionId, GetActionName, NoActions, NoActionNames,
      StoredName, Byte
<1>4. Grounded /\ HostedOnce
  BY DEF Grounded, HostedOnce, GetActionId, NoActions
<1>5. QED
  BY <1>1, <1>2, <1>3, <1>4 DEF MappingsInv

(* Every step of loading, and every pause between loads, keeps the tables in *)
(* agreement.                                                               *)
LEMMA MappingsInvStep == MappingsInv /\ [MappingsNext]_mappingsVars => MappingsInv'
<1> SUFFICES ASSUME MappingsInv, [MappingsNext]_mappingsVars PROVE MappingsInv'
  OBVIOUS
<1>1. CASE LoadMappings
  BY <1>1, LoadInv
<1>2. CASE NextFile
  BY <1>2 DEF NextFile, tables, MappingsInv, MappingsTypeOK, Phase, ThingsTwoWay, ActionsTwoWay, Grounded,
              HostedOnce, GetThingId, GetThingName, GetActionId, GetActionName
<1>3. CASE \E rawThing \in RawName, number \in Number \cup {NotANumber} :
               ReadThing(rawThing, number)
  BY <1>3, ReadThingInv
<1>4. CASE \E rawThing \in RawName, rawAction \in RawName, number \in Number \cup {NotANumber} :
               ReadAction(rawThing, rawAction, number)
  BY <1>4, ReadActionInv
<1>5. CASE \E rawThing \in RawName, number \in Number \cup {NotANumber} :
               ReadDefine(rawThing, number)
  BY <1>5, ReadDefineInv
<1>6. CASE UNCHANGED mappingsVars
  BY <1>6 DEF mappingsVars, tables, MappingsInv, MappingsTypeOK, ThingsTwoWay, ActionsTwoWay, Grounded,
              HostedOnce, GetThingId, GetThingName, GetActionId, GetActionName
<1>7. QED
  BY <1>1, <1>2, <1>3, <1>4, <1>5, <1>6 DEF MappingsNext

(* For names, numbers and widths of any extent, the maps of things and of   *)
(* actions read the same in both directions, actions and hosted things are  *)
(* those of things in the map, and no thing is hosted twice.                *)
THEOREM TablesAgree ==
    MappingsSpec => [](MappingsTypeOK /\ ThingsTwoWay /\ ActionsTwoWay /\ Grounded /\ HostedOnce)
<1>1. MappingsInit => MappingsInv
  BY MappingsInvInit
<1>2. MappingsInv => MappingsTypeOK /\ ThingsTwoWay /\ ActionsTwoWay /\ Grounded /\ HostedOnce
  BY DEF MappingsInv
<1>3. QED
  BY <1>1, <1>2, MappingsInvStep, PTL DEF MappingsSpec

(* Within a load no step changes an entry that is there: only the start of  *)
(* the next load does.                                                      *)
LEMMA RowsKeepEntries ==
    ASSUME MappingsTypeOK, phase # "idle", [MappingsNext]_mappingsVars
    PROVE  EntriesStay
<1>1. ASSUME NEW rawThing \in RawName, NEW number \in Number \cup {NotANumber},
             ReadThing(rawThing, number)
      PROVE  EntriesStay
  <2> DEFINE stored == Lower[rawThing]
  <2>1. /\ nameToThing' = [nameToThing EXCEPT ![stored] = number]
        /\ nameToThing[stored] = None /\ UNCHANGED actionNameToId
    BY <1>1 DEF ReadThing, NewThing
  <2> HIDE DEF stored
  <2>2. QED
    BY <2>1 DEF EntriesStay, MappingsTypeOK
<1>2. ASSUME NEW rawThing \in RawName, NEW rawAction \in RawName,
             NEW number \in Number \cup {NotANumber}, ReadAction(rawThing, rawAction, number)
      PROVE  EntriesStay
  <2> DEFINE stored == Lower[rawThing]
             storedAction == Lower[rawAction]
  <2>1. /\ actionNameToId' = [actionNameToId EXCEPT ![stored][storedAction] = number]
        /\ actionNameToId[stored][storedAction] = None /\ UNCHANGED nameToThing
    BY <1>2 DEF ReadAction, NewAction
  <2> HIDE DEF stored, storedAction
  <2>2. ASSUME NEW name \in StoredName, NEW action \in StoredName,
               actionNameToId[name][action] # None
        PROVE  actionNameToId'[name][action] = actionNameToId[name][action]
    BY <2>1, <2>2 DEF MappingsTypeOK
  <2>3. QED
    BY <2>1, <2>2 DEF EntriesStay
<1>3. ASSUME NEW rawThing \in RawName, NEW number \in Number \cup {NotANumber},
             ReadDefine(rawThing, number)
      PROVE  EntriesStay
  BY <1>3 DEF ReadDefine, EntriesStay
<1>4. CASE LoadMappings
  BY <1>4 DEF LoadMappings
<1>5. CASE NextFile \/ UNCHANGED mappingsVars
  BY <1>5 DEF NextFile, mappingsVars, tables, EntriesStay
<1>6. QED
  BY <1>1, <1>2, <1>3, <1>4, <1>5 DEF MappingsNext

-----------------------------------------------------------------------------
(* The wire.                                                                *)

(* A number is its quotient by the base and its last digit.                 *)
LEMMA LastDigit ==
    ASSUME NEW x \in Nat
    PROVE  /\ x \div Base \in Nat /\ x % Base \in 0 .. Base - 1
           /\ (x \div Base) * Base + (x % Base) = x
BY BaseAssumption

(* A shift takes one digit off the bound as well.                           *)
LEMMA ShiftBound ==
    ASSUME NEW x \in Nat, NEW y \in Nat, x < y * Base
    PROVE  x \div Base < y
<1>1. /\ x \div Base \in Nat /\ x % Base \in 0 .. Base - 1
      /\ (x \div Base) * Base + (x % Base) = x
  BY LastDigit
<1>2. SUFFICES ASSUME x \div Base >= y PROVE FALSE
  BY <1>1
<1>3. (x \div Base) * Base >= y * Base
  BY <1>1, <1>2, BaseAssumption, OriginAssumption
<1>4. QED
  BY <1>1, <1>3, BaseAssumption, OriginAssumption

(* The bytes of a number, joined again, are the number.                     *)
LEMMA JoinedBytes ==
    ASSUME NEW width \in {1, 2, 4}, NEW x \in Nat, x < Span(width)
    PROVE  /\ Len(BytesOf(x, width)) = width
           /\ BytesOf(x, width) \in Seq(Nat)
           /\ Joined(BytesOf(x, width)) = x
<1>1. Base \in Nat /\ Base > 1
  BY BaseAssumption, OriginAssumption
<1> DEFINE q1 == x \div Base
           q2 == q1 \div Base
           q3 == q2 \div Base
<1>2. /\ q1 \in Nat /\ x % Base \in 0 .. Base - 1 /\ q1 * Base + (x % Base) = x
  BY LastDigit
<1>3. /\ q2 \in Nat /\ q1 % Base \in 0 .. Base - 1 /\ q2 * Base + (q1 % Base) = q1
  BY <1>2, LastDigit
<1>4. /\ q3 \in Nat /\ q2 % Base \in 0 .. Base - 1 /\ q3 * Base + (q2 % Base) = q2
  BY <1>3, LastDigit
<1>5. /\ q3 % Base \in 0 .. Base - 1
  BY <1>4, LastDigit
<1> HIDE DEF q1, q2, q3
<1>6. /\ Len(BytesOf(x, width)) = width
      /\ \A i \in 1 .. width : BytesOf(x, width)[i] = Shifted(x, width - i) % Base
  BY DEF BytesOf
<1>7. /\ Shifted(x, 0) = x /\ Shifted(x, 1) = q1
      /\ Shifted(x, 2) = q2 /\ Shifted(x, 3) = q3
  BY DEF Shifted, q1, q2, q3
<1>8. BytesOf(x, width) \in Seq(Nat)
  <2>1. ASSUME NEW n \in {0, 1, 2, 3} PROVE Shifted(x, n) % Base \in Nat
    BY <1>1, <1>2, <1>3, <1>4, <1>5, <1>7
  <2>2. ASSUME NEW i \in 1 .. width PROVE width - i \in {0, 1, 2, 3}
    OBVIOUS
  <2>3. \A i \in 1 .. width : Shifted(x, width - i) % Base \in Nat
    BY <2>1, <2>2, Zenon
  <2>4. QED
    BY <2>3 DEF BytesOf
<1>9. CASE width = 1
  <2>1. x % Base = x
    BY <1>1, <1>9 DEF Span
  <2>2. QED
    BY <1>6, <1>7, <1>8, <1>9, <2>1 DEF Joined
<1>10. CASE width = 2
  <2>1. q1 < Base
    BY <1>1, <1>10, ShiftBound DEF Span, q1
  <2>2. q1 % Base = q1
    BY <1>1, <1>2, <2>1
  <2>3. QED
    BY <1>2, <1>6, <1>7, <1>8, <1>10, <2>2 DEF Joined
<1>11. CASE width = 4
  <2>1. x < ((Base * Base) * Base) * Base
    BY <1>1, <1>11 DEF Span
  <2>2. q1 < (Base * Base) * Base
    BY <1>1, <2>1, ShiftBound DEF q1
  <2>3. q2 < Base * Base
    BY <1>1, <1>2, <2>2, ShiftBound DEF q2
  <2>4. q3 < Base
    BY <1>1, <1>3, <2>3, ShiftBound DEF q3
  <2>5. q3 % Base = q3
    BY <1>1, <1>4, <2>4
  <2>6. Joined(BytesOf(x, width)) = ((q3 * Base + (q2 % Base)) * Base + (q1 % Base)) * Base + (x % Base)
    BY <1>6, <1>7, <1>11, <2>5 DEF Joined
  <2>7. QED
    BY <1>2, <1>3, <1>4, <1>6, <1>8, <2>6
<1>12. QED
  BY <1>9, <1>10, <1>11

(* A span is a whole number of bytes, and even.                             *)
LEMMA SpanEven ==
    ASSUME NEW width \in {1, 2, 4}
    PROVE  /\ Span(width) \in Nat /\ Span(width) > 1
           /\ Span(width) = 2 * (Span(width) \div 2)
<1>1. Base \in Nat /\ Base > 1
  BY BaseAssumption, OriginAssumption
<1> DEFINE h == Base \div 2
<1>2. h \in Nat /\ Base = 2 * h
  BY BaseAssumption, OriginAssumption
<1> HIDE DEF h
<1>3. CASE width = 1
  BY <1>1, <1>2, <1>3 DEF Span
<1>4. CASE width = 2
  <2>1. Base * Base = 2 * (h * Base) /\ h * Base \in Nat /\ Base * Base > 1
    BY <1>1, <1>2
  <2>2. QED
    BY <1>4, <2>1 DEF Span
<1>5. CASE width = 4
  <2>1. Base * Base \in Nat /\ Base * Base > 1
    BY <1>1
  <2>2. (Base * Base) * (Base * Base) = 2 * (h * (Base * (Base * Base)))
    BY <1>1, <1>2
  <2>3. h * (Base * (Base * Base)) \in Nat /\ (Base * Base) * (Base * Base) > 1
    BY <1>1, <1>2, <2>1
  <2>4. QED
    BY <1>5, <2>2, <2>3 DEF Span
<1>6. QED
  BY <1>3, <1>4, <1>5

(* The unsigned form of a signed number tells the number.                   *)
LEMMA SignKept ==
    ASSUME NEW width \in {1, 2, 4},
           NEW v \in -(Span(width) \div 2) .. Span(width) \div 2 - 1
    PROVE  /\ ToUnsigned(v, width) \in Nat
           /\ ToUnsigned(v, width) < Span(width)
           /\ FromUnsigned(ToUnsigned(v, width), width) = v
<1> DEFINE span == Span(width)
<1>1. span \in Nat /\ span > 1 /\ span = 2 * (span \div 2)
  BY SpanEven
<1>2. v \in Int /\ -(span \div 2) <= v /\ v < span \div 2
  BY <1>1
<1> HIDE DEF span
<1>3. v % span = IF v >= 0 THEN v ELSE v + span
  BY <1>1, <1>2
<1>4. QED
  BY <1>1, <1>2, <1>3 DEF ToUnsigned, FromUnsigned, span

(* Each scalar is decoded from its own bytes.                               *)
LEMMA ScalarDecodes ==
    ASSUME NEW type \in Scalar, NEW v \in RangeOf(type)
    PROVE  LET data == BytesOf(ToUnsigned(v, Width(type)), Width(type))
           IN  data \in Seq(Nat) /\ DecodeAs(type, data) = Value(type, v)
<1> DEFINE w == Width(type)
           u == ToUnsigned(v, w)
           data == BytesOf(u, w)
<1>1. type \in {"BOOL", "UINT8", "UINT16", "UINT32", "INT8", "INT16", "INT32"}
  BY DEF Scalar, Type, Code
<1>2. w \in {1, 2, 4}
  BY <1>1, Zenon DEF Width
<1>3. Span(w) \in Nat /\ Span(w) > 1
  BY <1>2, SpanEven
<1>4. type \in Signed => v \in -(Span(w) \div 2) .. Span(w) \div 2 - 1
  BY DEF RangeOf, Signed
<1>5. type \notin Signed => v \in 0 .. Span(w) - 1
  BY <1>3 DEF RangeOf, Signed
<1>6. type = "BOOL" => v \in 0 .. 1
  BY DEF RangeOf
<1> HIDE DEF w
<1>7. /\ u \in Nat /\ u < Span(w)
      /\ type \in Signed => FromUnsigned(u, w) = v
      /\ type \notin Signed => u = v
  <2>1. CASE type \in Signed
    BY <1>2, <1>4, <2>1, SignKept
  <2>2. CASE type \notin Signed
    <3>1. v \in Int /\ 0 <= v /\ v < Span(w)
      BY <1>3, <1>5, <2>2
    <3>2. v % Span(w) = v
      BY <1>3, <3>1
    <3>3. QED
      BY <2>2, <3>1, <3>2 DEF ToUnsigned
  <2>3. QED
    BY <2>1, <2>2
<1> HIDE DEF u
<1>8. Len(data) = w /\ data \in Seq(Nat) /\ Joined(data) = u
  BY <1>2, <1>7, JoinedBytes
<1> HIDE DEF data
<1>9. SubSeq(data, 1, w) = data
  BY <1>8, SubSeqFull, Zenon
<1>10. Fits(type, data)
  BY <1>8 DEF Fits, w
<1>11. type \notin {"NONE", "BYTES"}
  BY <1>1
<1>12. DecodeAs(type, data)
         = IF type \in Signed THEN Value(type, FromUnsigned(Joined(data), w))
           ELSE IF type = "BOOL" /\ Joined(data) > 1 THEN {}
           ELSE Value(type, Joined(data))
  BY <1>9, <1>10, <1>11 DEF DecodeAs, w
<1>13. DecodeAs(type, data) = Value(type, v)
  BY <1>6, <1>7, <1>8, <1>12 DEF Signed
<1>14. QED
  BY <1>8, <1>13 DEF data, u, w

(* Taking the type byte off gives the rest back, and the type byte names one *)
(* type only.                                                               *)
LEMMA TypeByte ==
    ASSUME NEW type \in Type, NEW data \in Seq(Nat)
    PROVE  LET encoded == <<Code[type]>> \o data
           IN  encoded \in Seq(Nat) /\ Decode(encoded) = DecodeAs(type, data)
<1> DEFINE encoded == <<Code[type]>> \o data
<1>1. Type = {"NONE", "BOOL", "UINT8", "UINT16", "UINT32", "INT8", "INT16", "INT32", "BYTES"}
  BY DEF Type, Code
<1>2. Code[type] \in Nat
  BY <1>1 DEF Code
<1>3. /\ encoded \in Seq(Nat) /\ Len(encoded) = Len(data) + 1
      /\ encoded[1] = Code[type]
      /\ \A i \in 1 .. Len(data) : encoded[i + 1] = data[i]
  BY <1>2
<1>4. encoded # <<>>
  BY <1>3
<1>5. Tail(encoded) = data
  <2>1. /\ Tail(encoded) \in Seq(Nat) /\ Len(Tail(encoded)) = Len(encoded) - 1
        /\ \A i \in 1 .. Len(Tail(encoded)) : Tail(encoded)[i] = encoded[i + 1]
    BY <1>3, <1>4, HeadTailProperties
  <2>2. QED
    BY <1>3, <2>1, SeqEqual
<1>6. {u \in Type : Code[u] = Code[type]} = {type}
  BY <1>1 DEF Code
<1> HIDE DEF encoded
<1>7. Decode(encoded) = DecodeAs(type, data)
  BY <1>3, <1>4, <1>5, <1>6 DEF Decode
<1>8. QED
  BY <1>3, <1>7 DEF encoded

(* Every payload that send() takes is decoded as it was.                    *)
LEMMA PayloadSurvives ==
    ASSUME NEW p, IsPayload(p)
    PROVE  Encode(p) \in Seq(Nat) /\ Decode(Encode(p)) = {p}
<1>1. /\ p \in [type : Type, value : Int, bytes : Seq(Byte)]
      /\ p.type \in Scalar => p.value \in RangeOf(p.type)
      /\ p.type \notin Scalar => p.value = 0
      /\ p.type # "BYTES" => p.bytes = <<>>
  BY DEF IsPayload
<1>2. p = [type |-> p.type, value |-> p.value, bytes |-> p.bytes] /\ p.type \in Type
  BY <1>1
<1>3. CASE p.type \in Scalar
  <2> DEFINE data == BytesOf(ToUnsigned(p.value, Width(p.type)), Width(p.type))
  <2>1. data \in Seq(Nat) /\ DecodeAs(p.type, data) = Value(p.type, p.value)
    BY <1>1, <1>3, ScalarDecodes
  <2>2. p.type # "NONE" /\ p.type # "BYTES"
    BY <1>3 DEF Scalar
  <2>3. Encode(p) = <<Code[p.type]>> \o data
    BY <2>2 DEF Encode
  <2>4. Value(p.type, p.value) = {p}
    BY <1>1, <1>2, <2>2 DEF Value
  <2> HIDE DEF data
  <2>5. QED
    BY <1>2, <2>1, <2>3, <2>4, TypeByte
<1>4. CASE p.type = "NONE"
  <2>1. Encode(p) = <<Code["NONE"]>> \o <<>> /\ <<>> \in Seq(Nat)
    BY <1>4 DEF Encode
  <2>2. DecodeAs("NONE", <<>>) = {p}
    BY <1>1, <1>2, <1>4 DEF DecodeAs, Value, Scalar
  <2>3. QED
    BY <1>2, <1>4, <2>1, <2>2, TypeByte
<1>5. CASE p.type = "BYTES"
  <2>1. p.bytes \in Seq(Nat)
    BY <1>1, BaseAssumption, OriginAssumption DEF Byte, MaxByte
  <2>2. Encode(p) = <<Code["BYTES"]>> \o p.bytes
    BY <1>5 DEF Encode
  <2>3. DecodeAs("BYTES", p.bytes) = {p}
    BY <1>1, <1>2, <1>5 DEF DecodeAs, Scalar
  <2>4. QED
    BY <1>2, <1>5, <2>1, <2>2, <2>3, TypeByte
<1>6. QED
  BY <1>2, <1>3, <1>4, <1>5 DEF Scalar

(* Two bytes hold a word.                                                   *)
LEMMA TwoBytes ==
    ASSUME NEW x \in 0 .. Span(2) - 1
    PROVE  /\ BytesOf(x, 2) \in Seq(Nat) /\ Len(BytesOf(x, 2)) = 2
           /\ Joined(<<BytesOf(x, 2)[1], BytesOf(x, 2)[2]>>) = x
<1>1. x \in Nat /\ x < Span(2)
  BY SpanEven
<1>2. /\ Len(BytesOf(x, 2)) = 2 /\ BytesOf(x, 2) \in Seq(Nat)
      /\ Joined(BytesOf(x, 2)) = x
  BY <1>1, JoinedBytes
<1>3. BytesOf(x, 2) = <<BytesOf(x, 2)[1], BytesOf(x, 2)[2]>>
  BY <1>2
<1>4. QED
  BY <1>2, <1>3

(* Where the parts of a concatenation stand.                                *)
LEMMA Extend ==
    ASSUME NEW s \in Seq(Nat), NEW t \in Seq(Nat)
    PROVE  /\ s \o t \in Seq(Nat)
           /\ Len(s \o t) = Len(s) + Len(t)
           /\ \A i \in 1 .. Len(s) : (s \o t)[i] = s[i]
           /\ \A i \in 1 .. Len(t) : (s \o t)[Len(s) + i] = t[i]
<1>1. /\ s \o t \in Seq(Nat) /\ Len(s \o t) = Len(s) + Len(t)
      /\ \A i \in 1 .. Len(s) + Len(t) :
           (s \o t)[i] = IF i <= Len(s) THEN s[i] ELSE t[i - Len(s)]
  BY ConcatProperties
<1>2. Len(s) \in Nat /\ Len(t) \in Nat
  OBVIOUS
<1>3. ASSUME NEW i \in 1 .. Len(t) PROVE (s \o t)[Len(s) + i] = t[i]
  BY <1>1, <1>2
<1>4. QED
  BY <1>1, <1>2, <1>3

(* Every packet is parsed as it was built.                                  *)
LEMMA PacketSurvives ==
    ASSUME NEW origin \in Seq(Byte), Len(origin) = OriginSize, NEW flags \in Byte,
           NEW seq \in 0 .. Span(2) - 1, NEW thing \in 0 .. Span(2) - 1,
           NEW id \in Byte, NEW action \in Byte, NEW payload \in Seq(Nat)
    PROVE  LET c == [origin |-> origin, flags |-> flags, seq |-> seq, thing |-> thing,
                     id |-> id, action |-> action, payload |-> payload]
           IN  /\ ParsePacket(BuildPacket(c)) = {c}
               /\ Len(BuildPacket(c)) = HeaderSize + Len(payload)
<1> DEFINE c == [origin |-> origin, flags |-> flags, seq |-> seq, thing |-> thing,
                 id |-> id, action |-> action, payload |-> payload]
           v == <<Version>>
           f == <<flags>>
           a == <<id, action>>
           q == BytesOf(seq, 2)
           t == BytesOf(thing, 2)
           s1 == v \o origin
           s2 == s1 \o f
           s3 == s2 \o q
           s4 == s3 \o t
           s5 == s4 \o a
           raw0 == s5 \o payload
<1>1. OriginSize \in Nat /\ Base \in Nat /\ Byte \subseteq Nat
  BY BaseAssumption, OriginAssumption DEF Byte, MaxByte
<1>2. origin \in Seq(Nat) /\ Len(origin) = OriginSize
  BY <1>1, SeqMonotonic
<1>3. /\ q \in Seq(Nat) /\ Len(q) = 2 /\ Joined(<<q[1], q[2]>>) = seq
      /\ t \in Seq(Nat) /\ Len(t) = 2 /\ Joined(<<t[1], t[2]>>) = thing
  BY TwoBytes
<1> HIDE DEF q, t
<1> DEFINE AddressIn(x) == x[1] = Version /\ \A i \in 1 .. OriginSize : x[i + 1] = origin[i]
<1>20. /\ v \in Seq(Nat) /\ Len(v) = 1 /\ v[1] = Version
       /\ f \in Seq(Nat) /\ Len(f) = 1 /\ f[1] = flags
       /\ a \in Seq(Nat) /\ Len(a) = 2 /\ a[1] = id /\ a[2] = action
  BY <1>1 DEF Version
<1> HIDE DEF v, f, a
<1>4. s1 \in Seq(Nat) /\ Len(s1) = 1 + OriginSize /\ AddressIn(s1)
  <2>1. /\ s1 \in Seq(Nat) /\ Len(s1) = Len(v) + Len(origin)
        /\ \A i \in 1 .. Len(v) : s1[i] = v[i]
        /\ \A i \in 1 .. Len(origin) : s1[Len(v) + i] = origin[i]
    BY <1>2, <1>20, Extend, Zenon DEF s1
  <2> HIDE DEF s1
  <2>2. QED
    BY <1>1, <1>2, <1>20, <2>1
<1> HIDE DEF s1
<1>5. /\ s2 \in Seq(Nat) /\ Len(s2) = 2 + OriginSize
      /\ AddressIn(s2) /\ s2[2 + OriginSize] = flags
  <2>1. /\ s2 \in Seq(Nat) /\ Len(s2) = Len(s1) + Len(f)
        /\ \A i \in 1 .. Len(s1) : s2[i] = s1[i]
        /\ \A i \in 1 .. Len(f) : s2[Len(s1) + i] = f[i]
    BY <1>4, <1>20, Extend, Zenon DEF s2
  <2> HIDE DEF s2
  <2>2. QED
    BY <1>1, <1>4, <1>20, <2>1
<1> HIDE DEF s2
<1>6. /\ s3 \in Seq(Nat) /\ Len(s3) = 4 + OriginSize
      /\ AddressIn(s3) /\ s3[2 + OriginSize] = flags
      /\ s3[3 + OriginSize] = q[1] /\ s3[4 + OriginSize] = q[2]
  <2>1. /\ s3 \in Seq(Nat) /\ Len(s3) = Len(s2) + Len(q)
        /\ \A i \in 1 .. Len(s2) : s3[i] = s2[i]
        /\ \A i \in 1 .. Len(q) : s3[Len(s2) + i] = q[i]
    BY <1>3, <1>5, Extend, Zenon DEF s3
  <2> HIDE DEF s3
  <2>2. QED
    BY <1>1, <1>3, <1>5, <2>1
<1> HIDE DEF s3
<1>7. /\ s4 \in Seq(Nat) /\ Len(s4) = 6 + OriginSize
      /\ AddressIn(s4) /\ s4[2 + OriginSize] = flags
      /\ s4[3 + OriginSize] = q[1] /\ s4[4 + OriginSize] = q[2]
      /\ s4[5 + OriginSize] = t[1] /\ s4[6 + OriginSize] = t[2]
  <2>1. /\ s4 \in Seq(Nat) /\ Len(s4) = Len(s3) + Len(t)
        /\ \A i \in 1 .. Len(s3) : s4[i] = s3[i]
        /\ \A i \in 1 .. Len(t) : s4[Len(s3) + i] = t[i]
    BY <1>3, <1>6, Extend, ZenonT(60) DEF s4
  <2> HIDE DEF s4
  <2>2. QED
    BY <1>1, <1>3, <1>6, <2>1, SMTT(40)
<1> HIDE DEF s4
<1>8. /\ s5 \in Seq(Nat) /\ Len(s5) = 8 + OriginSize
      /\ AddressIn(s5) /\ s5[2 + OriginSize] = flags
      /\ s5[3 + OriginSize] = q[1] /\ s5[4 + OriginSize] = q[2]
      /\ s5[5 + OriginSize] = t[1] /\ s5[6 + OriginSize] = t[2]
      /\ s5[7 + OriginSize] = id /\ s5[8 + OriginSize] = action
  <2>1. /\ s5 \in Seq(Nat) /\ Len(s5) = Len(s4) + Len(a)
        /\ \A i \in 1 .. Len(s4) : s5[i] = s4[i]
        /\ \A i \in 1 .. Len(a) : s5[Len(s4) + i] = a[i]
    BY <1>7, <1>20, Extend, Zenon DEF s5
  <2> HIDE DEF s5
  <2>2. QED
    BY <1>1, <1>7, <1>20, <2>1, SMTT(40)
<1> HIDE DEF s5
<1>9. /\ raw0 \in Seq(Nat) /\ Len(raw0) = 8 + OriginSize + Len(payload)
      /\ \A i \in 1 .. 8 + OriginSize : raw0[i] = s5[i]
      /\ \A i \in 1 .. Len(payload) : raw0[8 + OriginSize + i] = payload[i]
  <2>1. /\ raw0 \in Seq(Nat) /\ Len(raw0) = Len(s5) + Len(payload)
        /\ \A i \in 1 .. Len(s5) : raw0[i] = s5[i]
        /\ \A i \in 1 .. Len(payload) : raw0[Len(s5) + i] = payload[i]
    BY <1>8, Extend, Zenon DEF raw0
  <2> HIDE DEF raw0
  <2>2. QED
    BY <1>1, <1>8, <2>1
<1> HIDE DEF raw0
<1>10. BuildPacket(c) = raw0
  BY DEF BuildPacket, raw0, s5, s4, s3, s2, s1, q, t, v, f, a
<1>11. /\ raw0[1] = Version /\ raw0[2 + OriginSize] = flags
       /\ raw0[3 + OriginSize] = q[1] /\ raw0[4 + OriginSize] = q[2]
       /\ raw0[5 + OriginSize] = t[1] /\ raw0[6 + OriginSize] = t[2]
       /\ raw0[7 + OriginSize] = id /\ raw0[8 + OriginSize] = action
       /\ AddressIn(raw0)
  <2>1. \A i \in 1 .. 8 + OriginSize : raw0[i] = s5[i]
    BY <1>9
  <2>2. /\ 2 + OriginSize \in 1 .. 8 + OriginSize
        /\ 3 + OriginSize \in 1 .. 8 + OriginSize
        /\ 4 + OriginSize \in 1 .. 8 + OriginSize
        /\ 5 + OriginSize \in 1 .. 8 + OriginSize
        /\ 6 + OriginSize \in 1 .. 8 + OriginSize
        /\ 7 + OriginSize \in 1 .. 8 + OriginSize
        /\ 8 + OriginSize \in 1 .. 8 + OriginSize
    BY <1>1
  <2>3. /\ raw0[2 + OriginSize] = s5[2 + OriginSize]
        /\ raw0[3 + OriginSize] = s5[3 + OriginSize]
        /\ raw0[4 + OriginSize] = s5[4 + OriginSize]
        /\ raw0[5 + OriginSize] = s5[5 + OriginSize]
        /\ raw0[6 + OriginSize] = s5[6 + OriginSize]
        /\ raw0[7 + OriginSize] = s5[7 + OriginSize]
        /\ raw0[8 + OriginSize] = s5[8 + OriginSize]
    BY <2>1, <2>2, Zenon
  <2>4. raw0[1] = s5[1] /\ \A i \in 1 .. OriginSize : raw0[i + 1] = s5[i + 1]
    <3>1. 1 \in 1 .. 8 + OriginSize /\ \A i \in 1 .. OriginSize : i + 1 \in 1 .. 8 + OriginSize
      BY <1>1
    <3>2. QED
      BY <2>1, <3>1, Zenon
  <2>5. AddressIn(raw0)
    BY <1>8, <2>4, Zenon
  <2> HIDE DEF AddressIn
  <2>6. QED
    BY <1>8, <2>3, <2>5, Zenon DEF AddressIn
<1>12. SubSeq(raw0, 2, 1 + OriginSize) = origin
  <2> DEFINE o == SubSeq(raw0, 2, 1 + OriginSize)
  <2>1. \A i \in 2 .. 1 + OriginSize : raw0[i] \in Nat
    BY <1>1, <1>9, SMTT(40)
  <2>2. /\ o \in Seq(Nat) /\ Len(o) = OriginSize
        /\ \A i \in 1 .. OriginSize : o[i] = raw0[i + 1]
    BY <1>1, <2>1, SubSeqProperties
  <2>3. \A i \in 1 .. OriginSize : raw0[i + 1] = origin[i]
    BY <1>11
  <2> HIDE DEF o
  <2>4. o = origin
    BY <1>2, <2>2, <2>3, SeqEqual
  <2>5. QED
    BY <2>4 DEF o
<1>13. SubSeq(raw0, HeaderSize + 1, Len(raw0)) = payload
  <2> DEFINE m == HeaderSize + 1
             n == Len(raw0)
             o == SubSeq(raw0, m, n)
  <2>1. /\ m = 9 + OriginSize /\ n = 8 + OriginSize + Len(payload)
        /\ m \in Nat /\ n \in Nat /\ Len(payload) \in Nat
    BY <1>1, <1>9 DEF HeaderSize
  <2>2. \A i \in m .. n : raw0[i] \in Nat
    <3>1. ASSUME NEW i \in m .. n PROVE i \in 1 .. Len(raw0)
      BY <1>1, <2>1
    <3>2. QED
      BY <1>9, <3>1, ElementOfSeq
  <2>3. /\ o \in Seq(Nat) /\ Len(o) = (IF m <= n THEN n - m + 1 ELSE 0)
        /\ \A i \in 1 .. n - m + 1 : o[i] = raw0[m + i - 1]
    <3>1. m \in Int /\ n \in Int
      BY <2>1
    <3> HIDE DEF m, n
    <3>2. QED
      BY <2>2, <3>1, SubSeqProperties DEF o
  <2> HIDE DEF o, m, n
  <2>4. Len(o) = Len(payload)
    BY <1>1, <2>1, <2>3
  <2>5. \A i \in 1 .. Len(payload) : o[i] = payload[i]
    <3>1. ASSUME NEW i \in 1 .. Len(payload) PROVE o[i] = raw0[8 + OriginSize + i]
      BY <1>1, <2>1, <2>3
    <3>2. QED
      BY <1>9, <3>1
  <2>6. o = payload
    BY <2>3, <2>4, <2>5, SeqEqual, Zenon
  <2>7. QED
    BY <2>6 DEF o, m, n
<1>14. Len(raw0) >= HeaderSize
  BY <1>1, <1>9, SMTT(40) DEF HeaderSize
<1>15. ParsePacket(raw0) = {c}
  <2>1. ~(Len(raw0) < HeaderSize \/ raw0[1] # Version)
    BY <1>1, <1>9, <1>11, <1>14 DEF HeaderSize
  <2>2. /\ 1 + OriginSize + 1 = 2 + OriginSize /\ 1 + OriginSize + 2 = 3 + OriginSize
        /\ 1 + OriginSize + 3 = 4 + OriginSize /\ 1 + OriginSize + 4 = 5 + OriginSize
        /\ 1 + OriginSize + 5 = 6 + OriginSize /\ 1 + OriginSize + 6 = 7 + OriginSize
        /\ 1 + OriginSize + 7 = 8 + OriginSize
    BY <1>1
  <2>3. QED
    BY <1>3, <1>11, <1>12, <1>13, <2>1, <2>2, Zenon DEF ParsePacket
<1>16. Len(raw0) = HeaderSize + Len(payload)
  BY <1>1, <1>9 DEF HeaderSize
<1>17. QED
  BY <1>10, <1>15, <1>16

(* A packet is as long as its header and its payload.                       *)
LEMMA PacketLength ==
    ASSUME NEW origin \in Seq(Byte), Len(origin) = OriginSize, NEW flags \in Byte,
           NEW seq \in 0 .. Span(2) - 1, NEW thing \in 0 .. Span(2) - 1,
           NEW id \in Byte, NEW action \in Byte, NEW payload \in Seq(Nat)
    PROVE  Len(BuildPacket([origin |-> origin, flags |-> flags, seq |-> seq,
                            thing |-> thing, id |-> id, action |-> action,
                            payload |-> payload])) = HeaderSize + Len(payload)
BY PacketSurvives

(* The receiver takes a call's datagram for that call and nothing else.     *)
LEMMA CallIsRead ==
    ASSUME NEW c, IsCall(c)
    PROVE  Read(BuildPacket([c EXCEPT !.payload = Encode(c.payload)]))
             = {[what |-> Outlet(c), call |-> c]}
<1> DEFINE d == [c EXCEPT !.payload = Encode(c.payload)]
           bytes == BuildPacket(d)
<1>1. /\ c \in [origin : Seq(Byte), flags : Byte, seq : 0 .. Span(2) - 1,
                thing : 0 .. Span(2) - 1, id : Byte, action : Byte, payload : {c.payload}]
      /\ Len(c.origin) = OriginSize /\ IsPayload(c.payload) /\ ~IsAck(c)
      /\ IsControl(c) => c.action = ActionSerial /\ c.payload.type = "BYTES"
  BY DEF IsCall
<1>2. Encode(c.payload) \in Seq(Nat) /\ Decode(Encode(c.payload)) = {c.payload}
  BY <1>1, PayloadSurvives
<1>3. d = [origin |-> c.origin, flags |-> c.flags, seq |-> c.seq, thing |-> c.thing,
           id |-> c.id, action |-> c.action, payload |-> Encode(c.payload)]
  BY <1>1
<1>4. ParsePacket(bytes) = {d}
  <2>1. /\ c.origin \in Seq(Byte) /\ c.flags \in Byte /\ c.seq \in 0 .. Span(2) - 1
        /\ c.thing \in 0 .. Span(2) - 1 /\ c.id \in Byte /\ c.action \in Byte
    BY <1>1
  <2>2. ParsePacket(BuildPacket([origin |-> c.origin, flags |-> c.flags, seq |-> c.seq,
                                 thing |-> c.thing, id |-> c.id, action |-> c.action,
                                 payload |-> Encode(c.payload)]))
          = {[origin |-> c.origin, flags |-> c.flags, seq |-> c.seq, thing |-> c.thing,
              id |-> c.id, action |-> c.action, payload |-> Encode(c.payload)]}
    BY <1>1, <1>2, <2>1, PacketSurvives
  <2>3. QED
    BY <1>3, <2>2, Zenon
<1>5. /\ ~IsRouting(d) /\ ~IsAck(d) /\ d.payload = Encode(c.payload)
      /\ Outlet(d) = Outlet(c) /\ IsTaken(d, c.payload)
  <2>1. /\ d.flags = c.flags /\ d.thing = c.thing /\ d.id = c.id /\ d.action = c.action
        /\ d.payload = Encode(c.payload)
    BY <1>3
  <2>2. ActionSerial # ActionRouting
    BY Maxima DEF ActionSerial, ActionRouting
  <2> HIDE DEF d
  <2>3. IsControl(d) <=> IsControl(c)
    BY <2>1 DEF IsControl
  <2>4. ~IsAck(d)
    BY <1>1, <2>1 DEF IsAck
  <2>5. ~IsRouting(d)
    BY <1>1, <2>1, <2>2, <2>3 DEF IsRouting
  <2>6. IsTaken(d, c.payload) /\ Outlet(d) = Outlet(c)
    BY <1>1, <2>1, <2>3 DEF IsTaken, Outlet
  <2>7. QED
    BY <2>1, <2>4, <2>5, <2>6
<1>6. [d EXCEPT !.payload = c.payload] = c
  BY <1>1, <1>3
<1> HIDE DEF d, bytes
<1>12. Handled(bytes) = {d}
  BY <1>4, <1>5, Zenon DEF Handled
<1>7. {q \in Handled(bytes) : IsRouting(q)} = {}
  BY <1>5, <1>12, Zenon
<1>8. {q \in Handled(bytes) : ~IsRouting(q)} = {d}
  BY <1>5, <1>12, Zenon
<1>9. TablesIn(bytes) = {}
  BY <1>7 DEF TablesIn
<1>10. MessagesIn(bytes) = {[what |-> Outlet(c), call |-> c]}
  <2>0. {y \in Decode(d.payload) : IsTaken(d, y)} = {c.payload}
    BY <1>2, <1>5, Zenon
  <2>1. {[what |-> Outlet(d), call |-> [d EXCEPT !.payload = x]] :
           x \in {y \in Decode(d.payload) : IsTaken(d, y)}}
          = {[what |-> Outlet(c), call |-> c]}
    BY <1>5, <1>6, <2>0
  <2>2. QED
    BY <1>8, <2>1 DEF MessagesIn
<1>11. QED
  BY <1>9, <1>10 DEF Read, bytes, d

(* The three bytes of a thing tell the thing and its instance.              *)
LEMMA ThingKept ==
    ASSUME NEW entry \in Thing \X Byte
    PROVE  /\ ThingBytes(entry) \in Seq(Nat) /\ Len(ThingBytes(entry)) = 3
           /\ <<Joined(<<ThingBytes(entry)[1], ThingBytes(entry)[2]>>), ThingBytes(entry)[3]>>
                = entry
<1> DEFINE b == BytesOf(entry[1], 2)
           t == <<entry[2]>>
<1>1. entry[1] \in 0 .. Span(2) - 1 /\ entry[2] \in Nat /\ entry = <<entry[1], entry[2]>>
  BY BaseAssumption DEF Thing, MaxThing, Byte, MaxByte, Span
<1>2. /\ b \in Seq(Nat) /\ Len(b) = 2
      /\ Joined(<<b[1], b[2]>>) = entry[1]
  BY <1>1, TwoBytes
<1> HIDE DEF b
<1>3. t \in Seq(Nat) /\ Len(t) = 1 /\ t[1] = entry[2]
  BY <1>1
<1> HIDE DEF t
<1>4. /\ b \o t \in Seq(Nat) /\ Len(b \o t) = Len(b) + Len(t)
      /\ \A i \in 1 .. Len(b) : (b \o t)[i] = b[i]
      /\ \A i \in 1 .. Len(t) : (b \o t)[Len(b) + i] = t[i]
  BY <1>2, <1>3, Extend
<1>5. /\ (b \o t)[1] = b[1] /\ (b \o t)[2] = b[2] /\ (b \o t)[3] = t[1]
      /\ Len(b \o t) = 3
  BY <1>2, <1>3, <1>4
<1>6. ThingBytes(entry) = b \o t
  BY DEF ThingBytes, b, t
<1>7. QED
  BY <1>1, <1>2, <1>3, <1>4, <1>5, <1>6, Zenon

(* Where the bytes of the things of a table stand.                          *)
LEMMA TableBytesAre ==
    ASSUME NEW table \in Seq(Thing \X Byte)
    PROVE  /\ TableBytes(table) \in Seq(Nat)
           /\ Len(TableBytes(table)) = 3 * Len(table) + 1
           /\ TableBytes(table)[1] = AnnounceTable
           /\ \A i \in 1 .. Len(table) :
                /\ TableBytes(table)[3 * i - 1] = ThingBytes(table[i])[1]
                /\ TableBytes(table)[3 * i] = ThingBytes(table[i])[2]
                /\ TableBytes(table)[3 * i + 1] = ThingBytes(table[i])[3]
<1> DEFINE n == Len(table)
           body == [k \in 1 .. 3 * n |-> ThingBytes(table[(k + 2) \div 3])[((k - 1) % 3) + 1]]
           type == <<AnnounceTable>>
<1>1. n \in Nat
  OBVIOUS
<1>2. \A i \in 1 .. n : ThingBytes(table[i]) \in Seq(Nat) /\ Len(ThingBytes(table[i])) = 3
  <2>1. \A i \in 1 .. n : table[i] \in Thing \X Byte
    BY ElementOfSeq
  <2>2. QED
    BY <2>1, ThingKept
<1> HIDE DEF n
<1>3. \A k \in 1 .. 3 * n : body[k] \in Nat
  <2> SUFFICES ASSUME NEW k \in 1 .. 3 * n
               PROVE  ThingBytes(table[(k + 2) \div 3])[((k - 1) % 3) + 1] \in Nat
    OBVIOUS
  <2>1. (k + 2) \div 3 \in 1 .. n /\ ((k - 1) % 3) + 1 \in 1 .. 3
    BY <1>1
  <2> DEFINE i == (k + 2) \div 3
             j == ((k - 1) % 3) + 1
  <2> HIDE DEF i, j
  <2>2. i \in 1 .. n /\ j \in 1 .. 3
    BY <2>1 DEF i, j
  <2>3. ThingBytes(table[i])[j] \in Nat
    BY <1>2, <2>2, ElementOfSeq
  <2>4. QED
    BY <2>3 DEF i, j
<1>4. body \in Seq(Nat) /\ Len(body) = 3 * n
  BY <1>1, <1>3
<1>5. type \in Seq(Nat) /\ Len(type) = 1 /\ type[1] = AnnounceTable
  BY DEF AnnounceTable
<1>6. ASSUME NEW i \in 1 .. n
      PROVE  /\ body[3 * i - 2] = ThingBytes(table[i])[1]
             /\ body[3 * i - 1] = ThingBytes(table[i])[2]
             /\ body[3 * i] = ThingBytes(table[i])[3]
  <2>1. /\ 3 * i - 2 \in 1 .. 3 * n /\ 3 * i - 1 \in 1 .. 3 * n /\ 3 * i \in 1 .. 3 * n
    BY <1>1
  <2>2. /\ (3 * i - 2 + 2) \div 3 = i /\ ((3 * i - 2 - 1) % 3) + 1 = 1
        /\ (3 * i - 1 + 2) \div 3 = i /\ ((3 * i - 1 - 1) % 3) + 1 = 2
        /\ (3 * i + 2) \div 3 = i /\ ((3 * i - 1) % 3) + 1 = 3
    BY <1>1
  <2>3. QED
    BY <2>1, <2>2, Zenon
<1> HIDE DEF body, type
<1>7. /\ type \o body \in Seq(Nat) /\ Len(type \o body) = Len(type) + Len(body)
      /\ \A k \in 1 .. Len(type) : (type \o body)[k] = type[k]
      /\ \A k \in 1 .. Len(body) : (type \o body)[Len(type) + k] = body[k]
  BY <1>4, <1>5, Extend
<1>8. TableBytes(table) = type \o body
  BY DEF TableBytes, type, body, n
<1> DEFINE all == TableBytes(table)
<1>9. /\ all \in Seq(Nat) /\ Len(all) = 3 * n + 1 /\ all[1] = AnnounceTable
      /\ \A k \in 1 .. 3 * n : all[1 + k] = body[k]
  <2>1. all = type \o body
    BY <1>8
  <2> HIDE DEF all
  <2>2. all \in Seq(Nat) /\ Len(all) = 3 * n + 1
    BY <1>1, <1>4, <1>5, <1>7, <2>1
  <2>3. all[1] = type[1]
    BY <1>5, <1>7, <2>1
  <2>4. \A k \in 1 .. 3 * n : all[1 + k] = body[k]
    BY <1>4, <1>5, <1>7, <2>1
  <2>5. QED
    BY <1>5, <2>2, <2>3, <2>4
<1> HIDE DEF all
<1>10. ASSUME NEW i \in 1 .. n
       PROVE  /\ all[3 * i - 1] = ThingBytes(table[i])[1]
              /\ all[3 * i] = ThingBytes(table[i])[2]
              /\ all[3 * i + 1] = ThingBytes(table[i])[3]
  <2>1. /\ 3 * i - 2 \in 1 .. 3 * n /\ 3 * i - 1 \in 1 .. 3 * n /\ 3 * i \in 1 .. 3 * n
        /\ 1 + (3 * i - 2) = 3 * i - 1 /\ 1 + (3 * i - 1) = 3 * i /\ 1 + (3 * i) = 3 * i + 1
    BY <1>1
  <2>2. all[1 + (3 * i - 2)] = body[3 * i - 2] /\ all[1 + (3 * i - 1)] = body[3 * i - 1]
        /\ all[1 + (3 * i)] = body[3 * i]
    BY <1>9, <2>1
  <2>3. QED
    BY <1>6, <2>1, <2>2
<1>11. QED
  BY <1>9, <1>10 DEF all, n

(* The leader reads the things of a table from its bytes, and no others.    *)
LEMMA TableSurvives ==
    ASSUME NEW table \in Seq(Thing \X Byte)
    PROVE  Announced(TableBytes(table)) = ToSet(table)
<1> DEFINE n == Len(table)
           p == TableBytes(table)
           Read3(k) == <<Joined(<<p[k], p[k + 1]>>), p[k + 2]>>
<1>1. n \in Nat /\ DOMAIN table = 1 .. n
  OBVIOUS
<1>2. /\ p \in Seq(Nat) /\ Len(p) = 3 * n + 1 /\ p[1] = AnnounceTable
      /\ \A i \in 1 .. n : /\ p[3 * i - 1] = ThingBytes(table[i])[1]
                           /\ p[3 * i] = ThingBytes(table[i])[2]
                           /\ p[3 * i + 1] = ThingBytes(table[i])[3]
  BY TableBytesAre
<1>3. \A i \in 1 .. n :
        <<Joined(<<ThingBytes(table[i])[1], ThingBytes(table[i])[2]>>), ThingBytes(table[i])[3]>>
          = table[i]
  BY ThingKept
<1> HIDE DEF n, p
<1>4. p # <<>> /\ Whole(p)
  BY <1>1, <1>2 DEF Whole
<1>5. ASSUME NEW i \in 1 .. n
      PROVE  Read3(3 * i - 1) = table[i]
  <2>1. 3 * i - 1 + 1 = 3 * i /\ 3 * i - 1 + 2 = 3 * i + 1
    BY <1>1
  <2>2. QED
    BY <1>2, <1>3, <2>1, Zenon
<1>6. Announced(p) = {Read3(k) : k \in Entries(p)}
  BY <1>2, <1>4, Zenon DEF Announced
<1>7. \A i \in 1 .. n : 3 * i - 1 \in Entries(p)
  BY <1>1, <1>2 DEF Entries
<1>8. \A k \in Entries(p) : \E i \in 1 .. n : k = 3 * i - 1
  <2> SUFFICES ASSUME NEW k \in Entries(p) PROVE \E i \in 1 .. n : k = 3 * i - 1
    OBVIOUS
  <2>1. k \in 2 .. 3 * n - 1 /\ k % 3 = 2
    BY <1>1, <1>2 DEF Entries
  <2>2. (k + 1) \div 3 \in 1 .. n /\ k = 3 * ((k + 1) \div 3) - 1
    BY <1>1, <2>1
  <2>3. QED
    BY <2>2
<1> HIDE DEF Read3
<1>9. {Read3(k) : k \in Entries(p)} = {table[i] : i \in 1 .. n}
  <2>1. \A k \in Entries(p) : \E i \in 1 .. n : Read3(k) = table[i]
    BY <1>5, <1>8
  <2>2. \A i \in 1 .. n : \E k \in Entries(p) : Read3(k) = table[i]
    BY <1>5, <1>7
  <2>3. QED
    BY <2>1, <2>2
<1>10. QED
  BY <1>1, <1>6, <1>9 DEF ToSet, p

\* What the header of a packet is made of.
IsHeader(c) ==
    /\ c \in [origin : Seq(Byte), flags : Byte, seq : 0 .. Span(2) - 1,
               thing : 0 .. Span(2) - 1, id : Byte, action : Byte, payload : {c.payload}]
    /\ Len(c.origin) = OriginSize
    /\ ~IsAck(c)

\* The datagram under way is the announcement of this table.
Carries(bytes, table) ==
    /\ Read(bytes) = {[what |-> "table", things |-> ToSet(table)]}
    /\ Announces(bytes, ToSet(table))

(* The leader takes an announcement for its things and nothing else.        *)
LEMMA TableIsRead ==
    ASSUME NEW c, IsHeader(c), NEW table \in Seq(Thing \X Byte)
    PROVE  Carries(BuildPacket([c EXCEPT !.thing = LeaderThing, !.id = LeaderId,
                                         !.action = ActionRouting,
                                         !.payload = TableBytes(table)]),
                   table)
<1> DEFINE p == TableBytes(table)
           d == [c EXCEPT !.thing = LeaderThing, !.id = LeaderId,
                          !.action = ActionRouting, !.payload = p]
           e == [origin |-> c.origin, flags |-> c.flags, seq |-> c.seq, thing |-> LeaderThing,
                 id |-> LeaderId, action |-> ActionRouting, payload |-> p]
           bytes == BuildPacket(d)
<1>1. /\ c.origin \in Seq(Byte) /\ Len(c.origin) = OriginSize
      /\ c.flags \in Byte /\ c.seq \in 0 .. Span(2) - 1 /\ ~IsAck(c)
  BY DEF IsHeader
<1>2. LeaderThing \in 0 .. Span(2) - 1 /\ LeaderId \in Byte /\ ActionRouting \in Byte
  <2>1. Base \in Nat /\ Base > 1 /\ Base * Base \in Nat /\ Base * Base > 1
    BY BaseAssumption
  <2>2. QED
    BY <2>1 DEF LeaderThing, LeaderId, ActionRouting, MaxThing, MaxByte, Byte, Span
<1>3. p \in Seq(Nat) /\ Len(p) = 3 * Len(table) + 1 /\ Announced(p) = ToSet(table)
  BY TableBytesAre, TableSurvives
<1> HIDE DEF p
<1>4. d = e
  <2> DEFINE c1 == [c EXCEPT !.thing = LeaderThing]
             c2 == [c1 EXCEPT !.id = LeaderId]
             c3 == [c2 EXCEPT !.action = ActionRouting]
  <2>1. c1 = [origin |-> c.origin, flags |-> c.flags, seq |-> c.seq, thing |-> LeaderThing,
              id |-> c.id, action |-> c.action, payload |-> c.payload]
    BY DEF IsHeader
  <2> HIDE DEF c1
  <2>2. c2 = [origin |-> c.origin, flags |-> c.flags, seq |-> c.seq, thing |-> LeaderThing,
              id |-> LeaderId, action |-> c.action, payload |-> c.payload]
    BY <2>1
  <2> HIDE DEF c2
  <2>3. c3 = [origin |-> c.origin, flags |-> c.flags, seq |-> c.seq, thing |-> LeaderThing,
              id |-> LeaderId, action |-> ActionRouting, payload |-> c.payload]
    BY <2>2
  <2> HIDE DEF c3
  <2>4. [c3 EXCEPT !.payload = p] = e
    BY <2>3
  <2>5. d = [[[[c EXCEPT !.thing = LeaderThing] EXCEPT !.id = LeaderId]
                EXCEPT !.action = ActionRouting] EXCEPT !.payload = p]
    OBVIOUS
  <2>6. QED
    BY <2>4, <2>5, Zenon DEF c3, c2, c1
<1>5. ParsePacket(BuildPacket(e)) = {e}
  <2> DEFINE g == [origin |-> c.origin, flags |-> c.flags, seq |-> c.seq,
                    thing |-> LeaderThing, id |-> LeaderId, action |-> ActionRouting,
                    payload |-> p]
  <2>1. ParsePacket(BuildPacket(g)) = {g}
    BY <1>1, <1>2, <1>3, PacketSurvives, SMTT(40)
  <2>2. QED
    BY <2>1, Zenon
<1>6. ParsePacket(bytes) = {e} /\ bytes = BuildPacket(e)
  BY <1>4, <1>5, Zenon
<1>7. e.payload = p /\ IsRouting(e) /\ ~IsAck(e)
  BY <1>1 DEF IsRouting, IsControl, IsAck
<1> HIDE DEF d, e, bytes
<1>14. Handled(bytes) = {e}
  BY <1>6, <1>7, Zenon DEF Handled
<1>8. Announces(bytes, ToSet(table))
  <2>1. (Len(p) - 1) \div 3 = Len(table)
    <3>1. Len(table) \in Nat
      OBVIOUS
    <3>2. QED
      BY <1>3, <3>1
  <2>2. table \in [1 .. Len(table) -> ToSet(table)]
    BY DEF ToSet
  <2>3. e \in ParsePacket(bytes)
    BY <1>6
  <2>4. e.payload = TableBytes(table)
    BY <1>7 DEF p
  <2>5. table \in [1 .. (Len(e.payload) - 1) \div 3 -> ToSet(table)]
    BY <1>7, <2>1, <2>2
  <2>6. QED
    BY <1>6, <1>7, <2>3, <2>4, <2>5 DEF Announces
<1>9. TablesIn(bytes) = {[what |-> "table", things |-> ToSet(table)]}
  <2>1. {q \in Handled(bytes) : IsRouting(q)} = {e}
    BY <1>14, <1>7, Zenon
  <2>2. QED
    BY <1>3, <1>7, <2>1 DEF TablesIn
<1>10. MessagesIn(bytes) = {}
  <2>1. {q \in Handled(bytes) : ~IsRouting(q)} = {}
    BY <1>14, <1>7, Zenon
  <2>2. QED
    BY <2>1 DEF MessagesIn
<1>12. Carries(bytes, table)
  BY <1>8, <1>9, <1>10 DEF Carries, Read
<1>13. QED
  BY <1>12 DEF bytes, d, p

(* A last digit is taken off a number by a shift.                           *)
LEMMA DigitOff ==
    ASSUME NEW x \in Nat, NEW digit \in Byte
    PROVE  /\ x * Base + digit \in Nat
           /\ (x * Base + digit) \div Base = x
           /\ (x * Base + digit) % Base = digit
<1>1. Base \in Nat /\ Base > 1 /\ digit \in Nat /\ digit < Base
  BY BaseAssumption DEF Byte, MaxByte
<1> DEFINE y == x * Base + digit
           q == y \div Base
           r == y % Base
<1>2. y \in Nat
  BY <1>1
<1>3. q \in Nat /\ r \in 0 .. Base - 1 /\ q * Base + r = y
  BY <1>2, LastDigit
<1> HIDE DEF q, r
<1>4. q = x
  <2>1. CASE q >= x + 1
    <3>1. q * Base >= (x + 1) * Base
      BY <1>1, <1>3, <2>1
    <3>2. (x + 1) * Base = x * Base + Base
      BY <1>1
    <3>3. QED
      BY <1>1, <1>3, <3>1, <3>2
  <2>2. CASE x >= q + 1
    <3>1. x * Base >= (q + 1) * Base
      BY <1>1, <1>3, <2>2
    <3>2. (q + 1) * Base = q * Base + Base
      BY <1>1, <1>3
    <3>3. QED
      BY <1>1, <1>3, <3>1, <3>2
  <2>3. QED
    BY <1>3, <2>1, <2>2
<1>5. r = digit
  BY <1>1, <1>3, <1>4
<1>6. QED
  BY <1>2, <1>4, <1>5 DEF q, r

(* Bytes that were joined to a number are the bytes of that number.         *)
LEMMA BytesOfJoined ==
    ASSUME NEW width \in {1, 2, 4}, NEW bytes \in Seq(Byte), Len(bytes) = width
    PROVE  /\ Joined(bytes) \in Nat /\ Joined(bytes) < Span(width)
           /\ BytesOf(Joined(bytes), width) = bytes
<1>1. Base \in Nat /\ Base > 1 /\ \A i \in 1 .. width : bytes[i] \in Byte
  BY BaseAssumption, ElementOfSeq
<1>2. \A b \in Byte : b \in Nat /\ b < Base
  BY <1>1 DEF Byte, MaxByte
<1>3. ASSUME NEW s \in Seq(Nat), Len(s) = width, \A i \in 1 .. width : s[i] = bytes[i]
      PROVE  s = bytes
  <2>1. bytes \in Seq(Nat)
    BY <1>2
  <2>2. QED
    BY <1>3, <2>1, SeqEqual
<1>4. ASSUME NEW x \in Nat, x < Span(width),
             \A i \in 1 .. width : Shifted(x, width - i) % Base = bytes[i]
      PROVE  BytesOf(x, width) = bytes
  <2>1. BytesOf(x, width) \in Seq(Nat) /\ Len(BytesOf(x, width)) = width
    BY <1>4, JoinedBytes
  <2>2. \A i \in 1 .. width : BytesOf(x, width)[i] = bytes[i]
    BY <1>4 DEF BytesOf
  <2>3. QED
    BY <1>3, <2>1, <2>2
<1>5. CASE width = 1
  <2>1. Joined(bytes) = bytes[1] /\ bytes[1] \in Nat /\ bytes[1] < Base
    BY <1>1, <1>2, <1>5 DEF Joined
  <2>2. bytes[1] % Base = bytes[1] /\ Shifted(bytes[1], 0) = bytes[1]
    BY <1>1, <2>1 DEF Shifted
  <2>3. \A i \in 1 .. width : Shifted(bytes[1], width - i) % Base = bytes[i]
    BY <1>5, <2>2
  <2>4. QED
    BY <1>4, <1>5, <2>1, <2>3 DEF Span
<1>6. CASE width = 2
  <2> DEFINE x == bytes[1] * Base + bytes[2]
  <2>1. bytes[1] \in Byte /\ bytes[2] \in Byte /\ bytes[1] \in Nat /\ bytes[1] < Base
    BY <1>1, <1>2, <1>6
  <2>2. x \in Nat /\ x \div Base = bytes[1] /\ x % Base = bytes[2]
    BY <2>1, DigitOff
  <2>3. x < Base * Base
    <3>1. (bytes[1] + 1) * Base <= Base * Base /\ (bytes[1] + 1) * Base = bytes[1] * Base + Base
      BY <1>1, <2>1
    <3>2. bytes[2] \in Nat /\ bytes[2] < Base
      BY <1>2, <2>1
    <3>3. QED
      BY <1>1, <2>1, <3>1, <3>2
  <2>4. Joined(bytes) = x
    BY <1>6 DEF Joined
  <2> HIDE DEF x
  <2>5. Shifted(x, 0) = x /\ Shifted(x, 1) = x \div Base /\ bytes[1] % Base = bytes[1]
    BY <1>1, <2>1 DEF Shifted
  <2>6. \A i \in 1 .. width : Shifted(x, width - i) % Base = bytes[i]
    BY <1>6, <2>2, <2>5
  <2>7. x < Span(width)
    BY <1>6, <2>3 DEF Span
  <2>8. QED
    BY <1>4, <2>2, <2>4, <2>6, <2>7
<1>7. CASE width = 4
  <2> DEFINE x2 == bytes[1] * Base + bytes[2]
             x3 == x2 * Base + bytes[3]
             x == x3 * Base + bytes[4]
  <2>1. /\ bytes[1] \in Byte /\ bytes[2] \in Byte /\ bytes[3] \in Byte /\ bytes[4] \in Byte
        /\ bytes[1] \in Nat /\ bytes[1] < Base
    BY <1>1, <1>2, <1>7
  <2>2. x2 \in Nat /\ x2 \div Base = bytes[1] /\ x2 % Base = bytes[2]
    BY <2>1, DigitOff
  <2>3. x3 \in Nat /\ x3 \div Base = x2 /\ x3 % Base = bytes[3]
    BY <2>1, <2>2, DigitOff
  <2>4. x \in Nat /\ x \div Base = x3 /\ x % Base = bytes[4]
    BY <2>1, <2>3, DigitOff
  <2>5. Joined(bytes) = x
    BY <1>7 DEF Joined
  <2>6. x < Span(width)
    <3>1. ASSUME NEW m \in Nat, NEW n \in Nat, NEW b \in Byte, m < n
          PROVE  m * Base + b < n * Base
      <4>1. (m + 1) * Base <= n * Base /\ (m + 1) * Base = m * Base + Base
        BY <1>1, <3>1
      <4>2. b \in Nat /\ b < Base
        BY <1>2
      <4>3. QED
        BY <1>1, <4>1, <4>2
    <3>2. Base * Base \in Nat /\ (Base * Base) * Base \in Nat
      BY <1>1
    <3>3. x2 < Base * Base
      BY <1>1, <2>1, <3>1
    <3> HIDE DEF x2
    <3>4. x3 < (Base * Base) * Base
      BY <2>1, <2>2, <3>1, <3>2, <3>3
    <3> HIDE DEF x3
    <3>5. x < ((Base * Base) * Base) * Base
      BY <2>1, <2>3, <3>1, <3>2, <3>4
    <3> HIDE DEF x
    <3>6. ((Base * Base) * Base) * Base = (Base * Base) * (Base * Base)
      BY <1>1
    <3>7. QED
      BY <1>7, <3>5, <3>6 DEF Span
  <2> HIDE DEF x, x2, x3
  <2>7. /\ Shifted(x, 0) = x /\ Shifted(x, 1) = x3 /\ Shifted(x, 2) = x2
        /\ Shifted(x, 3) = bytes[1]
    BY <2>2, <2>3, <2>4 DEF Shifted
  <2>8. bytes[1] % Base = bytes[1]
    BY <1>1, <2>1
  <2>9. \A i \in 1 .. width : Shifted(x, width - i) % Base = bytes[i]
    BY <1>7, <2>2, <2>3, <2>4, <2>7, <2>8
  <2>10. QED
    BY <1>4, <2>4, <2>5, <2>6, <2>9
<1>8. QED
  BY <1>5, <1>6, <1>7

(* A number read as a signed one is written as it was.                      *)
LEMMA SignRestored ==
    ASSUME NEW width \in {1, 2, 4}, NEW x \in Nat, x < Span(width)
    PROVE  /\ ToUnsigned(FromUnsigned(x, width), width) = x
           /\ ToUnsigned(x, width) = x
<1> DEFINE span == Span(width)
<1>1. span \in Nat /\ span > 1 /\ span = 2 * (span \div 2)
  BY SpanEven
<1> HIDE DEF span
<1>2. x < span
  BY DEF span
<1>3. x % span = x /\ (x - span) % span = x
  BY <1>1, <1>2
<1>4. QED
  BY <1>1, <1>3 DEF ToUnsigned, FromUnsigned, span

(* There is one way to write what was decoded.                              *)
LEMMA EncodeDecoded ==
    ASSUME NEW type \in Type, NEW data \in Seq(Byte), NEW x \in DecodeAs(type, data)
    PROVE  Encode(x) = <<Code[type]>> \o data
<1>1. CASE type = "NONE"
  BY <1>1 DEF DecodeAs, Value, Encode
<1>2. CASE type = "BYTES"
  BY <1>2 DEF DecodeAs, Encode
<1>3. CASE type \in Scalar
  <2> DEFINE w == Width(type)
             n == Joined(data)
  <2>1. type \in {"BOOL", "UINT8", "UINT16", "UINT32", "INT8", "INT16", "INT32"}
    BY <1>3 DEF Scalar, Type, Code
  <2>2. w \in {1, 2, 4}
    BY <2>1, Zenon DEF Width
  <2>3. type \notin {"NONE", "BYTES"}
    BY <2>1
  <2> HIDE DEF w
  <2>4. Len(data) = w
    BY <2>3 DEF DecodeAs, Fits, w
  <2>5. SubSeq(data, 1, w) = data
    BY <2>4, SubSeqFull
  <2>6. n \in Nat /\ n < Span(w) /\ BytesOf(n, w) = data
    BY <2>2, <2>4, BytesOfJoined
  <2> HIDE DEF n
  <2>7. /\ x.type = type
        /\ x.value = n \/ x.value = FromUnsigned(n, w)
    <3>1. DecodeAs(type, data)
            = IF type \in Signed THEN Value(type, FromUnsigned(n, w))
              ELSE IF type = "BOOL" /\ n > 1 THEN {}
              ELSE Value(type, n)
      <4>1. Fits(type, data)
        BY <2>4 DEF Fits, w
      <4>2. QED
        BY <2>3, <2>5, <4>1 DEF DecodeAs, w, n
    <3>2. x \in Value(type, FromUnsigned(n, w)) \/ x \in Value(type, n)
      BY <3>1, Zenon
    <3>3. QED
      BY <3>2 DEF Value
  <2>8. ToUnsigned(x.value, w) = n
    BY <2>2, <2>6, <2>7, SignRestored
  <2>9. Encode(x) = <<Code[type]>> \o BytesOf(ToUnsigned(x.value, w), w)
    BY <2>3, <2>7 DEF Encode, w
  <2>10. QED
    BY <2>6, <2>8, <2>9
<1>4. QED
  BY <1>1, <1>2, <1>3 DEF Scalar

(* What decodePayload accepts is what encodeValuePayload makes of its       *)
(* result.                                                                  *)
LEMMA EncodeInvertsDecode ==
    ASSUME NEW encoded \in Seq(Nat), \A i \in 2 .. Len(encoded) : encoded[i] \in Byte,
           NEW x \in Decode(encoded)
    PROVE  Encode(x) = encoded
<1>1. encoded # <<>>
  BY DEF Decode
<1>2. PICK type \in Type : Code[type] = encoded[1] /\ x \in DecodeAs(type, Tail(encoded))
  BY <1>1 DEF Decode
<1>3. /\ Tail(encoded) \in Seq(Nat) /\ Len(Tail(encoded)) = Len(encoded) - 1
      /\ Len(encoded) \in Nat \ {0}
      /\ \A i \in 1 .. Len(Tail(encoded)) : Tail(encoded)[i] = encoded[i + 1]
  BY <1>1, HeadTailProperties, EmptySeq
<1> DEFINE data == Tail(encoded)
<1> HIDE DEF data
<1>4. /\ data \in Seq(Nat) /\ Len(data) = Len(encoded) - 1
      /\ \A i \in 1 .. Len(data) : data[i] = encoded[i + 1]
  BY <1>3 DEF data
<1>5. data \in Seq(Byte)
  <2>1. \A i \in 1 .. Len(data) : data[i] \in Byte
    BY <1>3, <1>4, SMTT(40)
  <2>2. QED
    BY <1>4, <2>1, SMTT(40)
<1>6. Encode(x) = <<encoded[1]>> \o data
  BY <1>2, <1>5, EncodeDecoded DEF data
<1>7. <<encoded[1]>> \o data = encoded
  <2> DEFINE all == <<encoded[1]>> \o data
             first == <<encoded[1]>>
  <2>1. first \in Seq(Nat) /\ Len(first) = 1 /\ first[1] = encoded[1]
    BY <1>3
  <2> HIDE DEF first
  <2>2. /\ all \in Seq(Nat) /\ Len(all) = Len(encoded) /\ all[1] = encoded[1]
        /\ \A i \in 1 .. Len(data) : all[i + 1] = data[i]
    <3>1. /\ first \o data \in Seq(Nat) /\ Len(first \o data) = Len(first) + Len(data)
          /\ \A i \in 1 .. Len(first) : (first \o data)[i] = first[i]
          /\ \A i \in 1 .. Len(data) : (first \o data)[Len(first) + i] = data[i]
      BY <1>4, <2>1, Extend
    <3>2. all = first \o data
      BY DEF first
    <3> HIDE DEF all
    <3>3. \A i \in 1 .. Len(data) : i + 1 = 1 + i
      BY <1>4
    <3>4. /\ all \in Seq(Nat) /\ Len(all) = 1 + Len(data) /\ all[1] = first[1]
          /\ \A i \in 1 .. Len(data) : all[1 + i] = data[i]
      BY <2>1, <3>1, <3>2, SMTT(40)
    <3>5. 1 + Len(data) = Len(encoded)
      BY <1>3, <1>4
    <3>6. QED
      BY <2>1, <3>3, <3>4, <3>5
  <2> HIDE DEF all
  <2>3. \A i \in 1 .. Len(encoded) : all[i] = encoded[i]
    <3> SUFFICES ASSUME NEW i \in 1 .. Len(encoded) PROVE all[i] = encoded[i]
      OBVIOUS
    <3>1. CASE i = 1
      BY <2>2, <3>1
    <3>2. CASE i # 1
      <4>1. i - 1 \in 1 .. Len(data) /\ (i - 1) + 1 = i
        BY <1>3, <1>4, <3>2
      <4>2. QED
        BY <1>4, <2>2, <4>1
    <3>3. QED
      BY <3>1, <3>2
  <2>4. all = encoded
    BY <2>2, <2>3, SeqEqual
  <2>5. QED
    BY <2>4 DEF all
<1>8. QED
  BY <1>6, <1>7

(* One element and two elements of a sequence are parts of it.              *)
LEMMA Parts ==
    ASSUME NEW s \in Seq(Nat), NEW i \in 1 .. Len(s)
    PROVE  /\ <<s[i]>> = SubSeq(s, i, i)
           /\ i + 1 <= Len(s) => <<s[i], s[i + 1]>> = SubSeq(s, i, i + 1)
<1>1. s[i] \in Nat /\ i \in Int
  BY ElementOfSeq
<1>2. <<s[i]>> = SubSeq(s, i, i)
  <2> DEFINE t == SubSeq(s, i, i)
  <2>1. \A k \in i .. i : s[k] \in Nat
    BY <1>1
  <2>2. /\ t \in Seq(Nat) /\ Len(t) = IF i <= i THEN i - i + 1 ELSE 0
        /\ \A k \in 1 .. i - i + 1 : t[k] = s[i + k - 1]
    BY <1>1, <2>1, SubSeqProperties
  <2> HIDE DEF t
  <2>3. Len(t) = 1 /\ t[1] = s[i]
    BY <1>1, <2>2
  <2>4. t = <<s[i]>>
    BY <1>1, <2>2, <2>3
  <2>5. QED
    BY <2>4 DEF t
<1>3. ASSUME i + 1 <= Len(s) PROVE <<s[i], s[i + 1]>> = SubSeq(s, i, i + 1)
  <2> DEFINE t == SubSeq(s, i, i + 1)
  <2>1. s[i + 1] \in Nat /\ \A k \in i .. i + 1 : s[k] \in Nat
    <3>1. \A k \in i .. i + 1 : k \in 1 .. Len(s)
      BY <1>1, <1>3
    <3>2. QED
      BY <1>1, <3>1, ElementOfSeq
  <2>2. i + 1 \in Int
    BY <1>1
  <2>3. /\ t \in Seq(Nat) /\ Len(t) = IF i <= i + 1 THEN i + 1 - i + 1 ELSE 0
        /\ \A k \in 1 .. i + 1 - i + 1 : t[k] = s[i + k - 1]
    BY <1>1, <2>1, <2>2, SubSeqProperties
  <2> HIDE DEF t
  <2>4. Len(t) = 2 /\ t[1] = s[i] /\ t[2] = s[i + 1]
    BY <1>1, <2>3
  <2>5. t = <<s[i], s[i + 1]>>
    BY <1>1, <2>1, <2>3, <2>4
  <2>6. QED
    BY <2>5 DEF t
<1>4. QED
  BY <1>2, <1>3

(* A word that was read from two bytes is written as these two.             *)
LEMMA WordRestored ==
    ASSUME NEW b1 \in Byte, NEW b2 \in Byte
    PROVE  /\ Joined(<<b1, b2>>) \in 0 .. Span(2) - 1
           /\ BytesOf(Joined(<<b1, b2>>), 2) = <<b1, b2>>
<1>1. <<b1, b2>> \in Seq(Byte) /\ Len(<<b1, b2>>) = 2
  OBVIOUS
<1>2. /\ Joined(<<b1, b2>>) \in Nat /\ Joined(<<b1, b2>>) < Span(2)
      /\ BytesOf(Joined(<<b1, b2>>), 2) = <<b1, b2>>
  BY <1>1, BytesOfJoined
<1>3. Span(2) \in Nat
  BY SpanEven
<1>4. QED
  BY <1>2, <1>3

(* A packet that was parsed is built as it was.                             *)
LEMMA PacketRestored ==
    ASSUME NEW bytes, IsDatagram(bytes), NEW p \in ParsePacket(bytes)
    PROVE  /\ BuildPacket(p) = bytes
           /\ Len(bytes) >= HeaderSize
           /\ p.payload = SubSeq(bytes, HeaderSize + 1, Len(bytes))
<1> DEFINE At(n) == bytes[1 + OriginSize + n]
           Part(m, n) == SubSeq(bytes, m, n)
<1>1. /\ Len(bytes) >= HeaderSize /\ bytes[1] = Version
      /\ p = [origin |-> SubSeq(bytes, 2, 1 + OriginSize),
              flags |-> At(1), seq |-> Joined(<<At(2), At(3)>>),
              thing |-> Joined(<<At(4), At(5)>>), id |-> At(6), action |-> At(7),
              payload |-> SubSeq(bytes, HeaderSize + 1, Len(bytes))]
  <2>1. ~(Len(bytes) < HeaderSize \/ bytes[1] # Version)
    BY DEF ParsePacket
  <2>2. Len(bytes) \in Nat /\ HeaderSize \in Nat
    BY OriginAssumption DEF HeaderSize, IsDatagram
  <2>3. QED
    <3>1. Len(bytes) >= HeaderSize /\ bytes[1] = Version
      BY <2>1, <2>2
    <3>2. QED
      BY <2>1, <3>1, Zenon DEF ParsePacket
<1> DEFINE O == OriginSize
           L == Len(bytes)
<1>2. O \in Nat /\ L \in Nat /\ HeaderSize = O + 8 /\ O + 8 <= L /\ bytes \in Seq(Nat)
  BY <1>1, OriginAssumption DEF HeaderSize, IsDatagram
<1> HIDE DEF L
<1>3. \A i \in 1 .. O + 8 : bytes[i] \in Byte
  <2>1. \A i \in 1 .. O + 8 : i \in DOMAIN bytes /\ i # HeaderSize + 1
    BY <1>2 DEF L
  <2>2. QED
    BY <2>1 DEF IsDatagram
<1>4. /\ 1 + O + 1 = O + 2 /\ 1 + O + 2 = O + 3 /\ 1 + O + 3 = O + 4 /\ 1 + O + 4 = O + 5
      /\ 1 + O + 5 = O + 6 /\ 1 + O + 6 = O + 7 /\ 1 + O + 7 = O + 8
      /\ O + 3 + 1 = O + 4 /\ O + 5 + 1 = O + 6 /\ O + 7 + 1 = O + 8 /\ 1 + O = O + 1
  BY <1>2
<1>5. /\ bytes[O + 3] \in Byte /\ bytes[O + 4] \in Byte
      /\ bytes[O + 5] \in Byte /\ bytes[O + 6] \in Byte
  BY <1>2, <1>3
<1>6. <<Version>> = Part(1, 1)
  BY <1>1, <1>2, Parts DEF L
<1>7. p.origin = Part(2, O + 1) /\ p.payload = Part(O + 9, L)
  <2>1. HeaderSize + 1 = O + 9
    BY <1>2
  <2>2. QED
    BY <1>1, <1>4, <2>1 DEF L
<1>8. <<p.flags>> = Part(O + 2, O + 2)
  <2>1. O + 2 \in 1 .. Len(bytes)
    BY <1>2 DEF L
  <2>2. p.flags = bytes[O + 2]
    BY <1>1, <1>4
  <2>3. QED
    BY <1>2, <2>1, <2>2, Parts
<1>9. BytesOf(p.seq, 2) = Part(O + 3, O + 4)
  <2>1. O + 3 \in 1 .. Len(bytes) /\ O + 4 <= Len(bytes)
    BY <1>2 DEF L
  <2>2. p.seq = Joined(<<bytes[O + 3], bytes[O + 4]>>)
    BY <1>1, <1>4
  <2>3. BytesOf(p.seq, 2) = <<bytes[O + 3], bytes[O + 4]>>
    BY <1>5, <2>2, WordRestored
  <2>4. <<bytes[O + 3], bytes[O + 3 + 1]>> = SubSeq(bytes, O + 3, O + 3 + 1)
    BY <1>2, <1>4, <2>1, Parts
  <2>5. QED
    BY <1>4, <2>3, <2>4, Zenon
<1>10. BytesOf(p.thing, 2) = Part(O + 5, O + 6)
  <2>1. O + 5 \in 1 .. Len(bytes) /\ O + 6 <= Len(bytes)
    BY <1>2 DEF L
  <2>2. p.thing = Joined(<<bytes[O + 5], bytes[O + 6]>>)
    BY <1>1, <1>4
  <2>3. BytesOf(p.thing, 2) = <<bytes[O + 5], bytes[O + 6]>>
    BY <1>5, <2>2, WordRestored
  <2>4. <<bytes[O + 5], bytes[O + 5 + 1]>> = SubSeq(bytes, O + 5, O + 5 + 1)
    BY <1>2, <1>4, <2>1, Parts
  <2>5. QED
    BY <1>4, <2>3, <2>4, Zenon
<1>11. <<p.id, p.action>> = Part(O + 7, O + 8)
  <2>1. O + 7 \in 1 .. Len(bytes) /\ O + 8 <= Len(bytes)
    BY <1>2 DEF L
  <2>2. p.id = bytes[O + 7] /\ p.action = bytes[O + 8]
    BY <1>1, <1>4
  <2>3. <<bytes[O + 7], bytes[O + 7 + 1]>> = SubSeq(bytes, O + 7, O + 7 + 1)
    BY <1>2, <1>4, <2>1, Parts
  <2>4. QED
    BY <1>4, <2>2, <2>3, Zenon
<1>12. ASSUME NEW k \in 0 .. L, NEW n \in k .. L
       PROVE  Part(1, k) \o Part(k + 1, n) = Part(1, n)
  <2>1. 1 \in 1 .. Len(bytes) + 1 /\ k \in 1 - 1 .. Len(bytes) /\ n \in k .. Len(bytes)
    BY <1>2 DEF L
  <2>2. QED
    BY <1>2, <2>1, ConcatAdjacentSubSeq
<1>13. /\ Part(1, 1) \o Part(2, O + 1) = Part(1, O + 1)
       /\ Part(1, O + 1) \o Part(O + 2, O + 2) = Part(1, O + 2)
       /\ Part(1, O + 2) \o Part(O + 3, O + 4) = Part(1, O + 4)
       /\ Part(1, O + 4) \o Part(O + 5, O + 6) = Part(1, O + 6)
       /\ Part(1, O + 6) \o Part(O + 7, O + 8) = Part(1, O + 8)
       /\ Part(1, O + 8) \o Part(O + 9, L) = Part(1, L)
  <2> HIDE DEF Part
  <2>1. /\ 1 \in 0 .. L /\ O + 1 \in 1 .. L /\ O + 1 \in 0 .. L /\ O + 2 \in O + 1 .. L
        /\ O + 2 \in 0 .. L /\ O + 4 \in O + 2 .. L /\ O + 4 \in 0 .. L /\ O + 6 \in O + 4 .. L
        /\ O + 6 \in 0 .. L /\ O + 8 \in O + 6 .. L /\ O + 8 \in 0 .. L /\ L \in O + 8 .. L
    BY <1>2
  <2>2. /\ 1 + 1 = 2 /\ O + 1 + 1 = O + 2 /\ O + 2 + 1 = O + 3
        /\ O + 4 + 1 = O + 5 /\ O + 6 + 1 = O + 7 /\ O + 8 + 1 = O + 9
    BY <1>2
  <2>3. QED
    BY <1>12, <2>1, <2>2, ZenonT(60)
<1>14. Part(1, L) = bytes
  BY <1>2, SubSeqFull DEF L
<1> HIDE DEF Part
<1>15. BuildPacket(p) = bytes
  BY <1>6, <1>7, <1>8, <1>9, <1>10, <1>11, <1>13, <1>14, Zenon DEF BuildPacket
<1>16. p.payload = SubSeq(bytes, HeaderSize + 1, Len(bytes))
  BY <1>1
<1>17. QED
  BY <1>1, <1>15, <1>16

(* The payload that a table was read from is the announcement of its things. *)
LEMMA TableRestored ==
    ASSUME NEW p \in Seq(Nat), \A i \in 2 .. Len(p) : p[i] \in Byte, Announced(p) # {}
    PROVE  \E table \in [1 .. (Len(p) - 1) \div 3 -> Announced(p)] : p = TableBytes(table)
<1> DEFINE n == (Len(p) - 1) \div 3
           Entry(k) == <<Joined(<<p[k], p[k + 1]>>), p[k + 2]>>
           table == [i \in 1 .. n |-> Entry(3 * i - 1)]
<1>1. p # <<>> /\ p[1] = AnnounceTable /\ Whole(p)
  BY DEF Announced
<1>2. n \in Nat /\ Len(p) = 3 * n + 1
  <2>1. Len(p) \in Nat \ {0}
    BY <1>1, EmptySeq
  <2>2. QED
    BY <1>1, <2>1 DEF Whole
<1> HIDE DEF n
<1>3. Announced(p) = {Entry(k) : k \in Entries(p)}
  BY <1>1, Zenon DEF Announced
<1>4. ASSUME NEW i \in 1 .. n
      PROVE  /\ 3 * i - 1 \in Entries(p)
             /\ p[3 * i - 1] \in Byte /\ p[3 * i] \in Byte /\ p[3 * i + 1] \in Byte
             /\ Entry(3 * i - 1) = <<Joined(<<p[3 * i - 1], p[3 * i]>>), p[3 * i + 1]>>
  <2>1. 3 * i - 1 \in Entries(p)
    BY <1>2 DEF Entries
  <2>2. 3 * i - 1 \in 2 .. Len(p) /\ 3 * i \in 2 .. Len(p) /\ 3 * i + 1 \in 2 .. Len(p)
    BY <1>2
  <2>3. 3 * i - 1 + 1 = 3 * i /\ 3 * i - 1 + 2 = 3 * i + 1
    BY <1>2
  <2>4. QED
    BY <2>1, <2>2, <2>3, Zenon
<1> HIDE DEF Entry
<1>5. table \in [1 .. n -> Announced(p)]
  BY <1>3, <1>4
<1>6. ASSUME NEW i \in 1 .. n
      PROVE  /\ table[i] \in Thing \X Byte
             /\ ThingBytes(table[i])[1] = p[3 * i - 1]
             /\ ThingBytes(table[i])[2] = p[3 * i]
             /\ ThingBytes(table[i])[3] = p[3 * i + 1]
  <2> DEFINE b1 == p[3 * i - 1]
             b2 == p[3 * i]
             b3 == p[3 * i + 1]
  <2>1. b1 \in Byte /\ b2 \in Byte /\ b3 \in Byte /\ table[i] = <<Joined(<<b1, b2>>), b3>>
    BY <1>4
  <2> HIDE DEF b1, b2, b3
  <2>2. Joined(<<b1, b2>>) \in 0 .. Span(2) - 1 /\ BytesOf(Joined(<<b1, b2>>), 2) = <<b1, b2>>
    BY <2>1, WordRestored
  <2>3. Span(2) - 1 = MaxThing
    BY DEF Span, MaxThing
  <2>4. table[i] \in Thing \X Byte
    BY <2>1, <2>2, <2>3 DEF Thing
  <2> HIDE DEF table
  <2>5. ThingBytes(table[i]) = <<b1, b2>> \o <<b3>>
    <3>1. table[i][1] = Joined(<<b1, b2>>) /\ table[i][2] = b3
      BY <2>1
    <3>2. QED
      BY <2>2, <3>1 DEF ThingBytes
  <2> DEFINE s == <<b1, b2>>
             t == <<b3>>
  <2>6. /\ s \in Seq(Nat) /\ Len(s) = 2 /\ s[1] = b1 /\ s[2] = b2
        /\ t \in Seq(Nat) /\ Len(t) = 1 /\ t[1] = b3
    BY <2>1, BaseAssumption DEF Byte, MaxByte
  <2> HIDE DEF s, t
  <2>7. ThingBytes(table[i])[1] = b1 /\ ThingBytes(table[i])[2] = b2 /\ ThingBytes(table[i])[3] = b3
    <3>1. /\ \A k \in 1 .. Len(s) : (s \o t)[k] = s[k]
          /\ \A k \in 1 .. Len(t) : (s \o t)[Len(s) + k] = t[k]
      BY <2>6, Extend
    <3>2. (s \o t)[1] = b1 /\ (s \o t)[2] = b2 /\ (s \o t)[3] = b3
      <4>1. 1 \in 1 .. Len(s) /\ 2 \in 1 .. Len(s) /\ 1 \in 1 .. Len(t) /\ Len(s) + 1 = 3
        BY <2>6
      <4>2. (s \o t)[1] = s[1] /\ (s \o t)[2] = s[2] /\ (s \o t)[Len(s) + 1] = t[1]
        BY <3>1, <4>1, Zenon
      <4>3. QED
        BY <2>6, <4>1, <4>2, Zenon
    <3>3. ThingBytes(table[i]) = s \o t
      BY <2>5 DEF s, t
    <3>4. QED
      BY <3>2, <3>3
  <2>8. QED
    BY <2>4, <2>7 DEF b1, b2, b3
<1>7. table \in Seq(Thing \X Byte) /\ Len(table) = n
  BY <1>2, <1>6
<1> HIDE DEF table
<1> DEFINE q == TableBytes(table)
<1>8. /\ q \in Seq(Nat) /\ Len(q) = 3 * n + 1 /\ q[1] = AnnounceTable
      /\ \A i \in 1 .. n : /\ q[3 * i - 1] = p[3 * i - 1]
                           /\ q[3 * i] = p[3 * i]
                           /\ q[3 * i + 1] = p[3 * i + 1]
  BY <1>6, <1>7, TableBytesAre
<1> HIDE DEF q
<1>9. \A k \in 1 .. Len(p) : p[k] = q[k]
  <2> SUFFICES ASSUME NEW k \in 1 .. 3 * n + 1 PROVE p[k] = q[k]
    BY <1>2
  <2>1. CASE k = 1
    BY <1>1, <1>8, <2>1
  <2>2. CASE k # 1
    <3>1. PICK i \in 1 .. n : k = 3 * i - 1 \/ k = 3 * i \/ k = 3 * i + 1
      <4>1. (k + 1) \div 3 \in 1 .. n
        BY <1>2, <2>2
      <4>2. LET i == (k + 1) \div 3 IN k = 3 * i - 1 \/ k = 3 * i \/ k = 3 * i + 1
        BY <1>2, <2>2
      <4>3. QED
        BY <4>1, <4>2
    <3>2. QED
      BY <1>8, <3>1
  <2>3. QED
    BY <2>1, <2>2
<1>10. p = q
  BY <1>2, <1>8, <1>9, SeqEqual
<1>11. QED
  BY <1>5, <1>10 DEF q, n

\* There is one reading of these bytes, and it is g: one conjunct for each kind
\* of reading, as in OneReading.
ReadsBack(bytes, g) ==
    /\ g.what \in {"message", "serial"} =>
          /\ ~IsAck(g.call)
          /\ bytes = BuildPacket([g.call EXCEPT !.payload = Encode(g.call.payload)])
    /\ g.what = "table" /\ g.things # {} => Announces(bytes, g.things)

(* Whatever is read of a datagram, a device would have sent it in the same   *)
(* bytes.                                                                   *)
LEMMA ReadRestored ==
    ASSUME NEW bytes, IsDatagram(bytes), NEW g \in Read(bytes)
    PROVE  ReadsBack(bytes, g)
<1>1. \A p \in ParsePacket(bytes) :
        /\ BuildPacket(p) = bytes /\ Len(bytes) >= HeaderSize
        /\ p.payload = SubSeq(bytes, HeaderSize + 1, Len(bytes))
  BY PacketRestored
<1> DEFINE part == SubSeq(bytes, HeaderSize + 1, Len(bytes))
<1>2. Len(bytes) \in Nat /\ HeaderSize \in Nat /\ bytes \in Seq(Nat)
  BY OriginAssumption DEF HeaderSize, IsDatagram
<1>3. ASSUME Len(bytes) >= HeaderSize
      PROVE  /\ part \in Seq(Nat) /\ Len(part) = Len(bytes) - HeaderSize
             /\ \A i \in 2 .. Len(part) : part[i] \in Byte
  <2> DEFINE m == HeaderSize + 1
             n == Len(bytes)
  <2>1. m \in Int /\ n \in Int /\ \A k \in m .. n : bytes[k] \in Nat
    <3>1. \A k \in m .. n : k \in 1 .. Len(bytes)
      BY <1>2
    <3>2. QED
      BY <1>2, <3>1, ElementOfSeq
  <2> HIDE DEF m, n
  <2>2. /\ SubSeq(bytes, m, n) \in Seq(Nat)
        /\ Len(SubSeq(bytes, m, n)) = IF m <= n THEN n - m + 1 ELSE 0
        /\ \A i \in 1 .. n - m + 1 : SubSeq(bytes, m, n)[i] = bytes[m + i - 1]
    BY <2>1, SubSeqProperties
  <2>3. part = SubSeq(bytes, m, n)
    BY DEF m, n
  <2> HIDE DEF part
  <2>4. /\ part \in Seq(Nat) /\ Len(part) = Len(bytes) - HeaderSize
        /\ \A i \in 1 .. Len(part) : part[i] = bytes[HeaderSize + i]
    <3>1. n - m + 1 = Len(bytes) - HeaderSize /\ (m <= n \/ Len(bytes) - HeaderSize = 0)
      BY <1>2, <1>3 DEF m, n
    <3>2. \A i \in 1 .. Len(bytes) - HeaderSize : m + i - 1 = HeaderSize + i
      BY <1>2 DEF m
    <3>3. QED
      BY <1>2, <2>1, <2>2, <2>3, <3>1, <3>2
  <2>5. ASSUME NEW i \in 2 .. Len(part) PROVE part[i] \in Byte
    <3>1. HeaderSize + i \in DOMAIN bytes /\ HeaderSize + i # HeaderSize + 1
      BY <1>2, <1>3, <2>4
    <3>2. QED
      BY <2>4, <3>1 DEF IsDatagram
  <2>6. QED
    BY <2>4, <2>5
<1> HIDE DEF part
<1>4. ASSUME g \in TablesIn(bytes)
      PROVE  ReadsBack(bytes, g)
  <2>1. PICK p \in ParsePacket(bytes) :
          /\ IsRouting(p) /\ ~IsAck(p)
          /\ g = [what |-> "table", things |-> Announced(p.payload)]
    BY <1>4 DEF TablesIn, Handled
  <2>2. p.payload = part /\ Len(bytes) >= HeaderSize /\ bytes = BuildPacket(p)
    BY <1>1 DEF part
  <2>3. g.what = "table" /\ g.things = Announced(part)
    BY <2>1, <2>2
  <2>4. ASSUME Announced(part) # {}
        PROVE  Announces(bytes, Announced(part))
    <3>1. PICK table \in [1 .. (Len(part) - 1) \div 3 -> Announced(part)] :
            part = TableBytes(table)
      BY <1>3, <2>2, <2>4, TableRestored
    <3>2. QED
      BY <2>1, <2>2, <3>1 DEF Announces
  <2>5. QED
    BY <2>3, <2>4 DEF ReadsBack
<1>5. ASSUME g \in MessagesIn(bytes)
      PROVE  ReadsBack(bytes, g)
  <2>0. PICK p \in ParsePacket(bytes) :
          /\ ~IsAck(p)
          /\ \E x \in Decode(p.payload) :
                g = [what |-> Outlet(p), call |-> [p EXCEPT !.payload = x]]
    BY <1>5 DEF MessagesIn, Handled
  <2>1. PICK x \in Decode(p.payload) :
          g = [what |-> Outlet(p), call |-> [p EXCEPT !.payload = x]]
    BY <2>0
  <2>2. p.payload = part /\ Len(bytes) >= HeaderSize /\ BuildPacket(p) = bytes
    BY <1>1 DEF part
  <2>3. Encode(x) = p.payload
    BY <1>3, <2>2, EncodeInvertsDecode
  <2>4. g.what \in {"message", "serial"} /\ g.call = [p EXCEPT !.payload = x]
    BY <2>1 DEF Outlet
  <2>5. p = [origin |-> p.origin, flags |-> p.flags, seq |-> p.seq, thing |-> p.thing,
             id |-> p.id, action |-> p.action, payload |-> p.payload]
    BY SMTT(40) DEF ParsePacket
  <2>6. /\ g.call.payload = x /\ [g.call EXCEPT !.payload = p.payload] = p
        /\ g.call.flags = p.flags
    BY <2>4, <2>5
  <2>7. ~IsAck(g.call)
    BY <2>0, <2>6 DEF IsAck
  <2>8. g.what # "table"
    BY <2>4
  <2>9. QED
    BY <2>2, <2>3, <2>4, <2>6, <2>7, <2>8 DEF ReadsBack
<1>6. QED
  BY <1>4, <1>5 DEF Read

(* An announcement under way is the table that was announced, and what was  *)
(* read of it is that table.                                                *)
TableUnderWay ==
    /\ sent = Nothing => got = Nothing
    /\ sent.what = "table" =>
          \E table \in Seq(Thing \X Byte) :
             /\ sent = [what |-> "table", things |-> ToSet(table)]
             /\ Carries(raw, table)
             /\ got # Nothing => got = sent

(* A message under way is the one that was sent, and a datagram of others is *)
(* taken for what it says or not at all.                                    *)
OnItsWay ==
    /\ TableUnderWay
    /\ sent.what \in {"message", "serial"} =>
          /\ IsCall(sent.call) /\ sent = [what |-> Outlet(sent.call), call |-> sent.call]
          /\ raw = BuildPacket([sent.call EXCEPT !.payload = Encode(sent.call.payload)])
          /\ got # Nothing => got = sent
    /\ sent.what = "foreign" =>
          /\ IsDatagram(raw)
          /\ got = Nothing \/ got = [what |-> "rejected"] \/ got \in Read(raw)
    /\ sent = Nothing \/ sent.what \in {"message", "serial", "table", "foreign"}

(* A device reads the table that is under way.                              *)
LEMMA ReceiveTable ==
    ASSUME TableUnderWay, Receive
    PROVE  TableUnderWay'
<1>1. sent # Nothing /\ UNCHANGED <<sent, raw>>
  BY DEF Receive
<1>2. CASE sent.what = "table"
  <2>1. PICK table \in Seq(Thing \X Byte) :
          sent = [what |-> "table", things |-> ToSet(table)] /\ Carries(raw, table)
    BY <1>2 DEF TableUnderWay
  <2>2. Read(raw) = {sent}
    BY <2>1 DEF Carries
  <2>3. got' = sent
    BY <2>2 DEF Receive
  <2>4. QED
    BY <1>1, <2>1, <2>3 DEF TableUnderWay
<1>3. CASE sent.what # "table"
  BY <1>1, <1>3 DEF TableUnderWay
<1>4. QED
  BY <1>2, <1>3

(* A table that is announced is under way.                                  *)
LEMMA AnnounceTableOnly ==
    ASSUME NEW call, IsHeader(call), NEW table \in Seq(Thing \X Byte),
           Announce(call, table), got' = Nothing
    PROVE  TableUnderWay'
<1>1. sent' = [what |-> "table", things |-> ToSet(table)]
  BY DEF Announce
<1>2. Carries(raw', table)
  BY TableIsRead DEF Announce
<1>3. sent' # Nothing
  BY <1>1 DEF Nothing
<1>4. QED
  BY <1>1, <1>2, <1>3 DEF TableUnderWay

(* What another kind of datagram is has nothing to do with tables.          *)
LEMMA OtherUnderWay ==
    ASSUME sent'.what \in {"message", "serial", "foreign"}, got' = Nothing
    PROVE  TableUnderWay'
BY DEF TableUnderWay

(* What sketches call send() with has fields that fit.                      *)
LEMMA CallsHaveHeaders ==
    ASSUME NEW call \in Calls
    PROVE  IsCall(call) /\ IsHeader(call)
BY CallsAssumption DEF IsCall, IsHeader

(* Whatever sketches, joiners and others send keeps the datagram what it is. *)
LEMMA TransmitStep ==
    ASSUME OnItsWay, Transmit
    PROVE  OnItsWay'
<1>1. sent = Nothing /\ got' = Nothing
  BY DEF Transmit, OnItsWay, TableUnderWay
<1>2. ASSUME NEW call \in Calls, Send(call)
      PROVE  OnItsWay'
  <2>1. /\ sent' = [what |-> Outlet(call), call |-> call] /\ IsCall(call)
        /\ sent'.what \in {"message", "serial"} /\ sent'.call = call
    BY <1>2, CallsHaveHeaders DEF Send, Outlet
  <2>2. raw' = BuildPacket([call EXCEPT !.payload = Encode(call.payload)])
    BY <1>2 DEF Send
  <2>3. TableUnderWay'
    BY <1>1, <2>1, OtherUnderWay
  <2>4. QED
    BY <1>1, <2>1, <2>2, <2>3 DEF OnItsWay
<1>3. ASSUME NEW call \in Calls, NEW table \in Tables, Announce(call, table)
      PROVE  OnItsWay'
  <2>1. sent'.what = "table"
    BY <1>3 DEF Announce
  <2>2. table \in Seq(Thing \X Byte) /\ IsHeader(call)
    BY TablesAssumption, CallsHaveHeaders
  <2>3. TableUnderWay'
    BY <1>1, <1>3, <2>2, AnnounceTableOnly
  <2>4. QED
    BY <2>1, <2>3 DEF OnItsWay
<1>4. ASSUME NEW datagram \in Foreign, SendForeign(datagram)
      PROVE  OnItsWay'
  <2>1. sent'.what = "foreign" /\ raw' = datagram /\ IsDatagram(datagram)
    BY <1>4, ForeignAssumption DEF SendForeign
  <2>2. TableUnderWay'
    BY <1>1, <2>1, OtherUnderWay
  <2>3. QED
    BY <1>1, <2>1, <2>2 DEF OnItsWay
<1>5. QED
  BY <1>2, <1>3, <1>4 DEF Transmit

(* What is read is what the datagram carries.                               *)
LEMMA ReceiveStep ==
    ASSUME OnItsWay, Receive
    PROVE  OnItsWay'
<1>1. sent # Nothing /\ UNCHANGED <<sent, raw>> /\ TableUnderWay'
  BY ReceiveTable DEF Receive, OnItsWay
<1>2. CASE sent.what \in {"message", "serial"}
  <2>1. Read(raw) = {sent}
    BY <1>2, CallIsRead DEF OnItsWay
  <2>2. got' = sent
    BY <2>1 DEF Receive
  <2>3. QED
    BY <1>1, <1>2, <2>2 DEF OnItsWay
<1>3. CASE sent.what = "foreign"
  <2>1. got' = [what |-> "rejected"] \/ got' \in Read(raw)
    <3>1. CASE Read(raw) = {}
      BY <3>1 DEF Receive
    <3>2. CASE Read(raw) # {}
      BY <3>2 DEF Receive
    <3>3. QED
      BY <3>1, <3>2
  <2>2. QED
    BY <1>1, <1>3, <2>1 DEF OnItsWay
<1>4. CASE sent.what = "table"
  BY <1>1, <1>4 DEF OnItsWay
<1>5. QED
  BY <1>1, <1>2, <1>3, <1>4 DEF OnItsWay

(* What is read of a datagram under way is what would be written in its bytes. *)
LEMMA ReadAsWritten ==
    ASSUME OnItsWay
    PROVE  OneReading
<1>1. CASE got = Nothing
  BY <1>1 DEF OneReading, Nothing
<1>2. CASE got # Nothing /\ sent.what \in {"message", "serial"}
  <2>1. /\ got = sent /\ IsCall(sent.call)
        /\ raw = BuildPacket([sent.call EXCEPT !.payload = Encode(sent.call.payload)])
    BY <1>2 DEF OnItsWay
  <2>2. ~IsAck(got.call) /\ got.what # "table"
    BY <1>2, <2>1 DEF IsCall
  <2>3. QED
    BY <2>1, <2>2 DEF OneReading
<1>3. CASE got # Nothing /\ sent.what = "foreign"
  <2>1. CASE got = [what |-> "rejected"]
    BY <2>1 DEF OneReading
  <2>2. CASE got \in Read(raw)
    BY <1>3, <2>2, ReadRestored DEF OnItsWay, OneReading, ReadsBack
  <2>3. QED
    BY <1>3, <2>1, <2>2 DEF OnItsWay
<1>4. CASE got # Nothing /\ sent.what = "table"
  <2>1. PICK table \in Seq(Thing \X Byte) :
          sent = [what |-> "table", things |-> ToSet(table)] /\ Carries(raw, table)
    BY <1>4 DEF OnItsWay, TableUnderWay
  <2>2. got = [what |-> "table", things |-> ToSet(table)]
    BY <1>4, <2>1 DEF OnItsWay, TableUnderWay
  <2>3. Announces(raw, ToSet(table))
    BY <2>1 DEF Carries
  <2>4. QED
    BY <2>2, <2>3 DEF OneReading
<1>5. QED
  BY <1>1, <1>2, <1>3, <1>4 DEF OnItsWay, TableUnderWay

-----------------------------------------------------------------------------
(* The leader that is typed at.                                             *)

(* Of two sequences put together the second is the end.                     *)
LEMMA EndOfConcat ==
    ASSUME NEW S, NEW s \in Seq(S), NEW t \in Seq(S)
    PROVE  SubSeq(s \o t, Len(s) + 1, Len(s \o t)) = t
<1> DEFINE u == s \o t
           n == Len(s)
           m == Len(t)
           a == n + 1
           b == Len(u)
           v == SubSeq(u, a, b)
<1>1. /\ u \in Seq(S) /\ Len(u) = n + m /\ n \in Nat /\ m \in Nat
      /\ \A i \in 1 .. n + m : u[i] = IF i <= n THEN s[i] ELSE t[i - n]
  BY ConcatProperties
<1>2. \A i \in 1 .. m : n + i \in 1 .. n + m /\ ~(n + i <= n) /\ (n + i) - n = i
  BY <1>1
<1>3. \A i \in 1 .. m : u[n + i] = t[i]
  BY <1>1, <1>2
<1>4. \A i \in 1 .. Len(u) : u[i] \in S
  BY <1>1
<1> HIDE DEF u, n, m
<1>5. a \in Int /\ b \in Int /\ b - a + 1 = m /\ \A i \in a .. b : i \in 1 .. Len(u)
  BY <1>1
<1>6. \A i \in a .. b : u[i] \in S
  BY <1>4, <1>5
<1>7. a <= b \/ m = 0
  BY <1>1, <1>5
<1>8. \A i \in 1 .. m : a + i - 1 = n + i
  BY <1>1
<1> HIDE DEF a, b
<1>9. /\ v \in Seq(S) /\ Len(v) = IF a <= b THEN b - a + 1 ELSE 0
      /\ \A i \in 1 .. b - a + 1 : v[i] = u[a + i - 1]
  BY <1>5, <1>6, SubSeqProperties
<1> HIDE DEF v
<1>10. Len(v) = m
  <2>1. CASE a <= b
    BY <1>5, <1>9, <2>1
  <2>2. CASE ~(a <= b)
    BY <1>7, <1>9, <2>2
  <2>3. QED
    BY <2>1, <2>2
<1>11. \A i \in 1 .. Len(v) : v[i] = t[i]
  BY <1>3, <1>5, <1>8, <1>9, <1>10
<1>12. v = t
  BY <1>9, <1>10, <1>11, SeqEqual DEF m
<1>13. QED
  BY <1>12 DEF v, a, b, u, n

\* A line that asks for a message to a thing with an owner.
Wanted(line) == IsSend(line) /\ HasOwner(SaidBy(line)[2], SaidBy(line)[3])

(* The lines that are sent are the wanted ones.                             *)
LEMMA SentLinesAre ==
    SentLines = {k \in DOMAIN Lines(heard) : Wanted(Lines(heard)[k])}
BY DEF SentLines, Wanted

(* A command's destination is its second and its third number.              *)
LEMMA SentByFields ==
    ASSUME NEW x, IsCommand(x)
    PROVE  SentBy(x)[2] = x.thing /\ SentBy(x)[3] = x.id
<1> DEFINE four == <<IF x.reliable THEN 1 ELSE 0, x.thing, x.id, x.action>>
<1>1. x.thing \in Int /\ x.id \in Int /\ x.action \in Int /\ x.payload \in Seq(Int)
  <2>1. (\A y \in Byte : y \in Int) /\ \A y \in Thing : y \in Int
    BY DEF Byte, Thing
  <2>2. QED
    BY <2>1 DEF IsCommand
<1>2. (IF x.reliable THEN 1 ELSE 0) \in Int
  OBVIOUS
<1>3. four \in Seq(Int) /\ Len(four) = 4 /\ four[2] = x.thing /\ four[3] = x.id
  BY <1>1, <1>2
<1>4. SentBy(x) = four \o x.payload
  BY DEF SentBy
<1> HIDE DEF four
<1>5. \A i \in 1 .. Len(four) + Len(x.payload) :
         (four \o x.payload)[i] = IF i <= Len(four) THEN four[i] ELSE x.payload[i - Len(four)]
  BY <1>1, <1>3, ConcatProperties
<1>6. Len(x.payload) \in Nat
  BY <1>1
<1>7. 2 \in 1 .. Len(four) + Len(x.payload) /\ 3 \in 1 .. Len(four) + Len(x.payload)
  BY <1>3, <1>6
<1>8. QED
  BY <1>3, <1>4, <1>5, <1>7

(* What a turn sends is what the line that it ends asks for.                *)
LEMMA TypedIsWanted ==
    ASSUME SendsInv, ReadChar, Head(serial) \in LineEnds
    PROVE  \/ TypedNow = {} /\ ~Wanted(input)
           \/ \E x : /\ TypedNow = {x} /\ Wanted(input) /\ IsCommand(x)
                     /\ HasOwner(x.thing, x.id) /\ SentBy(x) = SaidBy(input)
<1>1. /\ input \in Seq(STRING) /\ answers' = answers \o Answer(input)
      /\ answers \in Seq(AllAnswers)
  BY LinesGrow DEF SendsInv
<1>2. Answer(input) \in Seq(AllAnswers)
  BY <1>1, AnswerIsOne
<1>3. SubSeq(answers', Len(answers) + 1, Len(answers')) = Answer(input)
  BY <1>1, <1>2, EndOfConcat
<1>4. TypedNow = {c \in ToSet(Answer(input)) : c.kind = "send" /\ HasOwner(c.thing, c.id)}
  BY <1>3 DEF TypedNow
<1>5. CASE Answer(input) = <<>> /\ ~IsSend(input)
  BY <1>4, <1>5 DEF ToSet, Wanted
<1>6. ASSUME NEW x, Answer(input) = <<x>>,
             x.kind = "send" <=> IsSend(input),
             x.kind = "send" => IsCommand(x) /\ SentBy(x) = SaidBy(input)
      PROVE  \/ TypedNow = {} /\ ~Wanted(input)
             \/ /\ TypedNow = {x} /\ Wanted(input) /\ IsCommand(x)
                /\ HasOwner(x.thing, x.id) /\ SentBy(x) = SaidBy(input)
  <2>1. ToSet(Answer(input)) = {x}
    BY <1>6 DEF ToSet
  <2>2. CASE x.kind # "send"
    BY <1>4, <1>6, <2>1, <2>2 DEF Wanted
  <2>3. CASE x.kind = "send"
    <3>1. Wanted(input) <=> HasOwner(x.thing, x.id)
      BY <1>6, <2>3, SentByFields DEF Wanted
    <3>2. QED
      BY <1>4, <1>6, <2>1, <2>3, <3>1
  <2>4. QED
    BY <2>2, <2>3
<1>7. QED
  BY <1>1, <1>5, <1>6, AnswerExact

(* The last line that asks for a message stays it or is the one that ends.  *)
LEMMA LastWanted ==
    ASSUME SendsInv, ReadChar
    PROVE  \/ /\ TypedNow = {}
              /\ SentLines # {} => /\ SentLines' # {}
                                   /\ Lines(heard)'[Max(SentLines')] = Lines(heard)[Max(SentLines)]
           \/ \E x : /\ TypedNow = {x} /\ IsCommand(x) /\ HasOwner(x.thing, x.id)
                     /\ SentLines' # {}
                     /\ SentBy(x) = SaidBy(Lines(heard)'[Max(SentLines')])
<1> DEFINE L == Lines(heard)
           new == Lines(heard)'
           n == Len(L)
           old == {k \in DOMAIN L : Wanted(L[k])}
           now == {k \in DOMAIN new : Wanted(new[k])}
<1>1. SentLines = old /\ SentLines' = now
  <2>1. SentLines = old
    BY SentLinesAre
  <2>2. SentLines' = now
    BY DEF SentLines, Wanted
  <2>3. QED
    BY <2>1, <2>2
<1>2. L \in Seq(Seq(STRING)) /\ input \in Seq(STRING) /\ n \in Nat /\ DOMAIN L = 1 .. n
  BY LinesGrow DEF SendsInv
<1>3. CASE Head(serial) \notin LineEnds
  <2>1. answers' = answers /\ new = L
    BY <1>3, LinesGrow DEF SendsInv
  <2>2. TypedNow = {}
    <3> DEFINE m == Len(answers)
    <3>1. m \in Nat
      BY DEF SendsInv
    <3> HIDE DEF m
    <3>2. SubSeq(answers, m + 1, m) = <<>>
      BY <3>1, SubSeqEmpty
    <3>3. QED
      BY <2>1, <3>2 DEF TypedNow, ToSet, m
  <2>3. QED
    BY <1>1, <2>1, <2>2
<1>4. CASE Head(serial) \in LineEnds
  <2>1. new = Append(L, input)
    BY <1>4, LinesGrow DEF SendsInv
  <2>2. /\ DOMAIN new = 1 .. n + 1 /\ new[n + 1] = input
        /\ \A k \in 1 .. n : new[k] = L[k]
    BY <1>2, <2>1
  <2> HIDE DEF L, new, n
  <2>3. \A k : k \in now <=> k \in old \/ (k = n + 1 /\ Wanted(input))
    <3>1. 1 .. n + 1 = (1 .. n) \cup {n + 1} /\ n + 1 \notin 1 .. n
      BY <1>2
    <3>2. QED
      BY <1>2, <2>2, <3>1
  <2>4. PlacesIn(old, n) /\ PlacesIn(now, n + 1)
    BY <1>2, <2>2 DEF PlacesIn
  <2> HIDE DEF old, now
  <2>5. CASE TypedNow = {} /\ ~Wanted(input)
    <3>1. now = old
      BY <2>3, <2>5
    <3>2. ASSUME old # {} PROVE new[Max(now)] = L[Max(old)]
      <4>1. Max(old) \in old
        BY <1>2, <2>4, <3>2, FirstAndLast
      <4>2. Max(old) \in 1 .. n
        BY <1>2, <2>4, <4>1 DEF PlacesIn
      <4>3. QED
        BY <2>2, <3>1, <4>2
    <3>3. QED
      BY <1>1, <2>5, <3>1, <3>2 DEF L, new
  <2>6. ASSUME NEW x, TypedNow = {x}, Wanted(input), IsCommand(x),
               HasOwner(x.thing, x.id), SentBy(x) = SaidBy(input)
        PROVE  now # {} /\ SentBy(x) = SaidBy(new[Max(now)])
    <3> DEFINE m == n + 1
    <3>1. m \in now /\ m \in Nat /\ PlacesIn(now, m) /\ new[m] = input
      BY <1>2, <2>2, <2>3, <2>4, <2>6
    <3> HIDE DEF m
    <3>2. Max(now) \in now /\ m <= Max(now)
      BY <3>1, FirstAndLast
    <3>3. Max(now) = m
      <4> DEFINE last == Max(now)
      <4>1. now \subseteq 1 .. m /\ last \in now /\ m <= last
        BY <3>1, <3>2 DEF PlacesIn
      <4> HIDE DEF last
      <4>2. last = m
        BY <3>1, <4>1
      <4>3. QED
        BY <4>2 DEF last
    <3>4. QED
      BY <2>6, <3>1, <3>3
  <2>7. QED
    BY <1>1, <1>4, <2>5, <2>6, TypedIsWanted DEF new
<1>5. QED
  BY <1>3, <1>4

(* What send() makes of a command goes out as a message of its bytes.       *)
LEMMA TypedIsCall ==
    ASSUME NEW x, IsCommand(x), HasOwner(x.thing, x.id)
    PROVE  /\ IsCall(TypedCall(x)) /\ Outlet(TypedCall(x)) = "message"
           /\ TypedCall(x).payload.type = "BYTES"
           /\ <<TypedCall(x).flags \div 2, TypedCall(x).thing, TypedCall(x).id, TypedCall(x).action>>
                \o TypedCall(x).payload.bytes = SentBy(x)
<1> DEFINE p == [type |-> "BYTES", value |-> 0, bytes |-> x.payload]
           f == IF x.reliable THEN 2 ELSE 0
           q == IF x.reliable THEN 1 ELSE 0
           h == [origin |-> Origin, flags |-> f, seq |-> q, thing |-> 0, id |-> 0,
                 action |-> 0, payload |-> <<>>]
           c == [origin |-> Origin, flags |-> f, seq |-> q, thing |-> x.thing, id |-> x.id,
                 action |-> x.action, payload |-> p]
<1>1. Header(x.reliable) = h
  BY DEF Header
<1>2. TypedCall(x) = [h EXCEPT !.thing = x.thing, !.id = x.id, !.action = x.action, !.payload = p]
  BY <1>1 DEF TypedCall
<1>3. TypedCall(x) = c
  <2> HIDE DEF p, f, q
  <2>1. QED
    BY <1>2
<1>4. Origin \in Seq(Byte) /\ Len(Origin) = OriginSize
  BY OriginBytesAssumption, OriginAssumption
<1>5. Base \in Nat /\ Base > 1 /\ Base * Base \in Nat /\ Base * Base > 1
  BY BaseAssumption
<1>6. f \in Byte /\ q \in 0 .. Span(2) - 1
  <2>1. 0 \in Byte /\ 2 \in Byte /\ 0 \in 0 .. Span(2) - 1 /\ 1 \in 0 .. Span(2) - 1
    BY <1>5, FlagsAssumption DEF Byte, MaxByte, Span
  <2>2. QED
    BY <2>1
<1>7. x.thing \in 0 .. Span(2) - 1 /\ x.id \in Byte /\ x.action \in Byte /\ x.payload \in Seq(Byte)
  BY DEF IsCommand, Thing, MaxThing, Span
<1>8. f \div 2 = q
  BY DEF IsCommand
<1>9. IsPayload(p)
  <2>1. "BYTES" \in Type /\ "BYTES" \notin Scalar
    BY DEF Type, Code, Scalar
  <2>2. p \in [type : Type, value : Int, bytes : Seq(Byte)] /\ p.type = "BYTES" /\ p.value = 0
    BY <1>7, <2>1
  <2> HIDE DEF p
  <2>3. QED
    BY <2>1, <2>2 DEF IsPayload
<1>10. p.type = "BYTES" /\ p.bytes = x.payload
  OBVIOUS
<1> HIDE DEF p, f, q
<1>11. /\ c.origin = Origin /\ c.flags = f /\ c.thing = x.thing /\ c.id = x.id
       /\ c.action = x.action /\ c.payload = p
  OBVIOUS
<1>12. c \in [origin : Seq(Byte), flags : Byte, seq : 0 .. Span(2) - 1,
              thing : 0 .. Span(2) - 1, id : Byte, action : Byte, payload : {p}]
  BY <1>4, <1>6, <1>7
<1>13. ~IsControl(c)
  <2>1. <<x.thing, x.id>> # <<LeaderThing, LeaderId>>
    BY DestinationsAssumption DEF HasOwner
  <2> HIDE DEF c
  <2>2. QED
    BY <1>11, <2>1 DEF IsControl
<1> HIDE DEF c
<1>17. ~IsAck(c)
  <2>1. f \in {0, 2}
    BY DEF f
  <2>2. QED
    BY <1>11, <2>1 DEF IsAck
<1>14. IsCall(c) /\ Outlet(c) = "message"
  BY <1>4, <1>9, <1>11, <1>12, <1>13, <1>17 DEF IsCall, Outlet
<1>15. SentBy(x) = <<q, x.thing, x.id, x.action>> \o x.payload
  BY DEF SentBy, q
<1>16. QED
  BY <1>3, <1>8, <1>10, <1>11, <1>14, <1>15

-----------------------------------------------------------------------------
(* The joiner that announces its files.                                     *)

(* What a joiner has read it announces, and nothing else goes out of it: the *)
(* host is quiet where files were read, and a datagram under way is the      *)
(* table of these files.                                                    *)
FilesGoOut ==
    ~FilesUnread =>
        /\ HostQuiet
        /\ sent # Nothing => sent = [what |-> "table", things |-> ToSet(LocalTable)]

(* What the files define fits an announcement,                              *)
LEMMA LocalTableFits ==
    ASSUME MappingsTypeOK
    PROVE  LocalTable \in Seq(Thing \X Byte)
<1>1. localThings \in Seq(LocalThing)
  BY DEF MappingsTypeOK
<1>2. \A i \in 1 .. Len(localThings) :
        <<localThings[i].thing, localThings[i].id>> \in Thing \X Byte
  <2> SUFFICES ASSUME NEW i \in 1 .. Len(localThings)
               PROVE  <<localThings[i].thing, localThings[i].id>> \in Thing \X Byte
    OBVIOUS
  <2>1. localThings[i] \in LocalThing
    BY <1>1, ElementOfSeq
  <2>2. QED
    BY <2>1 DEF LocalThing
<1>3. DOMAIN localThings = 1 .. Len(localThings) /\ Len(localThings) \in Nat
  BY <1>1
<1>4. QED
  BY <1>2, <1>3 DEF LocalTable

(* and so does the header it goes with.                                     *)
LEMMA HeaderFits == IsHeader(Header(TRUE))
<1>1. Origin \in Seq(Byte) /\ Len(Origin) = OriginSize
  BY OriginBytesAssumption, OriginAssumption
<1>2. Base \in Nat /\ Base > 1 /\ Base * Base \in Nat /\ Base * Base > 1
  BY BaseAssumption
<1>3. 0 \in Byte /\ 2 \in Byte /\ 0 \in 0 .. Span(2) - 1 /\ 1 \in 0 .. Span(2) - 1
  BY <1>2, FlagsAssumption DEF Byte, MaxByte, Span
<1>4. Header(TRUE) = [origin |-> Origin, flags |-> 2, seq |-> 1, thing |-> 0, id |-> 0,
                      action |-> 0, payload |-> <<>>]
  BY DEF Header
<1> DEFINE h == Header(TRUE)
<1> HIDE DEF h
<1>5. h = [origin |-> Origin, flags |-> 2, seq |-> 1, thing |-> 0, id |-> 0,
           action |-> 0, payload |-> <<>>]
  BY <1>4, Zenon DEF h
<1>9. h.payload = <<>> /\ h.origin = Origin
  BY <1>5
<1>6. h \in [origin : Seq(Byte), flags : Byte, seq : 0 .. Span(2) - 1,
             thing : 0 .. Span(2) - 1, id : Byte, action : Byte, payload : {<<>>}]
  BY <1>1, <1>3, <1>5
<1>10. ~IsAck(h)
  <2>1. h.flags = 2
    BY <1>5
  <2>2. QED
    BY <2>1 DEF IsAck
<1>7. IsHeader(h)
  BY <1>1, <1>9, <1>6, <1>10 DEF IsHeader
<1>8. QED
  BY <1>7 DEF h

(* While no file is read and nothing is sent, the tables stay as they are.  *)
LEMMA FilesKept ==
    ASSUME UNCHANGED mappingsVars
    PROVE  /\ FilesUnread' = FilesUnread /\ LocalTable' = LocalTable
           /\ MappingsInv => MappingsInv'
BY DEF mappingsVars, tables, FilesUnread, LocalTable, NoThings, MappingsInv, MappingsTypeOK,
       ThingsTwoWay, ActionsTwoWay, Grounded, HostedOnce, GetThingId, GetThingName,
       GetActionId, GetActionName

(* What the leader sends is what the last of the typed lines that ask for a  *)
(* message says, and nothing else goes out of it.                           *)
TypedGoesOut ==
    sent # Nothing /\ ~HostQuiet =>
        /\ SentLines # {}
        /\ \E x : /\ IsCommand(x) /\ HasOwner(x.thing, x.id)
                  /\ sent = [what |-> "message", call |-> TypedCall(x)]
                  /\ SentBy(x) = SaidBy(Lines(heard)[Max(SentLines)])

EndpointsInv == MappingsInv /\ SendsInv /\ OnItsWay /\ FilesGoOut /\ TypedGoesOut

(* At first nothing is read, typed or sent.                                 *)
LEMMA EndpointsInvInit == EndpointsInit => EndpointsInv
<1> SUFFICES ASSUME EndpointsInit PROVE EndpointsInv
  OBVIOUS
<1>1. MappingsInv /\ SendsInv
  BY MappingsInvInit, SendsInvInit DEF EndpointsInit
<1>2. OnItsWay /\ sent = Nothing
  BY DEF EndpointsInit, WireInit, OnItsWay, TableUnderWay, Nothing
<1>3. FilesUnread
  BY DEF EndpointsInit, MappingsInit, FilesUnread
<1>4. QED
  BY <1>1, <1>2, <1>3 DEF EndpointsInv, FilesGoOut, TypedGoesOut

\* The host's side of the invariant, while nothing is typed or read.
LEMMA HostKept ==
    ASSUME UNCHANGED usbVars
    PROVE  /\ HostQuiet' <=> HostQuiet
           /\ SentLines' = SentLines /\ Lines(heard)' = Lines(heard)
           /\ SendsInv => SendsInv'
BY DEF usbVars, HostQuiet, SentLines, SendsInv, SendsExact, LinesInv, LinesWhole

(* The wire's side, while nothing is sent or received.                      *)
LEMMA WireKept ==
    ASSUME UNCHANGED wireVars, OnItsWay
    PROVE  OnItsWay'
BY DEF wireVars, OnItsWay, TableUnderWay

\* A turn of the host leaves what is under way to the last line that asked.
LEMMA ReadTypedStep ==
    ASSUME SendsInv, OnItsWay, TypedGoesOut, ReadTyped
    PROVE  OnItsWay' /\ TypedGoesOut'
<1>1. ReadChar /\ ~HostQuiet
  BY DEF ReadTyped, ReadChar, HostQuiet
<1>2. ASSUME UNCHANGED wireVars, TypedNow = {},
             SentLines # {} => /\ SentLines' # {}
                               /\ Lines(heard)'[Max(SentLines')] = Lines(heard)[Max(SentLines)]
      PROVE  OnItsWay' /\ TypedGoesOut'
  <2>1. OnItsWay' /\ sent' = sent
    BY <1>2, WireKept DEF wireVars
  <2>2. ASSUME sent' # Nothing
        PROVE  /\ SentLines' # {}
               /\ \E x : /\ IsCommand(x) /\ HasOwner(x.thing, x.id)
                         /\ sent' = [what |-> "message", call |-> TypedCall(x)]
                         /\ SentBy(x) = SaidBy(Lines(heard)'[Max(SentLines')])
    <3>1. SentLines # {}
      BY <1>1, <2>1, <2>2 DEF TypedGoesOut
    <3>2. PICK x : /\ IsCommand(x) /\ HasOwner(x.thing, x.id)
                   /\ sent = [what |-> "message", call |-> TypedCall(x)]
                   /\ SentBy(x) = SaidBy(Lines(heard)[Max(SentLines)])
      BY <1>1, <2>1, <2>2 DEF TypedGoesOut
    <3>3. SentBy(x) = SaidBy(Lines(heard)'[Max(SentLines')]) /\ SentLines' # {}
      BY <1>2, <3>1, <3>2
    <3>4. QED
      BY <2>1, <3>2, <3>3
  <2>3. QED
    BY <2>1, <2>2 DEF TypedGoesOut
<1>3. ASSUME NEW x, TypedNow = {x}, IsCommand(x), HasOwner(x.thing, x.id), SentLines' # {},
             SentBy(x) = SaidBy(Lines(heard)'[Max(SentLines')])
      PROVE  OnItsWay' /\ TypedGoesOut'
  <2>1. Send(TypedCall(x)) /\ got' = Nothing
    BY <1>3 DEF ReadTyped
  <2> DEFINE c == TypedCall(x)
  <2>2. IsCall(c) /\ Outlet(c) = "message"
    BY <1>3, TypedIsCall
  <2> HIDE DEF c
  <2>3. /\ sent' = [what |-> "message", call |-> c]
        /\ raw' = BuildPacket([c EXCEPT !.payload = Encode(c.payload)])
    BY <2>1, <2>2 DEF Send, c
  <2>4. sent'.what = "message" /\ sent'.call = c /\ sent' # Nothing
    BY <2>3 DEF Nothing
  <2>5. TableUnderWay'
    BY <2>1, <2>4, OtherUnderWay
  <2>6. OnItsWay'
    BY <2>1, <2>2, <2>3, <2>4, <2>5 DEF OnItsWay
  <2>7. TypedGoesOut'
    BY <1>3, <2>3 DEF TypedGoesOut, c
  <2>8. QED
    BY <2>6, <2>7
<1>4. TypedNow = {} => UNCHANGED wireVars
  BY DEF ReadTyped
<1>5. QED
  BY <1>1, <1>2, <1>3, <1>4, LastWanted

(* Each action keeps its own part of the invariant and leaves the others.   *)
LEMMA EndpointsInvStep == EndpointsInv /\ [EndpointsNext]_endpointVars => EndpointsInv'
<1> SUFFICES ASSUME EndpointsInv, [EndpointsNext]_endpointVars PROVE EndpointsInv'
  OBVIOUS
<1>1. MappingsInv /\ SendsInv /\ OnItsWay /\ FilesGoOut /\ TypedGoesOut
  BY DEF EndpointsInv
<1>2. typing \in Seq(STRING)
  BY <1>1 DEF SendsInv, LinesInv
<1>3. CASE LoadFiles
  <2>1. MappingsInv'
    BY <1>1, <1>3, MappingsInvStep DEF LoadFiles
  <2>2. HostQuiet' /\ sent' = Nothing /\ SendsInv' /\ OnItsWay'
    BY <1>1, <1>3, HostKept, WireKept DEF LoadFiles, wireVars
  <2>3. QED
    BY <2>1, <2>2 DEF EndpointsInv, FilesGoOut, TypedGoesOut
<1>4. CASE AnnounceLocalThings
  <2>1. /\ HostQuiet' /\ SendsInv' /\ UNCHANGED mappingsVars /\ got' = Nothing
        /\ Announce(Header(TRUE), LocalTable)
    BY <1>1, <1>4, HostKept DEF AnnounceLocalThings, OnItsWay, TableUnderWay
  <2>2. LocalTable \in Seq(Thing \X Byte)
    BY <1>1, LocalTableFits DEF MappingsInv
  <2>3. TableUnderWay'
    BY <2>1, <2>2, HeaderFits, AnnounceTableOnly
  <2>4. sent' = [what |-> "table", things |-> ToSet(LocalTable)]
    BY <2>1 DEF Announce
  <2>5. OnItsWay'
    BY <2>3, <2>4 DEF OnItsWay
  <2>6. QED
    BY <1>1, <2>1, <2>4, <2>5, FilesKept DEF EndpointsInv, FilesGoOut, TypedGoesOut
<1>5. CASE HostTypes
  <2>1. SendsInv'
    BY <1>1, <1>5, SendsInvStep DEF HostTypes, UsbNext
  <2>2. FilesUnread' /\ MappingsInv' /\ OnItsWay' /\ sent' = sent /\ heard' = heard
    BY <1>1, <1>5, FilesKept, WireKept DEF HostTypes, Arrive, wireVars
  <2>3. ~HostQuiet
    <3>1. PICK n \in 1 .. Len(typing) : TRUE
      BY <1>5 DEF HostTypes, Arrive
    <3>2. typing # <<>>
      BY <1>2, <3>1, EmptySeq
    <3>3. QED
      BY <3>2 DEF HostQuiet
  <2>4. TypedGoesOut'
    <3>1. SentLines' = SentLines /\ Lines(heard)' = Lines(heard)
      BY <2>2 DEF SentLines
    <3>2. QED
      BY <1>1, <2>2, <2>3, <3>1 DEF TypedGoesOut
  <2>5. QED
    BY <2>1, <2>2, <2>4 DEF EndpointsInv, FilesGoOut
<1>6. CASE ReadTyped
  <2>1. FilesUnread /\ ReadChar /\ UNCHANGED mappingsVars
    BY <1>1, <1>6 DEF ReadTyped, ReadChar, FilesGoOut, HostQuiet
  <2>2. SendsInv'
    BY <1>1, <2>1, SendsInvStep DEF UsbNext
  <2>3. QED
    BY <1>1, <1>6, <2>1, <2>2, FilesKept, ReadTypedStep DEF EndpointsInv, FilesGoOut
<1>7. CASE SketchSends
  <2>1. HostQuiet' /\ SendsInv' /\ OnItsWay' /\ UNCHANGED mappingsVars /\ FilesUnread
    BY <1>1, <1>7, HostKept, TransmitStep DEF SketchSends
  <2>2. QED
    BY <1>1, <2>1, FilesKept DEF EndpointsInv, FilesGoOut, TypedGoesOut
<1>8. CASE DeviceReceives
  <2>1. OnItsWay' /\ sent' = sent /\ UNCHANGED mappingsVars /\ UNCHANGED usbVars
    BY <1>1, <1>8, ReceiveStep DEF DeviceReceives, Receive
  <2>2. QED
    BY <1>1, <2>1, FilesKept, HostKept DEF EndpointsInv, FilesGoOut, TypedGoesOut
<1>9. CASE UNCHANGED endpointVars
  <2>1. UNCHANGED mappingsVars /\ UNCHANGED wireVars /\ UNCHANGED usbVars /\ sent' = sent
    BY <1>9 DEF endpointVars, wireVars
  <2>2. QED
    BY <1>1, <2>1, FilesKept, HostKept, WireKept DEF EndpointsInv, FilesGoOut, TypedGoesOut
<1>10. QED
  BY <1>3, <1>4, <1>5, <1>6, <1>7, <1>8, <1>9 DEF EndpointsNext

(* So it always holds.                                                      *)
LEMMA EndpointsInvariant == EndpointsSpec => []EndpointsInv
BY EndpointsInvInit, EndpointsInvStep, PTL DEF EndpointsSpec

(* Numbers fit their fields and names are not empty, whatever the files hold. *)
THEOREM FieldsFit == EndpointsSpec => []MappingsTypeOK
<1>1. EndpointsInv => MappingsTypeOK
  BY DEF EndpointsInv, MappingsInv
<1>2. QED
  BY <1>1, EndpointsInvariant, PTL

(* The name of a number looks up to that number, and the other way round.   *)
THEOREM ThingsAgree == EndpointsSpec => []ThingsTwoWay
<1>1. EndpointsInv => ThingsTwoWay
  BY DEF EndpointsInv, MappingsInv
<1>2. QED
  BY <1>1, EndpointsInvariant, PTL

(* So do the names and numbers of the actions of every thing.               *)
THEOREM ActionsAgree == EndpointsSpec => []ActionsTwoWay
<1>1. EndpointsInv => ActionsTwoWay
  BY DEF EndpointsInv, MappingsInv
<1>2. QED
  BY <1>1, EndpointsInvariant, PTL

(* No action and no hosted thing is of a thing that the last load left out. *)
THEOREM NothingDangles == EndpointsSpec => []Grounded
<1>1. EndpointsInv => Grounded
  BY DEF EndpointsInv, MappingsInv
<1>2. QED
  BY <1>1, EndpointsInvariant, PTL

(* No thing is hosted, and so none announced, twice.                        *)
THEOREM HostsEachOnce == EndpointsSpec => []HostedOnce
<1>1. EndpointsInv => HostedOnce
  BY DEF EndpointsInv, MappingsInv
<1>2. QED
  BY <1>1, EndpointsInvariant, PTL

(* Of rows that contradict one another the first wins, in every load.       *)
THEOREM RowsStay == EndpointsSpec => FirstRowWins
<1>1. EndpointsInv /\ [EndpointsNext]_endpointVars
        => [phase # "idle" => EntriesStay]_mappingsVars
  <2> SUFFICES ASSUME EndpointsInv, [EndpointsNext]_endpointVars, phase # "idle"
               PROVE  EntriesStay \/ UNCHANGED mappingsVars
    OBVIOUS
  <2>1. MappingsTypeOK
    BY DEF EndpointsInv, MappingsInv
  <2>2. [MappingsNext]_mappingsVars
    BY DEF EndpointsNext, LoadFiles, AnnounceLocalThings, HostTypes, ReadTyped, SketchSends,
           DeviceReceives, endpointVars
  <2>3. QED
    BY <2>1, <2>2, RowsKeepEntries
<1>2. QED
  BY <1>1, EndpointsInvariant, PTL DEF EndpointsSpec, FirstRowWins

(* Whatever a sketch sends is what the other side is called with: for every  *)
(* base, address length, type and value, through encodeValuePayload,         *)
(* buildPacket, parsePacket and decodePayload (Payload.cpp, core.cpp).       *)
THEOREM MessagesArrive == EndpointsSpec => []MessageAsSent
<1>1. EndpointsInv => MessageAsSent
  BY DEF EndpointsInv, OnItsWay, MessageAsSent
<1>2. QED
  BY <1>1, EndpointsInvariant, PTL

(* Whatever datagram arrives, of this version or of another, cut or longer   *)
(* than it should be, what a device takes for a message, a table or bytes    *)
(* to print it would itself have written in the same bytes.                 *)
THEOREM ReadOneWay == EndpointsSpec => []OneReading
<1>1. EndpointsInv => OneReading
  BY ReadAsWritten DEF EndpointsInv
<1>2. QED
  BY <1>1, EndpointsInvariant, PTL

(* Each line that is typed is answered once, whole and in order, however the *)
(* text is cut into pieces (updateUsb), while datagrams come and go.         *)
THEOREM TypedLinesAnswered == EndpointsSpec => []LinesWhole
<1>1. EndpointsInv => LinesWhole
  BY DEF EndpointsInv, SendsInv, LinesInv
<1>2. QED
  BY <1>1, EndpointsInvariant, PTL

(* send() is called for exactly the lines that are well-formed SENDs, with   *)
(* the numbers that they say (handleUsbLine, parseUnsignedField).            *)
THEOREM TypedSendsExact == EndpointsSpec => []SendsExact
<1>1. EndpointsInv => SendsExact
  BY DEF EndpointsInv, SendsInv
<1>2. QED
  BY <1>1, EndpointsInvariant, PTL

(* A device is called with what the line that was typed says, through        *)
(* updateUsb, handleUsbLine, send, buildPacket, parsePacket and              *)
(* decodePayload, and nothing else that is typed gets onto the mesh, as long *)
(* as no application hosts the leader's control address.                    *)
THEOREM TypedArrives == EndpointsSpec => []TypedReachesDevice
<1>1. EndpointsInv => TypedReachesDevice
  <2> SUFFICES ASSUME EndpointsInv, got # Nothing, heard # <<>>
               PROVE  /\ SentLines # {}
                      /\ got.what = "message" /\ got.call.payload.type = "BYTES"
                      /\ <<got.call.flags \div 2, got.call.thing, got.call.id, got.call.action>>
                           \o got.call.payload.bytes = SaidBy(Lines(heard)[Max(SentLines)])
    BY DEF TypedReachesDevice
  <2>1. OnItsWay /\ TypedGoesOut /\ ~HostQuiet
    BY DEF EndpointsInv, HostQuiet
  <2>2. sent # Nothing
    BY <2>1 DEF OnItsWay, TableUnderWay
  <2>3. SentLines # {}
    BY <2>1, <2>2 DEF TypedGoesOut
  <2>4. PICK x : /\ IsCommand(x) /\ HasOwner(x.thing, x.id)
                 /\ sent = [what |-> "message", call |-> TypedCall(x)]
                 /\ SentBy(x) = SaidBy(Lines(heard)[Max(SentLines)])
    BY <2>1, <2>2 DEF TypedGoesOut
  <2> DEFINE c == TypedCall(x)
  <2>5. /\ c.payload.type = "BYTES"
        /\ <<c.flags \div 2, c.thing, c.id, c.action>> \o c.payload.bytes = SentBy(x)
    BY <2>4, TypedIsCall
  <2> HIDE DEF c
  <2>6. got = [what |-> "message", call |-> c]
    BY <2>1, <2>4 DEF OnItsWay, c
  <2>7. got.what = "message" /\ got.call = c
    BY <2>6
  <2>8. QED
    BY <2>3, <2>4, <2>5, <2>7
<1>2. QED
  BY <1>1, EndpointsInvariant, PTL

(* A table arrives with its things and no others, whether a sketch sends it *)
(* or a joiner announces what its files define.                             *)
THEOREM TablesArrive == EndpointsSpec => []TableAsSent
<1>1. EndpointsInv => TableAsSent
  BY DEF EndpointsInv, OnItsWay, TableUnderWay, TableAsSent
<1>2. QED
  BY <1>1, EndpointsInvariant, PTL

(* The leader registers a joiner for exactly what the joiner's files define, *)
(* through loadMappings, routingStrategyUpdate, the wire and                *)
(* routingHandleMessage.                                                    *)
THEOREM FilesReachLeader == EndpointsSpec => []HostedReachesLeader
<1>1. EndpointsInv => HostedReachesLeader
  <2> SUFFICES ASSUME EndpointsInv, got # Nothing, ~FilesUnread
               PROVE  /\ got.what = "table"
                      /\ got.things = {<<localThings[i].thing, localThings[i].id>> :
                                          i \in DOMAIN localThings}
                      /\ \A t \in got.things : GetThingName(t[1]) # None
    BY DEF HostedReachesLeader
  <2>1. sent = [what |-> "table", things |-> ToSet(LocalTable)]
    BY DEF EndpointsInv, OnItsWay, TableUnderWay, FilesGoOut
  <2>2. got = sent
    BY <2>1 DEF EndpointsInv, OnItsWay, TableUnderWay
  <2>3. ToSet(LocalTable) = {<<localThings[i].thing, localThings[i].id>> :
                                i \in DOMAIN localThings}
    BY DEF ToSet, LocalTable
  <2>4. DOMAIN localThings = 1 .. Len(localThings)
    BY DEF EndpointsInv, MappingsInv, MappingsTypeOK
  <2>5. \A t \in ToSet(LocalTable) : GetThingName(t[1]) # None
    BY <2>3, <2>4 DEF EndpointsInv, MappingsInv, Grounded
  <2>6. QED
    BY <2>1, <2>2, <2>3, <2>5
<1>2. QED
  BY <1>1, EndpointsInvariant, PTL

=============================================================================
