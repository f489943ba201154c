------------------------------ MODULE Mappings ------------------------------
(***************************************************************************)
(* The mapping files of a device (mappings.cpp, lookup.cpp).  begin() calls *)
(* loadMappings: all tables are cleared, then the files of things, of       *)
(* actions and of this device's own things are read row by row.  A row that *)
(* is not fit to be stored is skipped; so are blank lines, comments and     *)
(* lines with another number of fields, which are stuttering steps here.    *)
(*                                                                         *)
(* A row is abstract: its name fields are members of RawName, which Lower   *)
(* brings to what trim and toLowerCase leave; its number field is a number  *)
(* or NotANumber.                                                           *)
(***************************************************************************)
EXTENDS Widths, Sequences

CONSTANTS
    RawName,     \* name fields as written
    Name,        \* trimmed and in lower case
    Lower,       \* Lower[r]: what is left of r
    EmptyName,   \* the name without characters
    Number,      \* the numbers that number fields hold
    NotANumber,  \* what is left of a number field with other characters
    None         \* no entry

ASSUME NamesAssumption ==
    /\ EmptyName \in Name /\ None \notin Name
    /\ Lower \in [RawName -> Name]
ASSUME NumberAssumption ==
    /\ Number \subseteq Nat
    /\ NotANumber \notin Nat /\ None \notin Nat

VARIABLES
    phase,           \* the file being read
    nameToThing,     \* nameToThing[name]: number, or None
    thingToName,     \* thingToName[thing]: name, or None
    actionNameToId,  \* actionNameToId[name][action name]
    actionIdToName,  \* actionIdToName[name][action number]
    localThings      \* the things of this device, in file order

tables == <<nameToThing, thingToName, actionNameToId, actionIdToName, localThings>>
mappingsVars == <<phase, tables>>

StoredName == Name \ {EmptyName}
Phase == {"idle", "things", "actions", "defines"}

\* BeetonThing.
LocalThing == [thing : Thing, id : Byte]

(* Every variable has its type; no number is too wide, no name is empty.    *)
MappingsTypeOK ==
    /\ phase \in Phase
    /\ nameToThing \in [StoredName -> Thing \cup {None}]
    /\ thingToName \in [Thing -> StoredName \cup {None}]
    /\ actionNameToId \in [StoredName -> [StoredName -> Byte \cup {None}]]
    /\ actionIdToName \in [StoredName -> [Byte -> StoredName \cup {None}]]
    /\ localThings \in Seq(LocalThing)

NoThings == [n \in StoredName |-> None]
NoNames == [t \in Thing |-> None]
NoActions == [n \in StoredName |-> [a \in StoredName |-> None]]
NoActionNames == [n \in StoredName |-> [i \in Byte |-> None]]

MappingsInit ==
    /\ phase = "idle"
    /\ nameToThing = NoThings /\ thingToName = NoNames
    /\ actionNameToId = NoActions /\ actionIdToName = NoActionNames
    /\ localThings = <<>>

\* Mutant of LoadMappings: the things of the device are not cleared.
LoadMappings_KeepsLocal ==
    /\ phase = "idle"
    /\ phase' = "things"
    /\ nameToThing' = NoThings /\ thingToName' = NoNames
    /\ actionNameToId' = NoActions /\ actionIdToName' = NoActionNames
    /\ UNCHANGED localThings

\* A card that cannot be mounted leaves everything as it was.
LoadMappings ==
    /\ phase = "idle"
    /\ phase' = "things"
    /\ nameToThing' = NoThings /\ thingToName' = NoNames
    /\ actionNameToId' = NoActions /\ actionIdToName' = NoActionNames
    /\ localThings' = <<>>

\* The end of a file, or its failure to open.
NextFile ==
    /\ phase # "idle"
    /\ phase' = CASE phase = "things" -> "actions"
                  [] phase = "actions" -> "defines"
                  [] phase = "defines" -> "idle"
    /\ UNCHANGED tables

-----------------------------------------------------------------------------
(* The rows that are stored.                                                *)

\* parseUnsignedField.
Accepts(field, maximum) == field # NotANumber /\ field <= maximum

Names(raw) == Lower[raw] # EmptyName
Known(raw) == Names(raw) /\ nameToThing[Lower[raw]] # None

\* Mutant of NewThing: the number is not looked up.
NewThing_ByName(name, thing) == nameToThing[name] = None

\* Neither the name nor the number is mapped already.
NewThing(name, thing) == nameToThing[name] = None /\ thingToName[thing] = None

ReadThing(raw, number) ==
    /\ phase = "things"
    /\ Names(raw) /\ Accepts(number, MaxThing)
    /\ NewThing(Lower[raw], number)
    /\ nameToThing' = [nameToThing EXCEPT ![Lower[raw]] = number]
    /\ thingToName' = [thingToName EXCEPT ![number] = Lower[raw]]
    /\ UNCHANGED <<phase, actionNameToId, actionIdToName, localThings>>

\* Mutant of NewAction: the number is not looked up.
NewAction_ByName(name, action, id) == actionNameToId[name][action] = None

\* Mutant of NewAction: an action name that is mapped already is mapped anew.
NewAction_ById(name, action, id) == actionIdToName[name][id] = None

\* Neither the name nor the number of the action is mapped for this thing.
NewAction(name, action, id) ==
    /\ actionNameToId[name][action] = None
    /\ actionIdToName[name][id] = None

ReadAction(raw, rawAction, number) ==
    /\ phase = "actions"
    /\ Names(rawAction) /\ Known(raw)
    /\ Accepts(number, MaxByte)
    /\ NewAction(Lower[raw], Lower[rawAction], number)
    /\ actionNameToId' = [actionNameToId EXCEPT ![Lower[raw]][Lower[rawAction]] = number]
    /\ actionIdToName' = [actionIdToName EXCEPT ![Lower[raw]][number] = Lower[rawAction]]
    /\ UNCHANGED <<phase, nameToThing, thingToName, localThings>>

\* Mutant of NewLocal: only the last row is looked at.
NewLocal_Adjacent(local) ==
    \A i \in 1 .. Len(localThings) : i = Len(localThings) => localThings[i] # local

NewLocal(local) == \A i \in 1 .. Len(localThings) : localThings[i] # local

\* Mutant of ReadDefine: the instance may be wider than a byte.
ReadDefine_Wide(raw, number) ==
    /\ phase = "defines"
    /\ Known(raw)
    /\ Accepts(number, MaxThing + 1)
    /\ LET local == [thing |-> nameToThing[Lower[raw]], id |-> number]
       IN  NewLocal(local) /\ localThings' = Append(localThings, local)
    /\ UNCHANGED <<phase, nameToThing, thingToName, actionNameToId, actionIdToName>>

ReadDefine(raw, number) ==
    /\ phase = "defines"
    /\ Known(raw)
    /\ Accepts(number, MaxByte)
    /\ LET local == [thing |-> nameToThing[Lower[raw]], id |-> number]
       IN  NewLocal(local) /\ localThings' = Append(localThings, local)
    /\ UNCHANGED <<phase, nameToThing, thingToName, actionNameToId, actionIdToName>>

MappingsNext ==
    \/ LoadMappings
    \/ NextFile
    \/ \E raw \in RawName, number \in Number \cup {NotANumber} :
         \/ ReadThing(raw, number)
         \/ \E rawAction \in RawName : ReadAction(raw, rawAction, number)
         \/ ReadDefine(raw, number)

MappingsSpec == MappingsInit /\ [][MappingsNext]_mappingsVars

-----------------------------------------------------------------------------
(* Lookups (lookup.cpp).  getThingName answers "unknown" where this is None. *)

GetThingName(thing) == thingToName[thing]
GetThingId(name) == nameToThing[name]
GetActionName(name, id) == actionIdToName[name][id]
GetActionId(name, action) == actionNameToId[name][action]

-----------------------------------------------------------------------------
(* Properties.                                                              *)

(* The two directions of the map of things agree, whatever duplicates, in   *)
(* whatever case and order, the file holds: looking up the name of a number *)
(* gives a name that looks up to that number, and the other way round.      *)
ThingsTwoWay ==
    \A name \in StoredName, thing \in Thing :
        GetThingId(name) = thing <=> GetThingName(thing) = name

(* The two directions of every thing's map of actions agree.                *)
ActionsTwoWay ==
    \A name, action \in StoredName, id \in Byte :
        GetActionId(name, action) = id <=> GetActionName(name, id) = action

(* Actions are known, and things hosted, only for thing names of the same   *)
(* load: nothing of an earlier load, whose numbers may have meant other     *)
(* things, is left behind or announced to the leader.                       *)
Grounded ==
    /\ \A name, action \in StoredName :
         GetActionId(name, action) # None => GetThingId(name) # None
    /\ \A i \in 1 .. Len(localThings) : GetThingName(localThings[i].thing) # None

(* The device announces each of its things once.                            *)
HostedOnce ==
    \A i, k \in 1 .. Len(localThings) : localThings[i] = localThings[k] => i = k

(* Within one load the number of a name, once stored, stays: of rows that   *)
(* contradict one another the first wins.  The names of numbers follow, as  *)
(* ThingsTwoWay and ActionsTwoWay make them the inverse.                    *)
EntriesStay ==
    /\ \A name \in StoredName :
         nameToThing[name] # None => nameToThing'[name] = nameToThing[name]
    /\ \A name, action \in StoredName :
         actionNameToId[name][action] # None =>
             actionNameToId'[name][action] = actionNameToId[name][action]

FirstRowWins == [][phase # "idle" => EntriesStay]_mappingsVars

=============================================================================
