------------------------------ MODULE MapTable ------------------------------
(***************************************************************************)
(* The table pendingMap of internal/packets/context.go: where connections  *)
(* and characters are, as the packets told.                                *)
(*                                                                         *)
(* One sequence holds three kinds of entries: the map of a connection, a   *)
(* map announced for coordinates (MapChanged) and a map announced for a    *)
(* map server (ReceivedCharIdAndMap).  An entry carries None, the zero     *)
(* value of its field, where it says nothing; addresses, connection ids    *)
(* and character ids that are looked up are never zero.  Every function    *)
(* runs under pendingMapMutex, so each is one operator on the table.       *)
(***************************************************************************)
EXTENDS Integers, Sequences, SequencesExt

CONSTANTS
    Chars,      \* character ids
    Conns,      \* connection ids
    Maps,       \* map names
    Spots,      \* coordinates (x, y)
    Servers,    \* map servers: ip and port
    Hosts,      \* their ips
    None        \* the zero value of every field

ASSUME TableAssumption == None \notin Chars \cup Conns \cup Maps \cup Spots \cup Servers \cup Hosts

Entry ==
    [charId : Chars \cup {None}, connId : Conns \cup {None}, mapName : Maps,
     source : Hosts \cup {None}, xy : Spots \cup {None}, dest : Servers \cup {None}]

\* A new entry that says nothing but its map.
NewLocation(map) ==
    [charId |-> None, connId |-> None, mapName |-> map, source |-> None,
     xy |-> None, dest |-> None]

\* The map of the first of the entries at the places I, None if there is none.
FirstMap(t, I) == IF I = {} THEN None ELSE t[Min(I)].mapName

\* t, and the entry e unless t has some at the places I.
AddUnless(t, e, I) == IF I = {} THEN Append(t, e) ELSE t
-----------------------------------------------------------------------------
(* Plausible slips in the operators below, one per comment.  No            *)
(* specification uses them; each property is checked to fail when one of   *)
(* them stands for the operator it varies.                                 *)

\* A new entry each time: the first one is never updated.
SetConnectionMapCharAppends(t, ch, c, map) ==
    Append(t, [NewLocation(map) EXCEPT !.charId = ch, !.connId = c])

\* The entry before the connection's is removed.
ClearConnectionMapOffByOne(t, c) ==
    LET i == SelectLastInSeq(t, LAMBDA p : p.connId = c)
    IN  IF i > 1 THEN RemoveAt(t, i - 1) ELSE t
-----------------------------------------------------------------------------
SetConnectionMapChar(t, ch, c, map) ==
    LET i == SelectInSeq(t, LAMBDA p : p.connId = c)
    IN  IF i # 0
           THEN [t EXCEPT ![i].charId = ch, ![i].mapName = map]
           ELSE Append(t, [NewLocation(map) EXCEPT !.charId = ch, !.connId = c])

\* It forgets which character the connection belongs to.
SetConnectionMap(t, c, map) == SetConnectionMapChar(t, None, c, map)

GetConnectionMap(t, c) == FirstMap(t, {i \in DOMAIN t : t[i].connId = c})

SetPendingMapChange(t, host, map, xy) ==
    AddUnless(t, [NewLocation(map) EXCEPT !.source = host, !.xy = xy],
              {i \in DOMAIN t : t[i].source = host /\ t[i].mapName = map /\ t[i].xy = xy})

\* The oldest announcement answers, and it is not removed.
GetPendingMapChange(t, host, xy) ==
    FirstMap(t, {i \in DOMAIN t : t[i].source = host /\ t[i].xy = xy})

SetPendingMapByDestination(t, s, map) ==
    AddUnless(t, [NewLocation(map) EXCEPT !.dest = s],
              {i \in DOMAIN t : t[i].dest = s /\ t[i].mapName = map})

GetPendingMapByDestination(t, s) == FirstMap(t, {i \in DOMAIN t : t[i].dest = s})

\* Every entry of the character is given to the connection.
SetPendingMapByCharId(t, ch, c) ==
    [i \in DOMAIN t |-> IF t[i].charId = ch THEN [t[i] EXCEPT !.connId = c] ELSE t[i]]

\* The last entry of the connection is removed, and no other.
ClearConnectionMap(t, c) ==
    LET i == SelectLastInSeq(t, LAMBDA p : p.connId = c)
    IN  IF i # 0 THEN RemoveAt(t, i) ELSE t
=============================================================================
