------------------------------ MODULE Reports ------------------------------
(***************************************************************************)
(* From packets to reports: the Deserialize handlers of                    *)
(* internal/packets/receive and send, the table they share (MapTable) and  *)
(* the queue their reports go to (APIConsumer).                            *)
(*                                                                         *)
(* Every packet has a deserializer goroutine of its own.  Its calls to the *)
(* table and to the queue are steps of their own, so handlers interleave,  *)
(* also those of one connection.  The processor clears a connection's      *)
(* entry when it closes, whether its deserializers have finished or not.   *)
(*                                                                         *)
(* The game is the environment.  A character server names the map of a     *)
(* character and the map server to go to; the client connects there and    *)
(* logs in; the map server loads the map and moves the character later.    *)
(* here and owner say who is where.  The Analyzer may be started while     *)
(* players are in the game already.                                        *)
(***************************************************************************)
EXTENDS MapTable, APIConsumer

CONSTANTS
    ServerOf,   \* the map server of a connection, None for a character server
    Host,       \* the ip of a map server
    MaxFrames,  \* bound on the packets
    MaxOverlap, \* bound on them once handlers overlapped
    MaxCloses,  \* bound on the closes of connections and the lost links
    MaxReports  \* bound on the packets that a report is made of

ASSUME ReportsAssumption ==
    /\ ServerOf \in [Conns -> Servers \cup {None}]
    /\ Host \in [Servers -> Hosts]
    /\ MaxFrames \in Nat /\ MaxOverlap \in Nat /\ MaxCloses \in Nat
    /\ MaxReports \in Nat /\ Requests = 1 .. MaxFrames

VARIABLES
    pendingMap, \* the table
    running,    \* the deserializers at work
    frames,     \* packets so far
    closes,     \* closes and lost links so far
    seen,       \* packets so far that a report is made of
    connections,\* the processor's connections
    owner,      \* environment: the character on a connection, or None
    here,       \* environment: the map it is on
    goal,       \* environment: where each character is to log in
    told,       \* history: connections that got a MapChanged since they opened
    serial,     \* history: no two handlers, and no close, overlapped
    fresh,      \* history: no lookup met an entry that says another map
    shared      \* history: connections whose login found several entries

game    == <<owner, here, goal>>
history == <<told, serial, fresh, shared>>
vars    == <<pendingMap, running, frames, closes, seen, connections, owner, here,
             goal, told, serial, fresh, shared, items, hand, pushed, refusals, copies,
             unanswered, delivered, abandoned>>

MapConns == {c \in Conns : ServerOf[c] # None}

Kinds  == {"charIdAndMap", "mapLogin", "mapChanged", "mapLoaded", "report"}
Stages == {"start", "dns", "pending", "destination", "set"}

\* A handler: its packet, and what the packet says.
Handler ==
    [n : 1 .. MaxFrames, kind : Kinds, stage : Stages, conn : Conns,
     char : Chars \cup {None}, map : Maps \cup {None}, xy : Spots \cup {None},
     dest : Servers \cup {None}]

\* A goal: the map and server a character was sent to; Nowhere before that.
Nowhere == [map |-> None, server |-> None]

Init ==
    /\ pendingMap = <<>> /\ running = {} /\ frames = 0 /\ closes = 0 /\ seen = 0
    /\ connections = Conns
    /\ goal = [ch \in Chars |-> Nowhere]
    /\ owner \in [Conns -> Chars \cup {None}]
    /\ here \in [Conns -> Maps \cup {None}]
    /\ \A c \in Conns : (owner[c] = None <=> here[c] = None)
                        /\ (c \notin MapConns => owner[c] = None)
    /\ \A c, d \in Conns : owner[c] = owner[d] /\ owner[c] # None => c = d
    /\ told = {} /\ serial = TRUE /\ fresh = TRUE /\ shared = {}
    /\ APIInit
-----------------------------------------------------------------------------
(* Packets arrive: Worker.spawnDeserializer starts a goroutine.            *)

Arrive(kind, c, ch, map, xy, s) ==
    /\ c \in connections /\ frames < MaxFrames
    /\ frames' = frames + 1
    /\ running' = running \cup
          {[n |-> frames + 1, kind |-> kind, stage |-> "start", conn |-> c,
            char |-> ch, map |-> map, xy |-> xy, dest |-> s]}
    /\ serial' = (serial /\ running = {})
    /\ serial' \/ frames < MaxOverlap
    /\ UNCHANGED <<pendingMap, closes, connections, api>>

\* A character server sends ch to map on s.
CharSelected(c, ch, map, s) ==
    /\ c \notin MapConns
    /\ Arrive("charIdAndMap", c, ch, map, None, s)
    /\ goal' = [goal EXCEPT ![ch] = [map |-> map, server |-> s]]
    /\ here' = [d \in Conns |-> IF owner[d] = ch THEN None ELSE here[d]]
    /\ UNCHANGED <<owner, seen, told, fresh, shared>>

\* The client logs in as ch where it was sent.  An entry of ch that names
\* another map is an old one, and all of ch's entries go to c.
LoggedIn(c, ch) ==
    /\ c \in MapConns /\ owner[c] = None /\ goal[ch].server = ServerOf[c]
    /\ Arrive("mapLogin", c, ch, None, None, None)
    /\ owner' = [owner EXCEPT ![c] = ch]
    /\ here' = [here EXCEPT ![c] = goal[ch].map]
    /\ goal' = [goal EXCEPT ![ch] = Nowhere]
    /\ LET ofCh == {i \in DOMAIN pendingMap : pendingMap[i].charId = ch}
       IN  /\ fresh' = (fresh /\ \A i \in ofCh : pendingMap[i].mapName = goal[ch].map)
           /\ shared' = IF Cardinality(ofCh) > 1 THEN shared \cup {c} ELSE shared
    /\ UNCHANGED <<seen, told>>

\* The map server moves the character, on itself or (s) to another server.
Moved(c, map, xy, s) ==
    /\ here[c] # None
    /\ Arrive("mapChanged", c, None, map, xy, None)
    /\ IF s = ServerOf[c]
          THEN here' = [here EXCEPT ![c] = map] /\ UNCHANGED goal
          ELSE /\ goal' = [goal EXCEPT ![owner[c]] = [map |-> map, server |-> s]]
               /\ here' = [here EXCEPT ![c] = None]
    /\ told' = told \cup {c}
    /\ UNCHANGED <<owner, seen, fresh, shared>>

\* The map is loaded, at xy.  An entry for these coordinates or this server
\* that names another map is an old one.
Loaded(c, xy) ==
    /\ here[c] # None
    /\ Arrive("mapLoaded", c, None, None, xy, None)
    /\ fresh' = (fresh /\ \A i \in DOMAIN pendingMap :
                    LET p == pendingMap[i]
                    IN  (p.source = Host[ServerOf[c]] /\ p.xy = xy) \/ p.dest = ServerOf[c]
                            => p.mapName = here[c])
    /\ UNCHANGED <<game, seen, told, shared>>

\* A packet that a report is made of.
Seen(c) ==
    /\ here[c] # None
    /\ seen < MaxReports
    /\ Arrive("report", c, None, None, None, None)
    /\ seen' = seen + 1
    /\ UNCHANGED <<game, told, fresh, shared>>

Arrival ==
    \E c \in Conns :
        \/ \E ch \in Chars, m \in Maps, s \in Servers : CharSelected(c, ch, m, s)
        \/ \E ch \in Chars : LoggedIn(c, ch)
        \/ \E m \in Maps, xy \in Spots, s \in Servers : Moved(c, m, xy, s)
        \/ \E xy \in Spots : Loaded(c, xy)
        \/ Seen(c)
-----------------------------------------------------------------------------
(* The handlers.                                                           *)

At(h, kind, stage) == h \in running /\ h.kind = kind /\ h.stage = stage

GoTo(h, stage, map) ==
    running' = (running \ {h}) \cup {[h EXCEPT !.stage = stage, !.map = map]}
Finish(h) == running' = running \ {h}

\* What a handler of the table leaves alone.
TableStep == UNCHANGED <<frames, closes, seen, connections, game, history, api>>
-----------------------------------------------------------------------------
(* A plausible slip in a handler.                                          *)

\* The first lookup's answer is stored without looking whether there is one.
MapLoadedCoordsUnchecked(h) ==
    /\ At(h, "mapLoaded", "start")
    /\ GoTo(h, "set", GetPendingMapChange(pendingMap, Host[ServerOf[h.conn]], h.xy))
    /\ UNCHANGED pendingMap /\ TableStep
-----------------------------------------------------------------------------
\* ReceivedCharIdAndMap: the character and the connection that told it ...
CharIdAndMapStart(h) ==
    /\ At(h, "charIdAndMap", "start")
    /\ pendingMap' = SetConnectionMapChar(pendingMap, h.char, h.conn, h.map)
    /\ GoTo(h, "dns", h.map) /\ TableStep

\* ... then its lookup of the map server's name, which may fail.
CharIdAndMapResolved(h) ==
    /\ At(h, "charIdAndMap", "dns")
    /\ \/ pendingMap' = SetPendingMapByDestination(pendingMap, h.dest, h.map)
       \/ UNCHANGED pendingMap
    /\ Finish(h) /\ TableStep

MapLogin(h) ==
    /\ At(h, "mapLogin", "start")
    /\ pendingMap' = SetPendingMapByCharId(pendingMap, h.char, h.conn)
    /\ Finish(h) /\ TableStep

\* MapChanged: the connection's map, then the announcement for MapLoaded.
MapChangedStart(h) ==
    /\ At(h, "mapChanged", "start")
    /\ pendingMap' = SetConnectionMap(pendingMap, h.conn, h.map)
    /\ GoTo(h, "pending", h.map) /\ TableStep

MapChangedPending(h) ==
    /\ At(h, "mapChanged", "pending")
    /\ pendingMap' = SetPendingMapChange(pendingMap, Host[ServerOf[h.conn]], h.map, h.xy)
    /\ Finish(h) /\ TableStep

\* MapLoaded: by coordinates first, then by server, else nothing is known.
MapLoadedCoords(h) ==
    /\ At(h, "mapLoaded", "start")
    /\ LET m == GetPendingMapChange(pendingMap, Host[ServerOf[h.conn]], h.xy)
       IN  GoTo(h, IF m = None THEN "destination" ELSE "set", m)
    /\ UNCHANGED pendingMap /\ TableStep

MapLoadedDestination(h) ==
    /\ At(h, "mapLoaded", "destination")
    /\ LET m == GetPendingMapByDestination(pendingMap, ServerOf[h.conn])
       IN  IF m = None THEN Finish(h) ELSE GoTo(h, "set", m)
    /\ UNCHANGED pendingMap /\ TableStep

MapLoadedSet(h) ==
    /\ At(h, "mapLoaded", "set")
    /\ pendingMap' = SetConnectionMap(pendingMap, h.conn, h.map)
    /\ Finish(h) /\ TableStep

\* One of the other handlers, and whether it reports.
Reporting(h, reports) ==
    /\ At(h, "report", "start")
    /\ IF reports THEN Push(h.n) ELSE UNCHANGED api
    /\ Finish(h)
    /\ UNCHANGED <<pendingMap, frames, closes, seen, connections, game, history>>

HasMap(h) == GetConnectionMap(pendingMap, h.conn) # None

\* Shops are reported with their map, or not at all.
VenderFound(h)       == Reporting(h, HasMap(h))
VenderItemsLists(h)  == Reporting(h, HasMap(h))
OfflineCloneFound(h) == Reporting(h, HasMap(h))

\* Players are reported with the map "unknown" if need be, monsters are not.
ActorInfo(h) == \E player \in BOOLEAN : Reporting(h, player)

\* These say nothing of a map; a list of servers is only logged.
SystemChat(h)           == Reporting(h, TRUE)
SpecialItemObtain(h)    == Reporting(h, TRUE)
UpgradeItemBroadcast(h) == Reporting(h, TRUE)
CharEmblemUpdate(h)     == Reporting(h, TRUE)
ServersList(h)          == Reporting(h, FALSE)

Deserialize(h) ==
    \/ CharIdAndMapStart(h) \/ CharIdAndMapResolved(h) \/ MapLogin(h)
    \/ MapChangedStart(h) \/ MapChangedPending(h)
    \/ MapLoadedCoords(h) \/ MapLoadedDestination(h) \/ MapLoadedSet(h)
    \/ VenderFound(h) \/ VenderItemsLists(h) \/ OfflineCloneFound(h) \/ ActorInfo(h)
    \/ SystemChat(h) \/ SpecialItemObtain(h) \/ UpgradeItemBroadcast(h)
    \/ CharEmblemUpdate(h) \/ ServersList(h)
-----------------------------------------------------------------------------
(* The processor's part.                                                   *)

\* handleConnOpen, for a connection id that is free: ids start from 1 again
\* with a new proxy process.
ConnOpened(c) ==
    /\ c \notin connections
    /\ connections' = connections \cup {c}
    /\ UNCHANGED <<pendingMap, running, frames, closes, seen, game, history, api>>

\* handleConnClose: the entry goes, deserializers may still be at work.
ConnClosed(c) ==
    /\ c \in connections
    /\ connections' = connections \ {c}
    /\ pendingMap' = ClearConnectionMap(pendingMap, c)
    /\ owner' = [owner EXCEPT ![c] = None] /\ here' = [here EXCEPT ![c] = None]
    /\ told' = told \ {c}
    /\ serial' = (serial /\ \A h \in running : h.conn # c)
    /\ closes < MaxCloses /\ closes' = closes + 1
    /\ UNCHANGED <<running, frames, seen, goal, fresh, shared, api>>

\* handleIPCDisconnect for one of the connections it finds: the proxy only
\* redialled, the connection lives, and its next data brings it back.
LinkLost(c) ==
    /\ c \in connections
    /\ pendingMap' = ClearConnectionMap(pendingMap, c)
    /\ told' = told \ {c}
    /\ serial' = (serial /\ \A h \in running : h.conn # c)
    /\ closes < MaxCloses /\ closes' = closes + 1
    /\ UNCHANGED <<running, frames, seen, connections, game, fresh, shared, api>>

Processor == \E c \in Conns : ConnOpened(c) \/ ConnClosed(c) \/ LinkLost(c)
-----------------------------------------------------------------------------
ConsumerStep ==
    /\ Consumer
    /\ UNCHANGED <<pendingMap, running, frames, closes, seen, connections, game, history>>

Next ==
    \/ Arrival
    \/ \E h \in running : Deserialize(h)
    \/ Processor
    \/ ConsumerStep

Spec == Init /\ [][Next]_vars

FairSpec == Spec /\ ConsumerFairness
-----------------------------------------------------------------------------
(* Properties.                                                             *)

TypeOK ==
    /\ pendingMap \in Seq(Entry)
    /\ running \subseteq Handler /\ frames \in 0 .. MaxFrames
    /\ connections \subseteq Conns
    /\ owner \in [Conns -> Chars \cup {None}] /\ here \in [Conns -> Maps \cup {None}]
    /\ told \subseteq MapConns /\ serial \in BOOLEAN /\ fresh \in BOOLEAN
    /\ shared \subseteq MapConns
    /\ APITypeOK

\* GetConnectionMap answers c's map, or nothing while no packet told it.
KnowsMap(c) ==
    /\ GetConnectionMap(pendingMap, c) \in {here[c], None}
    /\ c \in told => GetConnectionMap(pendingMap, c) = here[c]

(* While handlers do not overlap and no lookup meets an old entry, the map *)
(* reported for a connection is the map its player is on, over any         *)
(* sequence of selections, logins, moves, loads, closed connections and    *)
(* lost links, and wherever the Analyzer came in.  Left out is a           *)
(* connection that was ever given several entries by a login: what is left *)
(* of them when it closes answers for its next player.                     *)
RightMap ==
    serial /\ fresh /\ running = {} =>
        \A c \in connections \ shared : here[c] # None => KnowsMap(c)

(* A closed connection leaves no entry, whatever the entries say: the same *)
(* id, used by the next proxy process, starts without a map.  Two things   *)
(* break this and no third one does: handlers that overlap (one of them    *)
(* may outlive its connection), and a login that found several entries of  *)
(* its character, as all of them go to its connection and only one is      *)
(* removed with it.                                                        *)
ForgottenOnClose ==
    serial => \A i \in DOMAIN pendingMap :
                  pendingMap[i].connId \in connections \cup {None} \cup shared

(* RightMap without its exception, as .github/copilot-instructions.md has  *)
(* it: "The Analyzer tracks which in-game map each connection is on" and   *)
(* GetConnectionMap is to "retrieve current map".                          *)
CurrentMap ==
    serial /\ fresh /\ running = {} =>
        \A c \in connections :
            here[c] # None => GetConnectionMap(pendingMap, c) \in {here[c], None}

(* No report is lost: from the moment it is pushed until it is settled it  *)
(* waits in exactly one place, after that in none.  It is given up only    *)
(* after MaxRetries refusals, and the API takes it more than once only if  *)
(* an answer was lost.                                                     *)
KeptUntilSettled ==
    \A r \in Requests :
        /\ Waiting(r) = IF r \in pushed /\ ~Settled(r) THEN 1 ELSE 0
        /\ Settled(r) => r \in pushed
        /\ r \in abandoned => refusals[r] = MaxRetries /\ r \notin delivered
        /\ r \in delivered => copies[r] > 0
        /\ copies[r] > 1 => r \in unanswered

(* Every report is delivered or given up, if the API answers in the end:   *)
(* one that is refused again and again does not block the others for ever. *)
EventuallySettled == \A r \in Requests : Pending(r) ~> Settled(r)
=============================================================================
