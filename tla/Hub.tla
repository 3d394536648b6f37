-------------------------------- MODULE Hub --------------------------------
(***************************************************************************)
(* How WebSocket connections come to sit at a table and leave it: the hub   *)
(* goroutine (internal/api/ws.go), the goroutines of the connections        *)
(* (ws_client.go), and the seat handling of the room goroutines (room.go),  *)
(* which the hub reaches over buffered channels.  A seat belongs to one     *)
(* user for the whole match and is named after that user; a user may open   *)
(* several connections.  The Send channel of a connection is closed by      *)
(* whoever gives it up, and whoever sends on a closed channel, or closes it *)
(* again, takes the server down.  Module Room has what the room does        *)
(* between these events.                                                    *)
(***************************************************************************)
EXTENDS Naturals, FiniteSets, Sequences, SequencesExt

CONSTANTS
    Users, Clients, Rooms,
    UserOf(_),   \* the user of a connection
    MayLag,      \* connections whose 256-slot Send buffer may be full
    ChanCap,     \* capacity of a room's seat channels (4)
    UnbindCap,   \* capacity of UnbindRoom (256)
    Grace,       \* is there a disconnect grace period?
    None

ASSUME HubAssumption ==
    /\ \A c \in Clients : UserOf(c) \in Users
    /\ MayLag \subseteq Clients
    /\ ChanCap \in Nat \ {0} /\ UnbindCap \in Nat \ {0}
    /\ Cardinality(Rooms) <= UnbindCap
    /\ Grace \in BOOLEAN
    /\ None \notin Rooms \cup Clients

VARIABLES
    socket,     \* per connection: "out", "open", "broken" or "gone"
    leaving,    \* connections with IntentionalLeave
    hubClients, \* Hub.Clients
    userRoom,   \* Hub.UserRooms
    routing,    \* the room the hub waits for with an action, or None
    unbindRoom, \* the channel UnbindRoom
    room,       \* per room: "new", "running", "finishing" or "done"
    seats,      \* per room and user: Room.Seats
    disconnected, reconnected, seatRelease, \* per room: its three channels
    grace,      \* per room: connections whose grace goroutine sleeps
    closed,     \* connections whose Send is closed
    crashed     \* "none", or the operation that panicked: "send" or "close"

hubVars == <<leaving, hubClients, userRoom, routing, unbindRoom>>
seatVars == <<seats, disconnected, reconnected, seatRelease, grace>>
vars == <<socket, hubVars, room, seatVars, closed, crashed>>

Up == crashed = "none"
HubIdle == Up /\ routing = None
Runs(r) == Up /\ room[r] = "running"

(* A non-blocking send: dropped when the channel is full. *)
Offer(chan, r, c) == IF Len(chan[r]) < ChanCap THEN [chan EXCEPT ![r] = Append(@, c)] ELSE chan

(* The sends to the connections in cs: a panic if one of them is closed. *)
SendTo(cs) == crashed' = IF cs \cap closed # {} THEN "send" ELSE crashed

Init ==
    /\ socket = [c \in Clients |-> "out"]
    /\ leaving = {} /\ hubClients = {} /\ closed = {}
    /\ userRoom = [u \in Users |-> None]
    /\ routing = None /\ unbindRoom = << >>
    /\ room = [r \in Rooms |-> "new"]
    /\ seats = [r \in Rooms |-> [u \in Users |-> None]]
    /\ disconnected = [r \in Rooms |-> << >>]
    /\ reconnected = disconnected /\ seatRelease = disconnected
    /\ grace = [r \in Rooms |-> {}]
    /\ crashed = "none"

-----------------------------------------------------------------------------
(* The hub goroutine. *)

(* A connection of a user in a room is handed to that room. *)
Register(c) ==
    LET r == userRoom[UserOf(c)]
    IN  /\ HubIdle /\ socket[c] = "out"
        /\ socket' = [socket EXCEPT ![c] = "open"]
        /\ hubClients' = hubClients \cup {c}
        /\ reconnected' = IF r = None THEN reconnected ELSE Offer(reconnected, r, c)
        /\ UNCHANGED <<leaving, userRoom, routing, unbindRoom, room, seats, disconnected,
                       seatRelease, grace, closed, crashed>>

(* readPump has failed.  Whether the room or the hub closes Send depends on *)
(* UserRooms; the hub's own close is not guarded.                           *)
Unregister(c) ==
    LET r == userRoom[UserOf(c)]
    IN  /\ HubIdle /\ socket[c] = "broken"
        /\ socket' = [socket EXCEPT ![c] = "gone"]
        /\ hubClients' = hubClients \ {c}
        /\ IF c \notin hubClients
           THEN UNCHANGED <<disconnected, closed, crashed>>
           ELSE IF r = None
           THEN /\ closed' = closed \cup {c}
                /\ crashed' = IF c \in closed THEN "close" ELSE crashed
                /\ UNCHANGED disconnected
           ELSE /\ disconnected' = Offer(disconnected, r, c)
                /\ closed' = IF Len(disconnected[r]) < ChanCap THEN closed ELSE closed \cup {c}
                /\ UNCHANGED crashed
        /\ UNCHANGED <<leaving, userRoom, routing, unbindRoom, room, seats, reconnected,
                       seatRelease, grace>>

(* Every user of the match is seated with one of his connections, if there  *)
(* is one; a connection that lags is closed, but stays seated.              *)
BindRoom(r) ==
    LET open(u) == { c \in hubClients : UserOf(c) = u }
    IN  /\ HubIdle /\ room[r] = "new"
        /\ room' = [room EXCEPT ![r] = "running"]
        /\ userRoom' = [u \in Users |-> r]
        /\ \E pick \in [Users -> hubClients \cup {None}] :
              /\ \A u \in Users : pick[u] \in (IF open(u) = {} THEN {None} ELSE open(u))
              /\ seats' = [seats EXCEPT ![r] = pick]
              /\ \E lag \in SUBSET (MayLag \cap { pick[u] : u \in Users }) :
                    /\ closed' = closed \cup lag
                    /\ hubClients' = hubClients \ lag
              /\ SendTo({ pick[u] : u \in Users })
        /\ UNCHANGED <<socket, leaving, routing, unbindRoom, disconnected, reconnected,
                       seatRelease, grace>>

(* Only entries that still name the closing room are deleted. *)
UnbindRoom ==
    /\ HubIdle /\ unbindRoom # << >>
    /\ userRoom' = [u \in Users |-> IF userRoom[u] = Head(unbindRoom) THEN None ELSE userRoom[u]]
    /\ unbindRoom' = Tail(unbindRoom)
    /\ UNCHANGED <<socket, leaving, hubClients, routing, room, seatVars, closed, crashed>>

LobbyBroadcast ==
    LET lobby == { c \in hubClients : userRoom[UserOf(c)] = None }
    IN  /\ HubIdle
        /\ \E lag \in SUBSET (MayLag \cap lobby) :
              closed' = closed \cup lag /\ hubClients' = hubClients \ lag
        /\ SendTo(lobby)
        /\ UNCHANGED <<socket, leaving, userRoom, routing, unbindRoom, room, seatVars>>

(* ActionStream: the hub waits until the room takes the action or is done.  *)
Route(c) ==
    /\ HubIdle /\ socket[c] = "open" /\ userRoom[UserOf(c)] # None
    /\ routing' = userRoom[UserOf(c)]
    /\ UNCHANGED <<socket, leaving, hubClients, userRoom, unbindRoom, room, seatVars, closed, crashed>>

RoomDone ==
    /\ Up /\ routing # None /\ room[routing] = "done"
    /\ routing' = None
    /\ UNCHANGED <<socket, leaving, hubClients, userRoom, unbindRoom, room, seatVars, closed, crashed>>

-----------------------------------------------------------------------------
(* The goroutines of a connection. *)

Break(c) ==
    /\ Up /\ socket[c] = "open"
    /\ socket' = [socket EXCEPT ![c] = "broken"]
    /\ leaving' \in {leaving, leaving \cup {c}}
    /\ UNCHANGED <<hubClients, userRoom, routing, unbindRoom, room, seatVars, closed, crashed>>

-----------------------------------------------------------------------------
(* A room goroutine. *)

Seated(r) == { seats[r][u] : u \in Users } \ {None}

(* Fault: the seat of the connection's user is freed, whoever holds it. *)
FreedByUser(r, c) == [seats EXCEPT ![r][UserOf(c)] = None]

(* freeSeatForClient: matched by pointer. *)
Freed(r, c) == [seats EXCEPT ![r] = [u \in Users |-> IF @[u] = c THEN None ELSE @[u]]]

(* The connection gives up its seat in r; with the last one the match ends. *)
FreeSeat(r, c) ==
    /\ seats' = Freed(r, c)
    /\ closed' = closed \cup {c}
    /\ room' = IF seats'[r] # seats[r] /\ \A u \in Users : seats'[r][u] = None
               THEN [room EXCEPT ![r] = "finishing"] ELSE room

TakeAction(r) ==
    /\ Runs(r) /\ routing = r
    /\ routing' = None
    /\ SendTo(Seated(r))
    /\ UNCHANGED <<socket, leaving, hubClients, userRoom, unbindRoom, room, seatVars, closed>>

(* BroadcastState after a step of the bots or a timer. *)
Broadcast(r) ==
    /\ Runs(r)
    /\ SendTo(Seated(r))
    /\ UNCHANGED <<socket, hubVars, room, seatVars, closed>>

(* Fault: while a grace period of the same user runs, no other is started. *)
HandleSeatDisconnectOneGrace(r) ==
    LET c == Head(disconnected[r])
    IN  /\ Runs(r) /\ disconnected[r] # << >>
        /\ disconnected' = [disconnected EXCEPT ![r] = Tail(@)]
        /\ IF c \in Seated(r) /\ c \notin leaving /\ Grace
           THEN /\ grace' = IF \E d \in grace[r] : UserOf(d) = UserOf(c) THEN grace
                            ELSE [grace EXCEPT ![r] = @ \cup {c}]
                /\ UNCHANGED <<seats, closed, room>>
           ELSE FreeSeat(r, c) /\ UNCHANGED grace
        /\ UNCHANGED <<socket, hubVars, reconnected, seatRelease, crashed>>

HandleSeatDisconnect(r) ==
    LET c == Head(disconnected[r])
    IN  /\ Runs(r) /\ disconnected[r] # << >>
        /\ disconnected' = [disconnected EXCEPT ![r] = Tail(@)]
        /\ IF c \in Seated(r) /\ c \notin leaving /\ Grace
           THEN /\ grace' = [grace EXCEPT ![r] = @ \cup {c}]
                /\ UNCHANGED <<seats, closed, room>>
           ELSE FreeSeat(r, c) /\ UNCHANGED grace
        /\ UNCHANGED <<socket, hubVars, reconnected, seatRelease, crashed>>

(* Fault: the connection is reported as disconnected once more. *)
GraceElapsesAgain(r, c) ==
    /\ Up /\ c \in grace[r]
    /\ grace' = [grace EXCEPT ![r] = @ \ {c}]
    /\ disconnected' = Offer(disconnected, r, c)
    /\ UNCHANGED <<socket, hubVars, room, seats, seatRelease, reconnected, closed, crashed>>

GraceElapses(r, c) ==
    /\ Up /\ c \in grace[r]
    /\ grace' = [grace EXCEPT ![r] = @ \ {c}]
    /\ seatRelease' = Offer(seatRelease, r, c)
    /\ UNCHANGED <<socket, hubVars, room, seats, disconnected, reconnected, closed, crashed>>

ReleaseSeatAfterGrace(r) ==
    /\ Runs(r) /\ seatRelease[r] # << >>
    /\ seatRelease' = [seatRelease EXCEPT ![r] = Tail(@)]
    /\ FreeSeat(r, Head(seatRelease[r]))
    /\ UNCHANGED <<socket, hubVars, disconnected, reconnected, grace, crashed>>

(* The owner's newest connection takes the seat, the one it replaces is     *)
(* closed.                                                                  *)
HandleSeatReconnect(r) ==
    LET c   == Head(reconnected[r])
        old == seats[r][UserOf(c)]
    IN  /\ Runs(r) /\ reconnected[r] # << >>
        /\ reconnected' = [reconnected EXCEPT ![r] = Tail(@)]
        /\ closed' = closed \cup ({old} \ {None, c})
        /\ seats' = [seats EXCEPT ![r][UserOf(c)] = c]
        /\ SendTo({c})
        /\ UNCHANGED <<socket, hubVars, room, disconnected, seatRelease, grace>>

(* The match is over, or the server drains its rooms. *)
ShutDown(r) ==
    /\ Runs(r)
    /\ room' = [room EXCEPT ![r] = "finishing"]
    /\ UNCHANGED <<socket, hubVars, seatVars, closed, crashed>>

(* Fault: UnbindRoom has no buffer, so that the hub must be ready for it.   *)
CanUnbindUnbuffered == routing = None /\ unbindRoom = << >>
CanUnbind == Len(unbindRoom) < UnbindCap

(* finishShutdown: the hub is told before Done is closed. *)
FinishShutdown(r) ==
    /\ Up /\ room[r] = "finishing" /\ CanUnbind
    /\ unbindRoom' = Append(unbindRoom, r)
    /\ room' = [room EXCEPT ![r] = "done"]
    /\ UNCHANGED <<socket, leaving, hubClients, userRoom, routing, seatVars, closed, crashed>>

HubRuns == UnbindRoom \/ RoomDone \/ \E c \in Clients : Unregister(c)
SeatEvent(r) == HandleSeatDisconnect(r) \/ ReleaseSeatAfterGrace(r) \/ HandleSeatReconnect(r)

Next ==
    \/ HubRuns
    \/ LobbyBroadcast
    \/ \E c \in Clients : Register(c) \/ Route(c) \/ Break(c)
    \/ \E r \in Rooms :
          \/ BindRoom(r) \/ TakeAction(r) \/ Broadcast(r) \/ SeatEvent(r)
          \/ ShutDown(r) \/ FinishShutdown(r)
          \/ \E c \in Clients : GraceElapses(r, c)

Spec == Init /\ [][Next]_vars

(* Goroutines are scheduled, and a room's select picks each channel that    *)
(* stays ready sooner or later.                                             *)
Fairness ==
    /\ \A c \in Clients : SF_vars(Unregister(c))
    /\ SF_vars(UnbindRoom) /\ WF_vars(RoomDone)
    /\ \A r \in Rooms :
          /\ SF_vars(TakeAction(r)) /\ WF_vars(FinishShutdown(r))
          /\ SF_vars(HandleSeatDisconnect(r)) /\ SF_vars(ReleaseSeatAfterGrace(r))
          /\ SF_vars(HandleSeatReconnect(r))
          /\ \A c \in Clients : WF_vars(GraceElapses(r, c))

FairSpec == Spec /\ Fairness

-----------------------------------------------------------------------------
(* Every variable has its type. *)
TypeOK ==
    /\ socket \in [Clients -> {"out", "open", "broken", "gone"}]
    /\ leaving \cup hubClients \cup closed \subseteq Clients
    /\ userRoom \in [Users -> Rooms \cup {None}] /\ routing \in Rooms \cup {None}
    /\ unbindRoom \in Seq(Rooms) /\ Len(unbindRoom) <= UnbindCap
    /\ room \in [Rooms -> {"new", "running", "finishing", "done"}]
    /\ seats \in [Rooms -> [Users -> Clients \cup {None}]]
    /\ \A r \in Rooms : \A chan \in {disconnected[r], reconnected[r], seatRelease[r]} :
          chan \in Seq(Clients) /\ Len(chan) <= ChanCap
    /\ grace \in [Rooms -> SUBSET Clients]
    /\ crashed \in {"none", "send", "close"}

(* No late message of an earlier connection displaces a live one: a seat is *)
(* vacated only when the connection that holds it is gone.                  *)
LiveSeatKept ==
    [][ \A r \in Rooms, u \in Users :
          seats[r][u] # None /\ seats'[r][u] = None => socket[seats[r][u]] = "gone" ]_vars

(* A dropped seat is held for a while, not for ever: the news that its      *)
(* connection is gone is on its way to the room, as long as the connection  *)
(* has not been given up altogether.                                        *)
DropNotForgotten ==
    \A r \in Rooms : Runs(r) =>
        \A c \in Seated(r) : socket[c] = "gone" /\ c \notin closed
            => c \in ToSet(disconnected[r]) \cup grace[r] \cup ToSet(seatRelease[r])

(* The hub serves all rooms: it does not wait for ever for one of them to   *)
(* take an action, not even for one that is shutting down.                  *)
HubNeverStuck == routing # None ~> (routing = None \/ ~Up)

(* A seat whose connection is gone is given to a bot or back to its owner   *)
(* (again, unless the hub had given the connection up altogether).          *)
DroppedSeatFreed ==
    \A r \in Rooms, u \in Users, c \in Clients :
        (seats[r][u] = c /\ socket[c] = "gone" /\ c \notin closed)
            ~> (seats[r][u] # c \/ ~Runs(r))

-----------------------------------------------------------------------------
(* What the repository says and the server does not do. *)

(* safeClose: "the channel is no longer referenced by any seat once closed  *)
(* here".                                                                   *)
SeatedIsOpen == \A r \in Rooms : room[r] = "running" => Seated(r) \cap closed = {}

(* safeClose tolerates "a double close (e.g. a reconnect superseded a seat  *)
(* ...)": closing the Send channel of a connection that was superseded does *)
(* not panic.                                                               *)
DoubleCloseTolerated == crashed # "close"
=============================================================================
