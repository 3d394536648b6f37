----------------------------- MODULE HubProofs -----------------------------
(***************************************************************************)
(* For every number of users, connections and rooms, every capacity of the  *)
(* channels and with or without a grace period: a seat is vacated only when  *)
(* its connection is gone, and a connection that is gone is not forgotten.   *)
(***************************************************************************)
EXTENDS Hub, FiniteSetTheorems, TLAPS

(* What a room has still to do with connections: all of these are gone.      *)
Pending(r) == ToSet(disconnected[r]) \cup grace[r] \cup ToSet(seatRelease[r])

(* The news that a connection is gone travels from UnregisterClient over the  *)
(* channel to the grace goroutine, and from there to the room's other        *)
(* channel; a room that has not started has nobody at its table.             *)
GoneInv ==
    \A r \in Rooms :
        /\ \A c \in Pending(r) : socket[c] = "gone"
        /\ room[r] = "new" => \A u \in Users : seats[r][u] = None

(* A room's channel never holds more than its capacity. *)
Channel(chan) == chan \in [Rooms -> Seq(Clients)] /\ \A r \in Rooms : Len(chan[r]) <= ChanCap

ChannelInv == Channel(disconnected) /\ Channel(reconnected) /\ Channel(seatRelease)

Inv == TypeOK /\ ChannelInv /\ GoneInv

(* In each room's hands a connection is once: in one of the two channels, or *)
(* with a goroutine.                                                         *)
OnceInv ==
    \A r \in Rooms :
        /\ IsInjective(disconnected[r]) /\ IsInjective(seatRelease[r])
        /\ ToSet(disconnected[r]) \cap grace[r] = {}
        /\ ToSet(disconnected[r]) \cap ToSet(seatRelease[r]) = {}
        /\ grace[r] \cap ToSet(seatRelease[r]) = {}

(* The hub knows a connection until it is gone or closed; one that is gone   *)
(* has been closed, or some room has still to deal with it.                  *)
NobodyForgotten ==
    \A c \in Clients :
        /\ socket[c] \in {"open", "broken"} => c \in hubClients \cup closed
        /\ socket[c] = "gone" /\ c \notin closed => \E r \in Rooms : c \in Pending(r)

-----------------------------------------------------------------------------
LEMMA AppendFacts ==
    ASSUME NEW S, NEW s \in Seq(S), NEW e \in S
    PROVE  /\ Append(s, e) \in Seq(S) /\ Len(Append(s, e)) = Len(s) + 1
           /\ ToSet(Append(s, e)) = ToSet(s) \cup {e}
           /\ IsInjective(s) /\ e \notin ToSet(s) => IsInjective(Append(s, e))
<1>1. /\ Append(s, e) \in Seq(S) /\ Len(Append(s, e)) = Len(s) + 1
      /\ DOMAIN Append(s, e) = 1 .. Len(s) + 1 /\ DOMAIN s = 1 .. Len(s) /\ Len(s) \in Nat
      /\ \A i \in 1 .. Len(s) : Append(s, e)[i] = s[i]
      /\ Append(s, e)[Len(s) + 1] = e
  OBVIOUS
<1>2. ToSet(Append(s, e)) \subseteq ToSet(s) \cup {e}
  BY <1>1 DEF ToSet
<1>3. ToSet(s) \cup {e} \subseteq ToSet(Append(s, e))
  <2>1. Len(s) + 1 \in 1 .. Len(s) + 1 /\ \A i \in 1 .. Len(s) : i \in 1 .. Len(s) + 1
    BY <1>1
  <2> QED
    BY <1>1, <2>1 DEF ToSet
<1>4. ASSUME IsInjective(s), e \notin ToSet(s) PROVE IsInjective(Append(s, e))
  BY <1>1, <1>4 DEF IsInjective, ToSet
<1> QED
  BY <1>1, <1>2, <1>3, <1>4

LEMMA TailFacts ==
    ASSUME NEW S, NEW s \in Seq(S), s # << >>
    PROVE  /\ Head(s) \in S /\ Tail(s) \in Seq(S) /\ Len(Tail(s)) = Len(s) - 1
           /\ ToSet(s) = {Head(s)} \cup ToSet(Tail(s))
           /\ IsInjective(s) => IsInjective(Tail(s)) /\ Head(s) \notin ToSet(Tail(s))
<1>1. /\ Len(s) \in Nat /\ Len(s) >= 1 /\ Head(s) = s[1] /\ s[1] \in S
      /\ DOMAIN s = 1 .. Len(s)
      /\ Tail(s) \in Seq(S) /\ Len(Tail(s)) = Len(s) - 1 /\ DOMAIN Tail(s) = 1 .. Len(s) - 1
      /\ \A i \in 1 .. Len(s) - 1 : Tail(s)[i] = s[i + 1]
  OBVIOUS
<1>2. \A i \in DOMAIN Tail(s) : i + 1 \in DOMAIN s /\ Tail(s)[i] = s[i + 1] /\ i + 1 # 1
  BY <1>1
<1>3. \A i \in DOMAIN s : i # 1 => i - 1 \in DOMAIN Tail(s) /\ Tail(s)[i - 1] = s[i]
  BY <1>1
<1>4. ToSet(s) \subseteq {Head(s)} \cup ToSet(Tail(s))
  BY <1>1, <1>3 DEF ToSet
<1>5. {Head(s)} \cup ToSet(Tail(s)) \subseteq ToSet(s)
  BY <1>1, <1>2 DEF ToSet
<1>6. ASSUME IsInjective(s) PROVE IsInjective(Tail(s)) /\ Head(s) \notin ToSet(Tail(s))
  <2>1. \A i, j \in DOMAIN Tail(s) : Tail(s)[i] = Tail(s)[j] => i = j
    BY <1>1, <1>2, <1>6 DEF IsInjective
  <2>2. \A i \in DOMAIN Tail(s) : Tail(s)[i] # Head(s)
    BY <1>1, <1>2, <1>6 DEF IsInjective
  <2> QED
    BY <2>1, <2>2 DEF IsInjective, ToSet
<1> QED
  BY <1>1, <1>4, <1>5, <1>6

(* A message is added at the end, if there is room for it. *)
LEMMA OfferFacts ==
    ASSUME NEW chan, Channel(chan), NEW r \in Rooms, NEW c \in Clients
    PROVE  /\ Channel(Offer(chan, r, c))
           /\ \A q \in Rooms : q # r => Offer(chan, r, c)[q] = chan[q]
           /\ Len(chan[r]) < ChanCap =>
                 ToSet(Offer(chan, r, c)[r]) = ToSet(chan[r]) \cup {c}
           /\ ~(Len(chan[r]) < ChanCap) => Offer(chan, r, c)[r] = chan[r]
           /\ IsInjective(chan[r]) /\ c \notin ToSet(chan[r]) => IsInjective(Offer(chan, r, c)[r])
<1>1. CASE Len(chan[r]) < ChanCap
  <2>1. Offer(chan, r, c) = [chan EXCEPT ![r] = Append(chan[r], c)]
    BY <1>1 DEF Offer, Channel
  <2>2. chan[r] \in Seq(Clients) /\ Len(chan[r]) \in Nat /\ ChanCap \in Nat
    BY HubAssumption DEF Channel, HubAssumption
  <2>3. /\ Append(chan[r], c) \in Seq(Clients) /\ Len(Append(chan[r], c)) = Len(chan[r]) + 1
        /\ ToSet(Append(chan[r], c)) = ToSet(chan[r]) \cup {c}
        /\ IsInjective(chan[r]) /\ c \notin ToSet(chan[r]) => IsInjective(Append(chan[r], c))
    BY <2>2, AppendFacts
  <2>4. Len(Append(chan[r], c)) <= ChanCap
    BY <1>1, <2>2, <2>3
  <2>5. Offer(chan, r, c)[r] = Append(chan[r], c)
        /\ \A q \in Rooms : q # r => Offer(chan, r, c)[q] = chan[q]
    BY <2>1 DEF Channel
  <2>6. Channel(Offer(chan, r, c))
    BY <2>1, <2>3, <2>4, <2>5 DEF Channel
  <2> QED
    BY <1>1, <2>3, <2>5, <2>6
<1>2. CASE ~(Len(chan[r]) < ChanCap)
  BY <1>2 DEF Offer
<1> QED
  BY <1>1, <1>2

(* A message is taken from the front. *)
LEMMA TakeFacts ==
    ASSUME NEW chan, Channel(chan), NEW r \in Rooms, chan[r] # << >>
    PROVE  LET rest == [chan EXCEPT ![r] = Tail(@)] IN
           /\ Channel(rest) /\ Head(chan[r]) \in Clients
           /\ \A q \in Rooms : q # r => rest[q] = chan[q]
           /\ ToSet(chan[r]) = {Head(chan[r])} \cup ToSet(rest[r])
           /\ IsInjective(chan[r]) => IsInjective(rest[r]) /\ Head(chan[r]) \notin ToSet(rest[r])
<1> DEFINE rest == [chan EXCEPT ![r] = Tail(@)]
<1>1. chan[r] \in Seq(Clients) /\ Len(chan[r]) \in Nat /\ Len(chan[r]) <= ChanCap /\ ChanCap \in Nat
  BY HubAssumption DEF Channel, HubAssumption
<1>2. rest[r] = Tail(chan[r]) /\ \A q \in Rooms : q # r => rest[q] = chan[q]
  BY DEF Channel
<1>3. /\ Head(chan[r]) \in Clients /\ Tail(chan[r]) \in Seq(Clients)
      /\ Len(Tail(chan[r])) = Len(chan[r]) - 1
      /\ ToSet(chan[r]) = {Head(chan[r])} \cup ToSet(Tail(chan[r]))
      /\ IsInjective(chan[r]) =>
            IsInjective(Tail(chan[r])) /\ Head(chan[r]) \notin ToSet(Tail(chan[r]))
  BY <1>1, TailFacts
<1>4. Len(Tail(chan[r])) <= ChanCap
  BY <1>1, <1>3
<1>5. Channel(rest)
  BY <1>2, <1>3, <1>4 DEF Channel
<1> QED
  BY <1>2, <1>3, <1>5

-----------------------------------------------------------------------------
LEMMA TypeFromChannels ==
    ASSUME ChannelInv',
           (socket \in [Clients -> {"out", "open", "broken", "gone"}])',
           (leaving \cup hubClients \cup closed \subseteq Clients)',
           (userRoom \in [Users -> Rooms \cup {None}])', (routing \in Rooms \cup {None})',
           (unbindRoom \in Seq(Rooms))', (Len(unbindRoom) <= UnbindCap)',
           (room \in [Rooms -> {"new", "running", "finishing", "done"}])',
           (seats \in [Rooms -> [Users -> Clients \cup {None}]])',
           (grace \in [Rooms -> SUBSET Clients])',
           (crashed \in {"none", "send", "close"})'
    PROVE  TypeOK'
BY DEF ChannelInv, Channel, TypeOK

LEMMA PendingTyped ==
    ASSUME Inv, NEW r \in Rooms
    PROVE  Pending(r) \subseteq Clients
<1>1. disconnected[r] \in Seq(Clients) /\ seatRelease[r] \in Seq(Clients)
  BY DEF Inv, ChannelInv, Channel
<1>2. ToSet(disconnected[r]) \subseteq Clients /\ ToSet(seatRelease[r]) \subseteq Clients
  BY <1>1 DEF ToSet
<1>3. grace[r] \subseteq Clients
  BY DEF Inv, TypeOK
<1> QED
  BY <1>2, <1>3 DEF Pending

(* Steps that leave the seats and the channels of the rooms alone.           *)
LEMMA SameRooms ==
    ASSUME Inv, UNCHANGED seatVars, TypeOK',
           \A c \in Clients : socket[c] = "gone" => socket'[c] = "gone",
           \A r \in Rooms : room'[r] = "new" => room[r] = "new"
    PROVE  Inv' /\ \A r \in Rooms : Pending(r)' = Pending(r)
<1>1. UNCHANGED <<seats, disconnected, reconnected, seatRelease, grace>>
  BY DEF seatVars
<1>2. \A r \in Rooms : Pending(r)' = Pending(r) /\ Pending(r) \subseteq Clients
  BY <1>1, PendingTyped DEF Pending
<1> QED
  BY <1>1, <1>2 DEF Inv, ChannelInv, GoneInv

LEMMA TypeFields ==
    ASSUME TypeOK
    PROVE  /\ socket \in [Clients -> {"out", "open", "broken", "gone"}]
           /\ leaving \cup hubClients \cup closed \subseteq Clients
           /\ userRoom \in [Users -> Rooms \cup {None}] /\ routing \in Rooms \cup {None}
           /\ unbindRoom \in Seq(Rooms) /\ Len(unbindRoom) <= UnbindCap
           /\ room \in [Rooms -> {"new", "running", "finishing", "done"}]
           /\ seats \in [Rooms -> [Users -> Clients \cup {None}]]
           /\ grace \in [Rooms -> SUBSET Clients]
           /\ crashed \in {"none", "send", "close"}
BY DEF TypeOK

LEMMA FreeSeatFacts ==
    ASSUME Inv, NEW r \in Rooms, NEW c \in Clients, FreeSeat(r, c)
    PROVE  /\ seats' \in [Rooms -> [Users -> Clients \cup {None}]]
           /\ room' \in [Rooms -> {"new", "running", "finishing", "done"}]
           /\ \A q \in Rooms : room'[q] = "new" => room[q] = "new"
           /\ closed' = closed \cup {c}
           /\ \A q \in Rooms, u \in Users :
                 seats'[q][u] # seats[q][u] => seats[q][u] = c /\ seats'[q][u] = None
BY DEF FreeSeat, Freed, Inv, TypeOK

LEMMA InitInv == Init => Inv
<1> SUFFICES ASSUME Init PROVE Inv
  OBVIOUS
<1>1. ChannelInv
  BY HubAssumption DEF HubAssumption, Init, ChannelInv, Channel
<1>2. TypeOK
  BY <1>1, HubAssumption DEF HubAssumption, Init, ChannelInv, Channel, TypeOK
<1>3. GoneInv
  BY DEF Init, GoneInv, Pending, ToSet
<1> QED
  BY <1>1, <1>2, <1>3 DEF Inv

LEMMA RegisterStep ==
    ASSUME Inv, NEW c \in Clients, Register(c)
    PROVE  Inv' /\ \A r \in Rooms : Pending(r)' = Pending(r)
<1>1. UNCHANGED <<leaving, userRoom, routing, unbindRoom, room, seats, disconnected, seatRelease,
                  grace, closed, crashed>>
      /\ socket' = [socket EXCEPT ![c] = "open"] /\ socket[c] = "out"
      /\ hubClients' = hubClients \cup {c}
  BY DEF Register
<1>2. Channel(reconnected)'
  <2>1. userRoom[UserOf(c)] \in Rooms \cup {None}
    BY HubAssumption DEF HubAssumption, Inv, TypeOK
  <2> QED
    BY <2>1, OfferFacts DEF Register, Inv, ChannelInv, Channel
<1>3. ChannelInv'
  BY <1>1, <1>2 DEF Inv, ChannelInv, Channel
<1>4. TypeOK'
  BY <1>1, <1>3, TypeFields, TypeFromChannels DEF Inv
<1>5. \A r \in Rooms : Pending(r)' = Pending(r) /\ Pending(r) \subseteq Clients
  BY <1>1, PendingTyped DEF Pending
<1>6. GoneInv'
  BY <1>1, <1>5 DEF Inv, GoneInv, TypeOK
<1> QED
  BY <1>3, <1>4, <1>5, <1>6 DEF Inv

(* The room of the user of a connection that is gone is told, unless there is *)
(* none or its channel is full; then the hub closes the connection itself.   *)
LEMMA UnregisterFacts ==
    ASSUME Inv, NEW c \in Clients, Unregister(c)
    PROVE  /\ UNCHANGED <<leaving, userRoom, routing, unbindRoom, room, seats, reconnected,
                          seatRelease, grace>>
           /\ socket' = [socket EXCEPT ![c] = "gone"] /\ socket[c] = "broken"
           /\ hubClients' = hubClients \ {c}
           /\ closed' \in {closed, closed \cup {c}} /\ crashed' \in {crashed, "close"}
           /\ \/ c \notin hubClients /\ UNCHANGED <<disconnected, closed>>
              \/ c \in closed' /\ UNCHANGED disconnected
              \/ \E r \in Rooms : /\ Len(disconnected[r]) < ChanCap
                                  /\ disconnected' = Offer(disconnected, r, c)
                                  /\ UNCHANGED closed
<1>1. userRoom[UserOf(c)] \in Rooms \cup {None}
  BY HubAssumption DEF HubAssumption, Inv, TypeOK
<1>2. CASE c \in hubClients /\ userRoom[UserOf(c)] # None
          /\ ~(Len(disconnected[userRoom[UserOf(c)]]) < ChanCap)
  <2>1. disconnected' = disconnected
    BY <1>2 DEF Unregister, Offer
  <2> QED
    BY <1>2, <2>1 DEF Unregister
<1> QED
  BY <1>1, <1>2 DEF Unregister

LEMMA UnregisterStep ==
    ASSUME Inv, NEW c \in Clients, Unregister(c)
    PROVE  Inv'
<1>1. \/ UNCHANGED disconnected
      \/ \E r \in Rooms : /\ Len(disconnected[r]) < ChanCap
                          /\ disconnected' = Offer(disconnected, r, c)
  BY UnregisterFacts
<1>2. Channel(disconnected) /\ Channel(disconnected)'
  <2>1. Channel(disconnected)
    BY DEF Inv, ChannelInv
  <2> QED
    BY <1>1, <2>1, OfferFacts
<1>3. \A r \in Rooms : ToSet(disconnected'[r]) \subseteq ToSet(disconnected[r]) \cup {c}
  BY <1>1, <1>2, OfferFacts
<1>4. ChannelInv'
  BY <1>2, UnregisterFacts DEF Inv, ChannelInv, Channel
<1>5. TypeOK'
  <2>1. TypeOK
    BY DEF Inv
  <2>2. /\ UNCHANGED <<userRoom, routing, unbindRoom, room, seats, grace>>
        /\ (socket \in [Clients -> {"out", "open", "broken", "gone"}])'
        /\ (leaving \cup hubClients \cup closed \subseteq Clients)'
        /\ (crashed \in {"none", "send", "close"})'
    <3>1. /\ UNCHANGED <<leaving, userRoom, routing, unbindRoom, room, seats, grace>>
          /\ socket' = [socket EXCEPT ![c] = "gone"] /\ hubClients' = hubClients \ {c}
          /\ closed' \in {closed, closed \cup {c}} /\ crashed' \in {crashed, "close"}
      BY UnregisterFacts
    <3> QED
      BY <2>1, <3>1, TypeFields
  <2> QED
    BY <1>4, <2>1, <2>2, TypeFields, TypeFromChannels
<1>6. \A r \in Rooms : Pending(r)' \subseteq Pending(r) \cup {c} /\ Pending(r) \subseteq Clients
  <2>1. UNCHANGED <<seatRelease, grace>>
    BY UnregisterFacts
  <2> QED
    BY <1>3, <2>1, PendingTyped DEF Pending
<1>7. GoneInv'
  <2>1. UNCHANGED <<room, seats>> /\ socket' = [socket EXCEPT ![c] = "gone"]
    BY UnregisterFacts
  <2> QED
    BY <1>6, <2>1 DEF Inv, GoneInv, TypeOK
<1> QED
  BY <1>4, <1>5, <1>7 DEF Inv

(* A match starts with the connections that are there. *)
LEMMA BindRoomStep ==
    ASSUME Inv, NEW r \in Rooms, BindRoom(r)
    PROVE  /\ Inv' /\ \A q \in Rooms : Pending(q)' = Pending(q)
           /\ UNCHANGED socket /\ hubClients \subseteq hubClients' \cup closed' /\ closed \subseteq closed'
           /\ \A q \in Rooms, u \in Users : seats[q][u] # None => seats'[q][u] = seats[q][u]
<1>1. PICK pick \in [Users -> hubClients \cup {None}] :
           /\ seats' = [seats EXCEPT ![r] = pick]
           /\ \E lag \in SUBSET (MayLag \cap { pick[u] : u \in Users }) :
                 closed' = closed \cup lag /\ hubClients' = hubClients \ lag
           /\ SendTo({ pick[u] : u \in Users })
  BY DEF BindRoom
<1>2. PICK lag \in SUBSET (MayLag \cap { pick[u] : u \in Users }) :
          closed' = closed \cup lag /\ hubClients' = hubClients \ lag
  BY <1>1
<1>3. /\ UNCHANGED <<socket, leaving, routing, unbindRoom, disconnected, reconnected,
                     seatRelease, grace>>
      /\ userRoom' = [u \in Users |-> r] /\ room[r] = "new"
      /\ room' = [room EXCEPT ![r] = "running"]
      /\ crashed' \in {crashed, "send"}
  BY <1>1 DEF BindRoom, SendTo
<1>4. ChannelInv'
  BY <1>3 DEF Inv, ChannelInv, Channel
<1>5. TypeOK'
  <2>1. TypeOK /\ hubClients \subseteq Clients
    BY TypeFields DEF Inv
  <2>2. lag \subseteq Clients
    BY HubAssumption DEF HubAssumption
  <2>3. (seats \in [Rooms -> [Users -> Clients \cup {None}]])'
    BY <1>1, <2>1, TypeFields
  <2>4. (leaving \cup hubClients \cup closed \subseteq Clients)'
    BY <1>2, <1>3, <2>1, <2>2, TypeFields
  <2>5. (socket \in [Clients -> {"out", "open", "broken", "gone"}])'
        /\ (unbindRoom \in Seq(Rooms))' /\ (Len(unbindRoom) <= UnbindCap)'
        /\ (grace \in [Rooms -> SUBSET Clients])' /\ (routing \in Rooms \cup {None})'
    BY <1>3, <2>1, TypeFields
  <2>6. (userRoom \in [Users -> Rooms \cup {None}])' /\ (crashed \in {"none", "send", "close"})'
        /\ (room \in [Rooms -> {"new", "running", "finishing", "done"}])'
    BY <1>3, <2>1, TypeFields
  <2> QED
    BY <1>4, <2>3, <2>4, <2>5, <2>6, TypeFromChannels
<1>6. \A q \in Rooms : Pending(q)' = Pending(q) /\ Pending(q) \subseteq Clients
  BY <1>3, PendingTyped DEF Pending
<1>7. GoneInv'
  BY <1>1, <1>3, <1>6 DEF Inv, GoneInv, TypeOK
<1>8. \A q \in Rooms, u \in Users : seats[q][u] # None => seats'[q][u] = seats[q][u]
  BY <1>1, <1>3 DEF Inv, GoneInv, TypeOK
<1> QED
  BY <1>2, <1>3, <1>4, <1>5, <1>6, <1>7, <1>8 DEF Inv

(* The hub's and the connections' other steps, and the room's steps that do   *)
(* not change who sits where.                                                *)
Elsewhere ==
    \/ UnbindRoom \/ RoomDone \/ LobbyBroadcast
    \/ \E c \in Clients : Route(c) \/ Break(c)
    \/ \E r \in Rooms : TakeAction(r) \/ Broadcast(r) \/ ShutDown(r) \/ FinishShutdown(r)

LEMMA ElsewhereFacts ==
    ASSUME Inv, Elsewhere
    PROVE  /\ UNCHANGED seatVars /\ TypeOK'
           /\ \A c \in Clients : 
                 socket'[c] # socket[c] => socket[c] = "open" /\ socket'[c] = "broken"
           /\ \A r \in Rooms : room'[r] = "new" => room[r] = "new"
           /\ hubClients \subseteq hubClients' \cup closed' /\ closed \subseteq closed'
<1>0. TypeOK /\ ChannelInv
  BY DEF Inv
<1>1. CASE UnbindRoom
  <2>1. unbindRoom \in Seq(Rooms) /\ unbindRoom # << >> /\ Len(unbindRoom) <= UnbindCap
        /\ UnbindCap \in Nat
    BY <1>0, <1>1, HubAssumption, TypeFields DEF HubAssumption, UnbindRoom
  <2>2. Tail(unbindRoom) \in Seq(Rooms) /\ Len(Tail(unbindRoom)) <= UnbindCap
    BY <2>1
  <2>3. ChannelInv'
    BY <1>0, <1>1 DEF UnbindRoom, seatVars, ChannelInv, Channel
  <2>4. TypeOK'
    BY <1>0, <1>1, <2>2, <2>3, TypeFields, TypeFromChannels DEF UnbindRoom, seatVars
  <2> QED
    BY <1>1, <2>4 DEF UnbindRoom, seatVars
<1>2. CASE RoomDone
  <2>1. UNCHANGED <<socket, leaving, hubClients, userRoom, unbindRoom, room, seatVars, closed,
                    crashed>> /\ routing' = None
    BY <1>2 DEF RoomDone
  <2>2. ChannelInv'
    BY <1>0, <2>1 DEF seatVars, ChannelInv, Channel
  <2>3. TypeOK'
    BY <1>0, <2>1, <2>2, TypeFields, TypeFromChannels DEF seatVars
  <2> QED
    BY <2>1, <2>3 DEF seatVars
<1>3. CASE LobbyBroadcast
  <2>1. PICK lag \in SUBSET (MayLag \cap { c \in hubClients : userRoom[UserOf(c)] = None }) :
            closed' = closed \cup lag /\ hubClients' = hubClients \ lag
    BY <1>3 DEF LobbyBroadcast
  <2>2. UNCHANGED <<socket, leaving, userRoom, routing, unbindRoom, room, seatVars>>
        /\ crashed' \in {crashed, "send"}
    BY <1>3 DEF LobbyBroadcast, SendTo
  <2>3. ChannelInv'
    BY <1>0, <2>2 DEF seatVars, ChannelInv, Channel
  <2>4. lag \subseteq Clients
    BY HubAssumption DEF HubAssumption
  <2>5. TypeOK'
    BY <1>0, <2>1, <2>2, <2>3, <2>4, TypeFields, TypeFromChannels DEF seatVars
  <2> QED
    BY <2>1, <2>2, <2>5 DEF seatVars
<1>4. ASSUME NEW c \in Clients, Route(c)
      PROVE  /\ UNCHANGED <<seatVars, socket, room, hubClients, closed>> /\ TypeOK'
  <2>1. userRoom[UserOf(c)] \in Rooms \cup {None}
    BY <1>0, HubAssumption, TypeFields DEF HubAssumption
  <2> QED
    BY <1>0, <1>4, <2>1 DEF Route, seatVars, TypeOK
<1>5. ASSUME NEW c \in Clients, Break(c)
      PROVE  /\ UNCHANGED <<seatVars, room, hubClients, closed>> /\ TypeOK'
             /\ socket' = [socket EXCEPT ![c] = "broken"] /\ socket[c] = "open"
  <2>1. UNCHANGED <<hubClients, userRoom, routing, unbindRoom, room, seatVars, closed, crashed>>
        /\ socket' = [socket EXCEPT ![c] = "broken"] /\ socket[c] = "open"
        /\ leaving' \in {leaving, leaving \cup {c}}
    BY <1>5 DEF Break
  <2>2. ChannelInv'
    BY <1>0, <2>1 DEF seatVars, ChannelInv, Channel
  <2>3. TypeOK'
    BY <1>0, <2>1, <2>2, TypeFields, TypeFromChannels DEF seatVars
  <2> QED
    BY <2>1, <2>3
<1>6. ASSUME NEW r \in Rooms, TakeAction(r) \/ Broadcast(r)
      PROVE  UNCHANGED <<seatVars, socket, room, hubClients, closed>> /\ TypeOK'
  <2>1. /\ UNCHANGED <<socket, leaving, hubClients, userRoom, unbindRoom, room, seatVars, closed>>
        /\ routing' \in {routing, None} /\ crashed' \in {crashed, "send"}
    BY <1>6 DEF TakeAction, Broadcast, SendTo, hubVars
  <2>2. ChannelInv'
    BY <1>0, <2>1 DEF seatVars, ChannelInv, Channel
  <2>3. TypeOK'
    BY <1>0, <2>1, <2>2, TypeFields, TypeFromChannels DEF seatVars
  <2> QED
    BY <2>1, <2>3
<1>7. ASSUME NEW r \in Rooms, ShutDown(r) \/ FinishShutdown(r)
      PROVE  /\ UNCHANGED <<seatVars, socket, hubClients, closed>> /\ TypeOK'
             /\ \A q \in Rooms : room'[q] = "new" => room[q] = "new"
  <2>1. /\ UNCHANGED <<socket, leaving, hubClients, userRoom, routing, seatVars, closed, crashed>>
        /\ room' \in {[room EXCEPT ![r] = "finishing"], [room EXCEPT ![r] = "done"]}
        /\ \/ UNCHANGED unbindRoom
           \/ unbindRoom' = Append(unbindRoom, r) /\ Len(unbindRoom) < UnbindCap
    BY <1>7 DEF ShutDown, FinishShutdown, CanUnbind, hubVars
  <2>2. ChannelInv'
    BY <1>0, <2>1 DEF seatVars, ChannelInv, Channel
  <2>3. unbindRoom' \in Seq(Rooms) /\ Len(unbindRoom') <= UnbindCap
    <3>1. unbindRoom \in Seq(Rooms) /\ Len(unbindRoom) <= UnbindCap /\ UnbindCap \in Nat
      BY <1>0, HubAssumption, TypeFields DEF HubAssumption
    <3>2. CASE UNCHANGED unbindRoom
      BY <3>1, <3>2
    <3>3. CASE unbindRoom' = Append(unbindRoom, r) /\ Len(unbindRoom) < UnbindCap
      BY <3>1, <3>3
    <3> QED
      BY <2>1, <3>2, <3>3
  <2>4. (room \in [Rooms -> {"new", "running", "finishing", "done"}])'
        /\ \A q \in Rooms : room'[q] = "new" => room[q] = "new"
    BY <1>0, <2>1, TypeFields
  <2>5. TypeOK'
    BY <1>0, <2>1, <2>2, <2>3, <2>4, TypeFields, TypeFromChannels DEF seatVars
  <2> QED
    BY <2>1, <2>4, <2>5
<1>8. CASE \E c \in Clients : Break(c)
  <2>1. PICK c \in Clients : Break(c)
    BY <1>8
  <2> QED
    BY <1>0, <1>5, <2>1, TypeFields DEF seatVars
<1> QED
  BY <1>1, <1>2, <1>3, <1>4, <1>6, <1>7, <1>8 DEF Elsewhere, seatVars

(* The room takes the news: the connection's seat is held with a grace        *)
(* goroutine, or given up and the connection closed.                         *)
LEMMA DisconnectFacts ==
    ASSUME Inv, NEW r \in Rooms, HandleSeatDisconnect(r)
    PROVE  \E c \in Clients :
           LET rest == [disconnected EXCEPT ![r] = Tail(@)] IN
           /\ c = Head(disconnected[r]) /\ disconnected[r] # << >> /\ socket[c] = "gone"
           /\ Channel(rest) /\ disconnected' = rest
           /\ \A q \in Rooms : q # r => rest[q] = disconnected[q]
           /\ ToSet(disconnected[r]) = {c} \cup ToSet(rest[r])
           /\ IsInjective(disconnected[r]) => IsInjective(rest[r]) /\ c \notin ToSet(rest[r])
           /\ UNCHANGED <<socket, leaving, hubClients, userRoom, routing, unbindRoom, reconnected,
                          seatRelease, crashed>>
           /\ \/ grace' = [grace EXCEPT ![r] = @ \cup {c}] /\ UNCHANGED <<seats, closed, room>>
              \/ UNCHANGED grace /\ FreeSeat(r, c)
<1> DEFINE c == Head(disconnected[r])
           rest == [disconnected EXCEPT ![r] = Tail(@)]
<1>1. disconnected[r] # << >> /\ Channel(disconnected) /\ disconnected' = rest
  BY DEF HandleSeatDisconnect, Inv, ChannelInv
<1>2. /\ Channel(rest) /\ c \in Clients
      /\ \A q \in Rooms : q # r => rest[q] = disconnected[q]
      /\ ToSet(disconnected[r]) = {c} \cup ToSet(rest[r])
      /\ IsInjective(disconnected[r]) => IsInjective(rest[r]) /\ c \notin ToSet(rest[r])
  BY <1>1, TakeFacts
<1>3. socket[c] = "gone"
  BY <1>2 DEF Inv, GoneInv, Pending
<1>4. /\ UNCHANGED <<socket, leaving, hubClients, userRoom, routing, unbindRoom, reconnected,
                     seatRelease, crashed>>
      /\ \/ grace' = [grace EXCEPT ![r] = @ \cup {c}] /\ UNCHANGED <<seats, closed, room>>
         \/ UNCHANGED grace /\ FreeSeat(r, c)
  BY DEF HandleSeatDisconnect, hubVars
<1> QED
  BY <1>1, <1>2, <1>3, <1>4

LEMMA ReleaseFacts ==
    ASSUME Inv, NEW r \in Rooms, ReleaseSeatAfterGrace(r)
    PROVE  \E c \in Clients :
           LET rest == [seatRelease EXCEPT ![r] = Tail(@)] IN
           /\ seatRelease[r] # << >> /\ socket[c] = "gone"
           /\ Channel(rest) /\ seatRelease' = rest
           /\ \A q \in Rooms : q # r => rest[q] = seatRelease[q]
           /\ ToSet(seatRelease[r]) = {c} \cup ToSet(rest[r])
           /\ IsInjective(seatRelease[r]) => IsInjective(rest[r])
           /\ UNCHANGED <<socket, leaving, hubClients, userRoom, routing, unbindRoom, disconnected,
                          reconnected, grace, crashed>>
           /\ FreeSeat(r, c)
<1> DEFINE c == Head(seatRelease[r])
           rest == [seatRelease EXCEPT ![r] = Tail(@)]
<1>1. seatRelease[r] # << >> /\ Channel(seatRelease) /\ seatRelease' = rest
  BY DEF ReleaseSeatAfterGrace, Inv, ChannelInv
<1>2. /\ Channel(rest) /\ c \in Clients
      /\ \A q \in Rooms : q # r => rest[q] = seatRelease[q]
      /\ ToSet(seatRelease[r]) = {c} \cup ToSet(rest[r])
      /\ IsInjective(seatRelease[r]) => IsInjective(rest[r])
  BY <1>1, TakeFacts
<1>3. socket[c] = "gone"
  BY <1>2 DEF Inv, GoneInv, Pending
<1>4. /\ UNCHANGED <<socket, leaving, hubClients, userRoom, routing, unbindRoom, disconnected,
                     reconnected, grace, crashed>>
      /\ FreeSeat(r, c)
  BY DEF ReleaseSeatAfterGrace, hubVars
<1> QED
  BY <1>1, <1>2, <1>3, <1>4

LEMMA ElapseFacts ==
    ASSUME Inv, NEW r \in Rooms, NEW c \in Clients, GraceElapses(r, c)
    PROVE  /\ UNCHANGED <<socket, leaving, hubClients, userRoom, routing, unbindRoom, room, seats,
                          disconnected, reconnected, closed, crashed>>
           /\ c \in grace[r] /\ grace' = [grace EXCEPT ![r] = @ \ {c}]
           /\ seatRelease' = Offer(seatRelease, r, c)
           /\ Channel(seatRelease) /\ Channel(seatRelease)'
           /\ socket[c] = "gone"
BY OfferFacts DEF GraceElapses, hubVars, Inv, ChannelInv, GoneInv, Pending

LEMMA DisconnectStep ==
    ASSUME Inv, NEW r \in Rooms, HandleSeatDisconnect(r)
    PROVE  Inv'
<1>1. PICK c \in Clients :
           LET rest == [disconnected EXCEPT ![r] = Tail(@)] IN
           /\ socket[c] = "gone"
           /\ Channel(rest) /\ disconnected' = rest
           /\ \A q \in Rooms : q # r => rest[q] = disconnected[q]
           /\ ToSet(disconnected[r]) = {c} \cup ToSet(rest[r])
           /\ UNCHANGED <<socket, leaving, hubClients, userRoom, routing, unbindRoom, reconnected,
                          seatRelease, crashed>>
           /\ \/ grace' = [grace EXCEPT ![r] = @ \cup {c}] /\ UNCHANGED <<seats, closed, room>>
              \/ UNCHANGED grace /\ FreeSeat(r, c)
  BY DisconnectFacts
<1>2. /\ seats' \in [Rooms -> [Users -> Clients \cup {None}]]
      /\ room' \in [Rooms -> {"new", "running", "finishing", "done"}]
      /\ \A q \in Rooms : room'[q] = "new" => room[q] = "new"
      /\ closed' \in {closed, closed \cup {c}}
      /\ \A q \in Rooms, u \in Users : seats'[q][u] # seats[q][u] => seats'[q][u] = None
      /\ grace' \in [Rooms -> SUBSET Clients]
  <2>1. /\ seats \in [Rooms -> [Users -> Clients \cup {None}]]
        /\ room \in [Rooms -> {"new", "running", "finishing", "done"}]
        /\ grace \in [Rooms -> SUBSET Clients]
    BY TypeFields DEF Inv
  <2>2. CASE grace' = [grace EXCEPT ![r] = @ \cup {c}] /\ UNCHANGED <<seats, closed, room>>
    BY <2>1, <2>2
  <2>3. CASE UNCHANGED grace /\ FreeSeat(r, c)
    BY <2>1, <2>3, FreeSeatFacts
  <2> QED
    BY <1>1, <2>2, <2>3
<1>3. ChannelInv'
  BY <1>1 DEF Inv, ChannelInv
<1>4. TypeOK'
  BY <1>1, <1>2, <1>3, TypeFields, TypeFromChannels DEF Inv
<1>5. \A q \in Rooms : Pending(q)' \subseteq Pending(q) \cup {c}
  BY <1>1, TypeFields DEF Pending, Inv
<1>6. GoneInv'
  BY <1>1, <1>2, <1>5 DEF Inv, GoneInv
<1> QED
  BY <1>3, <1>4, <1>6 DEF Inv

LEMMA ReleaseStep ==
    ASSUME Inv, NEW r \in Rooms, ReleaseSeatAfterGrace(r)
    PROVE  Inv'
<1>1. PICK c \in Clients :
           LET rest == [seatRelease EXCEPT ![r] = Tail(@)] IN
           /\ Channel(rest) /\ seatRelease' = rest
           /\ \A q \in Rooms : q # r => rest[q] = seatRelease[q]
           /\ ToSet(seatRelease[r]) = {c} \cup ToSet(rest[r])
           /\ UNCHANGED <<socket, leaving, hubClients, userRoom, routing, unbindRoom, disconnected,
                          reconnected, grace, crashed>>
           /\ FreeSeat(r, c)
  BY ReleaseFacts
<1>2. /\ seats' \in [Rooms -> [Users -> Clients \cup {None}]]
      /\ room' \in [Rooms -> {"new", "running", "finishing", "done"}]
      /\ \A q \in Rooms : room'[q] = "new" => room[q] = "new"
      /\ closed' = closed \cup {c}
      /\ \A q \in Rooms, u \in Users : seats'[q][u] # seats[q][u] => seats'[q][u] = None
  BY <1>1, FreeSeatFacts
<1>3. ChannelInv'
  BY <1>1 DEF Inv, ChannelInv
<1>4. TypeOK'
  BY <1>1, <1>2, <1>3, TypeFields, TypeFromChannels DEF Inv
<1>5. \A q \in Rooms : Pending(q)' \subseteq Pending(q)
  BY <1>1 DEF Pending
<1>6. GoneInv'
  BY <1>1, <1>2, <1>5 DEF Inv, GoneInv
<1> QED
  BY <1>3, <1>4, <1>6 DEF Inv

LEMMA ElapseStep ==
    ASSUME Inv, NEW r \in Rooms, NEW c \in Clients, GraceElapses(r, c)
    PROVE  Inv'
<1>1. /\ UNCHANGED <<socket, leaving, hubClients, userRoom, routing, unbindRoom, room, seats,
                     disconnected, reconnected, closed, crashed>>
      /\ c \in grace[r] /\ grace' = [grace EXCEPT ![r] = @ \ {c}]
      /\ seatRelease' = Offer(seatRelease, r, c)
      /\ Channel(seatRelease) /\ Channel(seatRelease)'
      /\ socket[c] = "gone"
  BY ElapseFacts
<1>2. ChannelInv'
  BY <1>1 DEF Inv, ChannelInv, Channel
<1>3. grace' \in [Rooms -> SUBSET Clients]
  BY <1>1, TypeFields DEF Inv
<1>4. TypeOK'
  BY <1>1, <1>2, <1>3, TypeFields, TypeFromChannels DEF Inv
<1>5. \A q \in Rooms : ToSet(seatRelease'[q]) \subseteq ToSet(seatRelease[q]) \cup {c}
  BY <1>1, OfferFacts
<1>6. \A q \in Rooms : Pending(q)' \subseteq Pending(q) \cup {c}
  BY <1>1, <1>5, TypeFields DEF Pending, Inv
<1>7. GoneInv'
  BY <1>1, <1>6 DEF Inv, GoneInv
<1> QED
  BY <1>2, <1>4, <1>7 DEF Inv

(* The owner's newest connection takes the seat. *)
LEMMA ReconnectStep ==
    ASSUME Inv, NEW r \in Rooms, HandleSeatReconnect(r)
    PROVE  /\ Inv' /\ \A q \in Rooms : Pending(q)' = Pending(q)
           /\ UNCHANGED <<socket, hubClients>> /\ closed \subseteq closed'
           /\ \A q \in Rooms, u \in Users : seats[q][u] # None => seats'[q][u] # None
<1> DEFINE c == Head(reconnected[r])
           old == seats[r][UserOf(c)]
           rest == [reconnected EXCEPT ![r] = Tail(@)]
<1>1. /\ reconnected' = rest /\ reconnected[r] # << >> /\ room[r] = "running"
      /\ UNCHANGED <<socket, leaving, hubClients, userRoom, routing, unbindRoom, room, disconnected,
                     seatRelease, grace>>
      /\ crashed' \in {crashed, "send"}
      /\ seats' = [seats EXCEPT ![r][UserOf(c)] = c]
      /\ closed' = closed \cup ({old} \ {None, c})
  BY DEF HandleSeatReconnect, SendTo, hubVars, Runs
<1>2. Channel(rest) /\ c \in Clients
  BY <1>1, TakeFacts DEF Inv, ChannelInv
<1>3. UserOf(c) \in Users /\ old \in Clients \cup {None} /\ None \notin Clients
  BY <1>2, HubAssumption, TypeFields DEF HubAssumption, Inv
<1> HIDE DEF c, old, rest
<1>4. ChannelInv'
  BY <1>1, <1>2 DEF Inv, ChannelInv
<1>5. seats' \in [Rooms -> [Users -> Clients \cup {None}]] /\ closed' \subseteq Clients
  BY <1>1, <1>2, <1>3, TypeFields DEF Inv
<1>6. TypeOK'
  BY <1>1, <1>4, <1>5, TypeFields, TypeFromChannels DEF Inv
<1>7. \A q \in Rooms : Pending(q)' = Pending(q)
  BY <1>1 DEF Pending
<1>8. \A q \in Rooms, u \in Users : seats'[q][u] = seats[q][u] \/ (q = r /\ seats'[q][u] = c)
  BY <1>1, <1>3, TypeFields DEF Inv
<1>9. GoneInv'
  BY <1>1, <1>7, <1>8 DEF Inv, GoneInv
<1> QED
  BY <1>1, <1>2, <1>3, <1>4, <1>6, <1>7, <1>8, <1>9 DEF Inv

(* The steps of the next-state relation, grouped. *)
LEMMA NextCases ==
    ASSUME Next
    PROVE  \/ Elsewhere
           \/ \E c \in Clients : Register(c) \/ Unregister(c)
           \/ \E r \in Rooms :
                 \/ BindRoom(r) \/ HandleSeatDisconnect(r) \/ ReleaseSeatAfterGrace(r)
                 \/ HandleSeatReconnect(r)
                 \/ \E c \in Clients : GraceElapses(r, c)
BY DEF Next, HubRuns, SeatEvent, Elsewhere

LEMMA StutterStep ==
    ASSUME Inv, UNCHANGED vars
    PROVE  Inv' /\ \A r \in Rooms : Pending(r)' = Pending(r)
<1>1. UNCHANGED <<seatVars, socket, room>> /\ TypeOK'
  BY DEF vars, hubVars, seatVars, Inv, TypeOK
<1> QED
  BY <1>1, SameRooms

LEMMA ElsewhereStep ==
    ASSUME Inv, Elsewhere
    PROVE  Inv' /\ \A r \in Rooms : Pending(r)' = Pending(r)
<1>1. /\ UNCHANGED seatVars /\ TypeOK'
      /\ \A c \in Clients : socket[c] = "gone" => socket'[c] = "gone"
      /\ \A r \in Rooms : room'[r] = "new" => room[r] = "new"
  BY ElsewhereFacts
<1> QED
  BY <1>1, SameRooms

LEMMA InvStep ==
    ASSUME Inv, [Next]_vars
    PROVE  Inv'
<1>1. CASE UNCHANGED vars
  BY <1>1, StutterStep
<1>2. CASE Elsewhere
  BY <1>2, ElsewhereStep
<1>3. CASE \E c \in Clients : Register(c) \/ Unregister(c)
  BY <1>3, RegisterStep, UnregisterStep
<1>4. CASE \E r \in Rooms :
              \/ BindRoom(r) \/ HandleSeatDisconnect(r) \/ ReleaseSeatAfterGrace(r)
              \/ HandleSeatReconnect(r)
              \/ \E c \in Clients : GraceElapses(r, c)
  BY <1>4, BindRoomStep, DisconnectStep, ReleaseStep, ReconnectStep, ElapseStep
<1> QED
  BY <1>1, <1>2, <1>3, <1>4, NextCases

(* The variables keep their types and the channels their capacity.          *)
THEOREM TypesHold == Spec => []TypeOK
<1>1. Inv => TypeOK
  BY DEF Inv
<1>2. Inv /\ [Next]_vars => Inv'
  BY InvStep
<1> QED
  BY InitInv, <1>1, <1>2, PTL DEF Spec

(* A seat is vacated only when the connection that holds it is gone: no late  *)
(* message of an earlier connection displaces a live one.                    *)
THEOREM LiveSeatsKept == Spec => LiveSeatKept
<1>1. ASSUME Inv, [Next]_vars, NEW r \in Rooms, NEW u \in Users,
             seats[r][u] # None, seats'[r][u] = None
      PROVE  socket[seats[r][u]] = "gone"
  <2>1. CASE UNCHANGED vars
    BY <1>1, <2>1 DEF vars, seatVars
  <2>2. CASE Elsewhere
    BY <1>1, <2>2, ElsewhereFacts DEF seatVars
  <2>3. CASE \E c \in Clients : Register(c) \/ Unregister(c)
    BY <1>1, <2>3, UnregisterFacts DEF Register
  <2>4. CASE \E q \in Rooms : BindRoom(q)
    BY <1>1, <2>4, BindRoomStep
  <2>5. CASE \E q \in Rooms : HandleSeatDisconnect(q)
    <3>1. PICK q \in Rooms : HandleSeatDisconnect(q)
      BY <2>5
    <3>2. PICK c \in Clients : socket[c] = "gone" /\ (UNCHANGED seats \/ FreeSeat(q, c))
      BY <1>1, <3>1, DisconnectFacts
    <3> QED
      BY <1>1, <3>2, FreeSeatFacts
  <2>6. CASE \E q \in Rooms : ReleaseSeatAfterGrace(q)
    <3>1. PICK q \in Rooms : ReleaseSeatAfterGrace(q)
      BY <2>6
    <3>2. PICK c \in Clients : socket[c] = "gone" /\ FreeSeat(q, c)
      BY <1>1, <3>1, ReleaseFacts
    <3> QED
      BY <1>1, <3>2, FreeSeatFacts
  <2>7. CASE \E q \in Rooms : HandleSeatReconnect(q)
    BY <1>1, <2>7, ReconnectStep
  <2>8. CASE \E q \in Rooms, c \in Clients : GraceElapses(q, c)
    BY <1>1, <2>8, ElapseFacts
  <2> QED
    BY <1>1, <2>1, <2>2, <2>3, <2>4, <2>5, <2>6, <2>7, <2>8, NextCases
<1>2. Inv /\ [Next]_vars => Inv'
  BY InvStep
<1>3. Inv /\ [Next]_vars =>
          \A r \in Rooms, u \in Users :
              seats[r][u] # None /\ seats'[r][u] = None => socket[seats[r][u]] = "gone"
  BY <1>1
<1> QED
  BY InitInv, <1>2, <1>3, PTL DEF Spec, LiveSeatKept

-----------------------------------------------------------------------------
(* No room has a connection in its hands twice. *)
LEMMA OnceSame ==
    ASSUME OnceInv, UNCHANGED <<disconnected, grace, seatRelease>>
    PROVE  OnceInv'
BY DEF OnceInv

LEMMA OnceStep ==
    ASSUME Inv, OnceInv, [Next]_vars
    PROVE  OnceInv'
<1>1. CASE Elsewhere \/ UNCHANGED vars
  BY <1>1, ElsewhereFacts, OnceSame DEF vars, seatVars
<1>2. CASE \E c \in Clients : Register(c)
  BY <1>2, OnceSame DEF Register
<1>3. CASE \E c \in Clients : Unregister(c)
  <2>1. PICK c \in Clients : Unregister(c)
    BY <1>3
  <2>2. UNCHANGED <<grace, seatRelease>> /\ socket[c] = "broken"
        /\ \/ UNCHANGED disconnected
           \/ \E r \in Rooms : disconnected' = Offer(disconnected, r, c)
    BY <2>1, UnregisterFacts
  <2>3. \A q \in Rooms : c \notin Pending(q)
    BY <2>2 DEF Inv, GoneInv
  <2>4. CASE UNCHANGED disconnected
    BY <2>2, <2>4, OnceSame
  <2>5. ASSUME NEW r \in Rooms, disconnected' = Offer(disconnected, r, c)
        PROVE  OnceInv'
    <3>1. /\ \A q \in Rooms : q # r => disconnected'[q] = disconnected[q]
          /\ ToSet(disconnected'[r]) \subseteq ToSet(disconnected[r]) \cup {c}
          /\ IsInjective(disconnected[r]) /\ c \notin ToSet(disconnected[r])
                => IsInjective(disconnected'[r])
      BY <2>5, OfferFacts DEF Inv, ChannelInv
    <3> QED
      BY <2>2, <2>3, <3>1 DEF OnceInv, Pending
  <2> QED
    BY <2>2, <2>4, <2>5
<1>4. CASE \E r \in Rooms : BindRoom(r) \/ HandleSeatReconnect(r)
  BY <1>4, OnceSame DEF BindRoom, HandleSeatReconnect
<1>5. ASSUME NEW r \in Rooms, HandleSeatDisconnect(r)
      PROVE  OnceInv'
  <2>1. PICK c \in Clients :
           LET rest == [disconnected EXCEPT ![r] = Tail(@)] IN
           /\ disconnected' = rest
           /\ \A q \in Rooms : q # r => rest[q] = disconnected[q]
           /\ ToSet(disconnected[r]) = {c} \cup ToSet(rest[r])
           /\ IsInjective(disconnected[r]) => IsInjective(rest[r]) /\ c \notin ToSet(rest[r])
           /\ UNCHANGED seatRelease
           /\ grace' = [grace EXCEPT ![r] = @ \cup {c}] \/ UNCHANGED grace
    BY <1>5, DisconnectFacts
  <2>2. \A q \in Rooms :
            /\ q # r => grace'[q] = grace[q]
            /\ grace'[r] \subseteq grace[r] \cup {c}
    BY <2>1, TypeFields DEF Inv
  <2>3. ASSUME NEW q \in Rooms
        PROVE  /\ IsInjective(disconnected'[q]) /\ IsInjective(seatRelease'[q])
               /\ ToSet(disconnected'[q]) \cap grace'[q] = {}
               /\ ToSet(disconnected'[q]) \cap ToSet(seatRelease'[q]) = {}
               /\ grace'[q] \cap ToSet(seatRelease'[q]) = {}
    <3>1. CASE q # r
      BY <2>1, <2>2, <3>1 DEF OnceInv
    <3>2. CASE q = r
      BY <2>1, <2>2, <3>2 DEF OnceInv
    <3> QED
      BY <3>1, <3>2
  <2> QED
    BY <2>3 DEF OnceInv
<1>6. ASSUME NEW r \in Rooms, ReleaseSeatAfterGrace(r)
      PROVE  OnceInv'
  <2>1. PICK c \in Clients :
           LET rest == [seatRelease EXCEPT ![r] = Tail(@)] IN
           /\ seatRelease' = rest
           /\ \A q \in Rooms : q # r => rest[q] = seatRelease[q]
           /\ ToSet(seatRelease[r]) = {c} \cup ToSet(rest[r])
           /\ IsInjective(seatRelease[r]) => IsInjective(rest[r])
           /\ UNCHANGED <<disconnected, grace>>
    BY <1>6, ReleaseFacts
  <2> QED
    BY <2>1 DEF OnceInv
<1>7. ASSUME NEW r \in Rooms, NEW c \in Clients, GraceElapses(r, c)
      PROVE  OnceInv'
  <2>1. /\ UNCHANGED disconnected
        /\ c \in grace[r] /\ grace' = [grace EXCEPT ![r] = @ \ {c}]
        /\ seatRelease' = Offer(seatRelease, r, c) /\ Channel(seatRelease)
    BY <1>7, ElapseFacts
  <2>2. /\ \A q \in Rooms : q # r => seatRelease'[q] = seatRelease[q]
        /\ ToSet(seatRelease'[r]) \subseteq ToSet(seatRelease[r]) \cup {c}
        /\ IsInjective(seatRelease[r]) /\ c \notin ToSet(seatRelease[r])
              => IsInjective(seatRelease'[r])
    BY <2>1, OfferFacts
  <2>3. grace'[r] = grace[r] \ {c} /\ \A q \in Rooms : q # r => grace'[q] = grace[q]
    BY <2>1, TypeFields DEF Inv
  <2>4. ASSUME NEW q \in Rooms
        PROVE  /\ IsInjective(disconnected'[q]) /\ IsInjective(seatRelease'[q])
               /\ ToSet(disconnected'[q]) \cap grace'[q] = {}
               /\ ToSet(disconnected'[q]) \cap ToSet(seatRelease'[q]) = {}
               /\ grace'[q] \cap ToSet(seatRelease'[q]) = {}
    <3>1. CASE q # r
      BY <2>1, <2>2, <2>3, <3>1 DEF OnceInv
    <3>2. CASE q = r
      BY <2>1, <2>2, <2>3, <3>2 DEF OnceInv
    <3> QED
      BY <3>1, <3>2
  <2> QED
    BY <2>4 DEF OnceInv
<1> QED
  BY <1>1, <1>2, <1>3, <1>4, <1>5, <1>6, <1>7, NextCases

(* So a channel that could hold every connection is never full when one of    *)
(* them has still to be put into it.                                         *)
LEMMA RoomForOneMore ==
    ASSUME NEW S, IsFiniteSet(S), NEW s \in Seq(S), IsInjective(s), NEW c \in S, c \notin ToSet(s)
    PROVE  Len(s) < Cardinality(S)
<1>1. Len(s) \in Nat /\ DOMAIN s = 1 .. Len(s)
  OBVIOUS
<1>2. s \in Injection(1 .. Len(s), S \ {c})
  <2>1. s \in [1 .. Len(s) -> S \ {c}]
    BY <1>1 DEF ToSet
  <2> QED
    BY <1>1, <2>1 DEF Injection, IsInjective
<1>3. IsFiniteSet(S \ {c}) /\ Cardinality(S \ {c}) = Cardinality(S) - 1 /\ Cardinality(S) \in Nat
  BY FS_RemoveElement, FS_CardinalityType
<1>4. Cardinality(1 .. Len(s)) <= Cardinality(S \ {c})
  BY <1>2, <1>3, FS_Injection
<1>5. Cardinality(1 .. Len(s)) = Len(s)
  BY <1>1, FS_Interval
<1> QED
  BY <1>1, <1>3, <1>4, <1>5

(* As many connections as a channel of a room has slots. *)
Capacity == IsFiniteSet(Clients) /\ Cardinality(Clients) <= ChanCap

LEMMA ForgottenSame ==
    ASSUME NobodyForgotten,
           \A c \in Clients : socket'[c] # socket[c] => socket'[c] = "broken" /\ socket[c] = "open",
           hubClients \subseteq hubClients' \cup closed', closed \subseteq closed',
           \A r \in Rooms : Pending(r)' = Pending(r)
    PROVE  NobodyForgotten'
BY DEF NobodyForgotten

LEMMA UnregisterForgets ==
    ASSUME Inv, NobodyForgotten, NEW c \in Clients, Unregister(c)
    PROVE  NobodyForgotten'
<1>1. /\ socket' = [socket EXCEPT ![c] = "gone"] /\ socket[c] = "broken"
      /\ hubClients' = hubClients \ {c} /\ closed \subseteq closed'
      /\ UNCHANGED <<grace, seatRelease>>
      /\ \/ c \notin hubClients /\ UNCHANGED <<disconnected, closed>>
         \/ c \in closed' /\ UNCHANGED disconnected
         \/ \E r \in Rooms : /\ Len(disconnected[r]) < ChanCap
                             /\ disconnected' = Offer(disconnected, r, c)
                             /\ UNCHANGED closed
  BY UnregisterFacts
<1>2. \A d \in Clients : d # c => socket'[d] = socket[d]
  BY <1>1, TypeFields DEF Inv
<1>3. /\ \A r \in Rooms : Pending(r) \subseteq Pending(r)'
      /\ c \in closed' \/ \E r \in Rooms : c \in Pending(r)'
  <2>1. CASE c \notin hubClients /\ UNCHANGED <<disconnected, closed>>
    BY <1>1, <2>1 DEF NobodyForgotten, Pending
  <2>2. CASE c \in closed' /\ UNCHANGED disconnected
    BY <1>1, <2>2 DEF Pending
  <2>3. ASSUME NEW r \in Rooms, Len(disconnected[r]) < ChanCap,
               disconnected' = Offer(disconnected, r, c)
        PROVE  /\ \A q \in Rooms : Pending(q) \subseteq Pending(q)'
               /\ c \in Pending(r)'
    <3>1. /\ \A q \in Rooms : q # r => disconnected'[q] = disconnected[q]
          /\ ToSet(disconnected'[r]) = ToSet(disconnected[r]) \cup {c}
      <4>1. Channel(disconnected)
        BY DEF Inv, ChannelInv
      <4> QED
        BY <2>3, <4>1, OfferFacts
    <3> QED
      BY <1>1, <3>1 DEF Pending
  <2> QED
    BY <1>1, <2>1, <2>2, <2>3
<1>4. socket'[c] = "gone"
  BY <1>1, TypeFields DEF Inv
<1>5. ASSUME NEW d \in Clients
      PROVE  /\ socket'[d] \in {"open", "broken"} => d \in hubClients' \cup closed'
             /\ socket'[d] = "gone" /\ d \notin closed' => \E r \in Rooms : d \in Pending(r)'
  <2>1. CASE d = c
    BY <1>3, <1>4, <2>1
  <2>2. CASE d # c
    <3>1. d \notin closed' => d \notin closed
      BY <1>1
    <3> QED
      BY <1>1, <1>2, <1>3, <2>2, <3>1 DEF NobodyForgotten
  <2> QED
    BY <2>1, <2>2
<1> QED
  BY <1>5 DEF NobodyForgotten

LEMMA ForgottenStep ==
    ASSUME Inv, OnceInv, NobodyForgotten, Capacity, [Next]_vars
    PROVE  NobodyForgotten'
<1>1. CASE Elsewhere
  <2>1. /\ \A c \in Clients :
              socket'[c] # socket[c] => socket[c] = "open" /\ socket'[c] = "broken"
        /\ hubClients \subseteq hubClients' \cup closed' /\ closed \subseteq closed'
    BY <1>1, ElsewhereFacts
  <2>2. \A r \in Rooms : Pending(r)' = Pending(r)
    BY <1>1, ElsewhereStep
  <2> QED
    BY <2>1, <2>2, ForgottenSame
<1>2. CASE UNCHANGED vars
  <2>1. UNCHANGED <<socket, hubClients, closed>>
    BY <1>2 DEF vars, hubVars
  <2>2. \A r \in Rooms : Pending(r)' = Pending(r)
    BY <1>2, StutterStep
  <2> QED
    BY <2>1, <2>2, ForgottenSame
<1>3. ASSUME NEW c \in Clients, Register(c) PROVE NobodyForgotten'
  <2>1. /\ socket' = [socket EXCEPT ![c] = "open"] /\ hubClients' = hubClients \cup {c}
        /\ UNCHANGED closed
    BY <1>3 DEF Register
  <2>2. \A r \in Rooms : Pending(r)' = Pending(r)
    BY <1>3, RegisterStep
  <2>3. \A d \in Clients : socket'[d] = IF d = c THEN "open" ELSE socket[d]
    BY <2>1, TypeFields DEF Inv
  <2> QED
    BY <2>1, <2>2, <2>3 DEF NobodyForgotten
<1>4. ASSUME NEW c \in Clients, Unregister(c) PROVE NobodyForgotten'
  BY <1>4, UnregisterForgets
<1>5. ASSUME NEW r \in Rooms, BindRoom(r) PROVE NobodyForgotten'
  <2>1. /\ UNCHANGED socket /\ \A q \in Rooms : Pending(q)' = Pending(q)
        /\ hubClients \subseteq hubClients' \cup closed' /\ closed \subseteq closed'
    BY <1>5, BindRoomStep
  <2> QED
    BY <2>1, ForgottenSame
<1>6. ASSUME NEW r \in Rooms, HandleSeatReconnect(r) PROVE NobodyForgotten'
  <2>1. /\ UNCHANGED <<socket, hubClients>> /\ \A q \in Rooms : Pending(q)' = Pending(q)
        /\ closed \subseteq closed'
    BY <1>6, ReconnectStep
  <2> QED
    BY <2>1, ForgottenSame
<1>7. ASSUME NEW r \in Rooms, HandleSeatDisconnect(r) PROVE NobodyForgotten'
  <2>1. PICK c \in Clients :
           LET rest == [disconnected EXCEPT ![r] = Tail(@)] IN
           /\ disconnected' = rest
           /\ \A q \in Rooms : q # r => rest[q] = disconnected[q]
           /\ ToSet(disconnected[r]) = {c} \cup ToSet(rest[r])
           /\ UNCHANGED <<socket, hubClients, seatRelease>>
           /\ \/ grace' = [grace EXCEPT ![r] = @ \cup {c}] /\ UNCHANGED <<seats, closed, room>>
              \/ UNCHANGED grace /\ FreeSeat(r, c)
    BY <1>7, DisconnectFacts
  <2>2. closed \subseteq closed' /\ \A q \in Rooms : q # r => Pending(q) \subseteq Pending(q)'
    BY <2>1, FreeSeatFacts, TypeFields DEF Inv, Pending
  <2>3. Pending(r) \subseteq Pending(r)' \cup closed'
    <3>1. CASE grace' = [grace EXCEPT ![r] = @ \cup {c}]
      BY <2>1, <3>1, TypeFields DEF Inv, Pending
    <3>2. CASE UNCHANGED grace /\ FreeSeat(r, c)
      BY <2>1, <3>2, FreeSeatFacts DEF Pending
    <3> QED
      BY <2>1, <3>1, <3>2
  <2>4. \A q \in Rooms : \A d \in Pending(q) : d \notin closed' => d \in Pending(q)'
    BY <2>2, <2>3
  <2> QED
    BY <2>1, <2>2, <2>4 DEF NobodyForgotten
<1>8. ASSUME NEW r \in Rooms, ReleaseSeatAfterGrace(r) PROVE NobodyForgotten'
  <2>1. PICK c \in Clients :
           LET rest == [seatRelease EXCEPT ![r] = Tail(@)] IN
           /\ seatRelease' = rest
           /\ \A q \in Rooms : q # r => rest[q] = seatRelease[q]
           /\ ToSet(seatRelease[r]) = {c} \cup ToSet(rest[r])
           /\ UNCHANGED <<socket, hubClients, disconnected, grace>>
           /\ FreeSeat(r, c)
    BY <1>8, ReleaseFacts
  <2>2. closed' = closed \cup {c}
    BY <2>1, FreeSeatFacts
  <2>3. \A q \in Rooms : \A d \in Pending(q) : d \notin closed' => d \in Pending(q)'
    BY <2>1, <2>2 DEF Pending
  <2> QED
    BY <2>1, <2>2, <2>3 DEF NobodyForgotten
<1>9. ASSUME NEW r \in Rooms, NEW c \in Clients, GraceElapses(r, c) PROVE NobodyForgotten'
  <2>1. /\ UNCHANGED <<socket, hubClients, disconnected, closed>>
        /\ c \in grace[r] /\ grace' = [grace EXCEPT ![r] = @ \ {c}]
        /\ seatRelease' = Offer(seatRelease, r, c) /\ Channel(seatRelease)
    BY <1>9, ElapseFacts
  <2>2. Len(seatRelease[r]) < ChanCap
    <3>1. IsInjective(seatRelease[r]) /\ c \notin ToSet(seatRelease[r])
      BY <2>1 DEF OnceInv
    <3>2. seatRelease[r] \in Seq(Clients)
      BY <2>1 DEF Channel
    <3>3. Len(seatRelease[r]) < Cardinality(Clients) /\ Cardinality(Clients) \in Nat
      BY <3>1, <3>2, RoomForOneMore, FS_CardinalityType DEF Capacity
    <3>4. Len(seatRelease[r]) \in Nat /\ ChanCap \in Nat
      BY <3>2, HubAssumption DEF HubAssumption
    <3> QED
      BY <3>3, <3>4 DEF Capacity
  <2>3. /\ \A q \in Rooms : q # r => seatRelease'[q] = seatRelease[q]
        /\ ToSet(seatRelease'[r]) = ToSet(seatRelease[r]) \cup {c}
    BY <2>1, <2>2, OfferFacts
  <2>4. \A q \in Rooms : Pending(q)' = Pending(q)
    BY <2>1, <2>3, TypeFields DEF Inv, Pending
  <2> QED
    BY <2>1, <2>4, ForgottenSame
<1> QED
  BY <1>1, <1>2, <1>3, <1>4, <1>5, <1>6, <1>7, <1>8, <1>9, NextCases

(* A connection that is gone is closed or some room has still to deal with    *)
(* it, as long as no room's channel can overflow; with a second room it is    *)
(* not always the one whose seat it has.                                     *)
THEOREM NobodyIsForgotten ==
    ASSUME Capacity
    PROVE  Spec => []NobodyForgotten
<1>1. Init => OnceInv /\ NobodyForgotten
  BY DEF Init, OnceInv, NobodyForgotten, IsInjective, ToSet
<1>2. Inv /\ [Next]_vars => Inv'
  BY InvStep
<1>3. Inv /\ OnceInv /\ [Next]_vars => OnceInv'
  BY OnceStep
<1>4. Inv /\ OnceInv /\ NobodyForgotten /\ [Next]_vars => NobodyForgotten'
  BY ForgottenStep
<1> QED
  BY InitInv, <1>1, <1>2, <1>3, <1>4, PTL DEF Spec

(* With one room it is: the news that a connection is gone is on its way to    *)
(* the room that has it seated.                                              *)
THEOREM DropsNotForgotten ==
    ASSUME Capacity, \E r \in Rooms : Rooms = {r}
    PROVE  Spec => []DropNotForgotten
<1>1. Inv /\ NobodyForgotten => DropNotForgotten
  BY TypeFields DEF DropNotForgotten, NobodyForgotten, Pending, Seated, Inv
<1>2. Spec => []Inv
  <2>1. Inv /\ [Next]_vars => Inv'
    BY InvStep
  <2> QED
    BY InitInv, <2>1, PTL DEF Spec
<1> QED
  BY <1>1, <1>2, NobodyIsForgotten, PTL

=============================================================================
