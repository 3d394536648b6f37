----------------------------- MODULE RoomProofs -----------------------------
(***************************************************************************)
(* For any people at the table, any of them coming and going, and any       *)
(* timers: an idle room has not forgotten work of its bots, and the bots     *)
(* close no window on a person.                                             *)
(***************************************************************************)
EXTENDS Room, FiniteSetTheorems, TLAPS

(* What the calls of the engine keep: a window is open only if somebody was  *)
(* offered something, and nothing is said of who has answered.               *)
TurnsInv ==
    /\ phase \in {"INIT", "PLAYER_TURN", "WAIT_DISCARDS", "ROUND_END", "MATCH_END"}
    /\ activePlayer \in Seats
    /\ offered \subseteq Seats /\ responded \subseteq Seats /\ ready \subseteq Seats
    /\ phase = "WAIT_DISCARDS" => offered # {}

LoopInv ==
    /\ connected \subseteq Humans /\ dropped \subseteq connected
    /\ loop.at \in {"boot", "select", "drive", "window", "ready", "leave", "stopped"}
    /\ loop.cause \in {"none", "start", "tick", "timer", "discard", "other"}
    /\ loop.seat \in 0 .. 4
    /\ DOMAIN loop = {"at", "cause", "seat", "submitted"}
    /\ botTick \in {"none", "sleeping", "due"}
    /\ loop.at # "stopped" => connected # {}
    /\ loop.at \in {"drive", "window", "ready", "leave"} => loop.cause # "none"
    /\ loop.at = "window" /\ ~loop.submitted => loop.seat = 0 /\ phase = "WAIT_DISCARDS"

(* The bots' work that a client's action leaves is done before the room      *)
(* waits again, or a tick was on its way before.  In particular the bots are *)
(* not the last to be ready for the next hand: a person who can answer is    *)
(* not ready yet, or has become ready while a tick was to make the bots so.  *)
Client == loop.cause \in {"discard", "other"}

WorkInv ==
    botTick = "none" =>
        /\ loop.at = "select" \/ (loop.at = "leave" /\ Client) => ~BotWorkPending(connected)
        /\ loop.at \in {"drive", "window", "ready"} /\ Client /\ phase = "ROUND_END" =>
               ~ (connected \subseteq ready)
        /\ loop.at = "ready" /\ Client =>
               phase = "ROUND_END" /\ \A s \in Seats : s < loop.seat => s \in connected \cup ready

Inv == TurnsInv /\ LoopInv /\ WorkInv
-----------------------------------------------------------------------------
(* The calls of the engine.                                                  *)
LEMMA TurnOfKeeps ==
    ASSUME NEW s \in Seats, TurnOf(s)
    PROVE  TurnsInv' /\ phase' # "ROUND_END"
  BY DEF TurnOf, TurnsInv

LEMMA HandOverKeeps ==
    ASSUME HandOver
    PROVE  TurnsInv' /\ ready' = {}
  BY DEF HandOver, TurnsInv, Seats

LEMMA NextSeatIsSeat ==
    ASSUME NEW s \in Seats
    PROVE  NextSeat(s) \in Seats
  BY DEF Seats, NextSeat

LEMMA ResolveKeeps ==
    ASSUME TurnsInv, NEW r, Resolve(r)
    PROVE  TurnsInv' /\ (phase' = "ROUND_END" => ready' = {})
<1>1. activePlayer \in Seats /\ offered \subseteq Seats
  BY DEF TurnsInv
<1>. QED  BY <1>1, TurnOfKeeps, HandOverKeeps, NextSeatIsSeat DEF Resolve

LEMMA HandStartsKeeps ==
    ASSUME HandStarts
    PROVE  TurnsInv' /\ (phase' = "ROUND_END" => ready' = {})
  BY TurnOfKeeps, HandOverKeeps DEF HandStarts

LEMMA DiscardKeeps ==
    ASSUME TurnsInv, NEW s, Discard(s)
    PROVE  TurnsInv' /\ (phase' = "ROUND_END" => ready' = {})
<1>1. s \in Seats /\ activePlayer \in Seats
  BY DEF TurnsInv, Discard
<1>2. CASE WindowOpens
  <2>1. offered' \subseteq Seats /\ offered' # {}
    BY <1>2 DEF WindowOpens
  <2>. QED  BY <1>1, <1>2, <2>1 DEF WindowOpens, TurnsInv
<1>. QED  BY <1>1, <1>2, TurnOfKeeps, HandOverKeeps, NextSeatIsSeat DEF Discard

LEMMA TurnKeeps ==
    ASSUME TurnsInv, NEW s, Discard(s) \/ Declare(s) \/ KeepTurn(s)
    PROVE  TurnsInv' /\ (phase' = "ROUND_END" => ready' = {})
<1>1. CASE KeepTurn(s)
  BY <1>1 DEF KeepTurn, turnVars, TurnsInv
<1>. QED  BY <1>1, DiscardKeeps, HandOverKeeps DEF Declare

LEMMA RespondKeeps ==
    ASSUME TurnsInv, NEW s \in Seats, Respond(s)
    PROVE  TurnsInv' /\ (phase' = "ROUND_END" => ready' = {})
<1>. DEFINE r == responded \cup {s}
<1>1. phase = "WAIT_DISCARDS"
  BY DEF Respond
<1>2. CASE Cardinality(r) < Cardinality(offered)
  BY <1>1, <1>2 DEF Respond, TurnsInv
<1>3. CASE ~ (Cardinality(r) < Cardinality(offered))
  BY <1>3, ResolveKeeps DEF Respond
<1>. QED  BY <1>2, <1>3

LEMMA SeatsAreFinite ==
    ASSUME NEW S, S \subseteq Seats
    PROVE  IsFiniteSet(S) /\ Cardinality(S) \in Nat
<1>1. 0 \in Int /\ 3 \in Int
  OBVIOUS
<1>2. IsFiniteSet(Seats)
  BY <1>1, FS_Interval DEF Seats
<1>. QED  BY <1>2, FS_Subset, FS_CardinalityType

(* When the response of an offered seat closes a window, as many others have *)
(* passed unasked as offered seats have not answered.                        *)
LEMMA ClosingResponse ==
    ASSUME TurnsInv, NEW s \in offered, Respond(s), phase' # phase
    PROVE  Cardinality(offered \ (responded \cup {s})) <= Cardinality(responded \ offered)
<1>. DEFINE r == responded \cup {s}
<1>1. offered \subseteq Seats /\ r \subseteq Seats
  BY DEF TurnsInv
<1>2. IsFiniteSet(offered) /\ IsFiniteSet(r)
  BY <1>1, SeatsAreFinite
<1>3. ~ (Cardinality(r) < Cardinality(offered))
  BY DEF Respond
<1>4. Cardinality(offered \ r) = Cardinality(offered) - Cardinality(offered \cap r)
  BY <1>2, FS_Difference
<1>5. Cardinality(r \ offered) = Cardinality(r) - Cardinality(offered \cap r)
  <2>1. r \cap offered = offered \cap r
    OBVIOUS
  <2>. QED  BY <1>2, <2>1, FS_Difference
<1>6. Cardinality(r) \in Nat /\ Cardinality(offered) \in Nat
  BY <1>1, SeatsAreFinite
<1>7. Cardinality(offered \cap r) \in Nat
  <2>1. offered \cap r \subseteq Seats
    BY <1>1
  <2>. QED  BY <2>1, SeatsAreFinite
<1>8. r \ offered = responded \ offered
  OBVIOUS
<1>9. Cardinality(offered \ r) <= Cardinality(r \ offered)
  <2>. HIDE DEF r
  <2>. QED  BY <1>3, <1>4, <1>5, <1>6, <1>7
<1>. QED  BY <1>8, <1>9

LEMMA ReadyKeeps ==
    ASSUME TurnsInv, NEW s \in Seats, Ready(s)
    PROVE  /\ TurnsInv'
           /\ ready \cup {s} = Seats => (phase' = "ROUND_END" => ready' = {})
           /\ ready \cup {s} # Seats => phase' = "ROUND_END" /\ ready' = ready \cup {s}
<1>1. CASE ready \cup {s} = Seats
  BY <1>1, HandStartsKeeps DEF Ready
<1>2. CASE ready \cup {s} # Seats
  BY <1>2 DEF Ready, TurnsInv
<1>. QED  BY <1>1, <1>2
-----------------------------------------------------------------------------
(* The room. *)
LEMMA InitKeeps ==
    ASSUME Init
    PROVE  Inv
<1>1. TurnsInv
  BY DEF Init, TurnsInit, TurnsInv, Seats
<1>2. LoopInv
  BY RoomAssumption DEF Init, LoopInv, At
<1>3. WorkInv
  BY DEF Init, WorkInv, At
<1>. QED  BY <1>1, <1>2, <1>3 DEF Inv

(* Where a drive goes on after a round.                                      *)
LEMMA NextRoundIs ==
    ASSUME NEW cause \in {"none", "start", "tick", "timer", "discard", "other"}, loop' = NextRound(cause)
    PROVE  /\ loop'.at \in {"leave", "drive"} /\ loop'.cause = cause
           /\ loop'.seat = 0 /\ ~loop'.submitted
           /\ DOMAIN loop' = {"at", "cause", "seat", "submitted"}
           /\ loop'.at = "leave" => cause = "tick"
  BY DEF NextRound, At

LEMMA AtIs ==
    ASSUME NEW where, NEW cause, loop' = At(where, cause)
    PROVE  /\ loop'.at = where /\ loop'.cause = cause
           /\ loop'.seat = 0 /\ ~loop'.submitted
           /\ DOMAIN loop' = {"at", "cause", "seat", "submitted"}
  BY DEF At

(* A tick is scheduled wherever it has to be.                                *)
LEMMA Scheduled ==
    ASSUME NEW seats, MaybeScheduleBotTick(seats), LoopInv
    PROVE  /\ botTick' \in {"none", "sleeping", "due"}
           /\ botTick' = "none" => ~BotWorkPending(seats)
  BY DEF MaybeScheduleBotTick, LoopInv

LEMMA BootKeeps ==
    ASSUME Inv, Boot
    PROVE  Inv'
<1>. USE DEF Inv
<1>1. /\ loop' = At("drive", "start") /\ UNCHANGED <<connected, dropped, botTick, timerVars>>
      /\ unsent' = FALSE /\ HandStarts /\ loop.at = "boot"
  BY DEF Boot, Start
<1>2. /\ loop'.at = "drive" /\ loop'.cause = "start" /\ loop'.seat = 0 /\ ~loop'.submitted
      /\ DOMAIN loop' = {"at", "cause", "seat", "submitted"}
  BY <1>1, AtIs
<1>3. TurnsInv'
  BY <1>1, HandStartsKeeps
<1>4. LoopInv'
  BY <1>1, <1>2 DEF LoopInv
<1>5. WorkInv'
  BY <1>2 DEF WorkInv, Client
<1>. QED  BY <1>3, <1>4, <1>5

(* After the last turn of the bots it is a person's.                         *)
LEMMA DriveTurnKeeps ==
    ASSUME Inv, DriveTurn
    PROVE  Inv'
<1>. USE DEF Inv
<1>1. /\ loop.at = "drive" /\ phase = "PLAYER_TURN"
      /\ UNCHANGED <<connected, dropped, botTick, timerVars>>
  BY DEF DriveTurn
<1>2. loop.cause \in {"none", "start", "tick", "timer", "discard", "other"} /\ connected # {}
      /\ connected \subseteq Seats
  BY <1>1, RoomAssumption DEF LoopInv
<1>3. CASE Automated(activePlayer)
  <2>1. /\ Discard(activePlayer) \/ Declare(activePlayer)
        /\ unsent' = FALSE /\ loop' = NextRound(loop.cause)
    BY <1>3 DEF DriveTurn
  <2>2. TurnsInv' /\ (phase' = "ROUND_END" => ready' = {})
    BY <2>1, TurnKeeps
  <2>3. /\ loop'.at \in {"leave", "drive"} /\ loop'.cause = loop.cause
        /\ loop'.seat = 0 /\ ~loop'.submitted
        /\ DOMAIN loop' = {"at", "cause", "seat", "submitted"}
        /\ loop'.at = "leave" => loop.cause = "tick"
    BY <1>2, <2>1, NextRoundIs
  <2>4. LoopInv'
    BY <1>1, <2>3 DEF LoopInv
  <2>5. WorkInv'
    BY <1>1, <1>2, <2>2, <2>3 DEF WorkInv, Client
    <2>. QED  BY <2>2, <2>4, <2>5
<1>4. CASE ~Automated(activePlayer)
  <2>1. loop' = At("leave", loop.cause) /\ UNCHANGED <<turnVars, unsent>>
    BY <1>4 DEF DriveTurn
  <2>2. /\ loop'.at = "leave" /\ loop'.cause = loop.cause /\ loop'.seat = 0 /\ ~loop'.submitted
        /\ DOMAIN loop' = {"at", "cause", "seat", "submitted"}
    BY <2>1, AtIs
  <2>3. TurnsInv'
    BY <2>1 DEF TurnsInv, turnVars
  <2>4. LoopInv'
    BY <1>1, <2>2 DEF LoopInv
  <2>5. ~BotWorkPending(connected)'
    BY <1>1, <1>4, <2>1 DEF BotWorkPending, Automated, turnVars
  <2>6. WorkInv'
    BY <2>2, <2>5 DEF WorkInv
    <2>. QED  BY <2>3, <2>4, <2>6
<1>. QED  BY <1>3, <1>4

LEMMA DriveOtherKeeps ==
    ASSUME Inv, DriveOther
    PROVE  Inv'
<1>. USE DEF Inv
<1>1. /\ loop.at = "drive" /\ phase # "PLAYER_TURN"
      /\ UNCHANGED <<turnVars, connected, dropped, botTick, unsent, timerVars>>
      /\ loop' = CASE phase = "WAIT_DISCARDS" -> At("window", loop.cause)
                   [] phase = "ROUND_END" -> At("ready", loop.cause)
                   [] OTHER -> At("leave", loop.cause)
  BY DEF DriveOther
<1>2. /\ loop'.cause = loop.cause /\ loop'.seat = 0 /\ ~loop'.submitted
      /\ DOMAIN loop' = {"at", "cause", "seat", "submitted"}
      /\ \/ phase = "WAIT_DISCARDS" /\ loop'.at = "window"
         \/ phase = "ROUND_END" /\ loop'.at = "ready"
         \/ phase \notin {"WAIT_DISCARDS", "ROUND_END"} /\ loop'.at = "leave"
  BY <1>1 DEF At
<1>3. TurnsInv'
  BY <1>1 DEF TurnsInv, turnVars
<1>4. LoopInv'
  BY <1>1, <1>2 DEF LoopInv, turnVars
<1>5. WorkInv'
  <2>1. phase' = phase /\ ready' = ready /\ offered' = offered /\ activePlayer' = activePlayer
        /\ connected' = connected /\ botTick' = botTick
    BY <1>1 DEF turnVars
  <2>2. loop'.at = "leave" => ~BotWorkPending(connected)'
    BY <1>1, <1>2, <2>1 DEF BotWorkPending
  <2>3. \A s \in Seats : ~ (s < 0)
    BY DEF Seats
  <2>. QED  BY <1>1, <1>2, <2>1, <2>2, <2>3 DEF WorkInv, Client
<1>. QED  BY <1>3, <1>4, <1>5

(* The loops over the seats.                                                 *)
LEMMA SubmittedIs ==
    ASSUME LoopInv, NEW s \in Seats, loop' = Submitted(s)
    PROVE  /\ loop'.at = loop.at /\ loop'.cause = loop.cause
           /\ loop'.seat = s + 1 /\ loop'.seat \in 0 .. 4 /\ loop'.submitted
           /\ DOMAIN loop' = {"at", "cause", "seat", "submitted"}
<1>1. DOMAIN loop = {"at", "cause", "seat", "submitted"} /\ s + 1 \in 0 .. 4
  BY DEF LoopInv, Seats
<1>2. loop' = [loop EXCEPT !.seat = s + 1, !.submitted = TRUE]
  BY DEF Submitted
<1>. QED  BY <1>1, <1>2

LEMMA NextBotIs ==
    ASSUME LoopInv, NEW s \in NextBot
    PROVE  s \in Seats /\ Automated(s) /\ CanPlay(s)
  BY DEF NextBot, First, LoopInv, Seats

LEMMA WindowSeatKeeps ==
    ASSUME Inv, WindowSeat
    PROVE  Inv'
<1>. USE DEF Inv
<1>1. PICK s \in NextBot :
          /\ Respond(s) \/ Discard(s) \/ Declare(s) \/ KeepTurn(s)
          /\ loop' = Submitted(s)
  BY DEF WindowSeat
<1>2. loop.at = "window" /\ UNCHANGED <<connected, dropped, botTick, timerVars>>
  BY DEF WindowSeat
<1>3. s \in Seats /\ Automated(s) /\ CanPlay(s)
  BY <1>1, NextBotIs
<1>4. TurnsInv' /\ (phase' = "ROUND_END" => ready' = {})
  <2>1. CASE Respond(s)
    BY <1>3, <2>1, RespondKeeps
  <2>2. CASE ~Respond(s)
    BY <1>1, <2>2, TurnKeeps
  <2>. QED  BY <2>1, <2>2
<1>5. /\ loop'.at = "window" /\ loop'.cause = loop.cause
      /\ loop'.seat \in 0 .. 4 /\ loop'.submitted
      /\ DOMAIN loop' = {"at", "cause", "seat", "submitted"}
  BY <1>1, <1>2, <1>3, SubmittedIs
<1>6. LoopInv'
  BY <1>2, <1>5 DEF LoopInv
<1>7. WorkInv'
  <2>1. connected # {}
    BY <1>2 DEF LoopInv
  <2>. QED  BY <1>2, <1>4, <1>5, <2>1 DEF WorkInv
<1>. QED  BY <1>4, <1>6, <1>7

(* The bots leave a window to the people who were offered something; if no   *)
(* bot was, somebody is.                                                     *)
LEMMA WindowDoneKeeps ==
    ASSUME Inv, WindowDone
    PROVE  Inv'
<1>. USE DEF Inv
<1>1. loop.at = "window" /\ NextBot = {} /\ UNCHANGED <<connected, dropped, botTick, timerVars>>
  BY DEF WindowDone
<1>2. loop.cause \in {"none", "start", "tick", "timer", "discard", "other"} /\ connected # {}
      /\ connected \subseteq Seats
  BY <1>1, RoomAssumption DEF LoopInv
<1>3. CASE phase = "WAIT_DISCARDS" /\ (~loop.submitted \/ HasConnectedInterruptSeat)
  <2>1. loop' = At("leave", loop.cause) /\ UNCHANGED <<turnVars, unsent>>
    BY <1>3 DEF WindowDone
  <2>2. /\ loop'.at = "leave" /\ loop'.cause = loop.cause /\ loop'.seat = 0 /\ ~loop'.submitted
        /\ DOMAIN loop' = {"at", "cause", "seat", "submitted"}
    BY <2>1, AtIs
  <2>3. offered \cap connected # {}
    <3>1. CASE HasConnectedInterruptSeat
      BY <3>1 DEF HasConnectedInterruptSeat
    <3>2. CASE ~loop.submitted
      <4>1. loop.seat = 0
        BY <1>1, <3>2 DEF LoopInv
      <4>2. PICK s \in Seats : s \in offered
        BY <1>3 DEF TurnsInv
      <4>3. SUFFICES ASSUME offered \cap connected = {} PROVE FALSE
        OBVIOUS
      <4>4. \A q \in offered : Automated(q) /\ CanPlay(q)
        BY <1>3, <4>3 DEF Automated, CanPlay
      <4>5. \E q \in offered : \A t \in offered : q <= t
        <5>1. offered \subseteq 0 .. 3
          BY DEF TurnsInv, Seats
        <5>. QED  BY <4>2, <5>1
      <4>6. PICK q \in offered : \A t \in offered : q <= t
        BY <4>5
      <4>7. q \in 0 .. 3 /\ \A t \in 0 .. q - 1 : t \notin offered
        BY <4>6 DEF TurnsInv, Seats
      <4>8. \A t \in 0 .. q - 1 : ~ (Automated(t) /\ CanPlay(t))
        BY <1>3, <4>7 DEF CanPlay
      <4>9. q \in NextBot
        BY <4>1, <4>4, <4>6, <4>7, <4>8 DEF NextBot, First
      <4>. QED  BY <1>1, <4>9
    <3>. QED  BY <1>3, <3>1, <3>2
  <2>4. TurnsInv'
    BY <2>1 DEF TurnsInv, turnVars
  <2>5. LoopInv'
    BY <1>1, <2>2 DEF LoopInv
  <2>6. ~BotWorkPending(connected)'
    BY <1>1, <1>3, <2>1, <2>3 DEF BotWorkPending, turnVars
  <2>7. WorkInv'
    BY <2>2, <2>6 DEF WorkInv
  <2>. QED  BY <2>4, <2>5, <2>7
<1>4. CASE ~ (phase = "WAIT_DISCARDS" /\ (~loop.submitted \/ HasConnectedInterruptSeat))
  <2>1. /\ TimeOut \/ (phase # "WAIT_DISCARDS" /\ UNCHANGED turnVars)
        /\ loop' = NextRound(loop.cause)
    BY <1>4 DEF WindowDone
  <2>2. TurnsInv' /\ (phase' = "ROUND_END" => ready' = {} \/ UNCHANGED turnVars)
    <3>1. CASE TimeOut
      BY <3>1, ResolveKeeps DEF TimeOut
    <3>2. CASE UNCHANGED turnVars
      BY <3>2 DEF turnVars, TurnsInv
    <3>. QED  BY <2>1, <3>1, <3>2
  <2>3. /\ loop'.at \in {"leave", "drive"} /\ loop'.cause = loop.cause
        /\ loop'.seat = 0 /\ ~loop'.submitted
        /\ DOMAIN loop' = {"at", "cause", "seat", "submitted"}
        /\ loop'.at = "leave" => loop.cause = "tick"
    BY <1>2, <2>1, NextRoundIs
  <2>4. LoopInv'
    BY <1>1, <2>3 DEF LoopInv
  <2>5. WorkInv'
    BY <1>1, <1>2, <2>2, <2>3 DEF WorkInv, Client, turnVars
  <2>. QED  BY <2>2, <2>4, <2>5
<1>. QED  BY <1>3, <1>4

LEMMA NextUnreadyIs ==
    ASSUME LoopInv, NEW s \in NextUnready
    PROVE  /\ s \in Seats /\ Automated(s) /\ s \notin ready
           /\ \A q \in Seats : loop.seat <= q /\ q < s => q \in connected \cup ready
  BY DEF NextUnready, First, LoopInv, Seats, Automated

LEMMA ReadySeatKeeps ==
    ASSUME Inv, ReadySeat
    PROVE  Inv'
<1>. USE DEF Inv
<1>1. PICK s \in NextUnready :
          IF phase = "ROUND_END"
          THEN Ready(s) /\ unsent' = TRUE /\ loop' = Submitted(s)
          ELSE loop' = At("leave", loop.cause) /\ UNCHANGED <<turnVars, unsent>>
  BY DEF ReadySeat
<1>2. loop.at = "ready" /\ UNCHANGED <<connected, dropped, botTick, timerVars>>
  BY DEF ReadySeat
<1>3. /\ s \in Seats /\ s \notin connected /\ s \notin ready /\ connected # {}
      /\ \A q \in Seats : loop.seat <= q /\ q < s => q \in connected \cup ready
  BY <1>2, <1>1, NextUnreadyIs DEF LoopInv, Automated
<1>4. connected \subseteq Seats /\ loop.seat \in Nat
  BY RoomAssumption DEF LoopInv
<1>5. CASE phase = "ROUND_END"
  <2>1. Ready(s) /\ loop' = Submitted(s)
    BY <1>1, <1>5
  <2>2. /\ TurnsInv'
        /\ ready \cup {s} = Seats => (phase' = "ROUND_END" => ready' = {})
        /\ ready \cup {s} # Seats => phase' = "ROUND_END" /\ ready' = ready \cup {s}
    BY <1>3, <2>1, ReadyKeeps
  <2>3. /\ loop'.at = "ready" /\ loop'.cause = loop.cause
        /\ loop'.seat = s + 1 /\ loop'.seat \in 0 .. 4
        /\ DOMAIN loop' = {"at", "cause", "seat", "submitted"}
    BY <1>2, <1>3, <2>1, SubmittedIs
  <2>4. LoopInv'
    BY <1>2, <2>3 DEF LoopInv
  <2>5. ASSUME botTick' = "none", Client'
        PROVE  /\ phase' = "ROUND_END" /\ ~ (connected' \subseteq ready')
               /\ \A q \in Seats : q < loop'.seat => q \in connected' \cup ready'
    <3>1. botTick = "none" /\ Client /\ connected' = connected
      BY <1>2, <2>3, <2>5 DEF Client
    <3>2. /\ ~ (connected \subseteq ready)
          /\ \A q \in Seats : q < loop.seat => q \in connected \cup ready
      BY <1>2, <1>5, <3>1 DEF WorkInv
    <3>3. phase' = "ROUND_END" /\ ready' = ready \cup {s}
      BY <1>3, <1>4, <2>2, <3>2
    <3>4. ASSUME NEW q \in Seats, q < s + 1 PROVE q \in connected \cup ready'
      <4>1. q < loop.seat \/ q = s \/ (loop.seat <= q /\ q < s)
        BY <1>3, <1>4, <3>4 DEF Seats
      <4>. QED  BY <1>3, <3>2, <3>3, <4>1
    <3>. QED  BY <1>3, <2>3, <3>1, <3>2, <3>3, <3>4
  <2>6. WorkInv'
    BY <2>3, <2>5 DEF WorkInv
  <2>. QED  BY <2>2, <2>4, <2>6
<1>6. CASE phase # "ROUND_END"
  <2>1. loop' = At("leave", loop.cause) /\ UNCHANGED turnVars
    BY <1>1, <1>6
  <2>2. /\ loop'.at = "leave" /\ loop'.cause = loop.cause /\ loop'.seat = 0 /\ ~loop'.submitted
        /\ DOMAIN loop' = {"at", "cause", "seat", "submitted"}
    BY <2>1, AtIs
  <2>3. TurnsInv'
    BY <2>1 DEF TurnsInv, turnVars
  <2>4. LoopInv'
    BY <1>2, <2>2 DEF LoopInv
  <2>5. WorkInv'
    BY <1>2, <1>6, <2>2 DEF WorkInv, Client
  <2>. QED  BY <2>3, <2>4, <2>5
<1>. QED  BY <1>5, <1>6

LEMMA ReadyDoneKeeps ==
    ASSUME Inv, ReadyDone
    PROVE  Inv'
<1>. USE DEF Inv
<1>1. /\ loop.at = "ready" /\ NextUnready = {}
      /\ UNCHANGED <<turnVars, connected, dropped, botTick, timerVars>>
      /\ loop' = IF loop.submitted /\ phase # "ROUND_END"
                 THEN NextRound(loop.cause) ELSE At("leave", loop.cause)
  BY DEF ReadyDone
<1>2. /\ loop.cause \in {"none", "start", "tick", "timer", "discard", "other"} /\ connected # {}
      /\ connected \subseteq Seats /\ loop.seat \in 0 .. 4
  BY <1>1, RoomAssumption DEF LoopInv
<1>3. /\ loop'.at \in {"leave", "drive"} /\ loop'.cause = loop.cause
      /\ loop'.seat = 0 /\ ~loop'.submitted
      /\ DOMAIN loop' = {"at", "cause", "seat", "submitted"}
      /\ phase = "ROUND_END" => loop'.at = "leave"
  BY <1>1, <1>2, NextRoundIs, AtIs
<1>4. TurnsInv'
  BY <1>1 DEF TurnsInv, turnVars
<1>5. LoopInv'
  BY <1>1, <1>3 DEF LoopInv
<1>6. ASSUME botTick = "none", Client
      PROVE  phase = "ROUND_END" /\ Seats \subseteq connected \cup ready
  <2>1. phase = "ROUND_END" /\ \A s \in Seats : s < loop.seat => s \in connected \cup ready
    BY <1>1, <1>6 DEF WorkInv
  <2>2. ASSUME NEW s \in Seats, s \notin connected \cup ready PROVE FALSE
    <3>. DEFINE late == {q \in 0 .. 3 : loop.seat <= q /\ q \notin connected \cup ready}
    <3>1. s \in late /\ late \subseteq 0 .. 3
      BY <1>2, <2>1, <2>2 DEF Seats
    <3>. HIDE DEF late
    <3>2. PICK q \in late : \A t \in late : q <= t
      BY <3>1
    <3>3. q \in loop.seat .. 3 /\ q \notin connected \cup ready
      BY <1>2, <3>2 DEF late
    <3>4. \A t \in loop.seat .. q - 1 : t \in connected \cup ready
      <4>1. TAKE t \in loop.seat .. q - 1
      <4>2. t \in 0 .. 3 /\ ~ (q <= t) /\ loop.seat <= t
        BY <1>2, <3>3, <4>1
      <4>. QED  BY <3>2, <4>2 DEF late
    <3>5. q \in NextUnready
      BY <3>3, <3>4 DEF NextUnready, First, Automated
    <3>. QED  BY <1>1, <3>5
  <2>. QED  BY <2>1, <2>2
<1>7. WorkInv'
  <2>1. ASSUME botTick' = "none", Client'
        PROVE  loop'.at = "leave" /\ ~BotWorkPending(connected)'
    <3>1. botTick = "none" /\ Client
      BY <1>1, <1>3, <2>1 DEF Client
    <3>2. phase = "ROUND_END" /\ Seats \subseteq connected \cup ready
      BY <1>6, <3>1
    <3>. QED  BY <1>1, <1>3, <3>2 DEF BotWorkPending, turnVars
  <2>. QED  BY <1>3, <2>1 DEF WorkInv
<1>. QED  BY <1>4, <1>5, <1>7

(* Going back to the select.                                                 *)
LEMMA LeaveKeeps ==
    ASSUME Inv, Leave
    PROVE  Inv'
<1>. USE DEF Inv
<1>1. loop.at = "leave" /\ loop' = Select /\ UNCHANGED <<turnVars, connected, dropped, unsent>>
  BY DEF Leave
<1>2. /\ loop'.at = "select" /\ loop'.cause = "none" /\ loop'.seat = 0 /\ ~loop'.submitted
      /\ DOMAIN loop' = {"at", "cause", "seat", "submitted"}
  BY <1>1, AtIs DEF Select
<1>3. TurnsInv'
  BY <1>1 DEF TurnsInv, turnVars
<1>4. /\ botTick' \in {"none", "sleeping", "due"}
      /\ botTick' = "none" => ~BotWorkPending(connected)
  <2>1. CASE loop.cause \in {"start", "timer", "tick"}
    <3>1. MaybeScheduleBotTick(connected)
      BY <2>1 DEF Leave
    <3>. QED  BY <3>1, Scheduled
  <2>2. CASE loop.cause \notin {"start", "timer", "tick"}
    <3>1. botTick' = botTick
      BY <2>2 DEF Leave
    <3>2. Client \/ loop.cause = "none"
      BY <2>2 DEF LoopInv, Client
    <3>. QED  BY <1>1, <3>1, <3>2 DEF LoopInv, WorkInv
  <2>. QED  BY <2>1, <2>2
<1>5. LoopInv'
  BY <1>1, <1>2, <1>4 DEF LoopInv
<1>6. BotWorkPending(connected)' <=> BotWorkPending(connected)
  BY <1>1 DEF BotWorkPending, turnVars
<1>7. WorkInv'
  BY <1>2, <1>4, <1>6 DEF WorkInv, Client
<1>. QED  BY <1>3, <1>5, <1>7

(* Goroutines touch neither the engine nor the room's own state; the tick    *)
(* stays pending while it is due.                                            *)
LEMMA GoroutinesKeep ==
    ASSUME Inv,
           UNCHANGED <<turnVars, connected, loop>>,
           dropped' \subseteq connected,
           botTick' \in {"none", "sleeping", "due"}, botTick' = "none" => botTick = "none"
    PROVE  Inv'
<1>. USE DEF Inv
<1>1. UNCHANGED <<phase, activePlayer, offered, responded, ready, connected, loop>>
  BY DEF turnVars
<1>2. TurnsInv'
  BY <1>1 DEF TurnsInv
<1>3. LoopInv'
  BY <1>1 DEF LoopInv
<1>4. BotWorkPending(connected)' <=> BotWorkPending(connected)
  BY <1>1 DEF BotWorkPending
<1>5. WorkInv'
  BY <1>1, <1>4 DEF WorkInv, Client
<1>. QED  BY <1>2, <1>3, <1>5

(* A person acts: the seats a person may be ready for the next hand in, and  *)
(* the room goes on with the bots.                                           *)
LEMMA ClientKeeps ==
    ASSUME Inv, loop.at = "select", UNCHANGED <<connected, dropped, botTick>>,
           TurnsInv', NEW cause \in {"discard", "other"}, loop' = At("drive", cause),
           botTick = "none" /\ phase' = "ROUND_END" => ~ (connected \subseteq ready')
    PROVE  Inv'
<1>. USE DEF Inv
<1>1. /\ loop'.at = "drive" /\ loop'.cause = cause /\ loop'.seat = 0 /\ ~loop'.submitted
      /\ DOMAIN loop' = {"at", "cause", "seat", "submitted"}
  BY AtIs
<1>2. LoopInv'
  BY <1>1 DEF LoopInv
<1>3. WorkInv'
  BY <1>1 DEF WorkInv
<1>. QED  BY <1>2, <1>3

LEMMA ClientActsKeeps ==
    ASSUME Inv, NEW s \in Humans, ClientActs(s)
    PROVE  Inv'
<1>. USE DEF Inv
<1>1. connected \subseteq Seats /\ s \in Seats
  BY RoomAssumption DEF LoopInv
<1>2. loop.at = "select" /\ UNCHANGED <<connected, dropped, botTick>> /\ s \in connected /\ connected # {}
  BY DEF ClientActs, ClientDiscards, ClientResponds, ClientReadies, ClientDeclares
<1>3. CASE ClientDiscards(s)
  <2>1. Discard(s) /\ loop' = At("drive", "discard")
    BY <1>3 DEF ClientDiscards
  <2>2. TurnsInv' /\ (phase' = "ROUND_END" => ready' = {})
    BY <2>1, TurnKeeps
  <2>. QED  BY <1>2, <2>1, <2>2, ClientKeeps
<1>4. CASE ClientDeclares(s)
  <2>1. (Declare(s) \/ KeepTurn(s)) /\ loop' = At("drive", "other")
    BY <1>4 DEF ClientDeclares
  <2>2. TurnsInv' /\ (phase' = "ROUND_END" => ready' = {})
    BY <2>1, TurnKeeps
  <2>. QED  BY <1>2, <2>1, <2>2, ClientKeeps
<1>5. CASE ClientResponds(s)
  <2>1. Respond(s) /\ loop' = At("drive", "other")
    BY <1>5 DEF ClientResponds
  <2>2. TurnsInv' /\ (phase' = "ROUND_END" => ready' = {})
    BY <1>1, <2>1, RespondKeeps
  <2>. QED  BY <1>2, <2>1, <2>2, ClientKeeps
<1>6. CASE ClientReadies(s)
  <2>1. Ready(s) /\ loop' = At("drive", "other") /\ phase = "ROUND_END"
    BY <1>6 DEF ClientReadies, Ready
  <2>2. /\ TurnsInv'
        /\ ready \cup {s} = Seats => (phase' = "ROUND_END" => ready' = {})
        /\ ready \cup {s} # Seats => phase' = "ROUND_END" /\ ready' = ready \cup {s}
    BY <1>1, <2>1, ReadyKeeps
  <2>3. botTick = "none" /\ phase' = "ROUND_END" => ~ (connected \subseteq ready')
    <3>. SUFFICES ASSUME botTick = "none", phase' = "ROUND_END" PROVE ~ (connected \subseteq ready')
      OBVIOUS
    <3>1. Seats \subseteq connected \cup ready
      BY <1>2, <2>1 DEF WorkInv, BotWorkPending
    <3>2. ready \subseteq Seats
      BY DEF TurnsInv
    <3>3. CASE ready \cup {s} = Seats
      BY <1>2, <2>2, <3>3
    <3>4. CASE ready \cup {s} # Seats
      BY <1>1, <2>2, <3>1, <3>2, <3>4
    <3>. QED  BY <3>3, <3>4
  <2>. QED  BY <1>2, <2>1, <2>2, <2>3, ClientKeeps
<1>. QED  BY <1>3, <1>4, <1>5, <1>6 DEF ClientActs

LEMMA ResolveFromTimerKeeps ==
    ASSUME Inv, ResolveInterruptsFromTimer
    PROVE  Inv'
<1>. USE DEF Inv
<1>1. loop.at = "select" /\ UNCHANGED <<connected, dropped, botTick>>
  BY DEF ResolveInterruptsFromTimer
<1>2. CASE phase = "WAIT_DISCARDS"
  <2>1. TimeOut /\ loop' = At("drive", "timer")
    BY <1>2 DEF ResolveInterruptsFromTimer
  <2>2. TurnsInv'
    BY <2>1, ResolveKeeps DEF TimeOut
  <2>3. /\ loop'.at = "drive" /\ loop'.cause = "timer" /\ loop'.seat = 0 /\ ~loop'.submitted
        /\ DOMAIN loop' = {"at", "cause", "seat", "submitted"}
    BY <2>1, AtIs
  <2>4. LoopInv'
    BY <1>1, <2>3 DEF LoopInv
  <2>5. WorkInv'
    BY <2>3 DEF WorkInv, Client
  <2>. QED  BY <2>2, <2>4, <2>5
<1>3. CASE phase # "WAIT_DISCARDS"
  <2>1. UNCHANGED <<turnVars, unsent, loop>>
    BY <1>3 DEF ResolveInterruptsFromTimer
  <2>2. dropped' \subseteq connected /\ botTick' \in {"none", "sleeping", "due"}
    BY <1>1 DEF LoopInv
  <2>. QED  BY <1>1, <2>1, <2>2, GoroutinesKeep
<1>. QED  BY <1>2, <1>3

LEMMA StepBotTickKeeps ==
    ASSUME Inv, StepBotTick
    PROVE  Inv'
<1>. USE DEF Inv
<1>1. /\ loop.at = "select" /\ UNCHANGED <<turnVars, connected, dropped>> /\ botTick' = "none"
      /\ loop' = At("drive", "tick")
  BY DEF StepBotTick
<1>2. /\ loop'.at = "drive" /\ loop'.cause = "tick" /\ loop'.seat = 0 /\ ~loop'.submitted
      /\ DOMAIN loop' = {"at", "cause", "seat", "submitted"}
  BY <1>1, AtIs
<1>3. TurnsInv'
  BY <1>1 DEF TurnsInv, turnVars
<1>4. LoopInv'
  BY <1>1, <1>2 DEF LoopInv
<1>5. WorkInv'
  BY <1>2 DEF WorkInv, Client
<1>. QED  BY <1>3, <1>4, <1>5

(* People come and go, and what they leave or take over is the bots' or not  *)
(* any more.                                                                 *)
LEMMA ReleaseKeeps ==
    ASSUME Inv, NEW s \in Humans, Release(s)
    PROVE  Inv'
<1>. USE DEF Inv
<1>1. /\ loop.at = "select" /\ UNCHANGED turnVars
      /\ connected' = connected \ {s} /\ dropped' = dropped \ {s}
  BY DEF Release
<1>2. TurnsInv'
  BY <1>1 DEF TurnsInv, turnVars
<1>3. connected' \subseteq Humans /\ dropped' \subseteq connected'
  BY <1>1 DEF LoopInv
<1>4. CASE connected' = {}
  <2>1. loop' = At("stopped", "none") /\ botTick' = botTick
    BY <1>4 DEF Release
  <2>2. /\ loop'.at = "stopped" /\ loop'.cause = "none" /\ loop'.seat = 0 /\ ~loop'.submitted
        /\ DOMAIN loop' = {"at", "cause", "seat", "submitted"}
    BY <2>1, AtIs
  <2>3. LoopInv'
    BY <1>3, <2>1, <2>2 DEF LoopInv
  <2>4. WorkInv'
    BY <2>2 DEF WorkInv
  <2>. QED  BY <1>2, <2>3, <2>4
<1>5. CASE connected' # {}
  <2>1. loop' = loop /\ MaybeScheduleBotTick(connected')
    BY <1>5 DEF Release
  <2>2. /\ botTick' \in {"none", "sleeping", "due"}
        /\ botTick' = "none" => ~BotWorkPending(connected')
    BY <2>1, Scheduled
  <2>3. LoopInv'
    BY <1>1, <1>3, <1>5, <2>1, <2>2 DEF LoopInv
  <2>4. BotWorkPending(connected)' <=> BotWorkPending(connected')
    BY <1>1 DEF BotWorkPending, turnVars
  <2>5. WorkInv'
    BY <1>1, <2>1, <2>2, <2>4 DEF WorkInv
  <2>. QED  BY <1>2, <2>3, <2>5
<1>. QED  BY <1>4, <1>5

LEMMA ReturnKeeps ==
    ASSUME Inv, NEW s \in Humans, Return(s)
    PROVE  Inv'
<1>. USE DEF Inv
<1>1. /\ loop.at = "select" /\ UNCHANGED <<turnVars, loop>>
      /\ connected' = connected \cup {s} /\ dropped' = dropped \ {s}
      /\ MaybeScheduleBotTick(connected')
  BY DEF Return
<1>2. TurnsInv'
  BY <1>1 DEF TurnsInv, turnVars
<1>3. /\ botTick' \in {"none", "sleeping", "due"}
      /\ botTick' = "none" => ~BotWorkPending(connected')
  BY <1>1, Scheduled
<1>4. LoopInv'
  BY <1>1, <1>3 DEF LoopInv
<1>5. BotWorkPending(connected)' <=> BotWorkPending(connected')
  BY <1>1 DEF BotWorkPending, turnVars
<1>6. WorkInv'
  BY <1>1, <1>3, <1>5 DEF WorkInv
<1>. QED  BY <1>2, <1>4, <1>6

LEMMA OthersKeep ==
    ASSUME Inv, NEW s \in Humans, Goroutines \/ Drop(s) \/ UNCHANGED vars
    PROVE  Inv'
<1>1. UNCHANGED <<turnVars, connected, loop>>
  BY DEF Goroutines, TimerExpires, TimerCancelled, EpochCheck, SendResolve, TickElapses, Drop, vars
<1>2. dropped' \subseteq connected
  BY DEF Goroutines, TimerExpires, TimerCancelled, EpochCheck, SendResolve, TickElapses, Drop, vars,
         Inv, LoopInv
<1>3. botTick' \in {"none", "sleeping", "due"} /\ (botTick' = "none" => botTick = "none")
  BY DEF Goroutines, TimerExpires, TimerCancelled, EpochCheck, SendResolve, TickElapses, Drop, vars,
         Inv, LoopInv
<1>. QED  BY <1>1, <1>2, <1>3, GoroutinesKeep

LEMMA NextKeeps ==
    ASSUME Inv, [Next]_vars
    PROVE  Inv'
<1>1. PICK p \in Humans : TRUE
  BY RoomAssumption
<1>2. CASE RoomRuns
  BY <1>2, BootKeeps, DriveTurnKeeps, DriveOtherKeeps, WindowSeatKeeps, WindowDoneKeeps, ReadySeatKeeps,
     ReadyDoneKeeps, LeaveKeeps DEF RoomRuns
<1>3. CASE Goroutines \/ UNCHANGED vars
  BY <1>1, <1>3, OthersKeep
<1>4. CASE ResolveInterruptsFromTimer \/ StepBotTick
  BY <1>4, ResolveFromTimerKeeps, StepBotTickKeeps
<1>5. CASE \E s \in Humans : ClientActs(s) \/ Drop(s) \/ Release(s) \/ Return(s)
  BY <1>5, ClientActsKeeps, OthersKeep, ReleaseKeeps, ReturnKeeps
<1>. QED  BY <1>2, <1>3, <1>4, <1>5 DEF Next

(* Every step of the room's goroutine, its timers, ticks and people keeps     *)
(* the invariant of the room.                                                *)
THEOREM InvHolds == Spec => []Inv
  BY InitKeeps, NextKeeps, PTL DEF Spec

(* Whoever drives which seats, comes and goes: a room that waits in its       *)
(* select has not forgotten work of its bots, though dispatchClientAction    *)
(* schedules no tick (room.go, room_bot.go).                                 *)
THEOREM BotsAreNotForgotten == Spec => []NoBotWorkForgotten
<1>1. Inv => NoBotWorkForgotten
  BY DEF Inv, WorkInv, NoBotWorkForgotten, Idle
<1>. QED  BY <1>1, InvHolds, PTL

(* The bots close no window on a person by themselves: of the people who     *)
(* have a seat and were offered something, each has answered, or a seat that *)
(* was offered nothing has passed in its place (advanceAutomatedSeatsN and   *)
(* handleInterruptAction, which counts responses).                           *)
THEOREM PeopleAreAsked == Spec => PeopleAsked
<1>. DEFINE missing == (offered \cap connected) \ responded
            unasked == responded \ offered
<1>1. ASSUME Inv, [Next]_vars, BotsClose
      PROVE  Cardinality(missing) <= Cardinality(unasked)
  <2>1. loop.at = "window" /\ phase = "WAIT_DISCARDS" /\ phase' # phase
    BY <1>1 DEF BotsClose
  <2>2. offered \subseteq Seats /\ responded \subseteq Seats
    BY <1>1 DEF Inv, TurnsInv
  <2>3. WindowSeat \/ WindowDone
    BY <1>1, <2>1 DEF Next, RoomRuns, Boot, DriveTurn, DriveOther, ReadySeat, ReadyDone, Leave, Goroutines,
       TimerExpires, TimerCancelled, EpochCheck, SendResolve, TickElapses, ResolveInterruptsFromTimer,
       StepBotTick, ClientActs, ClientDiscards, ClientResponds, ClientReadies, ClientDeclares,
       Drop, Release, Return, vars, turnVars
  <2>4. CASE WindowSeat
    <3>1. PICK s \in NextBot : Respond(s) \/ Discard(s) \/ Declare(s) \/ KeepTurn(s)
      BY <2>4 DEF WindowSeat
    <3>2. s \notin connected /\ s \in offered
      BY <1>1, <2>1, <3>1, NextBotIs DEF Inv, Automated, CanPlay
    <3>3. Respond(s)
      BY <2>1, <3>1 DEF Discard, Declare, KeepTurn
    <3>4. Cardinality(offered \ (responded \cup {s})) <= Cardinality(unasked)
      BY <1>1, <2>1, <3>2, <3>3, ClosingResponse DEF Inv
    <3>5. missing \subseteq offered \ (responded \cup {s})
      BY <3>2
    <3>6. Cardinality(missing) <= Cardinality(offered \ (responded \cup {s}))
      <4>1. IsFiniteSet(offered \ (responded \cup {s}))
        BY <2>2, SeatsAreFinite
      <4>. QED  BY <3>5, <4>1, FS_Subset
    <3>7. /\ Cardinality(missing) \in Nat /\ Cardinality(unasked) \in Nat
          /\ Cardinality(offered \ (responded \cup {s})) \in Nat
      BY <2>2, SeatsAreFinite
    <3>. QED  BY <3>4, <3>6, <3>7
  <2>5. CASE WindowDone
    <3>1. missing = {}
      BY <2>1, <2>5 DEF WindowDone, HasConnectedInterruptSeat, turnVars
    <3>2. Cardinality(missing) = 0 /\ Cardinality(unasked) \in Nat
      BY <2>2, <3>1, SeatsAreFinite, FS_EmptySet
    <3>. QED  BY <3>2
  <2>. QED  BY <2>3, <2>4, <2>5
<1>. QED  BY <1>1, InvHolds, PTL DEF PeopleAsked, Spec
=============================================================================
