------------------------------- MODULE Turns -------------------------------
(***************************************************************************)
(* Who may act, and when: the abstract specification of the engine as the   *)
(* room sees it (ProcessPlayerAction and ResolveInterrupts of               *)
(* internal/engine/game.go, with what they leave in State.Phase,            *)
(* State.ActivePlayer, ValidActions and PlayerReady).  Tiles are left out:  *)
(* what a discard offers and who wins a hand is arbitrary.  Module Game     *)
(* implements this one; module Room drives it.                              *)
(***************************************************************************)
EXTENDS Integers, FiniteSets

Seats == 0 .. 3
NextSeat(s) == (s + 1) % 4

VARIABLES
    phase,          \* State.Phase
    activePlayer,   \* State.ActivePlayer, 0 between the hands
    offered,        \* in a window: the seats with ValidActions
    responded,      \* in a window: the seats in g.interruptQueue
    ready           \* the seats whose State.PlayerReady is set

turnVars == <<phase, activePlayer, offered, responded, ready>>

TurnsInit ==
    /\ phase = "INIT" /\ activePlayer = 0
    /\ offered = {} /\ responded = {} /\ ready = {}

-----------------------------------------------------------------------------
(* Where a call can leave the engine. *)

TurnOf(s) ==
    /\ phase' = "PLAYER_TURN" /\ activePlayer' = s
    /\ offered' = {} /\ responded' = {} /\ ready' = {}

WindowOpens ==
    /\ phase' = "WAIT_DISCARDS" /\ activePlayer' = activePlayer
    /\ offered' \in (SUBSET (Seats \ {activePlayer})) \ {{}}
    /\ responded' = {} /\ ready' = {}

HandOver ==
    /\ phase' \in {"ROUND_END", "MATCH_END"} /\ activePlayer' = 0
    /\ offered' = {} /\ responded' = {} /\ ready' = {}

HandStarts == HandOver \/ \E s \in Seats : TurnOf(s)

(* The window closes on the responses of the seats in r: one of them claims *)
(* the discard or wins on it, or the turn passes on (which may draw the     *)
(* hand).                                                                   *)
Resolve(r) ==
    \/ \E s \in r \cap offered : TurnOf(s)
    \/ TurnOf(NextSeat(activePlayer))
    \/ HandOver

-----------------------------------------------------------------------------
(* The calls. *)

Start == phase = "INIT" /\ HandStarts

Discard(s) ==
    /\ phase = "PLAYER_TURN" /\ s = activePlayer
    /\ WindowOpens \/ TurnOf(NextSeat(s)) \/ HandOver

(* Tsumo, a refused haitei tile, or the last kong. *)
Declare(s) ==
    /\ phase = "PLAYER_TURN" /\ s = activePlayer
    /\ HandOver

(* Any other kong, a revealed flower, an accepted haitei tile: the seat is  *)
(* still to act.  (A hand has a few of them at most.)                       *)
KeepTurn(s) ==
    /\ phase = "PLAYER_TURN" /\ s = activePlayer
    /\ UNCHANGED turnVars

(* Fault: the window waits for one response more than it has offers. *)
RespondLate(s) ==
    LET r == responded \cup {s}
    IN  /\ phase = "WAIT_DISCARDS" /\ s # activePlayer
        /\ IF Cardinality(r) <= Cardinality(offered)
           THEN responded' = r /\ UNCHANGED <<phase, activePlayer, offered, ready>>
           ELSE Resolve(r)

Respond(s) ==
    LET r == responded \cup {s}
    IN  /\ phase = "WAIT_DISCARDS" /\ s # activePlayer
        /\ IF Cardinality(r) < Cardinality(offered)
           THEN responded' = r /\ UNCHANGED <<phase, activePlayer, offered, ready>>
           ELSE Resolve(r)

TimeOut == phase = "WAIT_DISCARDS" /\ Resolve(responded)

Ready(s) ==
    /\ phase = "ROUND_END"
    /\ IF ready \cup {s} = Seats
       THEN HandStarts
       ELSE ready' = ready \cup {s} /\ UNCHANGED <<phase, activePlayer, offered, responded>>

TurnsNext ==
    \/ Start
    \/ \E s \in Seats : Discard(s) \/ Declare(s) \/ Respond(s) \/ Ready(s)
    \/ TimeOut

TurnsSpec == TurnsInit /\ [][TurnsNext]_turnVars
=============================================================================
