-------------------------------- MODULE Wall --------------------------------
(***************************************************************************)
(* What the wall of one match promises, whoever draws from it: the abstract *)
(* specification of the functions of internal/engine/game.go that move      *)
(* wallIndex, deadWallIndex, haiteiDrawIndex and WallCount.  Which seat     *)
(* draws, and why, is the business of module Game, which implements this    *)
(* one.                                                                     *)
(***************************************************************************)
EXTENDS WallGeometry

CONSTANTS
    WallLen,    \* tiles in the wall (144 for the Fenghua set)
    Dealt,      \* tiles dealt before the first draw (4 * 13)
    DiceSums,   \* the sums two dice can show (2..12)
    MaxChain,   \* bound on consecutive replacement draws of one handler call
    WordSize    \* WallCount is an unsigned word: it wraps around at WordSize

ASSUME WallAssumption ==
    /\ WallLen \in Nat /\ WallLen % 2 = 0
    /\ Dealt \in Nat
    /\ DiceSums \subseteq Nat \ {0}
    /\ \A d \in DiceSums : Dealt <= WallLen - 2 * d
    /\ MaxChain \in Nat
    /\ WordSize \in Nat /\ WallLen < WordSize

VARIABLES
    dice,            \* State.DiceSum
    wallIndex,       \* g.wallIndex: next front draw
    deadWallIndex,   \* g.deadWallIndex: back slots passed so far
    haiteiDrawIndex, \* g.haiteiDrawIndex: the accepted haitei tile, or -1
    wallCount,       \* State.WallCount
    dispensed,       \* wall indices that have been handed out this hand
    stage            \* "over": no hand in play; "turn"; "offered": haitei offered

vars == <<dice, wallIndex, deadWallIndex, haiteiDrawIndex, wallCount, dispensed, stage>>

Boundary == WangpaiBoundary(WallLen, dice)
Indicator == WildIndicator(WallLen, dice)

(* The back draws that move the counter from n to m are legal: none of them *)
(* is below the front, they end on a tile that is drawn (never on the       *)
(* indicator), and count tiles are left for them.                           *)
BackDrawsLegal(d, front, n, m, count) ==
    /\ m > n => DeadWallSlot(WallLen, m - 1) # WildIndicator(WallLen, d)
    /\ \A k \in n .. m - 1 : DeadWallSlot(WallLen, k) >= front
    /\ Cardinality(BackDraws(WallLen, d, n, m)) <= count

(* No tile is left for a back draw once the counter stands at n. *)
BackExhausted(front, n, count) ==
    count = 0 \/ DeadWallSlot(WallLen, n) < front

(* n .. m - 1 are drawn from the back; the hand goes on, or is over because *)
(* one more replacement was due and none was left.                          *)
Replace(d, front, n, m, count, given) ==
    LET extra == BackDraws(WallLen, d, n, m)
        left  == count - Cardinality(extra)
    IN  /\ BackDrawsLegal(d, front, n, m, count)
        /\ deadWallIndex' = m
        /\ wallCount' = left
        /\ dispensed' = given \cup extra
        /\ stage' = "turn" \/ (stage' = "over" /\ BackExhausted(front, m, left))

(* One front draw, then the replacements for the flowers it turns up. *)
DrawFront(d, front, n, m, count, given) ==
    \E i \in front .. WangpaiBoundary(WallLen, d) - 1 :
        /\ IsNextFront(WallLen, d, front, n, i)
        /\ wallIndex' = i + 1
        /\ Replace(d, i + 1, n, m, count - 1, given \cup {i})

-----------------------------------------------------------------------------
Init ==
    /\ dice \in DiceSums
    /\ wallIndex = 0
    /\ deadWallIndex = 0
    /\ haiteiDrawIndex = -1
    /\ wallCount = 0
    /\ dispensed = {}
    /\ stage = "over"

(* Start / startNextRound: deal, replace the dealt flowers, first draw. *)
Deal(d, n, m) ==
    LET flowers == BackDraws(WallLen, d, 0, n)
        count   == WallLen - Dealt - 1
    IN  /\ stage = "over"
        /\ dice' = d
        /\ haiteiDrawIndex' = -1
        /\ BackDrawsLegal(d, Dealt, 0, n, count)
        /\ DrawFront(d, Dealt, n, m, count - Cardinality(flowers),
                     (0 .. Dealt - 1) \cup flowers)

(* ExecuteSystemDraw while the live wall lasts. *)
SystemDraw(m) ==
    /\ stage = "turn"
    /\ DrawFront(dice, wallIndex, deadWallIndex, m, wallCount, dispensed)
    /\ UNCHANGED <<dice, haiteiDrawIndex>>

(* ExecuteSystemDraw on an exhausted live wall: the haitei tile is offered, *)
(* or the hand is drawn when a back draw has taken it.                      *)
LiveWallExhausted ==
    /\ stage = "turn"
    /\ IsNextFront(WallLen, dice, wallIndex, deadWallIndex, Boundary)
    /\ wallIndex' = Boundary
    /\ stage' = IF FindHaitei(WallLen, dice, deadWallIndex) = -1 THEN "over" ELSE "offered"
    /\ UNCHANGED <<dice, deadWallIndex, haiteiDrawIndex, wallCount, dispensed>>

(* ExecuteDeadWallDraw, with the replacements for the flowers it turns up. *)
DeadWallDraw(m) ==
    /\ stage = "turn"
    /\ m > deadWallIndex \/ BackExhausted(wallIndex, deadWallIndex, wallCount)
    /\ Replace(dice, wallIndex, deadWallIndex, m, wallCount, dispensed)
    /\ m = deadWallIndex => stage' = "over"
    /\ UNCHANGED <<dice, wallIndex, haiteiDrawIndex>>

(* handleHaiteiAccept, with the replacements when the tile is a flower. *)
AcceptHaitei(m) ==
    LET h == FindHaitei(WallLen, dice, deadWallIndex) IN
    /\ stage = "offered"
    /\ h # -1
    /\ haiteiDrawIndex' = h
    /\ Replace(dice, wallIndex, deadWallIndex, m, (wallCount - 1) % WordSize, dispensed \cup {h})
    /\ UNCHANGED <<dice, wallIndex>>

(* A hand ends with a win, a refusal of the haitei tile, or a haitei        *)
(* discard nobody wins on.                                                  *)
EndHand ==
    /\ stage # "over"
    /\ stage' = "over"
    /\ UNCHANGED <<dice, wallIndex, deadWallIndex, haiteiDrawIndex, wallCount, dispensed>>

BackCounters(n) == n .. n + MaxChain + 1

Next ==
    \/ \E d \in DiceSums, n \in BackCounters(0) : \E m \in BackCounters(n) : Deal(d, n, m)
    \/ \E m \in BackCounters(deadWallIndex) : SystemDraw(m)
    \/ LiveWallExhausted
    \/ \E m \in BackCounters(deadWallIndex) : DeadWallDraw(m)
    \/ \E m \in BackCounters(deadWallIndex) : AcceptHaitei(m)
    \/ EndHand

Spec == Init /\ [][Next]_vars

-----------------------------------------------------------------------------
(* Every variable has its type, and both ends stay inside the wall. *)
TypeOK ==
    /\ dice \in DiceSums
    /\ wallIndex \in 0 .. WallLen
    /\ deadWallIndex \in 0 .. WallLen
    /\ haiteiDrawIndex \in {-1} \cup 0 .. WallLen - 1
    /\ wallCount \in 0 .. WordSize - 1
    /\ dispensed \subseteq 0 .. WallLen - 1
    /\ stage \in {"over", "turn", "offered"}

(* Until the haitei tile is drawn no tile is handed out twice, by the front *)
(* draws, by the back draws that have come down into the live wall, or by   *)
(* both: WallCount, which every draw decrements, is exactly the number of   *)
(* tiles neither handed out nor the indicator.                              *)
WallCountExact ==
    dispensed # {} /\ haiteiDrawIndex = -1
        => wallCount = WallLen - 1 - Cardinality(dispensed)

(* The wild indicator lies face up in the wall and is never handed out,     *)
(* however far the back draws go past it.                                   *)
IndicatorNeverDrawn == dispensed # {} => Indicator \notin dispensed

(* The haitei tile, offered before it is seen, has not been handed out      *)
(* before it is drawn as the haitei tile.                                   *)
HaiteiOfferedFresh ==
    stage = "offered" /\ haiteiDrawIndex = -1
        => FindHaitei(WallLen, dice, deadWallIndex) \notin dispensed \cup {-1}
=============================================================================
