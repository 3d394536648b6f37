---------------------------- MODULE WallGeometry ----------------------------
(***************************************************************************)
(* The physical layout of a Fenghua wall (internal/engine/game.go).  The    *)
(* wall is an array 0..wallLen-1 of tiles stacked in pairs (top, bottom).   *)
(* The front is drawn upwards from wallIndex; kong and flower replacements  *)
(* are drawn from the back, stack by stack, the top tile of a stack before  *)
(* its bottom tile.  The last `dice` stacks are the wangpai, and the top of *)
(* its innermost stack is the wild indicator, which nobody ever draws.      *)
(***************************************************************************)
EXTENDS Integers, FiniteSets

(* First index the front draws may not reach. *)
WangpaiBoundary(wallLen, dice) == wallLen - 2 * dice

(* The wild indicator is the top of the innermost wangpai stack, and the    *)
(* haitei tile is the one under it.                                         *)
WildIndicator(wallLen, dice) == WangpaiBoundary(wallLen, dice)
HaiteiSlot(wallLen, dice) == WildIndicator(wallLen, dice) + 1

(* Fault: the bottom tile of a stack is taken to be one further back. *)
DeadWallSlotOffByOne(wallLen, k) ==
    IF k % 2 = 1 THEN wallLen - 2 * (k \div 2) ELSE wallLen - 2 - 2 * (k \div 2)

(* Wall index of the k-th back draw, k counted from 0. *)
DeadWallSlot(wallLen, k) ==
    IF k % 2 = 1 THEN wallLen - 1 - 2 * (k \div 2)
                 ELSE wallLen - 2 - 2 * (k \div 2)

(* The wall indices taken by the first n back draws.  The wild indicator is *)
(* counted in once the back draws have stepped over it.                     *)
ConsumedByDeadWall(wallLen, n) == { DeadWallSlot(wallLen, k) : k \in 0 .. n - 1 }

(* Fault: front draws do not step over tiles already drawn from the back. *)
IsNextFrontNoSkip(wallLen, dice, front, n, i) == i = front

(* The next front draw happens at i: live-wall tiles that back draws have   *)
(* already taken are stepped over, up to the wangpai boundary.              *)
IsNextFront(wallLen, dice, front, n, i) ==
    /\ i \in front .. WangpaiBoundary(wallLen, dice)
    /\ i = WangpaiBoundary(wallLen, dice) \/ i \notin ConsumedByDeadWall(wallLen, n)
    /\ \A j \in front .. i - 1 : j \in ConsumedByDeadWall(wallLen, n)

(* Fault: the haitei tile is offered even when a back draw has taken it. *)
FindHaiteiConsumed(wallLen, dice, n) == HaiteiSlot(wallLen, dice)

(* The haitei tile, or -1 when a back draw has taken it. *)
FindHaitei(wallLen, dice, n) ==
    IF HaiteiSlot(wallLen, dice) < wallLen
       /\ HaiteiSlot(wallLen, dice) \notin ConsumedByDeadWall(wallLen, n)
    THEN HaiteiSlot(wallLen, dice)
    ELSE -1

(* Fault: back draws do not step over the face-up wild indicator. *)
BackDrawsTakeIndicator(wallLen, dice, n, m) == { DeadWallSlot(wallLen, k) : k \in n .. m - 1 }

(* The tiles handed out when the back-draw counter moves from n to m. *)
BackDraws(wallLen, dice, n, m) ==
    { DeadWallSlot(wallLen, k) : k \in n .. m - 1 } \ { WildIndicator(wallLen, dice) }
=============================================================================
