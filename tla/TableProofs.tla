----------------------------- MODULE TableProofs -----------------------------
(***************************************************************************)
(* What lies on the table, for every wall, deal, dice sum and hand          *)
(* evaluation: the draws of module Game are those module Wall allows, every *)
(* variable keeps its type, what is offered can be done, and no tile is     *)
(* lost or duplicated.                                                      *)
(***************************************************************************)
EXTENDS GameProofs, WellFoundedInduction, FunctionTheorems, SequenceTheorems

-----------------------------------------------------------------------------
(* Every set of naturals that is not empty has a least element. *)
NatLess == { p \in Nat \X Nat : p[1] < p[2] }

LEMMA Least ==
    ASSUME NEW X \in SUBSET Nat, X # {}
    PROVE  \E x \in X : \A y \in X : x <= y
<1>1. IsWellFoundedOn(NatLess, Nat)
  BY NatLessThanWellFounded DEF OpToRel, NatLess
<1>2. PICK x \in X : \A y \in X : ~ (<<y, x>> \in NatLess)
  BY <1>1, WFMin
<1>3. \A y \in X : ~ (y < x)
  BY <1>2 DEF NatLess
<1> QED
  BY <1>3

-----------------------------------------------------------------------------
Tiles == 0 .. WallLen - 1
Border(w) == WangpaiBoundary(WallLen, w.dice)
IndicatorDraw(w) == 2 * (w.dice - 1)

(* The ends of the wall are numbers, and the front is within the live wall. *)
EndsOK(w) ==
    /\ w.dice \in DiceSums
    /\ w.index \in 4 * HandTiles .. Border(w)
    /\ w.dead \in 0 .. WallLen

LEMMA WallNumbers ==
    /\ WallLen \in Nat /\ WallLen % 2 = 0 /\ HandTiles \in Nat /\ WordSize \in Nat
    /\ WallLen < WordSize
    /\ \A d \in DiceSums : /\ d \in Nat \ {0} /\ WangpaiBoundary(WallLen, d) \in Nat
                           /\ 4 * HandTiles + 1 <= WangpaiBoundary(WallLen, d)
                           /\ WangpaiBoundary(WallLen, d) < WallLen
                           /\ WangpaiBoundary(WallLen, d) + 1 < WallLen
BY GameAssumption DEF GameAssumption, HandTiles, WangpaiBoundary

LEMMA EndsNumbers ==
    ASSUME NEW w, EndsOK(w)
    PROVE  /\ w.dice \in Nat \ {0} /\ w.index \in Nat /\ w.dead \in Nat
           /\ Border(w) \in Nat /\ w.index <= Border(w) /\ Border(w) + 1 < WallLen
           /\ Border(w) = WallLen - 2 * w.dice
           /\ IndicatorDraw(w) \in Nat
BY WallNumbers DEF EndsOK, Border, WangpaiBoundary, IndicatorDraw

LEMMA TilesFinite == IsFiniteSet(Tiles) /\ Cardinality(Tiles) = WallLen
<1>1. WallLen \in Nat
  BY WallNumbers
<1> QED
  BY <1>1, FS_Interval DEF Tiles

(* The next front draw exists. *)
LEMMA FrontExists ==
    ASSUME NEW w, EndsOK(w)
    PROVE  /\ NextFront(w) \in w.index .. Border(w)
           /\ IsNextFront(WallLen, w.dice, w.index, w.dead, NextFront(w))
<1> DEFINE X == { i \in w.index .. Border(w) :
                    i = Border(w) \/ i \notin ConsumedByDeadWall(WallLen, w.dead) }
<1>1. w.index \in Nat /\ Border(w) \in Nat /\ w.index <= Border(w)
  BY EndsNumbers
<1>2. X \in SUBSET Nat /\ Border(w) \in X
  BY <1>1
<1>3. PICK i \in X : \A j \in X : i <= j
  BY <1>2, Least
<1>4. \A j \in w.index .. i - 1 : j \in ConsumedByDeadWall(WallLen, w.dead)
  BY <1>1, <1>3
<1>5. i \in 0 .. WallLen
  BY <1>1, <1>2, <1>3, EndsNumbers, WallNumbers
<1>6. IsNextFront(WallLen, w.dice, w.index, w.dead, i)
  BY <1>3, <1>4 DEF IsNextFront, Border
<1>7. IsNextFront(WallLen, w.dice, w.index, w.dead, NextFront(w))
  BY <1>5, <1>6, Zenon DEF NextFront
<1> QED
  BY <1>7 DEF IsNextFront, Border

-----------------------------------------------------------------------------
(* The slots of the back draws. *)
Slot(k) == DeadWallSlot(WallLen, k)

LEMMA SlotFacts ==
    ASSUME NEW k \in Nat
    PROVE  /\ Slot(k) \in Int /\ Slot(k) <= WallLen - 1
           /\ k >= WallLen => Slot(k) < 0
           /\ Slot(k) >= WallLen - 2 - k
           /\ \A j \in Nat : Slot(j) = Slot(k) => j = k
BY WallNumbers DEF Slot, DeadWallSlot

(* The indicator is on top of its stack. *)
LEMMA IndicatorSlot ==
    ASSUME NEW w, EndsOK(w)
    PROVE  /\ Slot(IndicatorDraw(w)) = WildIndicator(WallLen, w.dice)
           /\ Slot(IndicatorDraw(w) + 1) = WildIndicator(WallLen, w.dice) + 1
           /\ WildIndicator(WallLen, w.dice) = Border(w)
<1> DEFINE d == w.dice
<1>1. d \in Nat \ {0} /\ WallLen \in Nat
  BY EndsNumbers, WallNumbers
<1> HIDE DEF d
<1>2. /\ (2 * (d - 1)) % 2 = 0 /\ (2 * (d - 1)) \div 2 = d - 1
      /\ (2 * (d - 1) + 1) % 2 = 1 /\ (2 * (d - 1) + 1) \div 2 = d - 1
  BY <1>1
<1>3. /\ Slot(2 * (d - 1)) = WallLen - 2 * d
      /\ Slot(2 * (d - 1) + 1) = WallLen - 2 * d + 1
  BY <1>1, <1>2 DEF Slot, DeadWallSlot
<1> QED
  BY <1>3 DEF d, IndicatorDraw, WildIndicator, Border, WangpaiBoundary

(* After r tiles from the back, the counter has also passed the indicator's *)
(* slot when that lies between.                                             *)
LEMMA AfterFacts ==
    ASSUME NEW w, w.dead \in Nat, w.dice \in Nat \ {0}, NEW r \in Nat
    PROVE  /\ AfterBackDraws(w, r) \in Nat
           /\ AfterBackDraws(w, r) \in {w.dead + r, w.dead + r + 1}
           /\ r = 0 => AfterBackDraws(w, r) = w.dead
           /\ r > 0 => AfterBackDraws(w, r) - 1 # IndicatorDraw(w)
           /\ AfterBackDraws(w, r + 1) - 1 =
                IF AfterBackDraws(w, r) = IndicatorDraw(w) THEN IndicatorDraw(w) + 1
                ELSE AfterBackDraws(w, r)
           /\ AfterBackDraws(w, r) > IndicatorDraw(w) + 1 \/ AfterBackDraws(w, r) = w.dead + r
BY DEF AfterBackDraws, IndicatorDraw

(* The tiles from the back are within the wall, above the front, and not    *)
(* the indicator, as long as none of the draws before found it empty.       *)
LEMMA SlotsAboveFront ==
    ASSUME NEW w, EndsOK(w), NEW r \in Nat, \A q \in 0 .. r - 1 : ~BackEmpty(w, q),
           NEW k \in w.dead .. AfterBackDraws(w, r) - 1
    PROVE  k \in Nat /\ Slot(k) >= w.index
<1>1. /\ w.dead \in Nat /\ w.dice \in Nat \ {0} /\ w.index \in Nat /\ IndicatorDraw(w) \in Nat
      /\ k \in Nat
  BY EndsNumbers
<1>2. \A q \in 0 .. r - 1 : Slot(AfterBackDraws(w, q)) >= w.index
  <2> TAKE q \in 0 .. r - 1
  <2>1. AfterBackDraws(w, q) \in Nat
    BY <1>1, AfterFacts
  <2>2. Slot(AfterBackDraws(w, q)) \in Int /\ ~(Slot(AfterBackDraws(w, q)) < w.index)
    BY <2>1, SlotFacts DEF BackEmpty, Slot
  <2> QED
    BY <1>1, <2>2
<1>3. \/ \E q \in 0 .. r - 1 : k = AfterBackDraws(w, q)
      \/ k = IndicatorDraw(w) + 1 /\ \E q \in 0 .. r - 1 : IndicatorDraw(w) = AfterBackDraws(w, q)
  <2>1. CASE k - w.dead \in 0 .. r - 1 /\ AfterBackDraws(w, k - w.dead) = k
    BY <2>1
  <2>2. CASE k - w.dead \in 0 .. r - 1 /\ AfterBackDraws(w, k - w.dead) # k
    <3>1. w.dead <= IndicatorDraw(w) /\ k > IndicatorDraw(w)
      BY <1>1, <2>2 DEF AfterBackDraws, IndicatorDraw
    <3>2. CASE k = IndicatorDraw(w) + 1
      <4> DEFINE q == IndicatorDraw(w) - w.dead
      <4>1. q \in 0 .. r - 1 /\ AfterBackDraws(w, q) = IndicatorDraw(w)
        BY <1>1, <2>2, <3>1, <3>2 DEF AfterBackDraws, IndicatorDraw
      <4> QED
        BY <3>2, <4>1
    <3>3. CASE k > IndicatorDraw(w) + 1
      <4> DEFINE q == k - 1 - w.dead
      <4>1. q \in 0 .. r - 1 /\ AfterBackDraws(w, q) = k
        BY <1>1, <2>2, <3>1, <3>3 DEF AfterBackDraws, IndicatorDraw
      <4> QED
        BY <4>1
    <3> QED
      BY <1>1, <3>1, <3>2, <3>3
  <2>3. CASE k - w.dead \notin 0 .. r - 1
    <3>1. /\ k = w.dead + r /\ AfterBackDraws(w, r) = w.dead + r + 1 /\ r > 0
          /\ w.dead <= IndicatorDraw(w) /\ w.dead + r > IndicatorDraw(w)
      BY <1>1, <2>3 DEF AfterBackDraws, IndicatorDraw
    <3>2. CASE k = IndicatorDraw(w) + 1
      <4> DEFINE q == IndicatorDraw(w) - w.dead
      <4>1. q \in 0 .. r - 1 /\ AfterBackDraws(w, q) = IndicatorDraw(w)
        BY <1>1, <3>1, <3>2 DEF AfterBackDraws, IndicatorDraw
      <4> QED
        BY <3>2, <4>1
    <3>3. CASE k > IndicatorDraw(w) + 1
      <4> DEFINE q == r - 1
      <4>1. q \in 0 .. r - 1 /\ AfterBackDraws(w, q) = k
        BY <1>1, <3>1, <3>3 DEF AfterBackDraws, IndicatorDraw
      <4> QED
        BY <4>1
    <3> QED
      BY <1>1, <3>1, <3>2, <3>3
  <2> QED
    BY <2>1, <2>2, <2>3
<1>4. CASE \E q \in 0 .. r - 1 : k = AfterBackDraws(w, q)
  BY <1>1, <1>2, <1>4
<1>5. CASE k = IndicatorDraw(w) + 1 /\ \E q \in 0 .. r - 1 : IndicatorDraw(w) = AfterBackDraws(w, q)
  <2>1. Slot(IndicatorDraw(w)) >= w.index
    BY <1>2, <1>5
  <2>2. Slot(k) = Slot(IndicatorDraw(w)) + 1 /\ Slot(IndicatorDraw(w)) \in Int
    BY <1>1, <1>5, IndicatorSlot, SlotFacts
  <2> QED
    BY <1>1, <2>1, <2>2
<1> QED
  BY <1>3, <1>4, <1>5

(* The tiles the first r draws take are r different ones, all still in the  *)
(* wall; and the counter stays within the wall.                             *)
LEMMA BackTilesFacts ==
    ASSUME NEW w, EndsOK(w), NEW r \in Nat, \A q \in 0 .. r - 1 : ~BackEmpty(w, q)
    PROVE  /\ BackTiles(w, r) \subseteq w.index .. WallLen - 1
           /\ BackTiles(w, r) \subseteq Tiles
           /\ Border(w) \notin BackTiles(w, r)
           /\ IsFiniteSet(BackTiles(w, r)) /\ Cardinality(BackTiles(w, r)) = r
           /\ AfterBackDraws(w, r) \in w.dead .. WallLen
<1> DEFINE m == AfterBackDraws(w, r)
           k0 == IndicatorDraw(w)
           f == [q \in 1 .. r |-> Slot(AfterBackDraws(w, q) - 1)]
<1>1. /\ w.dead \in Nat /\ w.dice \in Nat \ {0} /\ w.index \in Nat /\ k0 \in Nat
      /\ WallLen \in Nat /\ w.dead <= WallLen
  BY EndsNumbers, WallNumbers DEF EndsOK
<1>2. m \in Nat /\ m \in {w.dead + r, w.dead + r + 1} /\ (r = 0 => m = w.dead)
  BY <1>1, AfterFacts
<1>3. \A k \in w.dead .. m - 1 : k \in Nat /\ Slot(k) \in Int /\ Slot(k) >= w.index
                                  /\ Slot(k) <= WallLen - 1 /\ k < WallLen
  <2> TAKE k \in w.dead .. m - 1
  <2>1. k \in Nat /\ Slot(k) >= w.index
    BY SlotsAboveFront
  <2>2. Slot(k) \in Int /\ Slot(k) <= WallLen - 1 /\ (k >= WallLen => Slot(k) < 0)
    BY <2>1, SlotFacts
  <2> QED
    BY <1>1, <2>1, <2>2
<1>4. BackTiles(w, r) = { Slot(k) : k \in w.dead .. m - 1 } \ {Border(w)}
  BY IndicatorSlot DEF BackTiles, BackDraws, Slot
<1>5. BackTiles(w, r) \subseteq w.index .. WallLen - 1 /\ Border(w) \notin BackTiles(w, r)
  BY <1>1, <1>3, <1>4
<1>6. m \in w.dead .. WallLen
  <2>1. CASE m = w.dead
    BY <1>1, <2>1
  <2>2. CASE m > w.dead
    <3>1. m - 1 \in w.dead .. m - 1
      BY <1>1, <1>2, <2>2
    <3>2. m - 1 < WallLen
      BY <1>3, <3>1
    <3> QED
      BY <1>1, <1>2, <2>2, <3>2
  <2> QED
    BY <1>1, <1>2, <2>1, <2>2
<1>7. \A q \in 1 .. r : /\ AfterBackDraws(w, q) - 1 \in w.dead .. m - 1
                        /\ AfterBackDraws(w, q) - 1 # k0
  BY <1>1 DEF AfterBackDraws, IndicatorDraw
<1>8. \A p, q \in 1 .. r : AfterBackDraws(w, p) = AfterBackDraws(w, q) => p = q
  BY <1>1 DEF AfterBackDraws, IndicatorDraw
<1>9. \A k \in w.dead .. m - 1 : k # k0 => \E q \in 1 .. r : k = AfterBackDraws(w, q) - 1
  <2> SUFFICES ASSUME NEW k \in w.dead .. m - 1, k # k0
               PROVE  \E q \in 1 .. r : k = AfterBackDraws(w, q) - 1
    OBVIOUS
  <2>1. CASE w.dead > k0 \/ k < k0
    <3>1. k - w.dead + 1 \in 1 .. r /\ k = AfterBackDraws(w, k - w.dead + 1) - 1
      BY <1>1, <2>1 DEF AfterBackDraws, IndicatorDraw
    <3> QED
      BY <3>1
  <2>2. CASE w.dead <= k0 /\ k > k0
    <3>1. k - w.dead \in 1 .. r /\ k = AfterBackDraws(w, k - w.dead) - 1
      BY <1>1, <2>2 DEF AfterBackDraws, IndicatorDraw
    <3> QED
      BY <3>1
  <2> QED
    BY <1>1, <2>1, <2>2
<1>10. f \in Bijection(1 .. r, BackTiles(w, r))
  <2>1. \A q \in 1 .. r : f[q] \in BackTiles(w, r)
    <3> SUFFICES ASSUME NEW q \in 1 .. r
                 PROVE  Slot(AfterBackDraws(w, q) - 1) \in BackTiles(w, r)
      OBVIOUS
    <3> DEFINE k == AfterBackDraws(w, q) - 1
    <3>1. k \in w.dead .. m - 1 /\ k # k0 /\ k \in Nat
      BY <1>3, <1>7
    <3>2. Slot(k) # Border(w)
      <4>1. Slot(k0) = Border(w)
        BY IndicatorSlot
      <4> HIDE DEF k, k0
      <4> QED
        BY <1>1, <3>1, <4>1, SlotFacts
    <3> HIDE DEF k, m
    <3>3. Slot(k) \in BackTiles(w, r)
      BY <1>4, <3>1, <3>2
    <3> QED
      BY <3>3 DEF k
  <2>2. \A p, q \in 1 .. r : f[p] = f[q] => p = q
    <3> SUFFICES ASSUME NEW p \in 1 .. r, NEW q \in 1 .. r,
                        Slot(AfterBackDraws(w, p) - 1) = Slot(AfterBackDraws(w, q) - 1)
                 PROVE  p = q
      OBVIOUS
    <3>1. AfterBackDraws(w, p) - 1 \in Nat /\ AfterBackDraws(w, q) - 1 \in Nat
      BY <1>3, <1>7
    <3>2. AfterBackDraws(w, p) - 1 = AfterBackDraws(w, q) - 1
      BY <3>1, SlotFacts
    <3>3. AfterBackDraws(w, p) = AfterBackDraws(w, q)
      <4>1. AfterBackDraws(w, p) \in Nat /\ AfterBackDraws(w, q) \in Nat
        BY <1>1, AfterFacts
      <4> QED
        BY <3>2, <4>1
    <3> QED
      BY <1>8, <3>3
  <2>3. \A t \in BackTiles(w, r) : \E q \in 1 .. r : f[q] = t
    <3> SUFFICES ASSUME NEW t \in BackTiles(w, r)
                 PROVE  \E q \in 1 .. r : Slot(AfterBackDraws(w, q) - 1) = t
      BY Zenon
    <3>1. PICK k \in w.dead .. m - 1 : t = Slot(k) /\ t # Border(w)
      BY <1>4
    <3>2. k # k0
      BY <3>1, IndicatorSlot
    <3>3. PICK q \in 1 .. r : k = AfterBackDraws(w, q) - 1
      BY <1>9, <3>2
    <3> QED
      BY <3>1, <3>3
  <2> QED
    BY <2>1, <2>2, <2>3, Fun_IsBij
<1>11. IsFiniteSet(1 .. r) /\ Cardinality(1 .. r) = r
  <2>1. 1 \in Int /\ r \in Int
    OBVIOUS
  <2>2. IsFiniteSet(1 .. r) /\ Cardinality(1 .. r) = IF 1 > r THEN 0 ELSE r - 1 + 1
    BY ONLY <2>1, FS_Interval
  <2> QED
    BY <2>2
<1>12. ExistsBijection(1 .. r, BackTiles(w, r))
  BY <1>10 DEF ExistsBijection
<1>13. IsFiniteSet(BackTiles(w, r)) /\ Cardinality(BackTiles(w, r)) = r
  BY <1>11, <1>12, FS_Bijection
<1>14. BackTiles(w, r) \subseteq Tiles
  BY <1>1, <1>5 DEF Tiles
<1> QED
  BY <1>5, <1>6, <1>13, <1>14

-----------------------------------------------------------------------------
(* The tiles handed out from the wall, Dispensed for any wall.              *)
Handed(w) ==
    (0 .. w.index - 1) \cup BackDraws(WallLen, w.dice, 0, w.dead) \cup ({w.haitei} \ {None})

WallRec == [faces : Walls, dice : DiceSums, index : Nat, dead : Nat, haitei : Int, count : Nat]

(* A wall during a hand.  Until the haitei tile is drawn, WallCount is the  *)
(* number of tiles neither handed out nor the indicator; afterwards the     *)
(* live wall is exhausted.                                                  *)
WallOK(w) ==
    /\ w \in WallRec
    /\ EndsOK(w)
    /\ w.count < WordSize
    /\ w.haitei \in {None, HaiteiSlot(WallLen, w.dice)}
    /\ w.haitei = None => w.count = WallLen - 1 - Cardinality(Handed(w))
    /\ w.haitei # None => w.index = Border(w)

LEMMA TilesSubset ==
    ASSUME NEW S \in SUBSET Tiles
    PROVE  IsFiniteSet(S) /\ Cardinality(S) \in Nat /\ Cardinality(S) <= WallLen
<1>1. IsFiniteSet(S) /\ Cardinality(S) <= Cardinality(Tiles)
  BY TilesFinite, FS_Subset
<1> QED
  BY <1>1, TilesFinite, FS_CardinalityType

LEMMA BackTilesGrow ==
    ASSUME NEW w, EndsOK(w), NEW q \in Nat
    PROVE  BackTiles(w, q) \subseteq BackTiles(w, q + 1)
<1>1. w.dead \in Nat /\ w.dice \in Nat \ {0}
  BY EndsNumbers
<1>2. AfterBackDraws(w, q) \in Int /\ AfterBackDraws(w, q + 1) \in Int
      /\ AfterBackDraws(w, q) <= AfterBackDraws(w, q + 1)
  BY <1>1 DEF AfterBackDraws
<1> QED
  BY <1>1, <1>2 DEF BackTiles, BackDraws

LEMMA OwedIsInt ==
    ASSUME NEW w, NEW hand, hand.closed \in SUBSET Tiles, NEW due \in Nat, NEW r,
           BackTiles(w, r) \in SUBSET Tiles
    PROVE  Owed(w, hand, due, r) \in Nat /\ Owed(w, hand, due, r) >= due
<1>1. Flowers(w, hand.closed) \in SUBSET Tiles /\ Flowers(w, BackTiles(w, r)) \in SUBSET Tiles
  BY DEF Flowers
<1> QED
  BY <1>1, TilesSubset DEF Owed

(* How many replacements there are: the first number at which every draw    *)
(* due has been made, or no tile is left.                                   *)
LEMMA ReplacementsFacts ==
    ASSUME NEW w, WallOK(w), NEW hand, hand.closed \in SUBSET Tiles, NEW due \in Nat,
           NEW r, r = Replacements(w, hand, due)
    PROVE  /\ r \in 0 .. WallLen
           /\ r = Owed(w, hand, due, r) \/ BackEmpty(w, r)
           /\ \A q \in 0 .. r - 1 : q # Owed(w, hand, due, q) /\ ~BackEmpty(w, q)
           /\ r <= Owed(w, hand, due, r)
           /\ Owed(w, hand, due, r) \in Nat
           /\ r <= w.count
<1>0. /\ EndsOK(w) /\ w.count \in Nat /\ WallLen \in Nat
      /\ w.dead \in Nat /\ w.dice \in Nat \ {0} /\ w.index \in Nat
  BY WallNumbers, EndsNumbers DEF WallOK, WallRec
<1> DEFINE Done(q) == q = Owed(w, hand, due, q) \/ BackEmpty(w, q)
           P(x) == Done(x) /\ \A q \in 0 .. x - 1 : q # Owed(w, hand, due, q) /\ ~BackEmpty(w, q)
<1>1. \E x \in 0 .. WallLen : P(x)
  <2> DEFINE D == { q \in 0 .. WallLen : Done(q) }
  <2>1. BackEmpty(w, WallLen)
    <3>1. AfterBackDraws(w, WallLen) \in Nat /\ AfterBackDraws(w, WallLen) >= WallLen
      BY <1>0, AfterFacts
    <3>2. Slot(AfterBackDraws(w, WallLen)) < 0 /\ Slot(AfterBackDraws(w, WallLen)) \in Int
      BY <3>1, SlotFacts
    <3> QED
      BY <1>0, <3>2 DEF BackEmpty, Slot
  <2>2. D \in SUBSET Nat /\ D # {}
    BY <1>0, <2>1
  <2> HIDE DEF D
  <2>3. PICK x \in D : \A y \in D : x <= y
    BY <2>2, Least
  <2>4. x \in 0 .. WallLen /\ Done(x)
    BY DEF D
  <2>5. \A q \in 0 .. x - 1 : ~Done(q)
    <3> SUFFICES ASSUME NEW q \in 0 .. x - 1, Done(q) PROVE FALSE
      OBVIOUS
    <3>1. q \in D
      BY <1>0, <2>4 DEF D
    <3> QED
      BY <2>3, <2>4, <3>1
  <2> QED
    BY <2>4, <2>5
<1>2. r \in 0 .. WallLen /\ P(r)
  <2>1. r = CHOOSE x \in 0 .. WallLen : P(x)
    BY DEF Replacements
  <2> HIDE DEF P
  <2> QED
    BY <1>1, <2>1
<1>3. \A q \in 0 .. r : BackTiles(w, q) \in SUBSET Tiles /\ Owed(w, hand, due, q) \in Nat
  <2> SUFFICES ASSUME NEW q \in 0 .. r
               PROVE  BackTiles(w, q) \in SUBSET Tiles /\ Owed(w, hand, due, q) \in Nat
    OBVIOUS
  <2>1. q \in Nat /\ \A p \in 0 .. q - 1 : ~BackEmpty(w, p)
    BY <1>2
  <2>2. BackTiles(w, q) \in SUBSET Tiles
    BY <1>0, <2>1, BackTilesFacts
  <2> QED
    BY <2>2, OwedIsInt
<1>4. \A q \in 0 .. r - 1 : Owed(w, hand, due, q) <= Owed(w, hand, due, q + 1)
  <2> SUFFICES ASSUME NEW q \in 0 .. r - 1
               PROVE  Owed(w, hand, due, q) <= Owed(w, hand, due, q + 1)
    OBVIOUS
  <2>1. BackTiles(w, q) \subseteq BackTiles(w, q + 1) /\ BackTiles(w, q + 1) \in SUBSET Tiles
    BY <1>0, <1>2, <1>3, BackTilesGrow
  <2>2. Flowers(w, BackTiles(w, q)) \subseteq Flowers(w, BackTiles(w, q + 1))
        /\ Flowers(w, BackTiles(w, q + 1)) \in SUBSET Tiles
        /\ Flowers(w, hand.closed) \in SUBSET Tiles
    BY <2>1 DEF Flowers
  <2>3. Cardinality(Flowers(w, BackTiles(w, q))) <= Cardinality(Flowers(w, BackTiles(w, q + 1)))
        /\ Cardinality(Flowers(w, BackTiles(w, q + 1))) \in Nat
        /\ Cardinality(Flowers(w, BackTiles(w, q))) \in Nat
        /\ Cardinality(Flowers(w, hand.closed)) \in Nat
    <3>1. Flowers(w, BackTiles(w, q)) \in SUBSET Tiles
      BY <2>2
    <3> QED
      BY <2>2, <3>1, TilesSubset, FS_Subset
  <2> QED
    BY <2>3 DEF Owed
<1>5. r <= Owed(w, hand, due, r)
  <2> DEFINE D == { q \in 0 .. r : ~(q <= Owed(w, hand, due, q)) }
  <2> SUFFICES ASSUME D # {} PROVE FALSE
    BY <1>2
  <2>1. D \in SUBSET Nat
    BY <1>2
  <2> HIDE DEF D
  <2>2. PICK x \in D : \A y \in D : x <= y
    BY <2>1, Least
  <2>3. x \in 0 .. r /\ ~(x <= Owed(w, hand, due, x)) /\ Owed(w, hand, due, x) \in Nat
    BY <1>3 DEF D
  <2>4. x # 0 /\ x - 1 \in 0 .. r - 1
    BY <1>2, <2>3
  <2>5. x - 1 <= Owed(w, hand, due, x - 1)
    <3>1. x - 1 \notin D
      BY <2>1, <2>2
    <3> QED
      BY <1>2, <2>4, <3>1 DEF D
  <2>6. x - 1 # Owed(w, hand, due, x - 1)
    BY <1>2, <2>4
  <2>7. Owed(w, hand, due, x - 1) <= Owed(w, hand, due, (x - 1) + 1)
        /\ Owed(w, hand, due, x - 1) \in Nat /\ (x - 1) + 1 = x
    BY <1>2, <1>3, <1>4, <2>3, <2>4
  <2> QED
    BY <1>2, <2>3, <2>5, <2>6, <2>7
<1>6. r <= w.count
  <2> SUFFICES ASSUME ~(r <= w.count) PROVE FALSE
    OBVIOUS
  <2>1. w.count \in 0 .. r - 1
    BY <1>0, <1>2
  <2>2. BackEmpty(w, w.count)
    BY DEF BackEmpty
  <2> QED
    BY <1>2, <2>1, <2>2
<1> QED
  BY <1>2, <1>3, <1>5, <1>6

-----------------------------------------------------------------------------
(* What each kind of draw does to the wall.                                 *)

LEMMA WallNumbersOK ==
    ASSUME NEW w, WallOK(w)
    PROVE  /\ EndsOK(w) /\ w.index \in Nat /\ w.dead \in Nat /\ w.count \in Nat
           /\ w.dice \in DiceSums /\ w.dice \in Nat \ {0} /\ w.haitei \in Int
           /\ Border(w) \in Nat /\ w.index <= Border(w) /\ Border(w) + 1 < WallLen
           /\ w.dead <= WallLen /\ 4 * HandTiles <= w.index
           /\ HaiteiSlot(WallLen, w.dice) = Border(w) + 1
           /\ Border(w) = Slot(IndicatorDraw(w)) /\ IndicatorDraw(w) \in Nat
           /\ WallLen \in Nat /\ HandTiles \in Nat
BY EndsNumbers, WallNumbers, IndicatorSlot
   DEF WallOK, WallRec, EndsOK, HaiteiSlot, WildIndicator, Border

LEMMA PassedSlots ==
    ASSUME NEW w, NEW n \in Nat, n <= WallLen
    PROVE  { Slot(k) : k \in 0 .. n - 1 } \subseteq Tiles
<1> SUFFICES ASSUME NEW k \in 0 .. n - 1 PROVE Slot(k) \in Tiles
  OBVIOUS
<1> QED
  BY WallNumbers DEF Slot, DeadWallSlot, Tiles

LEMMA BackDrawsOfWall ==
    ASSUME NEW w, EndsOK(w), NEW n, NEW m
    PROVE  BackDraws(WallLen, w.dice, n, m) = { Slot(k) : k \in n .. m - 1 } \ {Border(w)}
BY IndicatorSlot DEF BackDraws, Slot

LEMMA HandedFacts ==
    ASSUME NEW w, WallOK(w)
    PROVE  /\ Handed(w) \subseteq Tiles \ {Border(w)}
           /\ IsFiniteSet(Handed(w)) /\ Cardinality(Handed(w)) \in 0 .. WallLen - 1
           /\ Handed(w) = (0 .. w.index - 1)
                          \cup ({ Slot(k) : k \in 0 .. w.dead - 1 } \ {Border(w)})
                          \cup ({w.haitei} \ {None})
<1>0. /\ EndsOK(w) /\ w.index \in Nat /\ w.dead \in Nat /\ Border(w) \in Nat
      /\ w.index <= Border(w) /\ Border(w) + 1 < WallLen /\ w.dead <= WallLen
      /\ HaiteiSlot(WallLen, w.dice) = Border(w) + 1 /\ WallLen \in Nat
  BY WallNumbersOK
<1>1. Handed(w) = (0 .. w.index - 1)
                          \cup ({ Slot(k) : k \in 0 .. w.dead - 1 } \ {Border(w)})
                          \cup ({w.haitei} \ {None})
  BY <1>0, BackDrawsOfWall DEF Handed
<1>2. 0 .. w.index - 1 \subseteq Tiles \ {Border(w)}
  BY <1>0 DEF Tiles
<1>3. { Slot(k) : k \in 0 .. w.dead - 1 } \subseteq Tiles
  BY <1>0, PassedSlots
<1>4. {w.haitei} \ {None} \subseteq Tiles \ {Border(w)}
  BY <1>0 DEF WallOK, Tiles
<1>5. Handed(w) \subseteq Tiles \ {Border(w)}
  BY <1>1, <1>2, <1>3, <1>4
<1>6. IsFiniteSet(Tiles \ {Border(w)}) /\ Cardinality(Tiles \ {Border(w)}) = WallLen - 1
  <2>1. Border(w) \in Tiles
    BY <1>0 DEF Tiles
  <2> QED
    BY <2>1, TilesFinite, FS_RemoveElement
<1>7. IsFiniteSet(Handed(w)) /\ Cardinality(Handed(w)) <= WallLen - 1
  BY <1>5, <1>6, FS_Subset
<1>8. Cardinality(Handed(w)) \in Nat
  BY <1>7, FS_CardinalityType
<1> QED
  BY <1>0, <1>1, <1>5, <1>7, <1>8

(* Back draws hand out tiles that were still in the wall, but for the       *)
(* haitei tile: it can be drawn again from the back.                        *)
LEMMA BackDrawFacts ==
    ASSUME NEW w, WallOK(w), NEW r \in Nat, \A q \in 0 .. r - 1 : ~BackEmpty(w, q),
           r <= w.count
    PROVE  /\ WallOK(WallAfter(w, r))
           /\ WallAfter(w, r).faces = w.faces /\ WallAfter(w, r).dice = w.dice
           /\ WallAfter(w, r).index = w.index /\ WallAfter(w, r).haitei = w.haitei
           /\ WallAfter(w, r).count = w.count - r
           /\ WallAfter(w, r).dead = AfterBackDraws(w, r)
           /\ Handed(WallAfter(w, r)) = Handed(w) \cup BackTiles(w, r)
           /\ BackTiles(w, r) \cap (Handed(w) \ {w.haitei}) = {}
           /\ w.haitei = None => BackTiles(w, r) \cap Handed(w) = {}
<1> DEFINE m == AfterBackDraws(w, r)
           v == WallAfter(w, r)
<1>0. /\ EndsOK(w) /\ w.index \in Nat /\ w.dead \in Nat /\ Border(w) \in Nat
      /\ w.index <= Border(w) /\ Border(w) + 1 < WallLen /\ w.dead <= WallLen
      /\ w.count \in Nat /\ WallLen \in Nat /\ w.dice \in Nat \ {0}
  BY WallNumbersOK
<1>1. /\ BackTiles(w, r) \subseteq w.index .. WallLen - 1 /\ BackTiles(w, r) \subseteq Tiles
      /\ Border(w) \notin BackTiles(w, r)
      /\ IsFiniteSet(BackTiles(w, r)) /\ Cardinality(BackTiles(w, r)) = r
      /\ m \in w.dead .. WallLen
  BY <1>0, BackTilesFacts
<1>2. /\ v.faces = w.faces /\ v.dice = w.dice /\ v.index = w.index /\ v.haitei = w.haitei
      /\ v.count = w.count - r /\ v.dead = m
  BY DEF WallAfter, WallOK, WallRec
<1>3. v \in WallRec /\ v.count < WordSize
  <2>1. w \in WallRec /\ w.count - r \in Nat /\ m \in Nat /\ w.count - r < WordSize
    BY <1>0, <1>1, WallNumbers DEF WallOK
  <2>2. v = [w EXCEPT !.dead = m, !.count = w.count - r]
    BY <2>1 DEF WallAfter, WallRec
  <2> HIDE DEF m, v
  <2> QED
    BY <2>1, <2>2 DEF WallRec
<1>4. Border(v) = Border(w)
  BY <1>2 DEF Border
<1>5. EndsOK(v)
  BY <1>0, <1>1, <1>2, <1>4 DEF EndsOK
<1> HIDE DEF v, m
<1>6. BackTiles(w, r) = { Slot(k) : k \in w.dead .. m - 1 } \ {Border(w)}
  BY <1>0, BackDrawsOfWall DEF BackTiles, m
<1>7. Handed(w) = (0 .. w.index - 1)
                          \cup ({ Slot(k) : k \in 0 .. w.dead - 1 } \ {Border(w)})
                          \cup ({w.haitei} \ {None})
  BY HandedFacts
<1>8. Handed(v) = Handed(w) \cup BackTiles(w, r)
  <2>1. Handed(v) = (0 .. w.index - 1)
                          \cup ({ Slot(k) : k \in 0 .. m - 1 } \ {Border(w)})
                          \cup ({w.haitei} \ {None})
    BY <1>2, <1>4, <1>5, BackDrawsOfWall DEF Handed
  <2>2. { Slot(k) : k \in 0 .. m - 1 }
          = { Slot(k) : k \in 0 .. w.dead - 1 } \cup { Slot(k) : k \in w.dead .. m - 1 }
    <3>1. 0 .. m - 1 = (0 .. w.dead - 1) \cup (w.dead .. m - 1)
      BY <1>0, <1>1
    <3> QED
      BY <3>1
  <2> QED
    BY <1>6, <1>7, <2>1, <2>2
<1>9. BackTiles(w, r) \cap (Handed(w) \ {w.haitei}) = {}
  <2> SUFFICES ASSUME NEW t \in BackTiles(w, r), t \in Handed(w) \ {w.haitei} PROVE FALSE
    OBVIOUS
  <2>1. PICK k \in w.dead .. m - 1 : t = Slot(k)
    BY <1>6
  <2>2. t \notin 0 .. w.index - 1
    BY <1>0, <1>1
  <2>3. PICK j \in 0 .. w.dead - 1 : t = Slot(j)
    BY <1>7, <2>2
  <2>4. j \in Nat /\ k \in Nat /\ j # k
    BY <1>0, <1>1
  <2> QED
    BY <2>1, <2>3, <2>4, SlotFacts
<1>10. w.haitei = None => BackTiles(w, r) \cap Handed(w) = {}
  <2> SUFFICES ASSUME w.haitei = None PROVE BackTiles(w, r) \cap Handed(w) = {}
    OBVIOUS
  <2>1. w.haitei \notin Tiles
    BY DEF None, Tiles
  <2>2. w.haitei \notin Handed(w)
    BY <2>1, HandedFacts
  <2> QED
    BY <1>9, <2>2
<1>11. v.haitei = None => v.count = WallLen - 1 - Cardinality(Handed(v))
  <2> SUFFICES ASSUME w.haitei = None
               PROVE  w.count - r = WallLen - 1 - Cardinality(Handed(v))
    BY <1>2
  <2>1. Cardinality(Handed(v)) = Cardinality(Handed(w)) + r
    <3>1. IsFiniteSet(Handed(w)) /\ Cardinality(Handed(w)) \in Nat
      BY HandedFacts
    <3> QED
      <4>1. Handed(w) \cap BackTiles(w, r) = {}
        BY <1>2, <1>10
      <4>2. Cardinality(Handed(w) \cup BackTiles(w, r))
              = Cardinality(Handed(w)) + Cardinality(BackTiles(w, r))
                  - Cardinality(Handed(w) \cap BackTiles(w, r))
        BY <1>1, <3>1, FS_Union
      <4> QED
        BY <1>1, <1>8, <3>1, <4>1, <4>2, FS_EmptySet
  <2>2. w.count = WallLen - 1 - Cardinality(Handed(w)) /\ Cardinality(Handed(w)) \in Nat
    BY HandedFacts DEF WallOK
  <2> QED
    BY <1>0, <2>1, <2>2
<1>12. WallOK(v)
  BY <1>2, <1>3, <1>4, <1>5, <1>11 DEF WallOK
<1> QED
  BY <1>2, <1>8, <1>9, <1>10, <1>12 DEF v, m

(* The wall after a front draw, and after the haitei draw.                  *)
Taken(w, i) == [w EXCEPT !.index = i + 1, !.count = @ - 1]
HaiteiTaken(w, h) == [w EXCEPT !.count = (@ - 1) % WordSize, !.haitei = h]

(* A front draw hands out a tile that was still in the wall, and there is   *)
(* none once the haitei tile is drawn.                                      *)
LEMMA FrontDrawFacts ==
    ASSUME NEW w, WallOK(w), NEW i, i = NextFront(w), NEW v, v = Taken(w, i)
    PROVE  /\ i \in w.index .. Border(w) /\ i \in Tiles /\ i + 1 \in Nat
           /\ IsNextFront(WallLen, w.dice, w.index, w.dead, i)
           /\ i < Border(w) =>
                /\ WallOK(v) /\ Handed(v) = Handed(w) \cup {i}
                /\ i \notin Handed(w) /\ w.haitei = None
                /\ v.faces = w.faces /\ v.dice = w.dice /\ v.index = i + 1
                /\ v.dead = w.dead /\ v.haitei = w.haitei /\ v.count = w.count - 1
                /\ v.count \in Nat
<1>0. /\ EndsOK(w) /\ w.index \in Nat /\ w.dead \in Nat /\ Border(w) \in Nat
      /\ w.index <= Border(w) /\ Border(w) + 1 < WallLen /\ w.dead <= WallLen
      /\ w.count \in Nat /\ WallLen \in Nat /\ w.dice \in DiceSums
      /\ 4 * HandTiles <= w.index /\ HandTiles \in Nat
      /\ HaiteiSlot(WallLen, w.dice) = Border(w) + 1
  BY WallNumbersOK
<1>1. i \in w.index .. Border(w) /\ IsNextFront(WallLen, w.dice, w.index, w.dead, i)
  BY <1>0, FrontExists
<1>2. i \in Tiles /\ i \in Nat /\ i + 1 \in Nat
  BY <1>0, <1>1 DEF Tiles
<1>3. ASSUME i < Border(w)
      PROVE  /\ WallOK(v) /\ Handed(v) = Handed(w) \cup {i}
             /\ i \notin Handed(w) /\ w.haitei = None
             /\ v.faces = w.faces /\ v.dice = w.dice /\ v.index = i + 1
             /\ v.dead = w.dead /\ v.haitei = w.haitei /\ v.count = w.count - 1
             /\ v.count \in Nat
  <2>1. i \notin { Slot(k) : k \in 0 .. w.dead - 1 }
    <3>1. i # WangpaiBoundary(WallLen, w.dice)
      BY <1>0, <1>1, <1>3 DEF Border
    <3> QED
      BY <1>1, <3>1 DEF IsNextFront, ConsumedByDeadWall, Slot
  <2>2. \A j \in w.index .. i - 1 : j \in { Slot(k) : k \in 0 .. w.dead - 1 }
    BY <1>1 DEF IsNextFront, ConsumedByDeadWall, Slot
  <2>3. w.haitei = None
    BY <1>0, <1>1, <1>3 DEF WallOK
  <2>4. Handed(w) = (0 .. w.index - 1) \cup ({ Slot(k) : k \in 0 .. w.dead - 1 } \ {Border(w)})
    BY <2>3, HandedFacts
  <2>5. i \notin Handed(w)
    BY <1>0, <1>1, <2>1, <2>4
  <2>6. /\ v.faces = w.faces /\ v.dice = w.dice /\ v.index = i + 1
        /\ v.dead = w.dead /\ v.haitei = w.haitei /\ v.count = w.count - 1
    BY DEF WallOK, WallRec, Taken
  <2>7. Border(v) = Border(w)
    BY <2>6 DEF Border
  <2>8. EndsOK(v)
    BY <1>0, <1>1, <1>3, <2>6, <2>7 DEF EndsOK
  <2>9. Handed(v) = Handed(w) \cup {i}
    <3>1. Handed(v) = (0 .. i) \cup ({ Slot(k) : k \in 0 .. w.dead - 1 } \ {Border(w)})
      <4>1. BackDraws(WallLen, v.dice, 0, v.dead) = { Slot(k) : k \in 0 .. w.dead - 1 } \ {Border(w)}
        BY <1>0, <2>6, BackDrawsOfWall
      <4>2. v.index - 1 = i /\ {v.haitei} \ {None} = {}
        BY <1>2, <2>3, <2>6
      <4> QED
        BY <4>1, <4>2 DEF Handed
    <3>2. 0 .. i = (0 .. w.index - 1) \cup (w.index .. i - 1) \cup {i}
      BY <1>0, <1>1
    <3>3. w.index .. i - 1 \subseteq { Slot(k) : k \in 0 .. w.dead - 1 } \ {Border(w)}
      BY <1>0, <1>1, <2>2
    <3> QED
      BY <2>4, <3>1, <3>2, <3>3
  <2>10. w.count >= 1 /\ w.count - 1 = WallLen - 1 - Cardinality(Handed(v))
    <3>1. IsFiniteSet(Handed(w)) /\ Cardinality(Handed(w)) \in Nat
          /\ Handed(w) \subseteq Tiles \ {Border(w)}
      BY HandedFacts
    <3>2. Cardinality(Handed(v)) = Cardinality(Handed(w)) + 1
      BY <2>5, <2>9, <3>1, FS_AddElement
    <3>3. Cardinality(Handed(v)) <= WallLen - 1
      <4>1. Handed(v) \subseteq Tiles \ {Border(w)}
        BY <1>0, <1>2, <1>3, <2>9, <3>1
      <4>2. IsFiniteSet(Tiles \ {Border(w)}) /\ Cardinality(Tiles \ {Border(w)}) = WallLen - 1
        <5>1. Border(w) \in Tiles
          BY <1>0 DEF Tiles
        <5> QED
          BY <5>1, TilesFinite, FS_RemoveElement
      <4> QED
        BY <4>1, <4>2, FS_Subset
    <3>4. w.count = WallLen - 1 - Cardinality(Handed(w))
      BY <2>3 DEF WallOK
    <3> QED
      BY <1>0, <3>1, <3>2, <3>3, <3>4
  <2>11. v \in WallRec
    <3>1. w \in WallRec /\ w.count - 1 \in Nat
      BY <1>0, <2>10 DEF WallOK
    <3> QED
      BY <1>2, <3>1 DEF WallRec, Taken
  <2>12. v.count < WordSize /\ v.count \in Nat
    BY <1>0, <2>6, <2>10, WallNumbers DEF WallOK
  <2>13. WallOK(v)
    BY <2>3, <2>6, <2>7, <2>8, <2>10, <2>11, <2>12 DEF WallOK
  <2> QED
    BY <2>3, <2>5, <2>6, <2>9, <2>12, <2>13
<1> QED
  BY <1>1, <1>2, <1>3

(* An exhausted live wall: the front only steps up to the wangpai.          *)
LEMMA ExhaustedFacts ==
    ASSUME NEW w, WallOK(w), NextFront(w) = Border(w), NEW v, v = [w EXCEPT !.index = Border(w)]
    PROVE  /\ WallOK(v) /\ Handed(v) = Handed(w)
           /\ v.faces = w.faces /\ v.dice = w.dice /\ v.index = Border(w)
           /\ v.dead = w.dead /\ v.haitei = w.haitei /\ v.count = w.count
<1>0. /\ EndsOK(w) /\ w.index \in Nat /\ w.dead \in Nat /\ Border(w) \in Nat
      /\ w.index <= Border(w) /\ 4 * HandTiles <= w.index /\ HandTiles \in Nat
  BY WallNumbersOK
<1>1. /\ v.faces = w.faces /\ v.dice = w.dice /\ v.index = Border(w)
      /\ v.dead = w.dead /\ v.haitei = w.haitei /\ v.count = w.count
  BY DEF WallOK, WallRec
<1>2. Border(v) = Border(w)
  BY <1>1 DEF Border
<1>3. EndsOK(v)
  BY <1>0, <1>1, <1>2 DEF EndsOK
<1>4. IsNextFront(WallLen, w.dice, w.index, w.dead, Border(w))
  BY <1>0, FrontExists
<1>5. w.index .. Border(w) - 1 \subseteq { Slot(k) : k \in 0 .. w.dead - 1 } \ {Border(w)}
  BY <1>0, <1>4 DEF IsNextFront, ConsumedByDeadWall, Slot
<1>6. Handed(v) = (0 .. Border(w) - 1) \cup ({ Slot(k) : k \in 0 .. w.dead - 1 } \ {Border(w)})
                      \cup ({w.haitei} \ {None})
  <2>1. BackDraws(WallLen, w.dice, 0, w.dead) = { Slot(k) : k \in 0 .. w.dead - 1 } \ {Border(w)}
    BY <1>0, BackDrawsOfWall
  <2> QED
    BY <1>1, <2>1 DEF Handed
<1>7. 0 .. Border(w) - 1 = (0 .. w.index - 1) \cup (w.index .. Border(w) - 1)
  BY <1>0
<1>8. Handed(v) = Handed(w)
  BY <1>5, <1>6, <1>7, HandedFacts
<1>9. v \in WallRec
  <2>1. w \in WallRec
    BY DEF WallOK
  <2> QED
    BY <1>0, <2>1 DEF WallRec
<1>10. /\ w.count < WordSize
       /\ w.haitei \in {None, HaiteiSlot(WallLen, w.dice)}
       /\ w.haitei = None => w.count = WallLen - 1 - Cardinality(Handed(w))
  BY DEF WallOK
<1>11. WallOK(v)
  BY <1>1, <1>2, <1>3, <1>8, <1>9, <1>10 DEF WallOK
<1> QED
  BY <1>1, <1>8, <1>11

LEMMA WordFacts ==
    ASSUME NEW n \in Nat, n < WordSize
    PROVE  /\ (n - 1) % WordSize \in Nat /\ (n - 1) % WordSize < WordSize
           /\ n > 0 => (n - 1) % WordSize = n - 1
<1>1. WordSize \in Nat /\ WordSize > 0
  BY WallNumbers
<1> QED
  BY <1>1

(* The haitei tile is handed out; had it not been before, WallCount is      *)
(* exact.                                                                   *)
LEMMA HaiteiFacts ==
    ASSUME NEW w, WallOK(w), w.index = Border(w), NEW h, h = FindHaitei(WallLen, w.dice, w.dead),
           h # -1, NEW v, v = HaiteiTaken(w, h)
    PROVE  /\ h \in Tiles /\ h = HaiteiSlot(WallLen, w.dice) /\ h # None
           /\ WallOK(v) /\ Handed(v) = Handed(w) \cup {h}
           /\ v.faces = w.faces /\ v.dice = w.dice /\ v.index = w.index
           /\ v.dead = w.dead /\ v.haitei = h /\ v.count = (w.count - 1) % WordSize
           /\ w.haitei = None => h \notin Handed(w) /\ v.count = w.count - 1
<1>0. /\ EndsOK(w) /\ w.index \in Nat /\ w.dead \in Nat /\ Border(w) \in Nat
      /\ w.index <= Border(w) /\ 4 * HandTiles <= w.index /\ HandTiles \in Nat
      /\ w.count \in Nat /\ w.count < WordSize /\ Border(w) + 1 < WallLen /\ WallLen \in Nat
      /\ HaiteiSlot(WallLen, w.dice) = Border(w) + 1
      /\ w.haitei \in {None, HaiteiSlot(WallLen, w.dice)}
  BY WallNumbersOK DEF WallOK
<1>1. h = Border(w) + 1 /\ h \notin { Slot(k) : k \in 0 .. w.dead - 1 }
  BY <1>0 DEF FindHaitei, ConsumedByDeadWall, Slot
<1>2. h \in Tiles /\ h # None
  BY <1>0, <1>1 DEF Tiles, None
<1>3. /\ v.faces = w.faces /\ v.dice = w.dice /\ v.index = w.index
      /\ v.dead = w.dead /\ v.haitei = h /\ v.count = (w.count - 1) % WordSize
  BY DEF WallOK, WallRec, HaiteiTaken
<1>4. Border(v) = Border(w)
  BY <1>3 DEF Border
<1>5. EndsOK(v)
  BY <1>0, <1>3, <1>4 DEF EndsOK
<1>6. (w.count - 1) % WordSize \in Nat /\ (w.count - 1) % WordSize < WordSize
  BY <1>0, WordFacts
<1>7. v \in WallRec
  <2>1. w \in WallRec /\ h \in Int
    BY <1>0, <1>1 DEF WallOK
  <2> DEFINE c == (w.count - 1) % WordSize
  <2>2. v = [w EXCEPT !.count = c, !.haitei = h] /\ c \in Nat
    BY <1>6, <2>1 DEF WallRec, HaiteiTaken
  <2> HIDE DEF c
  <2> QED
    BY <2>1, <2>2 DEF WallRec
<1>8. Handed(w) = (0 .. w.index - 1)
                          \cup ({ Slot(k) : k \in 0 .. w.dead - 1 } \ {Border(w)})
                          \cup ({w.haitei} \ {None})
  BY HandedFacts
<1>9. Handed(v) = (0 .. w.index - 1)
                          \cup ({ Slot(k) : k \in 0 .. w.dead - 1 } \ {Border(w)})
                          \cup ({h} \ {None})
  <2>1. BackDraws(WallLen, w.dice, 0, w.dead) = { Slot(k) : k \in 0 .. w.dead - 1 } \ {Border(w)}
    BY <1>0, BackDrawsOfWall
  <2> QED
    BY <1>3, <2>1 DEF Handed
<1>10. Handed(v) = Handed(w) \cup {h}
  BY <1>0, <1>1, <1>2, <1>8, <1>9
<1>11. w.haitei = None => h \notin Handed(w) /\ v.count = w.count - 1
  <2> SUFFICES ASSUME w.haitei = None PROVE h \notin Handed(w) /\ v.count = w.count - 1
    OBVIOUS
  <2>1. h \notin Handed(w)
    BY <1>0, <1>1, <1>8
  <2>2. w.count > 0
    <3>1. IsFiniteSet(Handed(w)) /\ Cardinality(Handed(w)) \in Nat
          /\ Handed(w) \subseteq Tiles \ {Border(w)}
      BY HandedFacts
    <3>2. Cardinality(Handed(w) \cup {h}) = Cardinality(Handed(w)) + 1
      BY <2>1, <3>1, FS_AddElement
    <3>3. Cardinality(Handed(w) \cup {h}) <= WallLen - 1
      <4>1. Handed(w) \cup {h} \subseteq Tiles \ {Border(w)}
        BY <1>0, <1>1, <1>2, <3>1
      <4>2. IsFiniteSet(Tiles \ {Border(w)}) /\ Cardinality(Tiles \ {Border(w)}) = WallLen - 1
        <5>1. Border(w) \in Tiles
          BY <1>0 DEF Tiles
        <5> QED
          BY <5>1, TilesFinite, FS_RemoveElement
      <4> QED
        BY <4>1, <4>2, FS_Subset
    <3>4. w.count = WallLen - 1 - Cardinality(Handed(w))
      BY DEF WallOK
    <3> QED
      BY <1>0, <3>1, <3>2, <3>3, <3>4
  <2>3. (w.count - 1) % WordSize = w.count - 1
    BY <1>0, <2>2, WordFacts
  <2> QED
    BY <1>3, <2>1, <2>3
<1>12. WallOK(v)
  BY <1>0, <1>1, <1>2, <1>3, <1>4, <1>5, <1>6, <1>7 DEF WallOK
<1> QED
  BY <1>0, <1>1, <1>2, <1>3, <1>10, <1>11, <1>12

(* The wall of a new hand, once it is dealt.                                *)
DealtWall(faces, d) ==
    [faces |-> faces, dice |-> d, index |-> 4 * HandTiles, dead |-> 0,
     haitei |-> None, count |-> WallLen - 4 * HandTiles - 1]

LEMMA DealtWallFacts ==
    ASSUME NEW faces \in Walls, NEW d \in DiceSums
    PROVE  WallOK(DealtWall(faces, d)) /\ Handed(DealtWall(faces, d)) = 0 .. 4 * HandTiles - 1
<1> DEFINE v == DealtWall(faces, d)
<1>1. /\ WallLen \in Nat /\ HandTiles \in Nat /\ WordSize \in Nat /\ WallLen < WordSize
      /\ 4 * HandTiles + 1 <= WangpaiBoundary(WallLen, d) /\ WangpaiBoundary(WallLen, d) \in Nat
      /\ WangpaiBoundary(WallLen, d) < WallLen
  BY WallNumbers
<1>2. /\ v.faces = faces /\ v.dice = d /\ v.index = 4 * HandTiles /\ v.dead = 0
      /\ v.haitei = None /\ v.count = WallLen - 4 * HandTiles - 1
  BY DEF DealtWall
<1>3. v \in WallRec
  BY <1>1 DEF DealtWall, WallRec, None
<1>4. Border(v) = WangpaiBoundary(WallLen, d)
  BY <1>2 DEF Border
<1> HIDE DEF v
<1>5. EndsOK(v)
  BY <1>1, <1>2, <1>4 DEF EndsOK
<1>6. Handed(v) = 0 .. 4 * HandTiles - 1
  <2>1. BackDraws(WallLen, v.dice, 0, 0) = {}
    BY DEF BackDraws
  <2> QED
    BY <1>2, <2>1 DEF Handed
<1>7. Cardinality(0 .. 4 * HandTiles - 1) = 4 * HandTiles
  <2> DEFINE n == 4 * HandTiles - 1
  <2>1. 0 \in Int /\ n \in Int
    BY <1>1
  <2>2. Cardinality(0 .. n) = IF 0 > n THEN 0 ELSE n - 0 + 1
    BY ONLY <2>1, FS_Interval
  <2> QED
    BY <1>1, <2>2
<1>8. WallOK(v)
  BY <1>1, <1>2, <1>3, <1>5, <1>6, <1>7 DEF WallOK
<1> QED
  BY <1>6, <1>8 DEF v

-----------------------------------------------------------------------------
(* Hands and offers.                                                        *)

Melds == [type : {"chii", "pon", "kan"}, tiles : SUBSET Tiles]
HandRec == [closed : SUBSET Tiles, size : Int, drawn : Tiles \cup {None}, melds : SUBSET Melds,
            discards : Seq(Tiles), flowers : SUBSET Tiles]

(* HandSize may count melded tiles, but no closed tile is missing in it.    *)
HandOK(h) == h \in HandRec /\ Cardinality(h.closed) <= h.size

HandsOK(hs) == hs \in [Seats -> HandRec] /\ \A s \in Seats : HandOK(hs[s])

OfferTypes == {"discard", "tsumo", "kan", "accept", "refuse", "ron", "pon", "chii"}
OfferRec == [type : OfferTypes, tiles : SUBSET Tiles]
OffersOK(va) == va \in [Seats -> SUBSET OfferRec]

(* The offers of a turn: a tile to win or to kong with has been drawn, and  *)
(* a kong is of tiles in the hand.                                          *)
TurnOffers(w, h, haitei, offers) ==
    /\ Offer("discard", {}) \in offers
    /\ offers \subseteq OfferRec
    /\ \A o \in offers : o.type \in {"discard", "tsumo", "kan"}
    /\ \A o \in offers : o.type = "tsumo" => haitei \/ h.drawn # None
    /\ \A o \in offers : o.type = "kan" =>
          /\ ~haitei /\ h.drawn # None
          /\ o \in ClosedKongs(w, h) \cup UpgradedKongs(w, h)

LEMMA NoOffersOK == OffersOK(NoOffers)
BY DEF OffersOK, NoOffers

LEMMA SameFaces ==
    ASSUME NEW w, NEW v, v.faces = w.faces, NEW h
    PROVE  /\ ClosedKongs(w, h) = ClosedKongs(v, h)
           /\ UpgradedKongs(w, h) = UpgradedKongs(v, h)
           /\ \A t, u : SameFace(v, t, u) = SameFace(w, t, u)
           /\ v.dice = w.dice => \A S : Flowers(v, S) = Flowers(w, S)
BY DEF ClosedKongs, UpgradedKongs, SameFace, Alike, Flowers, IsFlowerWild

LEMMA KongsFacts ==
    ASSUME NEW w, NEW h, h \in HandRec, NEW o, o \in ClosedKongs(w, h) \cup UpgradedKongs(w, h)
    PROVE  o.type = "kan" /\ o.tiles \subseteq h.closed /\ o.tiles \in SUBSET Tiles /\ o \in OfferRec
<1>1. h.closed \in SUBSET Tiles
  BY DEF HandRec
<1>2. CASE o \in ClosedKongs(w, h)
  <2>1. PICK t \in h.closed : o = Offer("kan", Alike(w, h.closed, t))
    BY <1>2 DEF ClosedKongs
  <2> QED
    BY <1>1, <2>1 DEF Offer, Alike, OfferRec, OfferTypes
<1>3. CASE o \in UpgradedKongs(w, h)
  <2>1. PICK t \in h.closed : o = Offer("kan", {t})
    BY <1>3 DEF UpgradedKongs
  <2> QED
    BY <1>1, <2>1 DEF Offer, OfferRec, OfferTypes
<1> QED
  BY <1>2, <1>3

LEMMA TurnOffersMade ==
    ASSUME NEW w, NEW h, h \in HandRec, NEW haitei \in BOOLEAN, NEW v, v.faces = w.faces
    PROVE  TurnOffers(v, h, haitei, GetValidActions(w, h, haitei))
<1> DEFINE G == GetValidActions(w, h, haitei)
<1>1. \A o \in G : \/ o = Offer("discard", {})
                   \/ o = Offer("tsumo", {}) /\ (haitei \/ h.drawn # None)
                   \/ /\ o \in ClosedKongs(v, h) \cup UpgradedKongs(v, h)
                      /\ ~haitei /\ h.drawn # None
  BY SameFaces DEF GetValidActions
<1>2. Offer("discard", {}) \in G
  BY DEF GetValidActions
<1> HIDE DEF G
<1>3. \A o \in ClosedKongs(v, h) \cup UpgradedKongs(v, h) : o.type = "kan" /\ o \in OfferRec
  BY KongsFacts
<1>4. /\ Offer("discard", {}).type = "discard" /\ Offer("tsumo", {}).type = "tsumo"
      /\ Offer("discard", {}) \in OfferRec /\ Offer("tsumo", {}) \in OfferRec
  BY DEF Offer, OfferRec, OfferTypes
<1>5. TurnOffers(v, h, haitei, G)
  BY <1>1, <1>2, <1>3, <1>4 DEF TurnOffers
<1> QED
  BY <1>5 DEF G

(* A hand after its replacements.                                           *)
LEMMA RevealFacts ==
    ASSUME NEW w, WallOK(w), NEW h, HandOK(h), NEW r \in Nat, r <= w.count,
           \A q \in 0 .. r - 1 : ~BackEmpty(w, q),
           NEW g, g = Reveal(w, h, r)
    PROVE  /\ HandOK(g) /\ Flowers(w, g.closed) = {}
           /\ LET shown == Flowers(w, h.closed \cup BackTiles(w, r))
              IN  /\ g.closed = (h.closed \cup BackTiles(w, r)) \ shown
                  /\ g.flowers = h.flowers \cup shown
           /\ g.melds = h.melds /\ g.discards = h.discards /\ g.drawn = h.drawn
           /\ g.size = h.size + r - Cardinality(Flowers(w, h.closed \cup BackTiles(w, r)))
<1> DEFINE B == BackTiles(w, r)
           C == h.closed
           F == Flowers(w, C \cup B)
<1>1. /\ B \in SUBSET Tiles /\ IsFiniteSet(B) /\ Cardinality(B) = r
  BY WallNumbersOK, BackTilesFacts
<1>2. /\ C \in SUBSET Tiles /\ h.size \in Int /\ Cardinality(C) <= h.size
      /\ h \in HandRec
  BY DEF HandOK, HandRec
<1>3. F \subseteq C \cup B
  BY DEF Flowers
<1>4. /\ g.closed = (C \cup B) \ F /\ g.flowers = h.flowers \cup F
      /\ g.melds = h.melds /\ g.discards = h.discards /\ g.drawn = h.drawn
      /\ g.size = h.size + r - Cardinality(F)
  BY <1>2 DEF Reveal, HandRec
<1>5. Flowers(w, g.closed) = {}
  BY <1>4 DEF Flowers
<1>6. g = [h EXCEPT !.closed = (C \cup B) \ F, !.size = h.size + r - Cardinality(F),
                    !.flowers = h.flowers \cup F]
  BY <1>2 DEF Reveal, HandRec
<1> HIDE DEF B, C, F
<1>7. /\ IsFiniteSet(C) /\ Cardinality(C) \in Nat /\ IsFiniteSet(F) /\ Cardinality(F) \in Nat
      /\ IsFiniteSet(C \cup B) /\ Cardinality(C \cup B) \in Nat
      /\ F \in SUBSET Tiles /\ C \cup B \in SUBSET Tiles
  <2>1. F \in SUBSET Tiles /\ C \cup B \in SUBSET Tiles
    BY <1>1, <1>2, <1>3
  <2> QED
    BY <1>2, <2>1, TilesSubset
<1>8. Cardinality(C \cup B) <= Cardinality(C) + r
  <2>1. Cardinality(C \cup B) = Cardinality(C) + r - Cardinality(C \cap B)
    BY <1>1, <1>7, FS_Union
  <2>2. C \cap B \in SUBSET Tiles
    BY <1>1
  <2>3. Cardinality(C \cap B) \in Nat
    BY <2>2, TilesSubset
  <2> QED
    BY <1>7, <2>1, <2>3
<1>9. Cardinality((C \cup B) \ F) = Cardinality(C \cup B) - Cardinality(F)
  <2>1. Cardinality((C \cup B) \ F) = Cardinality(C \cup B) - Cardinality((C \cup B) \cap F)
    BY <1>7, FS_Difference
  <2>2. (C \cup B) \cap F = F
    BY <1>3
  <2> QED
    BY <2>1, <2>2
<1>10. g \in HandRec
  <2>1. h.flowers \cup F \in SUBSET Tiles /\ (C \cup B) \ F \in SUBSET Tiles
        /\ h.size + r - Cardinality(F) \in Int
    BY <1>2, <1>7 DEF HandRec
  <2> QED
    BY <1>2, <1>6, <2>1 DEF HandRec
<1>11. Cardinality(g.closed) <= g.size
  BY <1>2, <1>4, <1>7, <1>8, <1>9
<1>12. HandOK(g)
  BY <1>10, <1>11 DEF HandOK
<1> QED
  BY <1>4, <1>5, <1>12 DEF B, C, F

LEMMA LastBackFacts ==
    ASSUME NEW w, WallOK(w), NEW r \in Nat \ {0}, \A q \in 0 .. r - 1 : ~BackEmpty(w, q)
    PROVE  Slot(AfterBackDraws(w, r) - 1) \in BackTiles(w, r)
<1> DEFINE k == AfterBackDraws(w, r) - 1
<1>1. /\ w.dead \in Nat /\ w.dice \in Nat \ {0} /\ IndicatorDraw(w) \in Nat
      /\ Slot(IndicatorDraw(w)) = Border(w) /\ EndsOK(w)
  BY WallNumbersOK
<1>2. k \in w.dead .. AfterBackDraws(w, r) - 1 /\ k # IndicatorDraw(w) /\ k \in Nat
  <2>1. AfterBackDraws(w, r) \in Nat /\ AfterBackDraws(w, r) >= w.dead + r
        /\ AfterBackDraws(w, r) - 1 # IndicatorDraw(w)
    BY <1>1 DEF AfterBackDraws, IndicatorDraw
  <2> QED
    BY <1>1, <2>1
<1>3. BackTiles(w, r) = { Slot(j) : j \in w.dead .. AfterBackDraws(w, r) - 1 } \ {Border(w)}
  BY <1>1, BackDrawsOfWall DEF BackTiles
<1>4. Slot(k) # Border(w)
  BY <1>1, <1>2, SlotFacts
<1> QED
  BY <1>2, <1>3, <1>4

(* The hand with its r replacements.                                        *)
Settled(w, h, r) == [Reveal(w, h, r) EXCEPT !.drawn = LastBackTile(w, r, h.drawn)]

(* What Settle does: the wall and the hand after r replacements; the turn   *)
(* goes on with what may be done, or the hand is drawn.                     *)
Replaced(seat, w, hs, due, r) ==
    /\ r \in Nat /\ r <= w.count /\ \A q \in 0 .. r - 1 : ~BackEmpty(w, q)
    /\ r <= Owed(w, hs[seat], due, r) /\ \A q \in 0 .. r - 1 : q # Owed(w, hs[seat], due, q)
    /\ wall' = WallAfter(w, r) /\ WallOK(wall')
    /\ wall'.faces = w.faces /\ wall'.dice = w.dice
    /\ HandsOK(hands') /\ OffersOK(validActions')
    /\ \A s \in Seats : Flowers(wall', hands'[s].closed) = {}
    /\ \A s \in Seats \ {seat} : hands'[s] = hs[s]
    /\ hands'[seat] = Settled(w, hs[seat], r)
    /\ hands'[seat].drawn = None => r = 0 /\ hs[seat].drawn = None
    /\ \/ /\ PlayOn("PLAYER_TURN") /\ r = Owed(w, hs[seat], due, r) /\ r >= due
          /\ TurnOffers(wall', hands'[seat], isHaitei', validActions'[seat])
       \/ /\ EndRoundInDraw /\ BackEmpty(w, r) /\ r # Owed(w, hs[seat], due, r)

(* Settle on a table in order leaves a table in order.                      *)
LEMMA SettleTable ==
    ASSUME NEW seat \in Seats, NEW w, WallOK(w), NEW hs, HandsOK(hs), NEW va, OffersOK(va),
           NEW due \in Nat, isHaitei' \in BOOLEAN,
           \A s \in Seats \ {seat} : Flowers(w, hs[s].closed) = {},
           Settle(seat, w, hs, va, due)
    PROVE  \E r \in Nat : Replaced(seat, w, hs, due, r)
<1> PICK r : r = Replacements(w, hs[seat], due)
  OBVIOUS
<1> DEFINE h == hs[seat]
           v == WallAfter(w, r)
           g == Reveal(w, h, r)
           hand == Settled(w, h, r)
           offer == GetValidActions(w, hand, isHaitei')
<1>1. HandOK(h) /\ h \in HandRec /\ h.closed \in SUBSET Tiles
  BY DEF HandsOK, HandOK, HandRec
<1>2. /\ r \in 0 .. WallLen
      /\ r = Owed(w, h, due, r) \/ BackEmpty(w, r)
      /\ \A q \in 0 .. r - 1 : ~BackEmpty(w, q)
      /\ \A q \in 0 .. r - 1 : q # Owed(w, h, due, q)
      /\ r <= Owed(w, h, due, r) /\ Owed(w, h, due, r) \in Nat
      /\ r <= w.count
  <2> HIDE DEF h
  <2> QED
    BY <1>1, ReplacementsFacts DEF h
<1>3. r \in Nat
  BY <1>2
<1>4. /\ WallOK(v) /\ v.faces = w.faces /\ v.dice = w.dice
  BY <1>2, <1>3, BackDrawFacts
<1>5. /\ HandOK(g) /\ Flowers(w, g.closed) = {}
  BY <1>1, <1>2, <1>3, RevealFacts
<1>6. /\ wall' = v
      /\ hands' = [hs EXCEPT ![seat] = hand]
      /\ \/ /\ r = Owed(w, h, due, r)
            /\ validActions' = [va EXCEPT ![seat] = offer]
            /\ PlayOn("PLAYER_TURN")
         \/ /\ r # Owed(w, h, due, r)
            /\ \E S \in {offer, {}} : validActions' = [NoOffers EXCEPT ![seat] = S]
            /\ EndRoundInDraw
  BY DEF Settle, Settled
<1>7. LastBackTile(w, r, h.drawn) \in Tiles \cup {None}
      /\ (r # 0 => LastBackTile(w, r, h.drawn) \in Tiles)
      /\ (r = 0 => LastBackTile(w, r, h.drawn) = h.drawn)
  <2>1. CASE r = 0
    BY <1>1, <2>1 DEF LastBackTile, HandRec
  <2>2. CASE r # 0
    <3>1. Slot(AfterBackDraws(w, r) - 1) \in BackTiles(w, r)
      BY <1>2, <1>3, <2>2, LastBackFacts
    <3>2. BackTiles(w, r) \subseteq Tiles
      BY <1>2, <1>3, WallNumbersOK, BackTilesFacts
    <3> QED
      BY <2>2, <3>1, <3>2 DEF LastBackTile, Slot
  <2> QED
    BY <2>1, <2>2
<1>8. /\ hand.closed = g.closed /\ hand.size = g.size
      /\ hand.drawn = LastBackTile(w, r, h.drawn)
      /\ hand \in HandRec
  <2> HIDE DEF h
  <2>1. g \in HandRec
    BY <1>5 DEF HandOK
  <2> QED
    BY <1>7, <2>1 DEF HandRec, Settled, g
<1>9. HandOK(hand)
  <2> HIDE DEF g, hand
  <2> QED
    BY <1>5, <1>8 DEF HandOK
<1> HIDE DEF g, hand, h, v, offer
<1>10. hands'[seat] = hand /\ \A s \in Seats \ {seat} : hands'[s] = hs[s]
  BY <1>6 DEF HandsOK
<1>11. HandsOK(hands')
  BY <1>6, <1>8, <1>9, <1>10 DEF HandsOK
<1>12. \A s \in Seats : Flowers(v, hands'[s].closed) = {}
  <2>1. \A S : Flowers(v, S) = Flowers(w, S)
    BY <1>4, SameFaces
  <2> QED
    BY <1>5, <1>8, <1>10, <2>1
<1>13. TurnOffers(v, hand, isHaitei', offer) /\ offer \in SUBSET OfferRec
  <2>1. TurnOffers(v, hand, isHaitei', offer)
    BY <1>4, <1>8, TurnOffersMade DEF offer
  <2> QED
    BY <2>1 DEF TurnOffers
<1>14. OffersOK(validActions')
  <2>1. \A S \in SUBSET OfferRec : [NoOffers EXCEPT ![seat] = S] \in [Seats -> SUBSET OfferRec]
    BY NoOffersOK DEF OffersOK
  <2>2. [va EXCEPT ![seat] = offer] \in [Seats -> SUBSET OfferRec]
    BY <1>13 DEF OffersOK
  <2> QED
    BY <1>6, <1>13, <2>1, <2>2 DEF OffersOK
<1>15. validActions' = [va EXCEPT ![seat] = offer] => validActions'[seat] = offer
  BY DEF OffersOK
<1>16. hand.drawn = None => r = 0 /\ h.drawn = None
  BY <1>7, <1>8 DEF Tiles, None
<1>17. \/ /\ PlayOn("PLAYER_TURN") /\ r = Owed(w, h, due, r) /\ r >= due
          /\ TurnOffers(v, hand, isHaitei', validActions'[seat])
       \/ /\ EndRoundInDraw /\ BackEmpty(w, r) /\ r # Owed(w, h, due, r)
  <2>1. CASE r = Owed(w, h, due, r)
    <3>1. \E q \in Nat : BackTiles(w, r) \in SUBSET Tiles /\ q = Owed(w, h, due, r)
      BY <1>2, <1>3, WallNumbersOK, BackTilesFacts
    <3>2. Owed(w, h, due, r) >= due
      BY <1>1, <3>1, OwedIsInt
    <3> QED
      BY <1>6, <1>13, <1>15, <2>1, <3>2
  <2>2. CASE r # Owed(w, h, due, r)
    BY <1>2, <1>6, <2>2
  <2> QED
    BY <2>1, <2>2
<1>18. hands'[seat] = Settled(w, hs[seat], r)
  BY <1>10 DEF hand, h
<1> QED
  <2>1. Replaced(seat, w, hs, due, r)
    BY <1>2, <1>3, <1>4, <1>6, <1>10, <1>11, <1>12, <1>14, <1>16, <1>17, <1>18 DEF h, v, Replaced
  <2> QED
    BY <1>3, <2>1

-----------------------------------------------------------------------------
(* The offers of the turn fit the hand, or the haitei tile waits to be      *)
(* accepted or refused.                                                     *)
TurnFits(seat) ==
    \/ /\ TurnOffers(wall, hands[seat], isHaitei, validActions[seat])
       /\ isHaitei => hands[seat].drawn # None
    \/ /\ validActions[seat] = HaiteiOffers /\ isHaitei
       /\ wall.index = Border(wall) /\ FindHaitei(WallLen, wall.dice, wall.dead) # -1

LEMMA HaiteiOffersOK == HaiteiOffers \in SUBSET OfferRec
BY DEF HaiteiOffers, Offer, OfferRec, OfferTypes

(* A hand that takes one more tile.                                         *)
Takes(h, i) == [h EXCEPT !.closed = @ \cup {i}, !.size = @ + 1, !.drawn = i]

LEMMA TakeFacts ==
    ASSUME NEW h, HandOK(h), NEW i \in Tiles, NEW g, g = Takes(h, i)
    PROVE  /\ HandOK(g) /\ g.closed = h.closed \cup {i} /\ g.drawn = i /\ g.size = h.size + 1
           /\ g.melds = h.melds /\ g.discards = h.discards /\ g.flowers = h.flowers
<1>1. /\ h \in HandRec /\ h.closed \in SUBSET Tiles /\ h.size \in Int
      /\ Cardinality(h.closed) <= h.size
  BY DEF HandOK, HandRec
<1>2. /\ g.closed = h.closed \cup {i} /\ g.drawn = i /\ g.size = h.size + 1
      /\ g.melds = h.melds /\ g.discards = h.discards /\ g.flowers = h.flowers
  BY <1>1 DEF HandRec, Takes
<1>3. g \in HandRec
  <2>1. h.closed \cup {i} \in SUBSET Tiles /\ h.size + 1 \in Int /\ i \in Tiles \cup {None}
    BY <1>1
  <2>2. g = [h EXCEPT !.closed = h.closed \cup {i}, !.size = h.size + 1, !.drawn = i]
    BY <1>1 DEF HandRec, Takes
  <2> QED
    BY <1>1, <2>1, <2>2 DEF HandRec
<1>4. Cardinality(h.closed \cup {i}) <= Cardinality(h.closed) + 1
      /\ Cardinality(h.closed) \in Nat /\ Cardinality(h.closed \cup {i}) \in Nat
  <2>1. IsFiniteSet(h.closed) /\ Cardinality(h.closed) \in Nat
    BY <1>1, TilesSubset
  <2>2. h.closed \cup {i} \in SUBSET Tiles
    BY <1>1
  <2>3. Cardinality(h.closed \cup {i})
          = IF i \in h.closed THEN Cardinality(h.closed) ELSE Cardinality(h.closed) + 1
    BY <2>1, FS_AddElement
  <2> QED
    BY <2>1, <2>2, <2>3, TilesSubset
<1> QED
  BY <1>1, <1>2, <1>3, <1>4 DEF HandOK

(* A draw takes a tile from the front, which is replaced when it is a       *)
(* flower, or finds the live wall exhausted.                                *)
FrontDrawn(seat, w, hs, g, r) ==
    /\ NextFront(w) < Border(w) /\ isHaitei' = isHaitei
    /\ HandsOK(g) /\ g[seat] = Takes(hs[seat], NextFront(w))
    /\ \A s \in Seats \ {seat} : g[s] = hs[s]
    /\ Replaced(seat, Taken(w, NextFront(w)), g, 0, r)
WallExhausted(seat, w, hs) ==
    /\ NextFront(w) = Border(w)
    /\ wall' = [w EXCEPT !.index = Border(w)] /\ hands' = hs /\ OffersOK(validActions')
    /\ IF FindHaitei(WallLen, w.dice, w.dead) # -1
       THEN isHaitei' = TRUE /\ validActions'[seat] = HaiteiOffers /\ PlayOn("PLAYER_TURN")
       ELSE isHaitei' = isHaitei /\ validActions' = NoOffers /\ EndRoundInDraw

LEMMA SystemDrawGoes ==
    ASSUME NEW seat \in Seats, NEW w, WallOK(w), NEW hs, HandsOK(hs), NEW va, OffersOK(va),
           isHaitei \in BOOLEAN, \A s \in Seats : Flowers(w, hs[s].closed) = {},
           ExecuteSystemDraw(seat, w, hs, va)
    PROVE  \/ \E g : \E r \in Nat : FrontDrawn(seat, w, hs, g, r)
           \/ WallExhausted(seat, w, hs)
<1> DEFINE i == NextFront(w)
           taken == Taken(w, i)
           drawer == Takes(hs[seat], i)
           hd == [hs EXCEPT ![seat] = drawer]
<1>0. i = NextFront(w) /\ ExecuteSystemDraw(seat, w, hs, va)
  OBVIOUS
<1> HIDE DEF i
<1>1. /\ Border(w) = WangpaiBoundary(WallLen, w.dice) /\ Border(w) \in Nat
      /\ i \in w.index .. Border(w) /\ i \in Tiles
      /\ w.index \in Nat
  BY <1>0, FrontDrawFacts, WallNumbersOK DEF Border
<1>2. CASE i < Border(w)
  <2>1. WallOK(taken) /\ taken.faces = w.faces /\ taken.dice = w.dice
    BY <1>0, <1>2, FrontDrawFacts
  <2>2. HandOK(hs[seat])
    BY DEF HandsOK
  <2>3. HandOK(drawer) /\ drawer \in HandRec /\ drawer.drawn = i
    BY <1>1, <2>2, TakeFacts DEF HandOK
  <2>10. taken = Taken(w, NextFront(w)) /\ drawer = Takes(hs[seat], NextFront(w))
    BY <1>0
  <2> HIDE DEF drawer, taken
  <2>4. HandsOK(hd) /\ hd[seat] = drawer /\ \A s \in Seats \ {seat} : hd[s] = hs[s]
    BY <2>3 DEF HandsOK
  <2>5. isHaitei' = isHaitei /\ Settle(seat, taken, hd, va, 0)
    BY <1>0, <1>1, <1>2 DEF ExecuteSystemDraw, drawer, taken, Taken, Takes
  <2>6. \A s \in Seats \ {seat} : Flowers(taken, hd[s].closed) = {}
    BY <2>1, <2>4, SameFaces
  <2> HIDE DEF hd
  <2>7. PICK r \in Nat : Replaced(seat, taken, hd, 0, r)
    BY <2>1, <2>4, <2>5, <2>6, SettleTable
  <2>8. FrontDrawn(seat, w, hs, hd, r)
    BY <1>0, <1>2, <2>4, <2>5, <2>7, <2>10 DEF FrontDrawn
  <2> QED
    BY <2>8
<1>3. CASE i = Border(w)
  <2>1. /\ wall' = [w EXCEPT !.index = Border(w)] /\ hands' = hs
        /\ IF FindHaitei(WallLen, w.dice, w.dead) # -1
           THEN /\ isHaitei' = TRUE
                /\ validActions' = [va EXCEPT ![seat] = HaiteiOffers]
                /\ PlayOn("PLAYER_TURN")
           ELSE /\ isHaitei' = isHaitei
                /\ validActions' = NoOffers
                /\ EndRoundInDraw
    BY <1>0, <1>1, <1>3 DEF ExecuteSystemDraw
  <2>2. OffersOK([va EXCEPT ![seat] = HaiteiOffers])
        /\ [va EXCEPT ![seat] = HaiteiOffers][seat] = HaiteiOffers
    BY HaiteiOffersOK DEF OffersOK
  <2>3. WallExhausted(seat, w, hs)
    BY <1>0, <1>3, <2>1, <2>2, NoOffersOK DEF WallExhausted
  <2> QED
    BY <2>3
<1> QED
  BY <1>1, <1>2, <1>3

LEMMA SystemDrawTable ==
    ASSUME NEW seat \in Seats, NEW w, WallOK(w), NEW hs, HandsOK(hs), NEW va, OffersOK(va),
           isHaitei \in BOOLEAN, \A s \in Seats : Flowers(w, hs[s].closed) = {},
           ExecuteSystemDraw(seat, w, hs, va)
    PROVE  /\ WallOK(wall') /\ wall'.faces = w.faces /\ wall'.dice = w.dice
           /\ HandsOK(hands') /\ OffersOK(validActions') /\ isHaitei' \in BOOLEAN
           /\ \A s \in Seats : Flowers(wall', hands'[s].closed) = {}
           /\ \A s \in Seats \ {seat} : hands'[s] = hs[s]
           /\ \/ EndRoundInDraw
              \/ PlayOn("PLAYER_TURN") /\ TurnFits(seat)'
<1> PICK i : i = NextFront(w)
  OBVIOUS
<1>1. i \in Tiles
  BY FrontDrawFacts
<1>2. ASSUME NEW g, NEW r \in Nat, FrontDrawn(seat, w, hs, g, r)
      PROVE  /\ WallOK(wall') /\ wall'.faces = w.faces /\ wall'.dice = w.dice
             /\ HandsOK(hands') /\ OffersOK(validActions') /\ isHaitei' \in BOOLEAN
             /\ \A s \in Seats : Flowers(wall', hands'[s].closed) = {}
             /\ \A s \in Seats \ {seat} : hands'[s] = hs[s]
             /\ \/ EndRoundInDraw
                \/ PlayOn("PLAYER_TURN") /\ TurnFits(seat)'
  <2> PICK taken : taken = Taken(w, i)
    OBVIOUS
  <2>1. /\ i < Border(w) /\ isHaitei' = isHaitei /\ HandsOK(g) /\ g[seat] = Takes(hs[seat], i)
        /\ \A s \in Seats \ {seat} : g[s] = hs[s]
        /\ Replaced(seat, taken, g, 0, r)
    BY <1>2 DEF FrontDrawn
  <2>2. taken.faces = w.faces /\ taken.dice = w.dice
    BY <2>1, FrontDrawFacts
  <2>3. HandOK(hs[seat])
    BY DEF HandsOK
  <2>4. g[seat].drawn = i
    BY <1>1, <2>1, <2>3, TakeFacts
  <2>5. /\ WallOK(wall') /\ wall'.faces = taken.faces /\ wall'.dice = taken.dice
        /\ HandsOK(hands') /\ OffersOK(validActions')
        /\ \A s \in Seats : Flowers(wall', hands'[s].closed) = {}
        /\ \A s \in Seats \ {seat} : hands'[s] = g[s]
        /\ hands'[seat].drawn = None => g[seat].drawn = None
        /\ \/ PlayOn("PLAYER_TURN") /\ TurnOffers(wall', hands'[seat], isHaitei', validActions'[seat])
           \/ EndRoundInDraw
    BY <2>1 DEF Replaced
  <2>6. hands'[seat].drawn # None
    BY <1>1, <2>4, <2>5 DEF Tiles, None
  <2> QED
    BY <2>1, <2>2, <2>5, <2>6 DEF TurnFits
<1>3. CASE WallExhausted(seat, w, hs)
  <2> DEFINE v == [w EXCEPT !.index = Border(w)]
  <2>1. /\ WallOK(v) /\ v.faces = w.faces /\ v.dice = w.dice /\ v.dead = w.dead
        /\ v.index = Border(w)
    BY <1>3, ExhaustedFacts DEF WallExhausted
  <2>2. /\ wall' = v /\ hands' = hs /\ OffersOK(validActions')
        /\ IF FindHaitei(WallLen, w.dice, w.dead) # -1
           THEN isHaitei' = TRUE /\ validActions'[seat] = HaiteiOffers /\ PlayOn("PLAYER_TURN")
           ELSE isHaitei' = isHaitei /\ validActions' = NoOffers /\ EndRoundInDraw
    BY <1>3 DEF WallExhausted
  <2> HIDE DEF v
  <2>3. Border(v) = Border(w)
    BY <2>1 DEF Border
  <2>4. \A s \in Seats : Flowers(v, hs[s].closed) = {}
    BY <2>1, SameFaces
  <2>5. CASE FindHaitei(WallLen, w.dice, w.dead) # -1
    BY <2>1, <2>2, <2>3, <2>4, <2>5 DEF TurnFits
  <2>6. CASE ~(FindHaitei(WallLen, w.dice, w.dead) # -1)
    BY <2>1, <2>2, <2>4, <2>6
  <2> QED
    BY <2>5, <2>6
<1> QED
  BY <1>2, <1>3, SystemDrawGoes

-----------------------------------------------------------------------------
(* The deal.                                                                *)

(* A seat's three blocks, beginning at a, b and c, and its single tile.     *)
DealtBlock(s, k) == (4 * k + s) * DealBlock .. (4 * k + s + 1) * DealBlock - 1
Blocks(a, b, c, e) ==
    (a .. a + DealBlock - 1) \cup (b .. b + DealBlock - 1) \cup (c .. c + DealBlock - 1) \cup {e}

LEMMA DealtIs ==
    LET D == DealBlock IN
    /\ DealtTo(0) = Blocks(0, 4 * D, 8 * D, 12 * D)
    /\ DealtTo(1) = Blocks(D, 5 * D, 9 * D, 12 * D + 1)
    /\ DealtTo(2) = Blocks(2 * D, 6 * D, 10 * D, 12 * D + 2)
    /\ DealtTo(3) = Blocks(3 * D, 7 * D, 11 * D, 12 * D + 3)
<1>1. ASSUME NEW s
      PROVE  DealtTo(s) = DealtBlock(s, 0) \cup DealtBlock(s, 1) \cup DealtBlock(s, 2)
                              \cup {12 * DealBlock + s}
  <2>1. \A x : x \in DealtTo(s) <=> \/ \E k \in 0 .. 2 : x \in DealtBlock(s, k)
                                    \/ x = 12 * DealBlock + s
    <3>1. DealtTo(s) = (UNION { DealtBlock(s, k) : k \in 0 .. 2 }) \cup {12 * DealBlock + s}
      BY Zenon DEF DealtTo, DealtBlock
    <3>2. \A U, y, x : x \in U \cup {y} <=> x \in U \/ x = y
      OBVIOUS
    <3>3. \A x : x \in DealtTo(s) <=> \/ x \in UNION { DealtBlock(s, k) : k \in 0 .. 2 }
                                       \/ x = 12 * DealBlock + s
      BY <3>1, <3>2, Zenon
    <3>4. \A x : x \in UNION { DealtBlock(s, k) : k \in 0 .. 2 }
                <=> \E k \in 0 .. 2 : x \in DealtBlock(s, k)
      OBVIOUS
    <3> QED
      BY <3>3, <3>4, Zenon
  <2>2. 0 .. 2 = {0, 1, 2}
    OBVIOUS
  <2>3. \A x : x \in DealtTo(s) <=> x \in DealtBlock(s, 0) \cup DealtBlock(s, 1)
                                           \cup DealtBlock(s, 2) \cup {12 * DealBlock + s}
    BY <2>1, <2>2
  <2> QED
    BY <2>3
<1>2. DealBlock \in Nat
  BY GameAssumption DEF GameAssumption
<1>3. ASSUME NEW s \in 0 .. 3, NEW a, NEW b, NEW c, NEW e,
             a = s * DealBlock, b = (4 + s) * DealBlock, c = (8 + s) * DealBlock,
             e = 12 * DealBlock + s
      PROVE  DealtTo(s) = Blocks(a, b, c, e)
  <2>1. /\ DealtBlock(s, 0) = a .. a + DealBlock - 1
        /\ DealtBlock(s, 1) = b .. b + DealBlock - 1
        /\ DealtBlock(s, 2) = c .. c + DealBlock - 1
    BY <1>2, <1>3 DEF DealtBlock
  <2> QED
    BY <1>1, <1>3, <2>1, Zenon DEF Blocks
<1>4. /\ 0 * DealBlock = 0 /\ 1 * DealBlock = DealBlock
      /\ (4 + 0) * DealBlock = 4 * DealBlock /\ (4 + 1) * DealBlock = 5 * DealBlock
      /\ (4 + 2) * DealBlock = 6 * DealBlock /\ (4 + 3) * DealBlock = 7 * DealBlock
      /\ (8 + 0) * DealBlock = 8 * DealBlock /\ (8 + 1) * DealBlock = 9 * DealBlock
      /\ (8 + 2) * DealBlock = 10 * DealBlock /\ (8 + 3) * DealBlock = 11 * DealBlock
      /\ 12 * DealBlock + 0 = 12 * DealBlock
      /\ 0 \in 0 .. 3 /\ 1 \in 0 .. 3 /\ 2 \in 0 .. 3 /\ 3 \in 0 .. 3
  BY <1>2
<1>5. DealtTo(0) = Blocks(0, 4 * DealBlock, 8 * DealBlock, 12 * DealBlock)
  BY <1>3, <1>4
<1>6. DealtTo(1) = Blocks(DealBlock, 5 * DealBlock, 9 * DealBlock, 12 * DealBlock + 1)
  BY <1>3, <1>4
<1>7. DealtTo(2) = Blocks(2 * DealBlock, 6 * DealBlock, 10 * DealBlock, 12 * DealBlock + 2)
  BY <1>3, <1>4
<1>8. DealtTo(3) = Blocks(3 * DealBlock, 7 * DealBlock, 11 * DealBlock, 12 * DealBlock + 3)
  BY <1>3, <1>4
<1> QED
  BY <1>5, <1>6, <1>7, <1>8

LEMMA BlocksCount ==
    ASSUME NEW a \in Nat, NEW b \in Nat, NEW c \in Nat, NEW e \in Nat,
           b >= a + DealBlock, c >= b + DealBlock, e >= c + DealBlock
    PROVE  Cardinality(Blocks(a, b, c, e)) = HandTiles
<1> DEFINE D == DealBlock
<1>0. D \in Nat \ {0} /\ HandTiles = 3 * D + 1
  BY GameAssumption DEF GameAssumption, HandTiles
<1>1. ASSUME NEW x \in Nat
      PROVE  IsFiniteSet(x .. x + D - 1) /\ Cardinality(x .. x + D - 1) = D
  <2> DEFINE y == x + D - 1
  <2>1. x \in Int /\ y \in Int
    BY <1>0
  <2>2. IsFiniteSet(x .. y) /\ Cardinality(x .. y) = IF x > y THEN 0 ELSE y - x + 1
    BY ONLY <2>1, FS_Interval
  <2> QED
    BY <1>0, <2>2
<1> DEFINE A == a .. a + D - 1
           B == b .. b + D - 1
           C == c .. c + D - 1
<1>2. A \cap B = {} /\ (A \cup B) \cap C = {} /\ e \notin A \cup B \cup C
  BY <1>0
<1>3. /\ IsFiniteSet(A) /\ Cardinality(A) = D /\ IsFiniteSet(B) /\ Cardinality(B) = D
      /\ IsFiniteSet(C) /\ Cardinality(C) = D
  BY <1>1
<1>7. Blocks(a, b, c, e) = A \cup B \cup C \cup {e}
  BY DEF Blocks
<1> HIDE DEF A, B, C
<1>4. IsFiniteSet(A \cup B) /\ Cardinality(A \cup B) = D + D
  BY <1>0, <1>2, <1>3, FS_Union, FS_EmptySet
<1>5. IsFiniteSet(A \cup B \cup C) /\ Cardinality(A \cup B \cup C) = D + D + D
  BY <1>0, <1>2, <1>3, <1>4, FS_Union, FS_EmptySet
<1>6. Cardinality((A \cup B \cup C) \cup {e}) = D + D + D + 1
  BY <1>0, <1>2, <1>5, FS_AddElement
<1> QED
  BY <1>0, <1>6, <1>7

LEMMA DealtFacts ==
    /\ \A s \in Seats : /\ DealtTo(s) \subseteq 0 .. 4 * HandTiles - 1
                        /\ DealtTo(s) \subseteq Tiles
                        /\ Cardinality(DealtTo(s)) = HandTiles
    /\ \A s, q \in Seats : s # q => DealtTo(s) \cap DealtTo(q) = {}
    /\ UNION { DealtTo(s) : s \in Seats } = 0 .. 4 * HandTiles - 1
<1> DEFINE D == DealBlock
<1>1. /\ D \in Nat \ {0} /\ HandTiles = 3 * D + 1
  BY GameAssumption DEF GameAssumption, HandTiles
<1>2. Seats = {0, 1, 2, 3}
  BY DEF Seats
<1>3. 4 * HandTiles - 1 = 12 * D + 3
  BY <1>1
<1>4. 12 * D + 3 <= WallLen - 1 /\ WallLen \in Nat
  <2>1. PICK d \in DiceSums : TRUE
    BY GameAssumption DEF GameAssumption
  <2> QED
    BY <1>1, <2>1, WallNumbers
<1>5. /\ DealtTo(0) = Blocks(0, 4 * D, 8 * D, 12 * D)
      /\ DealtTo(1) = Blocks(D, 5 * D, 9 * D, 12 * D + 1)
      /\ DealtTo(2) = Blocks(2 * D, 6 * D, 10 * D, 12 * D + 2)
      /\ DealtTo(3) = Blocks(3 * D, 7 * D, 11 * D, 12 * D + 3)
  BY DealtIs
<1>6. \A s \in Seats : DealtTo(s) \subseteq 0 .. 12 * D + 3
  BY <1>1, <1>2, <1>5 DEF Blocks
<1>7. \A s \in Seats : Cardinality(DealtTo(s)) = HandTiles
  <2>1. Cardinality(Blocks(0, 4 * D, 8 * D, 12 * D)) = HandTiles
    BY <1>1, BlocksCount
  <2>2. Cardinality(Blocks(D, 5 * D, 9 * D, 12 * D + 1)) = HandTiles
    BY <1>1, BlocksCount
  <2>3. Cardinality(Blocks(2 * D, 6 * D, 10 * D, 12 * D + 2)) = HandTiles
    BY <1>1, BlocksCount
  <2>4. Cardinality(Blocks(3 * D, 7 * D, 11 * D, 12 * D + 3)) = HandTiles
    BY <1>1, BlocksCount
  <2> QED
    BY <1>2, <1>5, <2>1, <2>2, <2>3, <2>4
<1>8. /\ DealtTo(0) \cap DealtTo(1) = {} /\ DealtTo(0) \cap DealtTo(2) = {}
      /\ DealtTo(0) \cap DealtTo(3) = {} /\ DealtTo(1) \cap DealtTo(2) = {}
      /\ DealtTo(1) \cap DealtTo(3) = {} /\ DealtTo(2) \cap DealtTo(3) = {}
  BY <1>1, <1>5 DEF Blocks
<1>9. 0 .. 12 * D + 3 \subseteq DealtTo(0) \cup DealtTo(1) \cup DealtTo(2) \cup DealtTo(3)
  BY <1>1, <1>5 DEF Blocks
<1>10. UNION { DealtTo(s) : s \in Seats } = 0 .. 12 * D + 3
  BY <1>2, <1>6, <1>9
<1>11. 0 .. 12 * D + 3 \subseteq Tiles
  BY <1>1, <1>4 DEF Tiles
<1>12. \A s, q \in Seats : s # q => DealtTo(s) \cap DealtTo(q) = {}
  BY <1>2, <1>8
<1> QED
  BY <1>3, <1>6, <1>7, <1>10, <1>11, <1>12

(* The table while the dealt flowers are revealed: nothing but hands and    *)
(* flowers lies on it, each tile handed out once; `Made` replacements have  *)
(* been drawn, at most one for each flower on the table; the seats of       *)
(* `done` have no flower left.                                              *)
Shown(hs) == UNION { hs[s].flowers : s \in Seats }
Owned(h) == h.closed \cup h.flowers
Made(w) == WallLen - 4 * HandTiles - 1 - w.count

DealOK(w, hs, done) ==
    /\ WallOK(w) /\ w.index = 4 * HandTiles /\ w.haitei = None
    /\ HandsOK(hs)
    /\ \A s \in Seats : /\ hs[s].melds = {} /\ hs[s].discards = << >>
                        /\ Cardinality(hs[s].closed) = HandTiles
                        /\ hs[s].closed \cap hs[s].flowers = {}
    /\ \A s \in done : Flowers(w, hs[s].closed) = {}
    /\ \A s \in Seats \ done : hs[s].flowers = {}
    /\ \A s, q \in Seats : s # q => Owned(hs[s]) \cap Owned(hs[q]) = {}
    /\ UNION { Owned(hs[s]) : s \in Seats } = Handed(w)
    /\ Shown(hs) \subseteq Flowers(w, Tiles)
    /\ Made(w) \in Nat /\ Made(w) <= Cardinality(Shown(hs))
    /\ w.dead = IF Made(w) > IndicatorDraw(w) THEN Made(w) + 1 ELSE Made(w)

LEMMA FewFlowers ==
    ASSUME NEW w, WallOK(w)
    PROVE  /\ Cardinality(Flowers(w, Tiles)) \in Nat /\ IsFiniteSet(Flowers(w, Tiles))
           /\ 4 * HandTiles + 3 + Cardinality(Flowers(w, Tiles)) <= WallLen
<1> DEFINE v == [faces |-> w.faces, dice |-> w.dice]
<1>1. w.faces \in Walls /\ w.dice \in DiceSums
  BY DEF WallOK, WallRec
<1>2. 4 * HandTiles + 3 + Cardinality(Flowers(v, 0 .. WallLen - 1)) <= WallLen
  BY <1>1, FlowersAssumption
<1>3. v.faces = w.faces /\ v.dice = w.dice
  OBVIOUS
<1> HIDE DEF v
<1>4. Flowers(v, 0 .. WallLen - 1) = Flowers(w, Tiles)
  BY <1>3, SameFaces DEF Tiles
<1>5. Flowers(w, Tiles) \in SUBSET Tiles
  BY DEF Flowers
<1> QED
  BY <1>2, <1>4, <1>5, TilesSubset

(* With few flowers revealed, tiles are left at both ends.                  *)
LEMMA NotEmpty ==
    ASSUME NEW w, EndsOK(w), NEW n \in Nat, w.index <= 4 * HandTiles + 1,
           w.index + n + 2 <= WallLen, NEW r \in Nat, AfterBackDraws(w, r) <= n, w.count # r
    PROVE  ~BackEmpty(w, r)
<1>1. w.dead \in Nat /\ w.dice \in Nat \ {0} /\ w.index \in Nat /\ WallLen \in Nat
  BY EndsNumbers, WallNumbers
<1>2. AfterBackDraws(w, r) \in Nat
  BY <1>1, AfterFacts
<1>3. Slot(AfterBackDraws(w, r)) \in Int
      /\ Slot(AfterBackDraws(w, r)) >= WallLen - 2 - AfterBackDraws(w, r)
  BY <1>2, SlotFacts
<1> QED
  BY <1>1, <1>2, <1>3 DEF BackEmpty, Slot

LEMMA DisjointUnion ==
    ASSUME NEW A, NEW B, IsFiniteSet(A), IsFiniteSet(B), A \cap B = {}
    PROVE  /\ IsFiniteSet(A \cup B) /\ Cardinality(A) \in Nat /\ Cardinality(B) \in Nat
           /\ Cardinality(A \cup B) = Cardinality(A) + Cardinality(B)
<1>1. /\ IsFiniteSet(A \cup B)
      /\ Cardinality(A \cup B) = Cardinality(A) + Cardinality(B) - Cardinality(A \cap B)
  BY FS_Union
<1>2. Cardinality(A \cap B) = 0
  BY FS_EmptySet
<1>3. Cardinality(A) \in Nat /\ Cardinality(B) \in Nat
  BY FS_CardinalityType
<1> QED
  BY <1>1, <1>2, <1>3

LEMMA FlowersUnion ==
    ASSUME NEW w, NEW A \in SUBSET Tiles, NEW B \in SUBSET Tiles, A \cap B = {}
    PROVE  Cardinality(Flowers(w, A \cup B)) = Cardinality(Flowers(w, A)) + Cardinality(Flowers(w, B))
<1>1. /\ Flowers(w, A \cup B) = Flowers(w, A) \cup Flowers(w, B)
      /\ Flowers(w, A) \cap Flowers(w, B) = {}
      /\ Flowers(w, A) \in SUBSET Tiles /\ Flowers(w, B) \in SUBSET Tiles
  BY DEF Flowers
<1>2. /\ IsFiniteSet(Flowers(w, A)) /\ Cardinality(Flowers(w, A)) \in Nat
      /\ IsFiniteSet(Flowers(w, B)) /\ Cardinality(Flowers(w, B)) \in Nat
  BY <1>1, TilesSubset
<1> QED
  BY <1>1, <1>2, DisjointUnion

LEMMA RevealSeatOK ==
    ASSUME NEW w, NEW hs, NEW done \in SUBSET Seats, DealOK(w, hs, done), NEW s \in Seats \ done,
           NEW r, r = Replacements(w, hs[s], 0), NEW g, g = Reveal(w, hs[s], r),
           NEW hn, hn \in [Seats -> HandRec], hn[s] = g,
           \A q \in Seats \ {s} : hn[q] = hs[q]
    PROVE  /\ DealOK(WallAfter(w, r), hn, done \cup {s})
           /\ WallAfter(w, r).faces = w.faces /\ WallAfter(w, r).dice = w.dice
<1> PICK h : h = hs[s]
  OBVIOUS
<1> DEFINE v == WallAfter(w, r)
           B == BackTiles(w, r)
           C == h.closed
           F == Flowers(w, C \cup B)
<1>1. /\ WallOK(w) /\ w.index = 4 * HandTiles /\ w.haitei = None
      /\ HandOK(h) /\ C \in SUBSET Tiles /\ h.flowers = {} /\ Cardinality(C) = HandTiles
      /\ h.melds = {} /\ h.discards = << >>
  BY DEF DealOK, HandsOK, HandOK, HandRec
<1>2. /\ EndsOK(w) /\ w.count \in Nat /\ w.dead \in Nat /\ w.dice \in Nat \ {0}
      /\ WallLen \in Nat /\ HandTiles \in Nat /\ IndicatorDraw(w) \in Nat
  BY <1>1, WallNumbersOK
<1>3. /\ r \in 0 .. WallLen /\ r \in Nat
      /\ r = Owed(w, h, 0, r) \/ BackEmpty(w, r)
      /\ \A q \in 0 .. r - 1 : ~BackEmpty(w, q)
      /\ r <= Owed(w, h, 0, r) /\ Owed(w, h, 0, r) \in Nat
      /\ r <= w.count
  <2>1. r = Replacements(w, h, 0) /\ 0 \in Nat /\ WallOK(w) /\ h.closed \in SUBSET Tiles
    BY <1>1
  <2> QED
    BY ONLY <2>1, ReplacementsFacts, WallNumbers
<1>4. /\ WallOK(v) /\ v.faces = w.faces /\ v.dice = w.dice /\ v.index = w.index
      /\ v.haitei = None /\ v.count = w.count - r /\ v.dead = AfterBackDraws(w, r)
      /\ Handed(v) = Handed(w) \cup B
      /\ B \cap Handed(w) = {}
  BY <1>1, <1>3, BackDrawFacts
<1>5. /\ B \in SUBSET Tiles /\ IsFiniteSet(B) /\ Cardinality(B) = r
  BY <1>2, <1>3, BackTilesFacts
<1>6. /\ HandOK(g) /\ Flowers(w, g.closed) = {}
      /\ g.closed = (C \cup B) \ F /\ g.flowers = h.flowers \cup F
      /\ g.melds = h.melds /\ g.discards = h.discards
  <2>1. g = Reveal(w, h, r) /\ WallOK(w) /\ HandOK(h) /\ r \in Nat /\ r <= w.count
        /\ \A q \in 0 .. r - 1 : ~BackEmpty(w, q)
    BY <1>1, <1>3
  <2> QED
    BY ONLY <2>1, RevealFacts
<1>7. C \cap B = {} /\ C \subseteq Handed(w)
  <2>1. UNION { Owned(hs[q]) : q \in Seats } = Handed(w)
    BY DEF DealOK
  <2>2. C \subseteq Owned(hs[s])
    BY DEF Owned
  <2>3. C \subseteq Handed(w)
    BY <2>1, <2>2
  <2> QED
    BY <1>4, <2>3
<1>8. Cardinality(F) = Owed(w, h, 0, r)
  <2>1. Cardinality(F) = Cardinality(Flowers(w, C)) + Cardinality(Flowers(w, B))
    BY <1>1, <1>5, <1>7, FlowersUnion
  <2>2. Cardinality(Flowers(w, C)) \in Nat /\ Cardinality(Flowers(w, B)) \in Nat
    <3>1. Flowers(w, C) \in SUBSET Tiles /\ Flowers(w, B) \in SUBSET Tiles
      BY <1>1, <1>5 DEF Flowers
    <3> QED
      BY <3>1, TilesSubset
  <2> QED
    BY <2>1, <2>2 DEF Owed
<1>9. F \subseteq C \cup B /\ F \subseteq Flowers(w, Tiles) /\ F \in SUBSET Tiles
  BY <1>1, <1>5 DEF Flowers
<1> HIDE DEF F, B, v
<1>10. Owned(g) = C \cup B
  BY <1>1, <1>6, <1>9 DEF Owned
<1>11. \A q \in Seats \ {s} : Owned(hs[q]) \cap (C \cup B) = {}
  <2> SUFFICES ASSUME NEW q \in Seats \ {s} PROVE Owned(hs[q]) \cap (C \cup B) = {}
    OBVIOUS
  <2>1. Owned(hs[q]) \cap Owned(hs[s]) = {} /\ Owned(hs[q]) \subseteq Handed(w)
    BY DEF DealOK
  <2>2. C \subseteq Owned(hs[s])
    BY DEF Owned
  <2> QED
    BY <1>4, <2>1, <2>2
<1>12. \A p, q \in Seats : p # q => Owned(hn[p]) \cap Owned(hn[q]) = {}
  <2> SUFFICES ASSUME NEW p \in Seats, NEW q \in Seats, p # q
               PROVE  Owned(hn[p]) \cap Owned(hn[q]) = {}
    OBVIOUS
  <2>1. \A x, y \in Seats : x # y => Owned(hs[x]) \cap Owned(hs[y]) = {}
    BY DEF DealOK
  <2>2. CASE p = s
    <3>1. hn[q] = hs[q] /\ hn[p] = g
      BY <2>2
    <3> QED
      BY <1>10, <1>11, <2>2, <3>1
  <2>3. CASE q = s
    <3>1. hn[p] = hs[p] /\ hn[q] = g
      BY <2>3
    <3> QED
      BY <1>10, <1>11, <2>3, <3>1
  <2>4. CASE p # s /\ q # s
    <3>1. hn[p] = hs[p] /\ hn[q] = hs[q]
      BY <2>4
    <3> QED
      BY <2>1, <3>1
  <2> QED
    BY <2>2, <2>3, <2>4
<1>13. UNION { Owned(hn[q]) : q \in Seats } = Handed(v)
  <2>1. UNION { Owned(hs[q]) : q \in Seats } = Handed(w)
    BY DEF DealOK
  <2>2. Owned(hs[s]) = C
    BY <1>1 DEF Owned
  <2>3. \A q \in Seats : Owned(hn[q]) = IF q = s THEN C \cup B ELSE Owned(hs[q])
    BY <1>10
  <2>4. UNION { Owned(hn[q]) : q \in Seats } \subseteq Handed(w) \cup B
    BY <1>7, <2>1, <2>3
  <2>5. Handed(w) \cup B \subseteq UNION { Owned(hn[q]) : q \in Seats }
    <3> SUFFICES ASSUME NEW t \in Handed(w) \cup B PROVE \E q \in Seats : t \in Owned(hn[q])
      OBVIOUS
    <3>1. CASE t \in B
      BY <2>3, <3>1
    <3>2. CASE t \in Handed(w)
      <4>1. PICK q \in Seats : t \in Owned(hs[q])
        BY <2>1, <3>2
      <4> QED
        BY <2>2, <2>3, <4>1
    <3> QED
      BY <3>1, <3>2
  <2> QED
    BY <1>4, <2>4, <2>5
<1>14. /\ Shown(hn) = Shown(hs) \cup F /\ Shown(hs) \cap F = {}
       /\ Shown(hs) \subseteq Flowers(w, Tiles) /\ Shown(hs) \in SUBSET Tiles
  <2>1. hn[s].flowers = F
    BY <1>1, <1>6
  <2>2. \A q \in Seats \ {s} : hs[q].flowers \cap F = {}
    BY <1>9, <1>11 DEF Owned
  <2>3. Shown(hs) \subseteq Flowers(w, Tiles)
    BY DEF DealOK
  <2>4. Shown(hs) \in SUBSET Tiles
    BY <2>3 DEF Flowers
  <2>5. Shown(hn) = Shown(hs) \cup F
    <3>1. \A q \in Seats : hn[q].flowers = IF q = s THEN F ELSE hs[q].flowers
      BY <2>1
    <3>2. hs[s].flowers = {}
      BY <1>1
    <3> QED
      BY <3>1, <3>2 DEF Shown
  <2>6. Shown(hs) \cap F = {}
    BY <1>1, <2>2 DEF Shown
  <2> QED
    BY <2>3, <2>4, <2>5, <2>6
<1>15. /\ Made(w) \in Nat /\ Made(w) <= Cardinality(Shown(hs))
       /\ w.dead = IF Made(w) > IndicatorDraw(w) THEN Made(w) + 1 ELSE Made(w)
  BY DEF DealOK
<1>16. Made(v) = Made(w) + r
  BY <1>2, <1>3, <1>4 DEF Made
<1>17. /\ Cardinality(Shown(hn)) = Cardinality(Shown(hs)) + Cardinality(F)
       /\ Cardinality(Shown(hs)) \in Nat /\ Cardinality(Shown(hn)) \in Nat
       /\ Cardinality(Shown(hn)) <= Cardinality(Flowers(w, Tiles))
  <2>1. /\ IsFiniteSet(Shown(hs)) /\ IsFiniteSet(F) /\ Cardinality(Shown(hs)) \in Nat
        /\ Cardinality(F) \in Nat
    BY <1>9, <1>14, TilesSubset
  <2>2. Cardinality(Shown(hn)) = Cardinality(Shown(hs)) + Cardinality(F)
    BY <1>14, <2>1, DisjointUnion
  <2>3. Shown(hn) \subseteq Flowers(w, Tiles)
    BY <1>9, <1>14
  <2> QED
    BY <1>1, <2>1, <2>2, <2>3, FewFlowers, FS_Subset
<1>18. Made(v) <= Cardinality(Shown(hn)) /\ Made(v) \in Nat
  BY <1>3, <1>8, <1>15, <1>16, <1>17
<1>19. v.dead = IF Made(v) > IndicatorDraw(v) THEN Made(v) + 1 ELSE Made(v)
  <2>1. IndicatorDraw(v) = IndicatorDraw(w)
    BY <1>4 DEF IndicatorDraw
  <2>2. AfterBackDraws(w, r) = IF w.dead <= IndicatorDraw(w) /\ w.dead + r > IndicatorDraw(w)
                               THEN w.dead + r + 1 ELSE w.dead + r
    BY DEF AfterBackDraws, IndicatorDraw
  <2> QED
    BY <1>2, <1>3, <1>4, <1>15, <1>16, <2>1, <2>2
<1>20. 4 * HandTiles + 3 + Cardinality(Flowers(w, Tiles)) <= WallLen
       /\ Cardinality(Flowers(w, Tiles)) \in Nat
  BY <1>1, FewFlowers
<1>21. r = Owed(w, h, 0, r)
  <2>1. w.count # r
    BY <1>2, <1>3, <1>15, <1>16, <1>17, <1>18, <1>20 DEF Made
  <2>2. AfterBackDraws(w, r) <= Made(v) + 1 /\ AfterBackDraws(w, r) \in Nat
    BY <1>2, <1>3, <1>4, <1>18, <1>19
  <2>3. w.index + (Made(v) + 1) + 2 <= WallLen
    BY <1>1, <1>2, <1>17, <1>18, <1>20
  <2>4. ~BackEmpty(w, r)
    <3>1. PICK n \in Nat : n = Made(v) + 1
      BY <1>18
    <3>2. w.index <= 4 * HandTiles + 1
      BY <1>1, <1>2
    <3> QED
      BY <1>2, <1>3, <2>1, <2>2, <2>3, <3>1, <3>2, NotEmpty
  <2> QED
    BY <1>3, <2>4
<1>22. Cardinality(g.closed) = HandTiles
  <2>1. /\ IsFiniteSet(C) /\ IsFiniteSet(C \cup B) /\ IsFiniteSet(F) /\ Cardinality(F) \in Nat
    BY <1>1, <1>5, <1>9, TilesSubset
  <2>2. Cardinality(C \cup B) = HandTiles + r
    BY <1>1, <1>2, <1>5, <1>7, <2>1, DisjointUnion
  <2>3. Cardinality((C \cup B) \ F) = Cardinality(C \cup B) - Cardinality((C \cup B) \cap F)
    BY <2>1, FS_Difference
  <2>4. (C \cup B) \cap F = F
    BY <1>9
  <2>5. Cardinality(F) = r
    BY <1>8, <1>21
  <2> QED
    <3>1. Cardinality((C \cup B) \ F) = (HandTiles + r) - r
      BY <2>2, <2>3, <2>4, <2>5, Zenon
    <3>2. (HandTiles + r) - r = HandTiles
      BY <1>2, <1>3
    <3>3. g.closed = (C \cup B) \ F
      BY <1>6
    <3> QED
      BY <3>1, <3>2, <3>3, Zenon
<1>23. HandsOK(hn)
  BY <1>6 DEF HandsOK, DealOK
<1>24. \A q \in done \cup {s} : Flowers(v, hn[q].closed) = {}
  <2>1. \A S : Flowers(v, S) = Flowers(w, S)
    BY <1>4, SameFaces
  <2> QED
    BY <1>6, <2>1 DEF DealOK
<1>25. Shown(hn) \subseteq Flowers(v, Tiles)
  <2>1. Flowers(v, Tiles) = Flowers(w, Tiles)
    BY <1>4, SameFaces
  <2> QED
    BY <1>9, <1>14, <2>1
<1>26. \A q \in Seats : /\ hn[q].melds = {} /\ hn[q].discards = << >>
                        /\ Cardinality(hn[q].closed) = HandTiles
                        /\ hn[q].closed \cap hn[q].flowers = {}
  BY <1>1, <1>6, <1>22 DEF DealOK
<1>27. \A q \in Seats \ (done \cup {s}) : hn[q].flowers = {}
  BY DEF DealOK
<1>28. DealOK(v, hn, done \cup {s})
  BY <1>1, <1>4, <1>12, <1>13, <1>18, <1>19, <1>23, <1>24, <1>25, <1>26, <1>27 DEF DealOK
<1> QED
  BY <1>4, <1>28 DEF v

TableOK(t, done) == DealOK(t.w, t.hs, done)

LEMMA RevealTableOK ==
    ASSUME NEW t, NEW done \in SUBSET Seats, TableOK(t, done), NEW s \in Seats \ done,
           NEW u, u = RevealSeat(t, s)
    PROVE  TableOK(u, done \cup {s}) /\ u.w.faces = t.w.faces /\ u.w.dice = t.w.dice
<1> PICK r : r = Replacements(t.w, t.hs[s], 0)
  OBVIOUS
<1> PICK g : g = Reveal(t.w, t.hs[s], r)
  OBVIOUS
<1> PICK hn : hn = [q \in Seats |-> IF q = s THEN g ELSE t.hs[q]]
  OBVIOUS
<1>1. u.w = WallAfter(t.w, r) /\ u.hs = hn
  BY DEF RevealSeat
<1>2. hn[s] = g /\ \A q \in Seats \ {s} : hn[q] = t.hs[q]
  OBVIOUS
<1>3. DealOK(t.w, t.hs, done)
  BY DEF TableOK
<1>4. hn \in [Seats -> HandRec]
  <2>1. WallOK(t.w) /\ HandOK(t.hs[s]) /\ HandsOK(t.hs) /\ t.hs[s].closed \in SUBSET Tiles /\ 0 \in Nat
    BY <1>3 DEF DealOK, HandsOK, HandOK, HandRec
  <2>2. /\ r \in 0 .. WallLen /\ \A q \in 0 .. r - 1 : ~BackEmpty(t.w, q)
        /\ r <= t.w.count
    BY <2>1, ReplacementsFacts
  <2>3. r \in Nat
    BY <2>2
  <2>4. HandOK(g)
    BY <2>1, <2>2, <2>3, RevealFacts
  <2> QED
    BY <2>1, <2>4 DEF HandsOK, HandOK
<1>5. /\ DealOK(WallAfter(t.w, r), hn, done \cup {s})
      /\ WallAfter(t.w, r).faces = t.w.faces /\ WallAfter(t.w, r).dice = t.w.dice
  BY <1>2, <1>3, <1>4, RevealSeatOK
<1> QED
  BY <1>1, <1>5 DEF TableOK

DealtHand(s) == [EmptyHand EXCEPT !.closed = DealtTo(s), !.size = HandTiles]

LEMMA DealtTableOK ==
    ASSUME NEW faces \in Walls, NEW d \in DiceSums, NEW t,
           t = [w |-> DealtWall(faces, d), hs |-> [s \in Seats |-> DealtHand(s)]]
    PROVE  TableOK(t, {})
<1> PICK w : w = DealtWall(faces, d)
  OBVIOUS
<1> PICK hs : hs = [s \in Seats |-> DealtHand(s)]
  OBVIOUS
<1>1. t.w = w /\ t.hs = hs
  OBVIOUS
<1>2. WallOK(w) /\ Handed(w) = 0 .. 4 * HandTiles - 1
  BY DealtWallFacts
<1>3. /\ w.faces = faces /\ w.dice = d /\ w.index = 4 * HandTiles /\ w.dead = 0
      /\ w.haitei = None /\ w.count = WallLen - 4 * HandTiles - 1
  BY DEF DealtWall
<1>4. \A s \in Seats : /\ hs[s] = DealtHand(s)
                       /\ hs[s].closed = DealtTo(s) /\ hs[s].size = HandTiles
                       /\ hs[s].drawn = None /\ hs[s].melds = {} /\ hs[s].discards = << >>
                       /\ hs[s].flowers = {}
  BY DEF DealtHand, EmptyHand
<1>5. \A s \in Seats : HandOK(hs[s])
  <2> SUFFICES ASSUME NEW s \in Seats PROVE HandOK(DealtHand(s))
    BY <1>4
  <2>1. /\ DealtTo(s) \in SUBSET Tiles /\ Cardinality(DealtTo(s)) = HandTiles /\ HandTiles \in Int
        /\ << >> \in Seq(Tiles)
    BY DealtFacts, WallNumbers
  <2>2. /\ DealtHand(s).closed = DealtTo(s) /\ DealtHand(s).size = HandTiles
        /\ DealtHand(s) \in HandRec
    BY <2>1 DEF DealtHand, EmptyHand, HandRec
  <2> QED
    BY <2>1, <2>2 DEF HandOK
<1>6. HandsOK(hs)
  BY <1>4, <1>5 DEF HandsOK, HandOK
<1>7. \A s \in Seats : Owned(hs[s]) = DealtTo(s)
  BY <1>4 DEF Owned
<1>8. UNION { Owned(hs[s]) : s \in Seats } = Handed(w)
  BY <1>2, <1>7, DealtFacts
<1>9. Shown(hs) = {}
  BY <1>4 DEF Shown
<1>10. Made(w) = 0 /\ Cardinality({}) = 0 /\ IndicatorDraw(w) \in Nat
  <2>1. WallLen \in Nat /\ HandTiles \in Nat
    BY WallNumbers
  <2> QED
    BY <1>2, <1>3, <2>1, FS_EmptySet, WallNumbersOK DEF Made
<1>11. \A s, q \in Seats : s # q => Owned(hs[s]) \cap Owned(hs[q]) = {}
  BY <1>7, DealtFacts
<1>12. \A s \in Seats : Cardinality(hs[s].closed) = HandTiles
  BY <1>4, DealtFacts
<1>13. DealOK(w, hs, {})
  <2>1. \A s \in Seats : hs[s].closed \cap hs[s].flowers = {}
    BY <1>4
  <2>2. Shown(hs) \subseteq Flowers(w, Tiles)
    BY <1>9
  <2>3. Made(w) \in Nat /\ Made(w) <= Cardinality(Shown(hs))
    BY <1>9, <1>10
  <2>4. w.dead = IF Made(w) > IndicatorDraw(w) THEN Made(w) + 1 ELSE Made(w)
    BY <1>3, <1>10
  <2>5. \A s \in Seats : hs[s].melds = {} /\ hs[s].discards = << >> /\ hs[s].flowers = {}
    BY <1>4
  <2> QED
    BY <1>2, <1>3, <1>6, <1>8, <1>11, <1>12, <2>1, <2>2, <2>3, <2>4, <2>5 DEF DealOK
<1> QED
  BY <1>1, <1>13 DEF TableOK

LEMMA DealReady ==
    ASSUME NEW faces \in Walls, NEW d \in DiceSums, NEW first \in Seats, NEW t,
           t = RevealInitialFlowers(DealtWall(faces, d), first)
    PROVE  TableOK(t, Seats) /\ t.w.faces = faces /\ t.w.dice = d
<1> PICK t0 : t0 = [w |-> DealtWall(faces, d), hs |-> [s \in Seats |-> DealtHand(s)]]
  OBVIOUS
<1> PICK t1 : t1 = RevealSeat(t0, first)
  OBVIOUS
<1> PICK t2 : t2 = RevealSeat(t1, (first + 1) % 4)
  OBVIOUS
<1> PICK t3 : t3 = RevealSeat(t2, (first + 2) % 4)
  OBVIOUS
<1> PICK t4 : t4 = RevealSeat(t3, (first + 3) % 4)
  OBVIOUS
<1> PICK b : b = (first + 1) % 4
  OBVIOUS
<1> PICK c : c = (first + 2) % 4
  OBVIOUS
<1> PICK e : e = (first + 3) % 4
  OBVIOUS
<1>1. t = t4
  BY DEF RevealInitialFlowers, DealtHand
<1>2. /\ b \in Seats /\ c \in Seats /\ e \in Seats
      /\ b \notin {first} /\ c \notin {first, b} /\ e \notin {first, b, c}
      /\ {first, b, c, e} = Seats
  BY DEF Seats
<1>3. TableOK(t0, {}) /\ t0.w.faces = faces /\ t0.w.dice = d
  <2>1. TableOK(t0, {})
    BY DealtTableOK
  <2> QED
    BY <2>1 DEF DealtWall
<1>4. TableOK(t1, {first}) /\ t1.w.faces = faces /\ t1.w.dice = d
  <2>1. {} \in SUBSET Seats /\ first \in Seats \ {} /\ {} \cup {first} = {first}
    OBVIOUS
  <2> QED
    BY <1>3, <2>1, RevealTableOK
<1>5. TableOK(t2, {first, b}) /\ t2.w.faces = faces /\ t2.w.dice = d
  <2>1. {first} \in SUBSET Seats /\ b \in Seats \ {first} /\ {first} \cup {b} = {first, b}
        /\ t2 = RevealSeat(t1, b)
    BY <1>2
  <2> QED
    BY <1>4, <2>1, RevealTableOK
<1>6. TableOK(t3, {first, b, c}) /\ t3.w.faces = faces /\ t3.w.dice = d
  <2>1. {first, b} \in SUBSET Seats /\ c \in Seats \ {first, b} /\ {first, b} \cup {c} = {first, b, c}
        /\ t3 = RevealSeat(t2, c)
    BY <1>2
  <2> QED
    BY ONLY <1>5, <2>1, RevealTableOK
<1>7. TableOK(t4, {first, b, c, e}) /\ t4.w.faces = faces /\ t4.w.dice = d
  <2>1. {first, b, c} \in SUBSET Seats /\ e \in Seats \ {first, b, c}
        /\ {first, b, c} \cup {e} = {first, b, c, e} /\ t4 = RevealSeat(t3, e)
    BY <1>2
  <2> QED
    BY <1>6, <2>1, RevealTableOK
<1> QED
  BY <1>1, <1>2, <1>7

(* A new hand, dealt and drawn for. *)
LEMMA DealTable ==
    ASSUME NEW faces \in Walls, NEW d \in DiceSums, NEW first \in Seats, isHaitei \in BOOLEAN,
           Deal(faces, d, first)
    PROVE  /\ activePlayer' = first /\ dealer' = first
           /\ \E t : /\ TableOK(t, Seats) /\ t.w.faces = faces /\ t.w.dice = d
                     /\ ExecuteSystemDraw(first, t.w, t.hs, NoOffers)
<1> PICK t : t = RevealInitialFlowers(DealtWall(faces, d), first)
  OBVIOUS
<1>1. TableOK(t, Seats) /\ t.w.faces = faces /\ t.w.dice = d
  BY DealReady
<1>2. /\ activePlayer' = first /\ dealer' = first
      /\ ExecuteSystemDraw(first, t.w, t.hs, NoOffers)
  BY DEF Deal, DealtWall
<1> QED
  BY <1>1, <1>2

-----------------------------------------------------------------------------
(* What every call leaves on the table.                                     *)

(* The tile just discarded is on top of its pile, and every offer of the    *)
(* window is one the seat can follow: it names tiles of its hand that fit   *)
(* the discard.  On a haitei discard only ron is offered.                   *)
Fits(w, h, t, o) ==
    /\ o \in OfferRec /\ o.type \in {"ron", "kan", "pon", "chii"}
    /\ o.tiles \subseteq h.closed
    /\ o.type \in {"pon", "kan"} => \A u \in o.tiles : SameFace(w, u, t)
    /\ o.type = "kan" => Cardinality(o.tiles) = 3
    /\ o.type \in {"pon", "chii"} => Cardinality(o.tiles) = 2
WindowFits ==
    /\ activeDiscard \in Tiles
    /\ hands[activePlayer].discards # << >> /\ Last(hands[activePlayer].discards) = activeDiscard
    /\ validActions[activePlayer] = {}
    /\ \A s \in Seats : \A o \in validActions[s] :
          Fits(wall, hands[s], activeDiscard, o) /\ (isHaitei => o.type = "ron")

(* The tiles of a face beside another's are not of that face. *)
LEMMA BesideFacts ==
    ASSUME NEW w, WallOK(w), NEW h, h \in HandRec, NEW t \in Tiles, NEW i \in Int, NEW j \in Int,
           i # j, NEW u \in Beside(w, h, t, i), NEW v \in Beside(w, h, t, j)
    PROVE  u \in h.closed /\ v \in h.closed /\ u # v
<1>1. w.faces \in [Tiles -> [suit : Suits, value : 1 .. 9]]
  BY GameAssumption DEF WallOK, WallRec, Tiles
<1>2. w.faces[t].value \in Int
  BY <1>1
<1>3. w.faces[u].value = w.faces[t].value + i /\ w.faces[v].value = w.faces[t].value + j
  BY DEF Beside
<1>4. u \in h.closed /\ v \in h.closed
  BY DEF Beside
<1> QED
  BY <1>2, <1>3, <1>4

LEMMA RunsFit ==
    ASSUME NEW w, WallOK(w), NEW h, h \in HandRec, NEW t \in Tiles, NEW o \in Runs(w, h, t)
    PROVE  Fits(w, h, t, o)
<1>1. PICK p \in {<<-2, -1>>, <<-1, 1>>, <<1, 2>>} :
         /\ Beside(w, h, t, p[1]) # {} /\ Beside(w, h, t, p[2]) # {}
         /\ o = Offer("chii", {CHOOSE u \in Beside(w, h, t, p[1]) : TRUE,
                               CHOOSE u \in Beside(w, h, t, p[2]) : TRUE})
  BY DEF Runs
<1> PICK i : i = p[1]
  OBVIOUS
<1> PICK j : j = p[2]
  OBVIOUS
<1> PICK u : u = CHOOSE x \in Beside(w, h, t, i) : TRUE
  OBVIOUS
<1> PICK v : v = CHOOSE x \in Beside(w, h, t, j) : TRUE
  OBVIOUS
<1>2. i \in Int /\ j \in Int /\ i # j
  BY <1>1
<1>3. u \in Beside(w, h, t, i) /\ v \in Beside(w, h, t, j)
  BY <1>1
<1>4. u \in h.closed /\ v \in h.closed /\ u # v
  BY <1>2, <1>3, BesideFacts
<1>5. o = Offer("chii", {u, v})
  BY <1>1
<1>6. Cardinality({u, v}) = 2
  <2>1. {u, v} = {u} \cup {v} /\ v \notin {u}
    BY <1>4
  <2>2. IsFiniteSet({u}) /\ Cardinality({u}) = 1
    BY FS_Singleton
  <2>3. Cardinality({u} \cup {v}) = Cardinality({u}) + 1
    BY <2>1, <2>2, FS_AddElement
  <2> QED
    BY <2>1, <2>2, <2>3
<1> QED
  BY <1>4, <1>5, <1>6, OfferFields DEF Fits, OfferRec, OfferTypes, HandRec, Offer

LEMMA TwoOf ==
    ASSUME NEW S, IsFiniteSet(S), ~(Cardinality(S) < 2)
    PROVE  \E p \in SUBSET S : Cardinality(p) = 2
<1>1. Cardinality(S) \in Nat
  BY FS_CardinalityType
<1>2. S # {}
  BY <1>1, FS_EmptySet
<1>3. PICK u \in S : TRUE
  BY <1>2
<1>4. IsFiniteSet(S \ {u}) /\ Cardinality(S \ {u}) = Cardinality(S) - 1
  BY <1>3, FS_RemoveElement
<1>5. S \ {u} # {}
  <2> SUFFICES ASSUME S \ {u} = {} PROVE FALSE
    OBVIOUS
  <2>1. Cardinality(S \ {u}) = 0
    BY FS_EmptySet
  <2> QED
    BY <1>1, <1>4, <2>1
<1>6. PICK v \in S \ {u} : TRUE
  BY <1>5
<1>7. Cardinality({u} \cup {v}) = 2
  <2>1. IsFiniteSet({u}) /\ Cardinality({u}) = 1
    BY FS_Singleton
  <2>2. Cardinality({u} \cup {v}) = Cardinality({u}) + 1
    BY <1>6, <2>1, FS_AddElement
  <2> QED
    BY <2>1, <2>2
<1> QED
  BY <1>3, <1>6, <1>7

LEMMA InterruptsFit ==
    ASSUME NEW w, WallOK(w), NEW h, h \in HandRec, NEW t \in Tiles, NEW s, NEW d,
           NEW o \in GetValidInterrupts(w, h, t, s, d)
    PROVE  Fits(w, h, t, o)
<1> PICK same : same = Alike(w, h.closed, t)
  OBVIOUS
<1>1. /\ same \in SUBSET h.closed /\ same \in SUBSET Tiles /\ IsFiniteSet(same)
      /\ \A u \in same : SameFace(w, u, t)
  <2>1. same \in SUBSET h.closed /\ same \in SUBSET Tiles
    BY DEF Alike, HandRec
  <2> QED
    BY <2>1, TilesSubset DEF Alike
<1>2. \/ o = Offer("ron", {})
      \/ o = Offer("kan", same) /\ Cardinality(same) = 3
      \/ ~(Cardinality(same) < 2) /\ o = Offer("pon", CHOOSE p \in SUBSET same : Cardinality(p) = 2)
      \/ o \in Runs(w, h, t)
  BY DEF GetValidInterrupts
<1>3. CASE o = Offer("ron", {})
  BY <1>3, OfferFields DEF Fits, OfferRec, OfferTypes, Offer
<1>4. CASE o = Offer("kan", same) /\ Cardinality(same) = 3
  BY <1>1, <1>4, OfferFields DEF Fits, OfferRec, OfferTypes, Offer
<1>5. CASE ~(Cardinality(same) < 2) /\ o = Offer("pon", CHOOSE p \in SUBSET same : Cardinality(p) = 2)
  <2> PICK p : p = CHOOSE pair \in SUBSET same : Cardinality(pair) = 2
    OBVIOUS
  <2>1. p \in SUBSET same /\ Cardinality(p) = 2
    BY <1>1, <1>5, TwoOf
  <2>2. o = Offer("pon", p) /\ p \in SUBSET Tiles /\ p \subseteq h.closed
        /\ \A u \in p : SameFace(w, u, t)
    BY <1>1, <1>5, <2>1
  <2> QED
    BY <2>1, <2>2, OfferFields DEF Fits, OfferRec, OfferTypes, Offer
<1>6. CASE o \in Runs(w, h, t)
  BY <1>6, RunsFit
<1> QED
  BY <1>2, <1>3, <1>4, <1>5, <1>6

(* The hand after a discard. *)
Discarded(h, t) ==
    [h EXCEPT !.closed = @ \ {t}, !.size = @ - 1, !.drawn = None, !.discards = Append(@, t)]

LEMMA DiscardFacts ==
    ASSUME NEW h, HandOK(h), NEW t \in h.closed, NEW g, g = Discarded(h, t)
    PROVE  /\ HandOK(g) /\ g.closed = h.closed \ {t} /\ g.drawn = None
           /\ g.melds = h.melds /\ g.flowers = h.flowers
           /\ g.discards = Append(h.discards, t) /\ g.discards # << >> /\ Last(g.discards) = t
<1>1. /\ h \in HandRec /\ h.closed \in SUBSET Tiles /\ t \in Tiles /\ h.discards \in Seq(Tiles)
      /\ Cardinality(h.closed) <= h.size /\ h.size \in Int
  BY DEF HandOK, HandRec
<1>2. /\ g.closed = h.closed \ {t} /\ g.drawn = None /\ g.size = h.size - 1
      /\ g.melds = h.melds /\ g.flowers = h.flowers /\ g.discards = Append(h.discards, t)
  BY <1>1 DEF Discarded, HandRec
<1>3. g \in HandRec
  <2>1. Append(h.discards, t) \in Seq(Tiles) /\ h.closed \ {t} \in SUBSET Tiles
        /\ h.size - 1 \in Int
    BY <1>1
  <2> QED
    BY <1>1, <2>1 DEF Discarded, HandRec
<1>4. /\ IsFiniteSet(h.closed) /\ Cardinality(h.closed) \in Nat
      /\ Cardinality(h.closed \ {t}) = Cardinality(h.closed) - 1
  BY <1>1, TilesSubset, FS_RemoveElement
<1>5. g.discards # << >> /\ Last(g.discards) = t
  <2>1. Len(Append(h.discards, t)) = Len(h.discards) + 1 /\ Len(h.discards) \in Nat
        /\ Append(h.discards, t)[Len(h.discards) + 1] = t
    BY <1>1
  <2>2. Append(h.discards, t) # << >>
    BY <2>1
  <2>3. Last(Append(h.discards, t)) = Append(h.discards, t)[Len(h.discards) + 1]
    BY <2>1 DEF Last
  <2> QED
    BY <1>2, <2>1, <2>2, <2>3
<1> QED
  BY <1>1, <1>2, <1>3, <1>4, <1>5 DEF HandOK

LEMMA OffersFit ==
    ASSUME NEW w, WallOK(w), NEW hs, HandsOK(hs), NEW d \in Seats, NEW t \in Tiles,
           NEW haitei \in BOOLEAN, NEW va, va = Offers(w, hs, d, t, haitei)
    PROVE  /\ OffersOK(va) /\ va[d] = {}
           /\ \A s \in Seats : \A o \in va[s] :
                 Fits(w, hs[s], t, o) /\ (haitei => o.type = "ron")
<1>1. \A s \in Seats : \A o \in va[s] : /\ o \in GetValidInterrupts(w, hs[s], t, s, d)
                                        /\ haitei => o.type = "ron"
  BY DEF Offers
<1>2. \A s \in Seats : hs[s] \in HandRec
  BY DEF HandsOK, HandOK
<1>3. \A s \in Seats : \A o \in va[s] : Fits(w, hs[s], t, o)
  BY <1>1, <1>2, InterruptsFit
<1>4. OffersOK(va)
  <2>1. \A s \in Seats : va[s] \subseteq OfferRec
    BY <1>3 DEF Fits
  <2>2. va = [s \in Seats |-> va[s]]
    BY DEF Offers
  <2> QED
    BY <2>1, <2>2 DEF OffersOK
<1>5. va[d] = {}
  BY DEF Offers
<1> QED
  BY <1>1, <1>3, <1>4, <1>5

(* The hands after a discard by seat a. *)
Discarding(a, t) == [hands EXCEPT ![a].closed = @ \ {t},
                                  ![a].size = @ - 1,
                                  ![a].drawn = None,
                                  ![a].discards = Append(@, t)]

LEMMA DiscardHands ==
    ASSUME HandsOK(hands), NEW a \in Seats, NEW t \in hands[a].closed,
           NEW hs, hs = Discarding(a, t)
    PROVE  /\ HandsOK(hs) /\ hs[a] = Discarded(hands[a], t)
           /\ \A s \in Seats \ {a} : hs[s] = hands[s]
<1>1. hands \in [Seats -> HandRec] /\ HandOK(hands[a])
  BY DEF HandsOK
<1>2. hs[a] = Discarded(hands[a], t) /\ \A s \in Seats \ {a} : hs[s] = hands[s]
  BY <1>1 DEF Discarded, Discarding, HandRec
<1>3. HandOK(hs[a])
  BY <1>1, <1>2, DiscardFacts
<1>4. hs = [s \in Seats |-> hs[s]]
  BY <1>1 DEF Discarding
<1> QED
  BY <1>1, <1>2, <1>3, <1>4 DEF HandsOK, HandOK

(* The hand after a kong from the hand. *)
KongHand(w, h, o) ==
    [h EXCEPT !.closed = @ \ o.tiles,
              !.size = @ - Cardinality(o.tiles),
              !.melds = Konged(w, h.melds, o.tiles)]

LEMMA KongedMelds ==
    ASSUME NEW w, NEW melds \in SUBSET Melds, NEW tiles \in SUBSET Tiles
    PROVE  Konged(w, melds, tiles) \in SUBSET Melds
<1>1. CASE { m \in melds : m.type = "pon" /\ \A p \in m.tiles, t \in tiles : SameFace(w, p, t) } = {}
  <2>1. Konged(w, melds, tiles) = melds \cup { Offer("kan", tiles) }
    BY <1>1 DEF Konged
  <2>2. Offer("kan", tiles) \in Melds
    BY DEF Offer, Melds
  <2> QED
    BY <2>1, <2>2
<1>2. CASE { m \in melds : m.type = "pon" /\ \A p \in m.tiles, t \in tiles : SameFace(w, p, t) } # {}
  <2>1. PICK m \in melds : Konged(w, melds, tiles) = (melds \ {m}) \cup { Offer("kan", m.tiles \cup tiles) }
    BY <1>2 DEF Konged
  <2>2. m.tiles \cup tiles \in SUBSET Tiles
    BY DEF Melds
  <2>3. Offer("kan", m.tiles \cup tiles) \in Melds
    BY <2>2 DEF Offer, Melds
  <2> QED
    BY <2>1, <2>3
<1> QED
  BY <1>1, <1>2

LEMMA LessTiles ==
    ASSUME NEW C \in SUBSET Tiles, NEW X \in SUBSET C
    PROVE  /\ Cardinality(C \ X) = Cardinality(C) - Cardinality(X)
           /\ Cardinality(C) \in Nat /\ Cardinality(X) \in Nat /\ Cardinality(C \ X) \in Nat
<1>1. IsFiniteSet(C) /\ IsFiniteSet(X) /\ IsFiniteSet(C \ X) /\ X \cap (C \ X) = {}
      /\ C = X \cup (C \ X)
  BY TilesSubset
<1>2. /\ Cardinality(X) \in Nat /\ Cardinality(C \ X) \in Nat
      /\ Cardinality(C) = Cardinality(X) + Cardinality(C \ X)
  BY <1>1, DisjointUnion
<1> QED
  BY <1>1, <1>2

LEMMA KongFacts ==
    ASSUME NEW w, NEW h, HandOK(h), NEW o, o.tiles \subseteq h.closed, NEW g, g = KongHand(w, h, o)
    PROVE  /\ HandOK(g) /\ g.closed = h.closed \ o.tiles /\ g.drawn = h.drawn
           /\ g.melds = Konged(w, h.melds, o.tiles)
           /\ g.flowers = h.flowers /\ g.discards = h.discards
<1>1. /\ h \in HandRec /\ h.closed \in SUBSET Tiles /\ h.size \in Int /\ h.melds \in SUBSET Melds
      /\ Cardinality(h.closed) <= h.size /\ o.tiles \in SUBSET Tiles
  BY DEF HandOK, HandRec
<1>2. Konged(w, h.melds, o.tiles) \in SUBSET Melds
  BY <1>1, KongedMelds
<1>3. /\ g.closed = h.closed \ o.tiles /\ g.drawn = h.drawn
      /\ g.melds = Konged(w, h.melds, o.tiles) /\ g.size = h.size - Cardinality(o.tiles)
      /\ g.flowers = h.flowers /\ g.discards = h.discards
  BY <1>1 DEF KongHand, HandRec
<1>4. /\ Cardinality(h.closed \ o.tiles) = Cardinality(h.closed) - Cardinality(o.tiles)
      /\ Cardinality(h.closed) \in Nat /\ Cardinality(o.tiles) \in Nat
  BY <1>1, LessTiles
<1>5. g \in HandRec
  <2>1. h.size - Cardinality(o.tiles) \in Int /\ h.closed \ o.tiles \in SUBSET Tiles
    BY <1>1, <1>4
  <2> QED
    BY <1>1, <1>2, <2>1 DEF KongHand, HandRec
<1> QED
  BY <1>1, <1>3, <1>4, <1>5 DEF HandOK

Konging(a, o) == [hands EXCEPT ![a].closed = @ \ o.tiles,
                               ![a].size = @ - Cardinality(o.tiles),
                               ![a].melds = Konged(wall, hands[a].melds, o.tiles)]

LEMMA KongHands ==
    ASSUME HandsOK(hands), NEW a \in Seats, NEW o, o.tiles \subseteq hands[a].closed,
           NEW hs, hs = Konging(a, o)
    PROVE  /\ HandsOK(hs) /\ hs[a] = KongHand(wall, hands[a], o)
           /\ \A s \in Seats \ {a} : hs[s] = hands[s]
<1>1. hands \in [Seats -> HandRec] /\ HandOK(hands[a])
  BY DEF HandsOK
<1>2. hs[a] = KongHand(wall, hands[a], o) /\ \A s \in Seats \ {a} : hs[s] = hands[s]
  BY <1>1 DEF KongHand, Konging, HandRec
<1>3. HandOK(hs[a])
  BY <1>1, <1>2, KongFacts
<1>4. hs = [s \in Seats |-> hs[s]]
  BY <1>1 DEF Konging
<1> QED
  BY <1>1, <1>2, <1>3, <1>4 DEF HandsOK, HandOK

(* The hands after a claim of tile t by seat s, the pile of seat a after it *)
(* lost its last tile.                                                      *)
ClaimHand(h, o, t) ==
    [h EXCEPT !.closed = @ \ o.tiles,
              !.melds = @ \cup { Offer(o.type, o.tiles \cup {t}) },
              !.drawn = None]
PileHand(h) == [h EXCEPT !.discards = Front(@)]

Claimed(h, o, t, g) ==
    /\ HandOK(g) /\ g.closed = h.closed \ o.tiles /\ g.drawn = None
    /\ g.melds = h.melds \cup { Offer(o.type, o.tiles \cup {t}) }
    /\ g.flowers = h.flowers /\ g.discards = h.discards

LEMMA ClaimFacts ==
    ASSUME NEW h, HandOK(h), NEW t \in Tiles, NEW o, o.tiles \subseteq h.closed,
           o.type \in {"chii", "pon", "kan"}, NEW g, g = ClaimHand(h, o, t)
    PROVE  Claimed(h, o, t, g)
<1>1. /\ h \in HandRec /\ h.closed \in SUBSET Tiles /\ h.size \in Int /\ h.melds \in SUBSET Melds
      /\ Cardinality(h.closed) <= h.size /\ o.tiles \in SUBSET Tiles
  BY DEF HandOK, HandRec
<1>2. h.melds \cup { Offer(o.type, o.tiles \cup {t}) } \in SUBSET Melds
  BY <1>1 DEF Offer, Melds
<1>3. /\ g.closed = h.closed \ o.tiles /\ g.drawn = None /\ g.size = h.size
      /\ g.melds = h.melds \cup { Offer(o.type, o.tiles \cup {t}) }
      /\ g.flowers = h.flowers /\ g.discards = h.discards
  BY <1>1 DEF ClaimHand, HandRec
<1>4. /\ Cardinality(h.closed \ o.tiles) = Cardinality(h.closed) - Cardinality(o.tiles)
      /\ Cardinality(h.closed) \in Nat /\ Cardinality(o.tiles) \in Nat
  BY <1>1, LessTiles
<1>5. g \in HandRec
  <2>1. h.closed \ o.tiles \in SUBSET Tiles
    BY <1>1
  <2> QED
    BY <1>1, <1>2, <2>1 DEF ClaimHand, HandRec
<1> QED
  BY <1>1, <1>3, <1>4, <1>5 DEF HandOK, Claimed

LEMMA FrontFacts ==
    ASSUME NEW A, NEW q \in Seq(A), q # << >>
    PROVE  /\ Front(q) \in Seq(A) /\ Len(Front(q)) = Len(q) - 1 /\ Len(q) \in Nat \ {0}
           /\ \A i \in 1 .. Len(q) - 1 : Front(q)[i] = q[i]
<1>1. Len(q) \in Nat \ {0}
  BY EmptySeq
<1> PICK n : n = Len(q) - 1
  OBVIOUS
<1>2. Front(q) = SubSeq(q, 1, n) /\ n \in Nat /\ 1 \in Int
  BY <1>1 DEF Front
<1>3. \A i \in 1 .. n : q[i] \in A
  BY <1>1
<1>4. /\ SubSeq(q, 1, n) \in Seq(A)
      /\ Len(SubSeq(q, 1, n)) = IF 1 <= n THEN n - 1 + 1 ELSE 0
      /\ \A i \in 1 .. n - 1 + 1 : SubSeq(q, 1, n)[i] = q[1 + i - 1]
  BY <1>2, <1>3, SubSeqProperties
<1>5. \A i \in 1 .. n : SubSeq(q, 1, n)[i] = q[i]
  BY <1>2, <1>4
<1> QED
  BY <1>1, <1>2, <1>4, <1>5

LEMMA PileFacts ==
    ASSUME NEW h, HandOK(h), h.discards # << >>, NEW g, g = PileHand(h)
    PROVE  /\ HandOK(g) /\ g.closed = h.closed /\ g.drawn = h.drawn /\ g.melds = h.melds
           /\ g.flowers = h.flowers /\ g.discards = Front(h.discards)
<1>1. h \in HandRec /\ h.discards \in Seq(Tiles)
  BY DEF HandOK, HandRec
<1>2. Front(h.discards) \in Seq(Tiles)
  BY <1>1, FrontFacts
<1> QED
  BY <1>1, <1>2 DEF PileHand, HandOK, HandRec

LEMMA ClaimHands ==
    ASSUME HandsOK(hands), activePlayer \in Seats, NEW s \in Seats, s # activePlayer,
           activeDiscard \in Tiles, hands[activePlayer].discards # << >>,
           NEW o, o.tiles \subseteq hands[s].closed, o.type \in {"chii", "pon", "kan"},
           NEW hs, hs = Melded(s, o, Front(hands[activePlayer].discards))
    PROVE  /\ HandsOK(hs) /\ hs[s] = ClaimHand(hands[s], o, activeDiscard)
           /\ hs[activePlayer] = PileHand(hands[activePlayer])
           /\ \A q \in Seats \ {activePlayer, s} : hs[q] = hands[q]
<1>1. hands \in [Seats -> HandRec] /\ \A q \in Seats : HandOK(hands[q])
  BY DEF HandsOK
<1>2. /\ hs[s] = ClaimHand(hands[s], o, activeDiscard)
      /\ hs[activePlayer] = PileHand(hands[activePlayer])
      /\ \A q \in Seats \ {activePlayer, s} : hs[q] = hands[q]
  <2> PICK a : a = activePlayer
    OBVIOUS
  <2> PICK h : h = hands[s]
    OBVIOUS
  <2> PICK k : k = Offer(o.type, o.tiles \cup {activeDiscard})
    OBVIOUS
  <2>1. a \in Seats /\ a # s /\ h \in HandRec /\ hands[a] \in HandRec
    BY <1>1
  <2>2. hs = [hands EXCEPT ![s].closed = @ \ o.tiles, ![s].melds = @ \cup {k},
                           ![s].drawn = None, ![a].discards = Front(hands[a].discards)]
    BY DEF Melded
  <2>3. hs[s] = [h EXCEPT !.closed = @ \ o.tiles, !.melds = @ \cup {k}, !.drawn = None]
    BY <1>1, <2>1, <2>2 DEF HandRec
  <2>4. hs[a] = [hands[a] EXCEPT !.discards = Front(hands[a].discards)]
    BY <1>1, <2>1, <2>2
  <2>5. \A q \in Seats \ {a, s} : hs[q] = hands[q]
    BY <1>1, <2>1, <2>2
  <2>6. hs[s] = ClaimHand(hands[s], o, activeDiscard)
    BY <2>3 DEF ClaimHand
  <2>7. hs[a] = PileHand(hands[a])
    BY <2>4 DEF PileHand
  <2> QED
    BY <2>5, <2>6, <2>7
<1>3. HandOK(hs[s]) /\ HandOK(hs[activePlayer])
  <2>1. HandOK(hands[s]) /\ HandOK(hands[activePlayer])
    BY <1>1
  <2>2. HandOK(hs[s])
    <3> PICK h : h = hands[s]
      OBVIOUS
    <3> PICK g : g = hs[s]
      OBVIOUS
    <3>1. /\ HandOK(h) /\ activeDiscard \in Tiles /\ o.tiles \subseteq h.closed
          /\ o.type \in {"chii", "pon", "kan"} /\ g = ClaimHand(h, o, activeDiscard)
      BY <1>2, <2>1
    <3>2. HandOK(g)
      BY ONLY <3>1, ClaimFacts DEF Claimed
    <3> QED
      BY <3>2
  <2>3. HandOK(hs[activePlayer])
    BY <1>2, <2>1, PileFacts
  <2> QED
    BY <2>2, <2>3
<1>4. hs = [q \in Seats |-> hs[q]]
  BY <1>1 DEF Melded
<1> QED
  BY <1>1, <1>2, <1>3, <1>4 DEF HandsOK, HandOK

-----------------------------------------------------------------------------
(* The invariant of the table. *)

TableInv ==
    /\ isHaitei \in BOOLEAN
    /\ activeDiscard \in Tiles \cup {None}
    /\ HandsOK(hands)
    /\ OffersOK(validActions)
    /\ phase = "INIT" => /\ wall.index = 0 /\ wall.dead = 0 /\ wall.count = 0 /\ wall.haitei = None
                         /\ wall.dice = 0
    /\ phase # "INIT" => WallOK(wall)
    /\ InPlay => \A s \in Seats : Flowers(wall, hands[s].closed) = {}
    /\ phase = "PLAYER_TURN" => TurnFits(activePlayer)
    /\ phase = "WAIT_DISCARDS" => WindowFits

(* What a call that ends with the turn of a seat, or the hand, leaves. *)
TableLeft(seat) ==
    /\ WallOK(wall') /\ HandsOK(hands') /\ OffersOK(validActions') /\ isHaitei' \in BOOLEAN
    /\ \/ EndRoundInDraw
       \/ /\ PlayOn("PLAYER_TURN") /\ TurnFits(seat)'
          /\ \A s \in Seats : Flowers(wall', hands'[s].closed) = {}

LEMMA EndPhase ==
    ASSUME NEW sc, NEW r, FinalizeRoundEnd(sc, r)
    PROVE  phase' \in {"ROUND_END", "MATCH_END"} /\ roundResult' = r
BY DEF FinalizeRoundEnd

LEMMA LeftInOrder ==
    ASSUME NEW seat \in Seats, TableLeft(seat), activePlayer' = seat,
           activeDiscard' \in Tiles \cup {None}
    PROVE  TableInv'
<1>1. CASE EndRoundInDraw
  <2>1. phase' \in {"ROUND_END", "MATCH_END"}
    BY <1>1, EndPhase DEF EndRoundInDraw
  <2> QED
    BY <2>1 DEF TableInv, TableLeft, InPlay
<1>2. CASE PlayOn("PLAYER_TURN") /\ TurnFits(seat)'
           /\ \A s \in Seats : Flowers(wall', hands'[s].closed) = {}
  <2>1. phase' = "PLAYER_TURN"
    BY <1>2 DEF PlayOn
  <2>2. TurnFits(activePlayer)'
    BY <1>2 DEF TurnFits
  <2> QED
    BY <1>2, <2>1, <2>2 DEF TableInv, TableLeft, InPlay
<1> QED
  BY <1>1, <1>2 DEF TableLeft

LEMMA EndInOrder ==
    ASSUME TableInv, phase # "INIT", NEW sc, NEW r, FinalizeRoundEnd(sc, r), wall' = wall,
           HandsOK(hands'), validActions' = NoOffers, isHaitei' \in BOOLEAN,
           activeDiscard' \in Tiles \cup {None}
    PROVE  TableInv'
<1>1. phase' \in {"ROUND_END", "MATCH_END"}
  BY EndPhase
<1> QED
  BY <1>1, NoOffersOK DEF TableInv, InPlay

LEMMA DrawLeaves ==
    ASSUME NEW seat \in Seats, NEW w, WallOK(w), NEW hs, HandsOK(hs), NEW va, OffersOK(va),
           isHaitei \in BOOLEAN, \A s \in Seats : Flowers(w, hs[s].closed) = {},
           ExecuteSystemDraw(seat, w, hs, va)
    PROVE  TableLeft(seat)
BY SystemDrawTable DEF TableLeft

LEMMA SettleLeaves ==
    ASSUME NEW seat \in Seats, NEW w, WallOK(w), NEW hs, HandsOK(hs), NEW va, OffersOK(va),
           NEW due \in Nat, isHaitei' \in BOOLEAN, isHaitei' => hs[seat].drawn # None,
           \A s \in Seats \ {seat} : Flowers(w, hs[s].closed) = {},
           Settle(seat, w, hs, va, due)
    PROVE  TableLeft(seat)
<1>1. PICK r \in Nat : Replaced(seat, w, hs, due, r)
  BY SettleTable
<1> QED
  BY <1>1 DEF Replaced, TableLeft, TurnFits

(* Each call of the engine leaves the table in order. *)

LEMMA DealInOrder ==
    ASSUME SeatsInv, TableInv, NEW faces \in Walls, NEW d \in DiceSums, NEW first \in Seats,
           Deal(faces, d, first), activeDiscard' \in Tiles \cup {None}
    PROVE  TableInv'
<1>1. /\ isHaitei \in BOOLEAN
      /\ activePlayer' = first
  BY DealTable DEF TableInv
<1>2. PICK t : /\ TableOK(t, Seats) /\ t.w.faces = faces /\ t.w.dice = d
               /\ ExecuteSystemDraw(first, t.w, t.hs, NoOffers)
  BY <1>1, DealTable
<1>3. WallOK(t.w) /\ HandsOK(t.hs) /\ \A s \in Seats : Flowers(t.w, t.hs[s].closed) = {}
  BY <1>2 DEF TableOK, DealOK
<1>4. TableLeft(first)
  BY <1>1, <1>2, <1>3, NoOffersOK, DrawLeaves
<1> QED
  BY <1>1, <1>4, LeftInOrder

LEMMA StartInOrder ==
    ASSUME SeatsInv, TableInv, Start
    PROVE  TableInv'
<1>1. PICK faces \in Walls, d \in DiceSums, first \in DealerDraws : Deal(faces, d, first)
  BY DEF Start
<1>2. first \in Seats /\ activeDiscard' \in Tiles \cup {None}
  BY SeatFacts DEF Start, TableInv
<1> QED
  BY <1>1, <1>2, DealInOrder

LEMMA ReadyInOrder ==
    ASSUME SeatsInv, TableInv, NEW s \in Seats, HandleReady(s)
    PROVE  TableInv'
<1>1. CASE UNCHANGED <<phase, activePlayer, dealer, nextDealer, handNum, wall, hands, validActions,
                       interruptQueue, activeDiscard, isHaitei, score, roundResult>>
  BY <1>1 DEF TableInv, InPlay, TurnFits, WindowFits
<1>2. CASE /\ activeDiscard' = None
           /\ \E faces \in Walls, d \in DiceSums,
                 first \in IF nextDealer = None THEN DealerDraws ELSE {nextDealer} :
                 Deal(faces, d, first)
  <2>1. PICK faces \in Walls, d \in DiceSums,
             first \in IF nextDealer = None THEN DealerDraws ELSE {nextDealer} :
             Deal(faces, d, first)
    BY <1>2
  <2>2. first \in Seats
    BY SeatFacts DEF SeatsInv
  <2> QED
    BY <1>2, <2>1, <2>2, DealInOrder
<1> QED
  BY <1>1, <1>2 DEF HandleReady

LEMMA AdvanceLeaves ==
    ASSUME activePlayer \in Seats, WallOK(wall), NEW hs, HandsOK(hs), NEW va, OffersOK(va),
           isHaitei \in BOOLEAN, \A s \in Seats : Flowers(wall, hs[s].closed) = {},
           AdvanceTurn(hs, va)
    PROVE  /\ activePlayer' = NextSeat(activePlayer) /\ NextSeat(activePlayer) \in Seats
           /\ TableLeft(NextSeat(activePlayer)) /\ activeDiscard' = None
<1>1. NextSeat(activePlayer) \in Seats
  BY SeatFacts
<1>2. /\ activePlayer' = NextSeat(activePlayer) /\ activeDiscard' = None
      /\ ExecuteSystemDraw(NextSeat(activePlayer), wall, hs, va)
  BY DEF AdvanceTurn
<1> QED
  BY <1>1, <1>2, DrawLeaves

(* How a discard goes on: a window, a drawn hand, or the next turn. *)
WindowOpens(hs, va, t) ==
    /\ \E s \in Seats : va[s] # {}
    /\ validActions' = va /\ activeDiscard' = t /\ hands' = hs /\ PlayOn("WAIT_DISCARDS")
    /\ interruptQueue' = << >> /\ UNCHANGED <<activePlayer, wall, isHaitei>>
HaiteiKept(hs, t) ==
    /\ isHaitei /\ isHaitei' = FALSE /\ activeDiscard' = t /\ validActions' = NoOffers
    /\ hands' = hs /\ EndRoundInDraw /\ UNCHANGED <<activePlayer, wall, interruptQueue>>

LEMMA DiscardGoes ==
    ASSUME NEW t, HandleDiscard(t), NEW g, g = Discarding(activePlayer, t),
           NEW v, v = Offers(wall, g, activePlayer, t, isHaitei)
    PROVE  \/ WindowOpens(g, v, t)
           \/ HaiteiKept(g, t)
           \/ AdvanceTurn(g, v) /\ ~isHaitei /\ \A s \in Seats : v[s] = {}
<1> DEFINE hs == [hands EXCEPT ![activePlayer].closed = @ \ {t},
                               ![activePlayer].size = @ - 1,
                               ![activePlayer].drawn = None,
                               ![activePlayer].discards = Append(@, t)]
           va == Offers(wall, hs, activePlayer, t, isHaitei)
<1>1. g = hs
  BY DEF Discarding
<1>2. v = va
  BY <1>1
<1> HIDE DEF hs, va
<1>3. CASE /\ \E s \in Seats : va[s] # {}
           /\ validActions' = va /\ activeDiscard' = t /\ interruptQueue' = << >>
           /\ hands' = hs /\ PlayOn("WAIT_DISCARDS") /\ UNCHANGED <<activePlayer, wall, isHaitei>>
  BY <1>1, <1>2, <1>3 DEF WindowOpens
<1>4. CASE /\ isHaitei /\ isHaitei' = FALSE /\ activeDiscard' = t /\ validActions' = NoOffers
           /\ hands' = hs /\ EndRoundInDraw /\ UNCHANGED <<activePlayer, wall, interruptQueue>>
  <2>1. hands' = g
    BY <1>1, <1>4
  <2>2. HaiteiKept(g, t)
    BY <1>4, <2>1, Zenon DEF HaiteiKept
  <2> QED
    BY <2>2
<1>5. CASE ~(\E s \in Seats : va[s] # {}) /\ ~isHaitei /\ AdvanceTurn(hs, va)
  BY <1>1, <1>2, <1>5
<1> QED
  BY <1>3, <1>4, <1>5, Zenon DEF HandleDiscard, hs, va

LEMMA DiscardInOrder ==
    ASSUME SeatsInv, TableInv, NEW t, HandleDiscard(t)
    PROVE  TableInv'
<1> PICK g : g = Discarding(activePlayer, t)
  OBVIOUS
<1> PICK v : v = Offers(wall, g, activePlayer, t, isHaitei)
  OBVIOUS
<1>0. InTurn("discard") /\ t \in hands[activePlayer].closed
  BY DEF HandleDiscard
<1>1. /\ phase = "PLAYER_TURN" /\ activePlayer \in Seats /\ WallOK(wall) /\ HandsOK(hands)
      /\ isHaitei \in BOOLEAN /\ t \in hands[activePlayer].closed
      /\ \A s \in Seats : Flowers(wall, hands[s].closed) = {}
  BY <1>0 DEF InTurn, SeatsInv, TableInv, InPlay
<1>2. /\ HandsOK(g) /\ g[activePlayer] = Discarded(hands[activePlayer], t)
      /\ \A s \in Seats \ {activePlayer} : g[s] = hands[s]
  BY <1>1, DiscardHands
<1>3. /\ HandOK(hands[activePlayer]) /\ t \in Tiles
  BY <1>1 DEF HandsOK, HandOK, HandRec
<1>4. /\ g[activePlayer].closed = hands[activePlayer].closed \ {t}
      /\ g[activePlayer].discards # << >> /\ Last(g[activePlayer].discards) = t
  BY <1>1, <1>2, <1>3, DiscardFacts
<1>5. \A s \in Seats : Flowers(wall, g[s].closed) = {}
  BY <1>1, <1>2, <1>4 DEF Flowers
<1>6. /\ OffersOK(v) /\ v[activePlayer] = {}
      /\ \A s \in Seats : \A o \in v[s] : Fits(wall, g[s], t, o) /\ (isHaitei => o.type = "ron")
  BY <1>1, <1>2, <1>3, OffersFit
<1>7. WindowOpens(g, v, t) \/ HaiteiKept(g, t) \/ AdvanceTurn(g, v)
  BY DiscardGoes
<1>8. CASE WindowOpens(g, v, t)
  <2>1. phase' = "WAIT_DISCARDS"
    BY <1>8 DEF WindowOpens, PlayOn
  <2>2. WindowFits'
    BY <1>1, <1>3, <1>4, <1>6, <1>8 DEF WindowOpens, WindowFits
  <2> QED
    BY <1>1, <1>2, <1>3, <1>5, <1>6, <1>8, <2>1, <2>2 DEF WindowOpens, TableInv, InPlay
<1>9. CASE HaiteiKept(g, t)
  BY <1>1, <1>2, <1>3, <1>9, EndInOrder DEF HaiteiKept, EndRoundInDraw
<1>10. CASE AdvanceTurn(g, v)
  BY <1>1, <1>2, <1>5, <1>6, <1>10, AdvanceLeaves, LeftInOrder
<1> QED
  BY <1>7, <1>8, <1>9, <1>10

LEMMA OfferedTypes ==
    /\ \A offers, type : type \in Types(offers) <=> \E o \in offers : o.type = type
    /\ \A o \in HaiteiOffers : o.type \in {"accept", "refuse"}
    /\ Types(HaiteiOffers) = {"accept", "refuse"}
<1>1. Offer("accept", {}).type = "accept" /\ Offer("refuse", {}).type = "refuse"
  BY OfferFields
<1> QED
  BY <1>1 DEF Types, HaiteiOffers

(* On a turn a seat either has the offers of its turn, or has to decide     *)
(* about the haitei tile.                                                   *)
LEMMA TurnKinds ==
    ASSUME TableInv, NEW type, InTurn(type)
    PROVE  /\ type \in {"accept", "refuse"} =>
                 /\ validActions[activePlayer] = HaiteiOffers /\ isHaitei
                 /\ wall.index = Border(wall) /\ FindHaitei(WallLen, wall.dice, wall.dead) # -1
           /\ type \notin {"accept", "refuse"} =>
                 /\ TurnOffers(wall, hands[activePlayer], isHaitei, validActions[activePlayer])
                 /\ isHaitei => hands[activePlayer].drawn # None
<1>1. TurnFits(activePlayer)
  BY DEF InTurn, TableInv
<1>2. PICK o \in validActions[activePlayer] : o.type = type
  BY OfferedTypes DEF InTurn, Offered
<1>3. CASE /\ TurnOffers(wall, hands[activePlayer], isHaitei, validActions[activePlayer])
           /\ isHaitei => hands[activePlayer].drawn # None
  BY <1>2, <1>3 DEF TurnOffers
<1>4. CASE /\ validActions[activePlayer] = HaiteiOffers /\ isHaitei
           /\ wall.index = Border(wall) /\ FindHaitei(WallLen, wall.dice, wall.dead) # -1
  BY <1>2, <1>4, OfferedTypes
<1> QED
  BY <1>1, <1>3, <1>4 DEF TurnFits

LEMMA KongGoes ==
    ASSUME SeatsInv, TableInv, NEW o, HandleKong(o), NEW g, g = Konging(activePlayer, o)
    PROVE  /\ phase = "PLAYER_TURN" /\ ~isHaitei /\ isHaitei' = isHaitei
           /\ activePlayer' = activePlayer /\ activeDiscard' = activeDiscard
           /\ hands[activePlayer].drawn # None
           /\ o \in ClosedKongs(wall, hands[activePlayer]) \cup UpgradedKongs(wall, hands[activePlayer])
           /\ o.tiles \subseteq hands[activePlayer].closed
           /\ HandsOK(g) /\ g[activePlayer] = KongHand(wall, hands[activePlayer], o)
           /\ \A s \in Seats \ {activePlayer} : g[s] = hands[s]
           /\ g[activePlayer].drawn = hands[activePlayer].drawn
           /\ \A s \in Seats \ {activePlayer} : Flowers(wall, g[s].closed) = {}
           /\ Settle(activePlayer, wall, g, validActions, 1)
<1>1. /\ InTurn("kan") /\ o \in validActions[activePlayer] /\ o.type = "kan"
      /\ UNCHANGED <<activePlayer, activeDiscard, isHaitei>>
  BY DEF HandleKong
<1>2. /\ TurnOffers(wall, hands[activePlayer], isHaitei, validActions[activePlayer])
      /\ phase = "PLAYER_TURN" /\ activePlayer \in Seats /\ WallOK(wall) /\ HandsOK(hands)
      /\ \A s \in Seats : Flowers(wall, hands[s].closed) = {}
  BY <1>1, TurnKinds DEF InTurn, SeatsInv, TableInv, InPlay
<1>3. /\ ~isHaitei /\ hands[activePlayer].drawn # None
      /\ o \in ClosedKongs(wall, hands[activePlayer]) \cup UpgradedKongs(wall, hands[activePlayer])
  BY <1>1, <1>2 DEF TurnOffers
<1>4. HandOK(hands[activePlayer]) /\ hands[activePlayer] \in HandRec
  BY <1>2 DEF HandsOK, HandOK
<1>5. o.tiles \subseteq hands[activePlayer].closed
  BY <1>3, <1>4, KongsFacts
<1>6. /\ HandsOK(g) /\ g[activePlayer] = KongHand(wall, hands[activePlayer], o)
      /\ \A s \in Seats \ {activePlayer} : g[s] = hands[s]
  BY <1>2, <1>5, KongHands
<1>7. g[activePlayer].drawn = hands[activePlayer].drawn
  BY <1>4, <1>5, <1>6, KongFacts
<1>8. Settle(activePlayer, wall, g, validActions, 1)
  BY DEF HandleKong, Konging
<1>9. \A s \in Seats \ {activePlayer} : Flowers(wall, g[s].closed) = {}
  BY <1>2, <1>6
<1> QED
  BY <1>1, <1>2, <1>3, <1>5, <1>6, <1>7, <1>8, <1>9

LEMMA KongInOrder ==
    ASSUME SeatsInv, TableInv, NEW o, HandleKong(o)
    PROVE  TableInv'
<1> PICK g : g = Konging(activePlayer, o)
  OBVIOUS
<1>1. /\ phase = "PLAYER_TURN" /\ ~isHaitei /\ isHaitei' = isHaitei
      /\ activePlayer' = activePlayer /\ activeDiscard' = activeDiscard
      /\ HandsOK(g)
      /\ \A s \in Seats \ {activePlayer} : Flowers(wall, g[s].closed) = {}
      /\ Settle(activePlayer, wall, g, validActions, 1)
  BY KongGoes
<1>2. /\ activePlayer \in Seats /\ WallOK(wall) /\ OffersOK(validActions) /\ isHaitei' \in BOOLEAN
      /\ (isHaitei' => g[activePlayer].drawn # None) /\ 1 \in Nat
      /\ activeDiscard' \in Tiles \cup {None}
  BY <1>1 DEF SeatsInv, TableInv
<1>3. TableLeft(activePlayer)
  BY <1>1, <1>2, SettleLeaves
<1> QED
  BY <1>1, <1>2, <1>3, LeftInOrder

LEMMA TsumoInOrder ==
    ASSUME SeatsInv, TableInv, NEW S, HandleTsumo(S)
    PROVE  TableInv'
<1>1. /\ phase = "PLAYER_TURN"
      /\ UNCHANGED <<wall, hands, activeDiscard, isHaitei>> /\ validActions' = NoOffers
      /\ \E sc, r : FinalizeRoundEnd(sc, r)
  BY DEF HandleTsumo, InTurn
<1>2. HandsOK(hands') /\ isHaitei' \in BOOLEAN /\ activeDiscard' \in Tiles \cup {None}
  BY <1>1 DEF TableInv
<1> QED
  BY <1>1, <1>2, EndInOrder

LEMMA RefuseInOrder ==
    ASSUME SeatsInv, TableInv, HandleHaiteiRefuse
    PROVE  TableInv'
<1>1. /\ phase = "PLAYER_TURN"
      /\ UNCHANGED <<wall, hands, activeDiscard>> /\ isHaitei' \in BOOLEAN /\ validActions' = NoOffers
      /\ \E sc, r : FinalizeRoundEnd(sc, r)
  BY DEF HandleHaiteiRefuse, InTurn, EndRoundInDraw
<1>2. HandsOK(hands') /\ activeDiscard' \in Tiles \cup {None}
  BY <1>1 DEF TableInv
<1> QED
  BY <1>1, <1>2, EndInOrder

Taking(a, i) == [hands EXCEPT ![a].closed = @ \cup {i}, ![a].size = @ + 1, ![a].drawn = i]

LEMMA TakeHands ==
    ASSUME HandsOK(hands), NEW a \in Seats, NEW i \in Tiles, NEW hs, hs = Taking(a, i)
    PROVE  /\ HandsOK(hs) /\ hs[a] = Takes(hands[a], i)
           /\ \A s \in Seats \ {a} : hs[s] = hands[s]
<1>1. hands \in [Seats -> HandRec] /\ HandOK(hands[a])
  BY DEF HandsOK
<1>2. hs[a] = Takes(hands[a], i) /\ \A s \in Seats \ {a} : hs[s] = hands[s]
  BY <1>1 DEF Takes, Taking, HandRec
<1>3. HandOK(hs[a])
  BY <1>1, <1>2, TakeFacts
<1>4. hs = [s \in Seats |-> hs[s]]
  BY <1>1 DEF Taking
<1> QED
  BY <1>1, <1>2, <1>3, <1>4 DEF HandsOK, HandOK

LEMMA AcceptGoes ==
    ASSUME SeatsInv, TableInv, HandleHaiteiAccept,
           NEW h, h = FindHaitei(WallLen, wall.dice, wall.dead),
           NEW w, w = HaiteiTaken(wall, h), NEW g, g = Taking(activePlayer, h)
    PROVE  /\ phase = "PLAYER_TURN" /\ isHaitei' \in BOOLEAN
           /\ isHaitei' = (Flowers(wall, g[activePlayer].closed) = {})
           /\ activePlayer' = activePlayer /\ activeDiscard' = activeDiscard
           /\ validActions[activePlayer] = HaiteiOffers /\ wall.index = Border(wall)
           /\ h \in Tiles /\ h # -1 /\ WallOK(w) /\ w.faces = wall.faces /\ w.dice = wall.dice
           /\ HandsOK(g) /\ g[activePlayer] = Takes(hands[activePlayer], h)
           /\ g[activePlayer].drawn = h
           /\ \A s \in Seats \ {activePlayer} : g[s] = hands[s] /\ Flowers(w, g[s].closed) = {}
           /\ Settle(activePlayer, w, g, validActions, 0)
<1>1. /\ InTurn("accept") /\ h # -1 /\ isHaitei' \in BOOLEAN
      /\ UNCHANGED <<activePlayer, activeDiscard>>
  BY DEF HandleHaiteiAccept
<1>2. /\ phase = "PLAYER_TURN" /\ activePlayer \in Seats /\ WallOK(wall) /\ HandsOK(hands)
      /\ \A s \in Seats : Flowers(wall, hands[s].closed) = {}
      /\ validActions[activePlayer] = HaiteiOffers /\ wall.index = Border(wall)
  BY <1>1, TurnKinds DEF InTurn, SeatsInv, TableInv, InPlay
<1>3. h \in Tiles /\ WallOK(w) /\ w.faces = wall.faces /\ w.dice = wall.dice
  BY <1>1, <1>2, HaiteiFacts
<1>4. /\ HandsOK(g) /\ g[activePlayer] = Takes(hands[activePlayer], h)
      /\ \A s \in Seats \ {activePlayer} : g[s] = hands[s]
  BY <1>2, <1>3, TakeHands
<1>5. HandOK(hands[activePlayer])
  BY <1>2 DEF HandsOK
<1>6. g[activePlayer].drawn = h
  BY <1>3, <1>4, <1>5, TakeFacts
<1>7. \A s \in Seats \ {activePlayer} : Flowers(w, g[s].closed) = {}
  BY <1>2, <1>3, <1>4, SameFaces
<1>8. Settle(activePlayer, w, g, validActions, 0)
  BY DEF HandleHaiteiAccept, HaiteiTaken, Taking
<1>9. isHaitei' = (Flowers(wall, g[activePlayer].closed) = {})
  BY DEF HandleHaiteiAccept, Taking
<1> QED
  BY <1>1, <1>2, <1>3, <1>4, <1>6, <1>7, <1>8, <1>9

LEMMA AcceptInOrder ==
    ASSUME SeatsInv, TableInv, HandleHaiteiAccept
    PROVE  TableInv'
<1> PICK h : h = FindHaitei(WallLen, wall.dice, wall.dead)
  OBVIOUS
<1> PICK w : w = HaiteiTaken(wall, h)
  OBVIOUS
<1> PICK g : g = Taking(activePlayer, h)
  OBVIOUS
<1>1. /\ phase = "PLAYER_TURN" /\ isHaitei' \in BOOLEAN
      /\ activePlayer' = activePlayer /\ activeDiscard' = activeDiscard
      /\ h \in Tiles /\ WallOK(w) /\ HandsOK(g)
      /\ g[activePlayer].drawn = h
      /\ \A s \in Seats \ {activePlayer} : Flowers(w, g[s].closed) = {}
      /\ Settle(activePlayer, w, g, validActions, 0)
  BY AcceptGoes
<1>2. /\ activePlayer \in Seats /\ OffersOK(validActions)
      /\ (isHaitei' => g[activePlayer].drawn # None) /\ 0 \in Nat
      /\ activeDiscard' \in Tiles \cup {None}
  BY <1>1 DEF SeatsInv, TableInv, Tiles, None
<1>3. TableLeft(activePlayer)
  BY <1>1, <1>2, SettleLeaves
<1> QED
  BY <1>1, <1>2, <1>3, LeftInOrder

LEMMA ClaimGoes ==
    ASSUME SeatsInv, TableInv, phase = "WAIT_DISCARDS", NEW s \in Seats, s # activePlayer,
           NEW o \in validActions[s], o.type \in {"chii", "pon", "kan"}, Claim(s, o),
           NEW g, g = Melded(s, o, Front(hands[activePlayer].discards)),
           NEW due, due = IF o.type = "kan" THEN 1 ELSE 0
    PROVE  /\ WallOK(wall) /\ ~isHaitei /\ isHaitei' = isHaitei
           /\ activePlayer' = s /\ activeDiscard' = None
           /\ o.tiles \subseteq hands[s].closed /\ Fits(wall, hands[s], activeDiscard, o)
           /\ HandsOK(g) /\ g[s] = ClaimHand(hands[s], o, activeDiscard)
           /\ g[activePlayer] = PileHand(hands[activePlayer])
           /\ \A q \in Seats \ {activePlayer, s} : g[q] = hands[q]
           /\ g[s].drawn = None /\ g[s].closed = hands[s].closed \ o.tiles
           /\ \A q \in Seats : Flowers(wall, g[q].closed) = {}
           /\ due \in {0, 1} /\ Settle(s, wall, g, validActions, due)
<1>1. /\ activePlayer' = s /\ activeDiscard' = None /\ isHaitei' = isHaitei
      /\ Settle(s, wall, g, validActions, due)
  BY DEF Claim
<1>2. /\ activePlayer \in Seats /\ WallOK(wall) /\ HandsOK(hands)
      /\ \A q \in Seats : Flowers(wall, hands[q].closed) = {}
      /\ WindowFits
  BY DEF SeatsInv, TableInv, InPlay
<1>3. /\ activeDiscard \in Tiles /\ hands[activePlayer].discards # << >>
      /\ Fits(wall, hands[s], activeDiscard, o) /\ (isHaitei => o.type = "ron")
  BY <1>2 DEF WindowFits
<1>4. ~isHaitei /\ o.tiles \subseteq hands[s].closed
  BY <1>3 DEF Fits
<1>5. /\ HandsOK(g) /\ g[s] = ClaimHand(hands[s], o, activeDiscard)
      /\ g[activePlayer] = PileHand(hands[activePlayer])
      /\ \A q \in Seats \ {activePlayer, s} : g[q] = hands[q]
  BY <1>2, <1>3, <1>4, ClaimHands
<1>6. HandOK(hands[s]) /\ HandOK(hands[activePlayer])
  BY <1>2 DEF HandsOK
<1>7. g[s].closed = hands[s].closed \ o.tiles /\ g[s].drawn = None
  <2>1. Claimed(hands[s], o, activeDiscard, g[s])
    BY <1>3, <1>4, <1>5, <1>6, ClaimFacts
  <2> QED
    BY <1>5, <2>1 DEF Claimed
<1>8. g[activePlayer].closed = hands[activePlayer].closed
  BY <1>3, <1>5, <1>6, PileFacts
<1>9. \A q \in Seats : g[q].closed \subseteq hands[q].closed
  BY <1>5, <1>7, <1>8
<1>10. \A q \in Seats : Flowers(wall, g[q].closed) = {}
  BY <1>2, <1>9 DEF Flowers
<1>11. due \in {0, 1}
  OBVIOUS
<1> QED
  BY <1>1, <1>2, <1>3, <1>4, <1>5, <1>7, <1>10, <1>11

LEMMA ClaimInOrder ==
    ASSUME SeatsInv, TableInv, phase = "WAIT_DISCARDS", NEW s \in Seats, s # activePlayer,
           NEW o \in validActions[s], o.type \in {"chii", "pon", "kan"}, Claim(s, o)
    PROVE  TableInv'
<1> PICK g : g = Melded(s, o, Front(hands[activePlayer].discards))
  OBVIOUS
<1> PICK due : due = IF o.type = "kan" THEN 1 ELSE 0
  OBVIOUS
<1>1. /\ WallOK(wall) /\ ~isHaitei /\ isHaitei' = isHaitei
      /\ activePlayer' = s /\ activeDiscard' = None
      /\ HandsOK(g)
      /\ \A q \in Seats : Flowers(wall, g[q].closed) = {}
      /\ due \in {0, 1} /\ Settle(s, wall, g, validActions, due)
  BY ClaimGoes
<1>2. /\ OffersOK(validActions) /\ due \in Nat /\ isHaitei' \in BOOLEAN
      /\ (isHaitei' => g[s].drawn # None)
      /\ \A q \in Seats \ {s} : Flowers(wall, g[q].closed) = {}
      /\ activeDiscard' \in Tiles \cup {None}
  BY <1>1 DEF TableInv
<1>3. TableLeft(s)
  BY <1>1, <1>2, SettleLeaves
<1> QED
  BY <1>1, <1>2, <1>3, LeftInOrder

(* A window closes with a ron, a claim somebody queued, or the next turn. *)
LEMMA ResolveGoes ==
    ASSUME SeatsInv, phase = "WAIT_DISCARDS",
           NEW q, DOMAIN q \subseteq Seats \ {activePlayer},
           \A y \in DOMAIN q : q[y] \in validActions[y] \cup {Pass},
           ResolveInterrupts(q)
    PROVE  /\ dealer' = dealer
           /\ \/ \E s \in Seats \ {activePlayer} : \E S \in WinScores : Ron(s, S)
              \/ \E s \in Seats \ {activePlayer} : \E o \in validActions[s] :
                    o.type \in {"chii", "pon", "kan"} /\ Claim(s, o)
              \/ AdvanceTurn(hands, validActions)
<1> DEFINE s == ResolveInterruptPriority(q)
<1>0. s = ResolveInterruptPriority(q)
  OBVIOUS
<1>1. s # None => s \in DOMAIN q
  BY PriorityWins
<1>2. dealer' = dealer
  BY DEF ResolveInterrupts
<1> HIDE DEF s
<1>3. CASE s # None /\ \E S \in WinScores : Ron(s, S)
  BY <1>1, <1>2, <1>3
<1>4. CASE s # None /\ q[s].type \in {"chii", "pon", "kan"} /\ Claim(s, q[s])
  <2>1. Pass.type = "pass"
    BY OfferFields DEF Pass
  <2>2. q[s] # Pass /\ q[s] \in validActions[s] /\ s \in Seats \ {activePlayer}
    BY <1>1, <1>4, <2>1
  <2> QED
    BY <1>2, <1>4, <2>2
<1>5. CASE AdvanceTurn(hands, validActions)
  BY <1>2, <1>5
<1> QED
  BY <1>0, <1>3, <1>4, <1>5 DEF ResolveInterrupts

LEMMA RonInOrder ==
    ASSUME SeatsInv, TableInv, phase = "WAIT_DISCARDS", NEW s, NEW S, Ron(s, S)
    PROVE  TableInv'
<1>1. /\ UNCHANGED <<activePlayer, wall, activeDiscard, isHaitei>> /\ validActions' = NoOffers
      /\ \E sc, r : FinalizeRoundEnd(sc, r)
      /\ hands' = [hands EXCEPT ![activePlayer].discards = Front(@)]
  BY DEF Ron
<1>2. /\ hands \in [Seats -> HandRec] /\ activePlayer \in Seats /\ HandOK(hands[activePlayer])
      /\ hands[activePlayer].discards # << >> /\ \A q \in Seats : HandOK(hands[q])
  BY DEF SeatsInv, TableInv, HandsOK, WindowFits
<1>3. /\ hands'[activePlayer] = PileHand(hands[activePlayer])
      /\ \A q \in Seats \ {activePlayer} : hands'[q] = hands[q]
      /\ hands' = [q \in Seats |-> hands'[q]]
  BY <1>1, <1>2 DEF PileHand
<1>4. HandOK(hands'[activePlayer])
  BY <1>2, <1>3, PileFacts
<1>5. HandsOK(hands')
  BY <1>2, <1>3, <1>4 DEF HandsOK, HandOK
<1>6. isHaitei' \in BOOLEAN /\ activeDiscard' \in Tiles \cup {None}
  BY <1>1 DEF TableInv
<1> QED
  BY <1>1, <1>5, <1>6, EndInOrder

LEMMA ResolveInOrder ==
    ASSUME SeatsInv, TableInv, phase = "WAIT_DISCARDS",
           NEW q, DOMAIN q \subseteq Seats \ {activePlayer},
           \A y \in DOMAIN q : q[y] \in validActions[y] \cup {Pass},
           ResolveInterrupts(q)
    PROVE  TableInv'
<1>1. CASE \E s \in Seats \ {activePlayer} : \E S \in WinScores : Ron(s, S)
  BY <1>1, RonInOrder
<1>2. CASE \E s \in Seats \ {activePlayer} : \E o \in validActions[s] :
              o.type \in {"chii", "pon", "kan"} /\ Claim(s, o)
  BY <1>2, ClaimInOrder
<1>3. CASE AdvanceTurn(hands, validActions)
  <2>1. /\ activePlayer \in Seats /\ WallOK(wall) /\ HandsOK(hands) /\ OffersOK(validActions)
        /\ isHaitei \in BOOLEAN /\ \A s \in Seats : Flowers(wall, hands[s].closed) = {}
    BY DEF SeatsInv, TableInv, InPlay
  <2> QED
    BY <1>3, <2>1, AdvanceLeaves, LeftInOrder
<1> QED
  BY <1>1, <1>2, <1>3, ResolveGoes

(* The responses in an open window, with one more. *)
LEMMA ResponsesFit ==
    ASSUME SeatsInv, WindowInv, phase = "WAIT_DISCARDS",
           NEW s \in Seats, s # activePlayer, NEW o \in validActions[s] \cup {Pass},
           NEW q, q = Respond(interruptQueue, s, o)
    PROVE  /\ DOMAIN interruptQueue \subseteq Seats \ {activePlayer}
           /\ \A y \in DOMAIN interruptQueue : interruptQueue[y] \in validActions[y] \cup {Pass}
           /\ DOMAIN q \subseteq Seats \ {activePlayer}
           /\ \A y \in DOMAIN q : q[y] \in validActions[y] \cup {Pass}
<1>1. /\ DOMAIN interruptQueue \subseteq Seats \ {activePlayer}
      /\ \A y \in DOMAIN interruptQueue : interruptQueue[y] \in validActions[y] \cup {Pass}
  BY DEF SeatsInv, WindowInv
<1> QED
  BY <1>1 DEF Respond

LEMMA InterruptInOrder ==
    ASSUME SeatsInv, WindowInv, TableInv, NEW s \in Seats, NEW o \in validActions[s] \cup {Pass},
           HandleInterrupt(s, o)
    PROVE  TableInv'
<1> PICK q : q = Respond(interruptQueue, s, o)
  OBVIOUS
<1>1. phase = "WAIT_DISCARDS" /\ s # activePlayer
  BY DEF HandleInterrupt
<1>2. CASE UNCHANGED <<phase, activePlayer, dealer, nextDealer, handNum, wall, hands,
                       validActions, activeDiscard, isHaitei, score, playerReady, roundResult>>
  BY <1>2 DEF TableInv, InPlay, TurnFits, WindowFits
<1>3. CASE ResolveInterrupts(q)
  <2>1. DOMAIN q \subseteq Seats \ {activePlayer} /\ \A y \in DOMAIN q : q[y] \in validActions[y] \cup {Pass}
    BY <1>1, ResponsesFit
  <2> QED
    BY <1>1, <1>3, <2>1, ResolveInOrder
<1> QED
  BY <1>2, <1>3 DEF HandleInterrupt

LEMMA TimerInOrder ==
    ASSUME SeatsInv, WindowInv, TableInv, TimerResolve
    PROVE  TableInv'
<1>1. /\ phase = "WAIT_DISCARDS" /\ ResolveInterrupts(interruptQueue)
      /\ DOMAIN interruptQueue \subseteq Seats \ {activePlayer}
      /\ \A y \in DOMAIN interruptQueue : interruptQueue[y] \in validActions[y] \cup {Pass}
  BY DEF TimerResolve, SeatsInv, WindowInv
<1> QED
  BY <1>1, ResolveInOrder

LEMMA TableStep ==
    ASSUME SeatsInv, WindowInv, TableInv, [Next]_vars
    PROVE  TableInv'
<1>1. CASE UNCHANGED vars
  BY <1>1 DEF vars, TableInv, InPlay, TurnFits, WindowFits
<1>2. CASE Next
  BY <1>2, StartInOrder, DiscardInOrder, KongInOrder, TsumoInOrder, AcceptInOrder, RefuseInOrder,
     InterruptInOrder, TimerInOrder, ReadyInOrder DEF Next
<1> QED
  BY <1>1, <1>2

LEMMA TableInit == Init => TableInv
<1> SUFFICES ASSUME Init PROVE TableInv
  OBVIOUS
<1>1. /\ EmptyHand \in HandRec /\ EmptyHand.closed = {} /\ EmptyHand.size = 0
      /\ Cardinality({}) = 0
  BY FS_EmptySet DEF EmptyHand, HandRec
<1>2. HandsOK([s \in Seats |-> EmptyHand])
  <2>1. HandOK(EmptyHand)
    BY <1>1 DEF HandOK
  <2> QED
    BY <1>1, <2>1 DEF HandsOK
<1> QED
  BY <1>2, NoOffersOK DEF Init, TableInv, InPlay

TableInvs == SeatsInv /\ WindowInv /\ TurnInv /\ MatchInv /\ TableInv

LEMMA TableInvHolds == Spec => []TableInvs
<1>1. Init => TableInv
  BY TableInit
<1>2. SeatsInv /\ WindowInv /\ TurnInv /\ MatchInv /\ TableInv /\ [Next]_vars => TableInv'
  BY TableStep
<1> QED
  BY <1>1, <1>2, MatchInvHolds, PTL DEF Spec, TableInvs

-----------------------------------------------------------------------------
(* The types.                                                               *)

QueueInv == DOMAIN interruptQueue \subseteq Seats

LEMMA QueueStep ==
    ASSUME QueueInv, SeatsInv, [Next]_vars
    PROVE  QueueInv'
<1>1. CASE UNCHANGED vars
  BY <1>1 DEF vars, QueueInv
<1>2. CASE interruptQueue' = interruptQueue
  BY <1>2 DEF QueueInv
<1>3. CASE interruptQueue' = << >>
  BY <1>3 DEF QueueInv
<1>4. ASSUME NEW q, DOMAIN q \subseteq Seats, ResolveInterrupts(q)
      PROVE  QueueInv'
  <2>1. interruptQueue' = << >> \/ interruptQueue' = q
    BY <1>4 DEF ResolveInterrupts, Ron, Claim
  <2> QED
    BY <1>4, <2>1 DEF QueueInv
<1>5. ASSUME NEW s \in Seats, NEW o, HandleInterrupt(s, o)
      PROVE  QueueInv'
  <2>1. DOMAIN Respond(interruptQueue, s, o) \subseteq Seats
    BY DEF QueueInv, Respond
  <2> QED
    BY <1>4, <1>5, <2>1 DEF HandleInterrupt, QueueInv
<1>6. CASE TimerResolve
  BY <1>4, <1>6 DEF TimerResolve, QueueInv
<1>7. CASE \E t \in hands[activePlayer].closed : HandleDiscard(t)
  BY <1>2, <1>3, <1>7 DEF HandleDiscard
<1>8. CASE \E s \in Seats : HandleReady(s)
  BY <1>2, <1>3, <1>8 DEF HandleReady
<1>9. CASE Start
  BY <1>2, <1>9 DEF Start
<1>10. CASE \E o \in validActions[activePlayer] : HandleKong(o)
  BY <1>2, <1>10 DEF HandleKong
<1>11. CASE \E S \in WinScores : HandleTsumo(S)
  BY <1>2, <1>11 DEF HandleTsumo
<1>12. CASE HandleHaiteiAccept
  BY <1>2, <1>12 DEF HandleHaiteiAccept
<1>13. CASE HandleHaiteiRefuse
  BY <1>2, <1>13 DEF HandleHaiteiRefuse
<1> QED
  BY <1>1, <1>5, <1>6, <1>7, <1>8, <1>9, <1>10, <1>11, <1>12, <1>13 DEF Next

LEMMA QueueInvHolds == Spec => [](TableInvs /\ QueueInv)
<1>1. Init => QueueInv
  BY DEF Init, QueueInv
<1>2. TableInvs /\ QueueInv /\ [Next]_vars => QueueInv'
  BY QueueStep DEF TableInvs
<1> QED
  BY <1>1, <1>2, TableInvHolds, PTL DEF Spec

(* Every variable keeps its type: both ends of the wall and WallCount stay  *)
(* in range, no hand's size falls below zero, and no index leaves the wall. *)
THEOREM TypesHold == Spec => []TypeOK
<1>1. ASSUME TableInvs, QueueInv PROVE TypeOK
  <2>1. /\ WallLen \in Nat /\ WordSize \in Nat /\ WallLen < WordSize
    BY WallNumbers
  <2>2. /\ wall.index \in 0 .. WallLen /\ wall.dead \in 0 .. WallLen
        /\ wall.count \in 0 .. WordSize - 1
    <3>1. CASE phase = "INIT"
      BY <1>1, <2>1, <3>1 DEF TableInvs, TableInv
    <3>2. CASE phase # "INIT"
      <4>1. WallOK(wall)
        BY <1>1, <3>2 DEF TableInvs, TableInv
      <4>2. /\ wall.index \in Nat /\ wall.dead \in Nat /\ wall.count \in Nat
            /\ Border(wall) \in Nat /\ wall.index <= Border(wall) /\ Border(wall) + 1 < WallLen
            /\ wall.dead <= WallLen /\ wall.count < WordSize
        BY <4>1, WallNumbersOK DEF WallOK
      <4> QED
        BY <2>1, <4>2
    <3> QED
      BY <3>1, <3>2
  <2>3. ASSUME NEW s \in Seats
        PROVE  /\ hands[s].closed \cup hands[s].flowers \subseteq 0 .. WallLen - 1
               /\ hands[s].size \in Nat /\ hands[s].drawn \in -1 .. WallLen - 1
    <3>1. HandOK(hands[s])
      BY <1>1 DEF TableInvs, TableInv, HandsOK
    <3>2. /\ hands[s].closed \in SUBSET Tiles /\ hands[s].flowers \in SUBSET Tiles
          /\ hands[s].size \in Int /\ hands[s].drawn \in Tiles \cup {None}
          /\ Cardinality(hands[s].closed) <= hands[s].size
      BY <3>1 DEF HandOK, HandRec
    <3>3. Cardinality(hands[s].closed) \in Nat
      BY <3>2, TilesSubset
    <3> QED
      BY <2>1, <3>2, <3>3 DEF Tiles, None
  <2>4. ASSUME NEW s \in Seats
        PROVE  Types(validActions[s]) \subseteq
                   {"discard", "tsumo", "kan", "accept", "refuse", "ron", "pon", "chii"}
    <3>1. validActions[s] \subseteq OfferRec
      BY <1>1 DEF TableInvs, TableInv, OffersOK
    <3> QED
      BY <3>1 DEF Types, OfferRec, OfferTypes
  <2>5. activeDiscard \in -1 .. WallLen - 1
    BY <1>1, <2>1 DEF TableInvs, TableInv, Tiles, None
  <2>6. /\ {activePlayer, dealer} \subseteq Seats /\ nextDealer \in Seats \cup {None}
        /\ score \in [Seats -> Int] /\ DOMAIN interruptQueue \subseteq Seats
    BY <1>1 DEF TableInvs, SeatsInv, QueueInv
  <2>7. /\ phase \in {"INIT", "PLAYER_TURN", "WAIT_DISCARDS", "ROUND_END", "MATCH_END"}
        /\ handNum \in Nat \ {0} /\ playerReady \subseteq Seats
    BY <1>1 DEF TableInvs, MatchInv
  <2>8. isHaitei \in BOOLEAN
    BY <1>1 DEF TableInvs, TableInv
  <2> QED
    BY <2>2, <2>3, <2>4, <2>5, <2>6, <2>7, <2>8 DEF TypeOK
<1> QED
  BY <1>1, QueueInvHolds, PTL

(* Whatever was claimed before, the claims of an open window can be         *)
(* carried out: their tiles are in the hands, a pon or kan is of the face   *)
(* of the discard, and the discard is still on top of its pile.             *)
THEOREM ClaimsCanBeMade == Spec => []ClaimsExecutable
<1>1. ASSUME TableInvs PROVE ClaimsExecutable
  <2> SUFFICES ASSUME phase = "WAIT_DISCARDS"
               PROVE  /\ \A s \in Seats \ {activePlayer} : \A o \in validActions[s] :
                            o.tiles \subseteq hands[s].closed
                      /\ \A s \in DOMAIN interruptQueue :
                            interruptQueue[s].tiles \subseteq hands[s].closed
                      /\ \A s \in Seats \ {activePlayer} : \A o \in validActions[s] :
                            o.type \in {"pon", "kan"} =>
                                \A t \in o.tiles : SameFace(wall, t, activeDiscard)
                      /\ Last(hands[activePlayer].discards) = activeDiscard
    BY DEF ClaimsExecutable
  <2>1. WindowFits
    BY <1>1 DEF TableInvs, TableInv
  <2>2. \A s \in Seats : \A o \in validActions[s] :
           /\ o.tiles \subseteq hands[s].closed
           /\ o.type \in {"pon", "kan"} => \A t \in o.tiles : SameFace(wall, t, activeDiscard)
    BY <2>1 DEF WindowFits, Fits
  <2>3. \A s \in DOMAIN interruptQueue : interruptQueue[s].tiles \subseteq hands[s].closed
    <3>1. \A s \in DOMAIN interruptQueue :
             s \in Seats /\ interruptQueue[s] \in validActions[s] \cup {Pass}
      BY <1>1 DEF TableInvs, SeatsInv, WindowInv
    <3>2. Pass.tiles = {}
      BY OfferFields DEF Pass
    <3> QED
      BY <2>2, <3>1, <3>2
  <2> QED
    BY <2>1, <2>2, <2>3 DEF WindowFits
<1> QED
  BY <1>1, TableInvHolds, PTL

-----------------------------------------------------------------------------
(* After a chii or a pon.                                                   *)

LEMMA DiscardGrows ==
    ASSUME SeatsInv, TableInv, NEW t, HandleDiscard(t)
    PROVE  hands'[activePlayer].discards # hands[activePlayer].discards
<1> PICK a : a = activePlayer
  OBVIOUS
<1> PICK g : g = Discarding(a, t)
  OBVIOUS
<1> PICK v : v = Offers(wall, g, a, t, isHaitei)
  OBVIOUS
<1>1. /\ a \in Seats /\ WallOK(wall) /\ HandsOK(hands) /\ isHaitei \in BOOLEAN
      /\ t \in hands[a].closed /\ \A s \in Seats : Flowers(wall, hands[s].closed) = {}
  <2>1. InTurn("discard") /\ t \in hands[a].closed
    BY DEF HandleDiscard
  <2> QED
    BY <2>1 DEF InTurn, SeatsInv, TableInv, InPlay
<1>2. /\ HandsOK(g) /\ g[a] = Discarded(hands[a], t) /\ HandOK(hands[a])
      /\ \A s \in Seats \ {a} : g[s] = hands[s]
  BY <1>1, DiscardHands DEF HandsOK
<1>3. /\ g[a].discards = Append(hands[a].discards, t) /\ g[a].closed = hands[a].closed \ {t}
  BY <1>1, <1>2, DiscardFacts
<1>4. g[a].discards # hands[a].discards
  <2>1. hands[a].discards \in Seq(Tiles)
    BY <1>2 DEF HandOK, HandRec
  <2>2. Len(Append(hands[a].discards, t)) = Len(hands[a].discards) + 1 /\ Len(hands[a].discards) \in Nat
    BY <2>1
  <2> QED
    BY <1>3, <2>2
<1>5. ASSUME AdvanceTurn(g, v)
      PROVE  hands'[a] = g[a]
  <2>1. /\ NextSeat(a) \in Seats /\ a # NextSeat(a)
    BY <1>1 DEF Seats, NextSeat
  <2>2. ExecuteSystemDraw(NextSeat(a), wall, g, v)
    BY <1>5 DEF AdvanceTurn
  <2>3. \A s \in Seats : Flowers(wall, g[s].closed) = {}
    BY <1>1, <1>2, <1>3 DEF Flowers
  <2>4. OffersOK(v)
    <3>1. t \in Tiles
      BY <1>1, <1>2 DEF HandOK, HandRec
    <3> QED
      BY <1>1, <1>2, <3>1, OffersFit
  <2>5. \A s \in Seats \ {NextSeat(a)} : hands'[s] = g[s]
    BY <1>1, <1>2, <2>1, <2>2, <2>3, <2>4, SystemDrawTable
  <2> QED
    BY <1>1, <2>1, <2>5
<1>6. hands' = g \/ AdvanceTurn(g, v)
  BY DiscardGoes DEF WindowOpens, HaiteiKept
<1> QED
  BY <1>4, <1>5, <1>6

LEMMA StealStep ==
    ASSUME TableInvs, [Next]_vars, phase = "PLAYER_TURN", hands[activePlayer].drawn = None,
           ~HaiteiOffered, ~UNCHANGED vars
    PROVE  hands'[activePlayer].discards # hands[activePlayer].discards
<1>1. SeatsInv /\ TableInv
  BY DEF TableInvs
<1>2. ~InTurn("accept")
  BY DEF HaiteiOffered
<1>3. ASSUME NEW o, HandleKong(o) PROVE FALSE
  <2> PICK g : g = Konging(activePlayer, o)
    OBVIOUS
  <2> QED
    BY <1>1, <1>3, KongGoes
<1>4. ASSUME NEW S, HandleTsumo(S) PROVE FALSE
  <2>1. InTurn("tsumo")
    BY <1>4 DEF HandleTsumo
  <2>2. /\ TurnOffers(wall, hands[activePlayer], isHaitei, validActions[activePlayer])
        /\ isHaitei => hands[activePlayer].drawn # None
    BY <1>1, <2>1, TurnKinds
  <2>3. PICK o \in validActions[activePlayer] : o.type = "tsumo"
    BY <2>1, OfferedTypes DEF InTurn, Offered
  <2> QED
    BY <2>2, <2>3 DEF TurnOffers
<1>5. ASSUME HandleHaiteiRefuse PROVE FALSE
  <2>1. InTurn("refuse")
    BY <1>5 DEF HandleHaiteiRefuse
  <2>2. validActions[activePlayer] = HaiteiOffers
    BY <1>1, <2>1, TurnKinds
  <2>3. InTurn("accept")
    BY <2>2, OfferedTypes DEF InTurn, Offered
  <2> QED
    BY <1>2, <2>3
<1>6. ~HandleHaiteiAccept
  BY <1>2 DEF HandleHaiteiAccept
<1>7. /\ ~Start /\ ~TimerResolve /\ \A s, o : ~HandleInterrupt(s, o) /\ ~HandleReady(s)
  BY DEF Start, TimerResolve, HandleInterrupt, HandleReady
<1>8. PICK t : HandleDiscard(t)
  BY <1>3, <1>4, <1>5, <1>6, <1>7 DEF Next
<1> QED
  BY <1>1, <1>8, DiscardGrows

(* GetValidActions and the claims: whatever hand a chii or pon leaves, and  *)
(* whatever flowers it shows, the claimer has no tile drawn, so that no     *)
(* tsumo or kong is offered, and its next step is a discard.                *)
THEOREM ClaimersDiscard == Spec => StealThenDiscard
<1>1. TableInvs /\ [Next]_vars =>
        [ phase = "PLAYER_TURN" /\ hands[activePlayer].drawn = None /\ ~HaiteiOffered
              => hands'[activePlayer].discards # hands[activePlayer].discards ]_vars
  BY StealStep
<1> QED
  BY <1>1, TableInvHolds, PTL DEF Spec, StealThenDiscard

-----------------------------------------------------------------------------
(* The draws, seen from the wall alone.                                     *)

(* The operators of module Wall are those of module Game. *)
LEMMA WallOps ==
    /\ \A d, n, m : W!BackDraws(WallLen, d, n, m) = BackDraws(WallLen, d, n, m)
    /\ \A k : W!DeadWallSlot(WallLen, k) = Slot(k)
    /\ \A d : W!WangpaiBoundary(WallLen, d) = WangpaiBoundary(WallLen, d)
    /\ \A d : W!WildIndicator(WallLen, d) = WildIndicator(WallLen, d)
    /\ \A d, f, n, i : W!IsNextFront(WallLen, d, f, n, i) = IsNextFront(WallLen, d, f, n, i)
    /\ \A d, n : W!FindHaitei(WallLen, d, n) = FindHaitei(WallLen, d, n)
    /\ \A S : W!Cardinality(S) = Cardinality(S)
<1>1. \A k : W!DeadWallSlot(WallLen, k) = Slot(k)
  BY DEF W!DeadWallSlot, Slot, DeadWallSlot
<1>2. \A d : W!WangpaiBoundary(WallLen, d) = WangpaiBoundary(WallLen, d)
  BY DEF W!WangpaiBoundary, WangpaiBoundary
<1>3. \A d : W!WildIndicator(WallLen, d) = WildIndicator(WallLen, d)
  BY <1>2 DEF W!WildIndicator, WildIndicator
<1>4. \A d, n, m : W!BackDraws(WallLen, d, n, m) = BackDraws(WallLen, d, n, m)
  BY <1>1, <1>3 DEF W!BackDraws, BackDraws, Slot
<1>5. \A n : W!ConsumedByDeadWall(WallLen, n) = ConsumedByDeadWall(WallLen, n)
  BY <1>1 DEF W!ConsumedByDeadWall, ConsumedByDeadWall, Slot
<1>6. \A d, f, n, i : W!IsNextFront(WallLen, d, f, n, i) = IsNextFront(WallLen, d, f, n, i)
  BY <1>2, <1>5 DEF W!IsNextFront, IsNextFront
<1>7. \A d : W!HaiteiSlot(WallLen, d) = HaiteiSlot(WallLen, d)
  BY <1>3 DEF W!HaiteiSlot, HaiteiSlot
<1>8. \A d, n : W!FindHaitei(WallLen, d, n) = FindHaitei(WallLen, d, n)
  BY <1>5, <1>7 DEF W!FindHaitei, FindHaitei
<1>9. \A S : W!Cardinality(S) = Cardinality(S)
  BY DEF W!Cardinality, Cardinality
<1> QED
  BY <1>1, <1>2, <1>3, <1>4, <1>6, <1>8, <1>9

LEMMA DispensedIs == Dispensed = Handed(wall) /\ Dispensed' = Handed(wall')
BY DEF Dispensed, Handed

(* Whether a call leaves a hand in play and the haitei tile on offer. *)
LEMMA StageTurn ==
    ASSUME NEW seat, activePlayer' = seat, PlayOn("PLAYER_TURN"),
           NEW w, NEW h, NEW haitei, TurnOffers(w, h, haitei, validActions'[seat])
    PROVE  InPlay' /\ ~HaiteiOffered' /\ phase' = "PLAYER_TURN"
<1>1. phase' = "PLAYER_TURN"
  BY DEF PlayOn
<1>2. "accept" \notin Types(validActions'[seat])
  BY OfferedTypes DEF TurnOffers
<1> QED
  BY <1>1, <1>2 DEF InPlay, HaiteiOffered, InTurn, Offered

LEMMA StageOffered ==
    ASSUME NEW seat, activePlayer' = seat, PlayOn("PLAYER_TURN"), validActions'[seat] = HaiteiOffers
    PROVE  InPlay' /\ HaiteiOffered' /\ phase' = "PLAYER_TURN"
<1>1. phase' = "PLAYER_TURN"
  BY DEF PlayOn
<1>2. "accept" \in Types(validActions'[seat])
  BY OfferedTypes
<1> QED
  BY <1>1, <1>2 DEF InPlay, HaiteiOffered, InTurn, Offered

LEMMA StageOver ==
    ASSUME NEW sc, NEW r, FinalizeRoundEnd(sc, r)
    PROVE  ~InPlay' /\ phase' \in {"ROUND_END", "MATCH_END"}
BY EndPhase DEF InPlay

(* The replacements are legal back draws. *)
LEMMA ReplaceMapped ==
    ASSUME MaxChain >= WallLen, NEW seat \in Seats, activePlayer' = seat,
           NEW w, WallOK(w), NEW hs, NEW due, NEW r \in Nat, Replaced(seat, w, hs, due, r),
           NEW m, m = AfterBackDraws(w, r)
    PROVE  /\ W!Replace(w.dice, w.index, w.dead, m, w.count, Handed(w))
           /\ m \in W!BackCounters(w.dead)
           /\ r > 0 => m > w.dead
           /\ wall'.dice = w.dice /\ wall'.index = w.index /\ wall'.haitei = w.haitei
           /\ phase' # "INIT"
<1>1. /\ EndsOK(w) /\ w.dead \in Nat /\ w.dice \in Nat \ {0} /\ w.count \in Nat /\ w.index \in Nat
      /\ WallLen \in Nat /\ IndicatorDraw(w) \in Nat
      /\ Slot(IndicatorDraw(w)) = WildIndicator(WallLen, w.dice)
  BY WallNumbersOK, IndicatorSlot
<1>2. /\ r <= w.count /\ \A q \in 0 .. r - 1 : ~BackEmpty(w, q)
      /\ wall' = WallAfter(w, r)
  BY DEF Replaced
<1>3. /\ wall'.index = w.index /\ wall'.dice = w.dice /\ wall'.haitei = w.haitei
      /\ wall'.count = w.count - r /\ wall'.dead = m
      /\ Handed(wall') = Handed(w) \cup BackTiles(w, r)
  BY <1>2, BackDrawFacts
<1>4. /\ Cardinality(BackTiles(w, r)) = r /\ m \in w.dead .. WallLen
  BY <1>1, <1>2, BackTilesFacts
<1>5. /\ m \in Nat /\ m \in {w.dead + r, w.dead + r + 1} /\ (r = 0 => m = w.dead)
      /\ (r > 0 => m - 1 # IndicatorDraw(w))
  BY <1>1, AfterFacts
<1>6. r > 0 => m > w.dead
  BY <1>1, <1>5
<1>7. W!BackDraws(WallLen, w.dice, w.dead, m) = BackTiles(w, r)
  BY WallOps DEF BackTiles
<1>8. W!BackDrawsLegal(w.dice, w.index, w.dead, m, w.count)
  <2>1. m > w.dead => W!DeadWallSlot(WallLen, m - 1) # W!WildIndicator(WallLen, w.dice)
    <3> SUFFICES ASSUME m > w.dead PROVE Slot(m - 1) # Slot(IndicatorDraw(w))
      BY <1>1, WallOps
    <3>1. m - 1 \in Nat /\ m - 1 # IndicatorDraw(w)
      BY <1>1, <1>5
    <3> QED
      BY <1>1, <3>1, SlotFacts
  <2>2. \A k \in w.dead .. m - 1 : W!DeadWallSlot(WallLen, k) >= w.index
    BY <1>1, <1>2, SlotsAboveFront, WallOps
  <2>3. W!Cardinality(W!BackDraws(WallLen, w.dice, w.dead, m)) <= w.count
    BY <1>2, <1>4, <1>7, WallOps
  <2> QED
    BY <2>1, <2>2, <2>3 DEF W!BackDrawsLegal
<1>9. \/ InPlay' /\ ~HaiteiOffered' /\ phase' # "INIT"
      \/ ~InPlay' /\ BackEmpty(w, r) /\ phase' # "INIT"
  <2>1. CASE PlayOn("PLAYER_TURN") /\ TurnOffers(wall', hands'[seat], isHaitei', validActions'[seat])
    BY <2>1, StageTurn
  <2>2. CASE EndRoundInDraw /\ BackEmpty(w, r)
    BY <2>2, StageOver DEF EndRoundInDraw
  <2> QED
    BY <2>1, <2>2 DEF Replaced
<1>10. W!Cardinality(W!BackDraws(WallLen, w.dice, w.dead, m)) = r
  BY <1>4, <1>7, WallOps
<1>11. BackEmpty(w, r) => W!BackExhausted(w.index, m, w.count - r)
  BY <1>1, WallOps DEF BackEmpty, W!BackExhausted, Slot
<1>12. W!Replace(w.dice, w.index, w.dead, m, w.count, Handed(w))
  BY <1>3, <1>7, <1>8, <1>9, <1>10, <1>11, DispensedIs DEF W!Replace
<1>13. m \in W!BackCounters(w.dead)
  <2>1. MaxChain \in Nat
    BY GameAssumption
  <2> QED
    BY <1>1, <1>4, <2>1 DEF W!BackCounters
<1> QED
  BY <1>3, <1>6, <1>9, <1>12, <1>13

(* A draw from the front is one of module Wall's, or the live wall is       *)
(* exhausted.                                                               *)
DrawnFront(w) ==
    \E m \in W!BackCounters(w.dead) :
        W!DrawFront(w.dice, w.index, w.dead, m, w.count, Handed(w))
FoundExhausted(w) ==
    /\ NextFront(w) = Border(w) /\ wall'.index = Border(w)
    /\ wall'.dead = w.dead /\ wall'.count = w.count /\ Handed(wall') = Handed(w)
    /\ IF FindHaitei(WallLen, w.dice, w.dead) = -1
       THEN ~InPlay' ELSE InPlay' /\ HaiteiOffered'

LEMMA DrawMapped ==
    ASSUME MaxChain >= WallLen, NEW seat \in Seats, activePlayer' = seat,
           NEW w, WallOK(w), NEW hs, HandsOK(hs), NEW va, OffersOK(va),
           isHaitei \in BOOLEAN, \A s \in Seats : Flowers(w, hs[s].closed) = {},
           ExecuteSystemDraw(seat, w, hs, va)
    PROVE  /\ wall'.dice = w.dice /\ wall'.haitei = w.haitei /\ phase' # "INIT"
           /\ DrawnFront(w) \/ FoundExhausted(w)
<1>1. ASSUME NEW g, NEW r \in Nat, FrontDrawn(seat, w, hs, g, r)
      PROVE  /\ wall'.dice = w.dice /\ wall'.haitei = w.haitei /\ phase' # "INIT"
             /\ DrawnFront(w)
  <2> PICK i : i = NextFront(w)
    OBVIOUS
  <2> PICK v : v = Taken(w, i)
    OBVIOUS
  <2> PICK m : m = AfterBackDraws(v, r)
    OBVIOUS
  <2>1. i < Border(w) /\ Replaced(seat, v, g, 0, r)
    BY <1>1 DEF FrontDrawn
  <2>2. /\ i \in w.index .. Border(w) /\ IsNextFront(WallLen, w.dice, w.index, w.dead, i)
        /\ WallOK(v) /\ Handed(v) = Handed(w) \cup {i} /\ v.dice = w.dice /\ v.index = i + 1
        /\ v.dead = w.dead /\ v.haitei = w.haitei /\ v.count = w.count - 1
    BY <2>1, FrontDrawFacts
  <2>3. /\ W!Replace(v.dice, v.index, v.dead, m, v.count, Handed(v))
        /\ m \in W!BackCounters(v.dead)
        /\ wall'.dice = v.dice /\ wall'.index = v.index /\ wall'.haitei = v.haitei
        /\ phase' # "INIT"
    BY <2>1, <2>2, ReplaceMapped
  <2>4. W!Replace(w.dice, i + 1, w.dead, m, w.count - 1, Handed(w) \cup {i})
    BY <2>2, <2>3
  <2>5. i \in w.index .. W!WangpaiBoundary(WallLen, w.dice) - 1
    <3>1. w.index \in Nat /\ Border(w) \in Nat
      BY WallNumbersOK
    <3> QED
      BY <2>1, <2>2, <3>1, WallOps DEF Border
  <2>6. W!DrawFront(w.dice, w.index, w.dead, m, w.count, Handed(w))
    <3>1. W!IsNextFront(WallLen, w.dice, w.index, w.dead, i) /\ wall'.index = i + 1
      BY <2>2, <2>3, WallOps
    <3> QED
      BY ONLY <2>4, <2>5, <3>1, Zenon DEF W!DrawFront
  <2> QED
    BY <2>2, <2>3, <2>6 DEF DrawnFront
<1>2. CASE WallExhausted(seat, w, hs)
  <2> PICK v : v = [w EXCEPT !.index = Border(w)]
    OBVIOUS
  <2>1. /\ NextFront(w) = Border(w) /\ wall' = v
        /\ IF FindHaitei(WallLen, w.dice, w.dead) # -1
           THEN validActions'[seat] = HaiteiOffers /\ PlayOn("PLAYER_TURN")
           ELSE EndRoundInDraw
    BY <1>2 DEF WallExhausted
  <2>2. /\ Handed(v) = Handed(w) /\ v.dice = w.dice /\ v.index = Border(w)
        /\ v.dead = w.dead /\ v.haitei = w.haitei /\ v.count = w.count
    BY <2>1, ExhaustedFacts
  <2>3. CASE FindHaitei(WallLen, w.dice, w.dead) # -1
    <3>1. InPlay' /\ HaiteiOffered' /\ phase' = "PLAYER_TURN"
      BY <2>1, <2>3, StageOffered
    <3> QED
      BY <2>1, <2>2, <2>3, <3>1 DEF FoundExhausted
  <2>4. CASE FindHaitei(WallLen, w.dice, w.dead) = -1
    <3>1. ~InPlay' /\ phase' \in {"ROUND_END", "MATCH_END"}
      BY <2>1, <2>4, StageOver DEF EndRoundInDraw
    <3> QED
      BY <2>1, <2>2, <2>4, <3>1 DEF FoundExhausted
  <2> QED
    BY <2>3, <2>4
<1> QED
  BY <1>1, <1>2, SystemDrawGoes

(* The next turn. *)
LEMMA AdvanceMapped ==
    ASSUME MaxChain >= WallLen, SeatsInv, WallOK(wall), InPlay, ~HaiteiOffered,
           NEW hs, HandsOK(hs), NEW va, OffersOK(va), isHaitei \in BOOLEAN,
           \A s \in Seats : Flowers(wall, hs[s].closed) = {},
           AdvanceTurn(hs, va)
    PROVE  W!Next
<1> PICK seat : seat = NextSeat(activePlayer)
  OBVIOUS
<1>1. /\ seat \in Seats /\ activePlayer' = seat /\ ExecuteSystemDraw(seat, wall, hs, va)
  BY SeatFacts DEF AdvanceTurn, SeatsInv
<1>2. /\ wall'.dice = wall.dice /\ wall'.haitei = wall.haitei /\ phase' # "INIT"
      /\ DrawnFront(wall) \/ FoundExhausted(wall)
  BY <1>1, DrawMapped
<1>3. phase # "INIT"
  BY DEF InPlay
<1>4. CASE DrawnFront(wall)
  <2>1. PICK m \in W!BackCounters(wall.dead) :
             W!DrawFront(wall.dice, wall.index, wall.dead, m, wall.count, Handed(wall))
    BY <1>4 DEF DrawnFront
  <2>2. W!SystemDraw(m)
    BY <1>2, <1>3, <2>1, DispensedIs DEF W!SystemDraw
  <2> QED
    BY <2>1, <2>2 DEF W!Next
<1>5. CASE FoundExhausted(wall)
  <2>1. W!IsNextFront(WallLen, wall.dice, wall.index, wall.dead, Border(wall))
    <3>1. IsNextFront(WallLen, wall.dice, wall.index, wall.dead, NextFront(wall))
      BY FrontDrawFacts
    <3> QED
      BY <1>5, <3>1, WallOps DEF FoundExhausted
  <2>2. W!LiveWallExhausted
    BY <1>2, <1>3, <1>5, <2>1, WallOps, DispensedIs
       DEF W!LiveWallExhausted, FoundExhausted, W!Boundary, Border
  <2> QED
    BY <2>2 DEF W!Next
<1> QED
  BY <1>2, <1>4, <1>5

(* A hand ends without a draw. *)
LEMMA EndMapped ==
    ASSUME InPlay, wall' = wall, NEW sc, NEW r, FinalizeRoundEnd(sc, r)
    PROVE  W!Next
<1>1. ~InPlay' /\ phase' # "INIT" /\ phase # "INIT"
  BY StageOver DEF InPlay
<1>2. Dispensed' = Dispensed
  BY DispensedIs
<1>3. W!EndHand
  BY <1>1, <1>2 DEF W!EndHand
<1> QED
  BY <1>3 DEF W!Next

(* A call that draws nothing and ends nothing. *)
LEMMA StutterMapped ==
    ASSUME wall'.dice = wall.dice, wall'.index = wall.index, wall'.dead = wall.dead,
           wall'.haitei = wall.haitei, wall'.count = wall.count,
           InPlay' <=> InPlay, HaiteiOffered' <=> HaiteiOffered,
           (phase' = "INIT") <=> (phase = "INIT")
    PROVE  UNCHANGED W!vars
<1>1. Dispensed' = Dispensed
  BY DispensedIs DEF Handed
<1> QED
  BY <1>1 DEF W!vars

(* The wall of a new hand, once the dealt flowers are replaced: they came   *)
(* from the back, and the first draw finds a tile.                          *)
LEMMA DealtWallMapped ==
    ASSUME MaxChain >= WallLen, NEW w, NEW hs, DealOK(w, hs, Seats)
    PROVE  /\ w.dead \in W!BackCounters(0)
           /\ W!BackDrawsLegal(w.dice, 4 * HandTiles, 0, w.dead, WallLen - 4 * HandTiles - 1)
           /\ Handed(w) = (0 .. 4 * HandTiles - 1) \cup BackDraws(WallLen, w.dice, 0, w.dead)
           /\ w.count = WallLen - 4 * HandTiles - 1
                            - Cardinality(BackDraws(WallLen, w.dice, 0, w.dead))
           /\ NextFront(w) # Border(w)
<1> PICK flowers : flowers = BackDraws(WallLen, w.dice, 0, w.dead)
  OBVIOUS
<1> PICK few : few = Cardinality(Flowers(w, Tiles))
  OBVIOUS
<1>1. /\ WallOK(w) /\ EndsOK(w) /\ w.dead \in Nat /\ w.dice \in Nat \ {0} /\ w.dice \in DiceSums
      /\ w.count \in Nat /\ w.index = 4 * HandTiles /\ w.haitei = None
      /\ WallLen \in Nat /\ HandTiles \in Nat /\ w.dead <= WallLen
      /\ IndicatorDraw(w) \in Nat /\ Slot(IndicatorDraw(w)) = WildIndicator(WallLen, w.dice)
      /\ 4 * HandTiles + 1 <= Border(w) /\ Border(w) \in Nat
  BY WallNumbersOK, IndicatorSlot, WallNumbers DEF DealOK, Border
<1>2. /\ Made(w) \in Nat /\ Made(w) <= few /\ few \in Nat /\ 4 * HandTiles + 3 + few <= WallLen
  <2>1. Shown(hs) \subseteq Flowers(w, Tiles) /\ Made(w) <= Cardinality(Shown(hs)) /\ Made(w) \in Nat
    BY DEF DealOK
  <2>2. /\ few \in Nat /\ IsFiniteSet(Flowers(w, Tiles)) /\ 4 * HandTiles + 3 + few <= WallLen
    BY <1>1, FewFlowers
  <2>3. Cardinality(Shown(hs)) <= few /\ Cardinality(Shown(hs)) \in Nat
    BY <2>1, <2>2, FS_Subset, FS_CardinalityType
  <2> QED
    BY <2>1, <2>2, <2>3
<1>3. w.dead = IF Made(w) > IndicatorDraw(w) THEN Made(w) + 1 ELSE Made(w)
  BY DEF DealOK
<1>4. w.dead <= few + 1 /\ (w.dead > 0 => w.dead - 1 # IndicatorDraw(w))
  BY <1>1, <1>2, <1>3
<1>5. \A k \in 0 .. w.dead - 1 : Slot(k) \in Int /\ Slot(k) > 4 * HandTiles
  <2> SUFFICES ASSUME NEW k \in 0 .. w.dead - 1 PROVE Slot(k) \in Int /\ Slot(k) > 4 * HandTiles
    OBVIOUS
  <2>1. k \in Nat /\ k <= few
    BY <1>1, <1>2, <1>4
  <2>2. Slot(k) \in Int /\ Slot(k) >= WallLen - 2 - k
    BY <2>1, SlotFacts
  <2> QED
    BY <1>1, <1>2, <2>1, <2>2
<1>6. w.dead \in W!BackCounters(0)
  <2>1. MaxChain \in Nat
    BY GameAssumption
  <2> QED
    BY <1>1, <2>1 DEF W!BackCounters
<1>7. Handed(w) = (0 .. 4 * HandTiles - 1) \cup flowers
  BY <1>1 DEF Handed
<1>8. flowers \subseteq { Slot(k) : k \in 0 .. w.dead - 1 }
  BY DEF BackDraws, Slot
<1>9. /\ IsFiniteSet(0 .. 4 * HandTiles - 1) /\ Cardinality(0 .. 4 * HandTiles - 1) = 4 * HandTiles
  <2> DEFINE n == 4 * HandTiles - 1
  <2>1. 0 \in Int /\ n \in Int
    BY <1>1
  <2>2. IsFiniteSet(0 .. n) /\ Cardinality(0 .. n) = IF 0 > n THEN 0 ELSE n - 0 + 1
    BY ONLY <2>1, FS_Interval
  <2> QED
    BY <1>1, <2>2
<1>10. (0 .. 4 * HandTiles - 1) \cap flowers = {}
  BY <1>1, <1>5, <1>8
<1>11. IsFiniteSet(flowers)
  <2>1. IsFiniteSet(Handed(w))
    BY <1>1, HandedFacts
  <2> QED
    BY <1>7, <2>1, FS_Subset
<1>12. Cardinality(Handed(w)) = 4 * HandTiles + Cardinality(flowers) /\ Cardinality(flowers) \in Nat
  BY <1>7, <1>9, <1>10, <1>11, DisjointUnion
<1>13. w.count = WallLen - 4 * HandTiles - 1 - Cardinality(flowers)
  <2>1. w.count = WallLen - 1 - Cardinality(Handed(w))
    BY <1>1 DEF WallOK
  <2> QED
    BY <1>1, <1>12, <2>1
<1>14. W!BackDrawsLegal(w.dice, 4 * HandTiles, 0, w.dead, WallLen - 4 * HandTiles - 1)
  <2>1. w.dead > 0 => W!DeadWallSlot(WallLen, w.dead - 1) # W!WildIndicator(WallLen, w.dice)
    <3> SUFFICES ASSUME w.dead > 0 PROVE Slot(w.dead - 1) # Slot(IndicatorDraw(w))
      BY <1>1, WallOps
    <3>1. w.dead - 1 \in Nat /\ w.dead - 1 # IndicatorDraw(w)
      BY <1>1, <1>4
    <3> QED
      BY <1>1, <3>1, SlotFacts
  <2>2. \A k \in 0 .. w.dead - 1 : W!DeadWallSlot(WallLen, k) >= 4 * HandTiles
    BY <1>1, <1>5, WallOps
  <2>3. W!Cardinality(W!BackDraws(WallLen, w.dice, 0, w.dead)) <= WallLen - 4 * HandTiles - 1
    BY <1>1, <1>12, <1>13, WallOps
  <2> QED
    BY <2>1, <2>2, <2>3 DEF W!BackDrawsLegal
<1>15. NextFront(w) # Border(w)
  <2> SUFFICES ASSUME NextFront(w) = Border(w) PROVE FALSE
    OBVIOUS
  <2>1. IsNextFront(WallLen, w.dice, w.index, w.dead, Border(w))
    BY <1>1, FrontDrawFacts
  <2>2. 4 * HandTiles \in w.index .. Border(w) - 1
    BY <1>1
  <2>3. 4 * HandTiles \in { Slot(k) : k \in 0 .. w.dead - 1 }
    BY <2>1, <2>2 DEF IsNextFront, ConsumedByDeadWall, Slot
  <2> QED
    BY <1>1, <1>5, <2>3
<1> QED
  BY <1>6, <1>7, <1>13, <1>14, <1>15

LEMMA DealMapped ==
    ASSUME MaxChain >= WallLen, isHaitei \in BOOLEAN, ~InPlay,
           NEW faces \in Walls, NEW d \in DiceSums, NEW first \in Seats, Deal(faces, d, first)
    PROVE  W!Next
<1>1. activePlayer' = first
  BY DealTable
<1>2. PICK t : /\ TableOK(t, Seats) /\ t.w.faces = faces /\ t.w.dice = d
               /\ ExecuteSystemDraw(first, t.w, t.hs, NoOffers)
  BY DealTable
<1> PICK w : w = t.w
  OBVIOUS
<1>3. /\ DealOK(w, t.hs, Seats) /\ WallOK(w) /\ HandsOK(t.hs) /\ w.dice = d
      /\ w.index = 4 * HandTiles /\ w.haitei = None
      /\ \A s \in Seats : Flowers(w, t.hs[s].closed) = {}
  BY <1>2 DEF TableOK, DealOK
<1>4. /\ wall'.dice = d /\ wall'.haitei = None /\ phase' # "INIT"
      /\ DrawnFront(w) \/ FoundExhausted(w)
  BY <1>1, <1>2, <1>3, NoOffersOK, DrawMapped
<1>5. /\ w.dead \in W!BackCounters(0)
      /\ W!BackDrawsLegal(w.dice, 4 * HandTiles, 0, w.dead, WallLen - 4 * HandTiles - 1)
      /\ Handed(w) = (0 .. 4 * HandTiles - 1) \cup BackDraws(WallLen, w.dice, 0, w.dead)
      /\ w.count = WallLen - 4 * HandTiles - 1
                       - Cardinality(BackDraws(WallLen, w.dice, 0, w.dead))
      /\ NextFront(w) # Border(w)
  BY <1>3, DealtWallMapped
<1>6. PICK m \in W!BackCounters(w.dead) :
           W!DrawFront(w.dice, w.index, w.dead, m, w.count, Handed(w))
  BY <1>4, <1>5 DEF DrawnFront, FoundExhausted
<1>7. W!Deal(d, w.dead, m)
  <2>1. W!BackDraws(WallLen, d, 0, w.dead) = BackDraws(WallLen, d, 0, w.dead)
        /\ W!Cardinality(BackDraws(WallLen, d, 0, w.dead)) = Cardinality(BackDraws(WallLen, d, 0, w.dead))
    BY WallOps
  <2>2. W!DrawFront(d, 4 * HandTiles, w.dead, m,
            WallLen - 4 * HandTiles - 1 - W!Cardinality(W!BackDraws(WallLen, d, 0, w.dead)),
            (0 .. 4 * HandTiles - 1) \cup W!BackDraws(WallLen, d, 0, w.dead))
    BY <1>3, <1>5, <1>6, <2>1
  <2> QED
    BY <1>3, <1>4, <1>5, <2>2 DEF W!Deal, None
<1> QED
  BY <1>5, <1>6, <1>7 DEF W!Next

LEMMA NoBackDraw ==
    ASSUME NEW w, WallOK(w)
    PROVE  AfterBackDraws(w, 0) = w.dead /\ BackTiles(w, 0) = {}
<1>1. AfterBackDraws(w, 0) = w.dead
  BY WallNumbersOK DEF AfterBackDraws
<1>2. w.dead .. w.dead - 1 = {}
  BY WallNumbersOK
<1> QED
  BY <1>1, <1>2 DEF BackTiles, BackDraws

(* A draw from the back after a kong. *)
LEMMA DeadDrawMapped ==
    ASSUME MaxChain >= WallLen, NEW seat \in Seats, activePlayer' = seat, WallOK(wall),
           InPlay, ~HaiteiOffered, NEW hs, NEW r \in Nat, Replaced(seat, wall, hs, 1, r)
    PROVE  W!Next
<1> PICK m : m = AfterBackDraws(wall, r)
  OBVIOUS
<1>1. /\ W!Replace(wall.dice, wall.index, wall.dead, m, wall.count, Handed(wall))
      /\ m \in W!BackCounters(wall.dead)
      /\ r > 0 => m > wall.dead
      /\ wall'.dice = wall.dice /\ wall'.index = wall.index /\ wall'.haitei = wall.haitei
      /\ phase' # "INIT" /\ phase # "INIT"
  BY ReplaceMapped DEF InPlay
<1>2. r = 0 => ~InPlay' /\ W!BackExhausted(wall.index, wall.dead, wall.count)
  <2> SUFFICES ASSUME r = 0 PROVE ~InPlay' /\ W!BackExhausted(wall.index, wall.dead, wall.count)
    OBVIOUS
  <2>1. EndRoundInDraw /\ BackEmpty(wall, r)
    BY DEF Replaced
  <2>2. ~InPlay'
    BY <2>1, StageOver DEF EndRoundInDraw
  <2> QED
    BY <2>1, <2>2, NoBackDraw, WallOps DEF BackEmpty, W!BackExhausted, Slot
<1>3. wall.dead \in Nat /\ m \in Nat
  BY WallNumbersOK, AfterFacts
<1>4. W!DeadWallDraw(m)
  BY <1>1, <1>2, <1>3, DispensedIs DEF W!DeadWallDraw
<1> QED
  BY <1>1, <1>4 DEF W!Next

(* Which calls are made while the haitei tile is on offer. *)
LEMMA StageNow ==
    ASSUME TableInv
    PROVE  /\ phase = "WAIT_DISCARDS" => InPlay /\ ~HaiteiOffered /\ phase # "INIT"
           /\ \A type : InTurn(type) => InPlay /\ phase # "INIT"
           /\ \A type : InTurn(type) /\ type \notin {"accept", "refuse"} => ~HaiteiOffered
           /\ phase \in {"INIT", "ROUND_END"} => ~InPlay
<1>1. ASSUME NEW type, InTurn(type), type \notin {"accept", "refuse"}
      PROVE  ~HaiteiOffered
  <2>1. TurnOffers(wall, hands[activePlayer], isHaitei, validActions[activePlayer])
    BY <1>1, TurnKinds
  <2> QED
    BY <2>1, OfferedTypes DEF TurnOffers, HaiteiOffered, InTurn, Offered
<1> QED
  BY <1>1 DEF InPlay, InTurn, HaiteiOffered


(* Each call of the engine is a step of module Wall, or none. *)

LEMMA StartMapped ==
    ASSUME MaxChain >= WallLen, TableInv, Start
    PROVE  W!Next
<1>1. PICK faces \in Walls, d \in DiceSums, first \in DealerDraws : Deal(faces, d, first)
  BY DEF Start
<1>2. first \in Seats /\ isHaitei \in BOOLEAN /\ ~InPlay
  BY SeatFacts DEF Start, TableInv, InPlay
<1> QED
  BY <1>1, <1>2, DealMapped

LEMMA ReadyMapped ==
    ASSUME MaxChain >= WallLen, SeatsInv, TableInv, NEW s \in Seats, HandleReady(s)
    PROVE  W!Next \/ UNCHANGED W!vars
<1>0. phase = "ROUND_END" /\ ~InPlay /\ isHaitei \in BOOLEAN
  BY DEF HandleReady, TableInv, InPlay
<1>1. CASE UNCHANGED <<phase, activePlayer, dealer, nextDealer, handNum, wall, hands, validActions,
                       interruptQueue, activeDiscard, isHaitei, score, roundResult>>
  BY <1>1, StutterMapped DEF InPlay, HaiteiOffered, InTurn, Offered
<1>2. CASE \E faces \in Walls, d \in DiceSums,
              first \in IF nextDealer = None THEN DealerDraws ELSE {nextDealer} :
              Deal(faces, d, first)
  <2>1. PICK faces \in Walls, d \in DiceSums,
             first \in IF nextDealer = None THEN DealerDraws ELSE {nextDealer} :
             Deal(faces, d, first)
    BY <1>2
  <2>2. first \in Seats
    BY SeatFacts DEF SeatsInv
  <2> QED
    BY <1>0, <2>1, <2>2, DealMapped
<1> QED
  BY <1>1, <1>2 DEF HandleReady

LEMMA DiscardMapped ==
    ASSUME MaxChain >= WallLen, SeatsInv, TableInv, NEW t, HandleDiscard(t)
    PROVE  W!Next \/ UNCHANGED W!vars
<1> PICK g : g = Discarding(activePlayer, t)
  OBVIOUS
<1> PICK v : v = Offers(wall, g, activePlayer, t, isHaitei)
  OBVIOUS
<1>0. InTurn("discard") /\ t \in hands[activePlayer].closed
  BY DEF HandleDiscard
<1>1. /\ phase = "PLAYER_TURN" /\ activePlayer \in Seats /\ WallOK(wall) /\ HandsOK(hands)
      /\ isHaitei \in BOOLEAN /\ t \in hands[activePlayer].closed
      /\ \A s \in Seats : Flowers(wall, hands[s].closed) = {}
      /\ InPlay /\ ~HaiteiOffered
  BY <1>0, StageNow DEF InTurn, SeatsInv, TableInv, InPlay
<1>2. /\ HandsOK(g) /\ g[activePlayer] = Discarded(hands[activePlayer], t)
      /\ \A s \in Seats \ {activePlayer} : g[s] = hands[s]
  BY <1>1, DiscardHands
<1>3. /\ HandOK(hands[activePlayer]) /\ t \in Tiles
  BY <1>1 DEF HandsOK, HandOK, HandRec
<1>4. g[activePlayer].closed = hands[activePlayer].closed \ {t}
  BY <1>1, <1>2, <1>3, DiscardFacts
<1>5. \A s \in Seats : Flowers(wall, g[s].closed) = {}
  BY <1>1, <1>2, <1>4 DEF Flowers
<1>6. OffersOK(v)
  BY <1>1, <1>2, <1>3, OffersFit
<1>7. WindowOpens(g, v, t) \/ HaiteiKept(g, t) \/ AdvanceTurn(g, v)
  BY DiscardGoes
<1>8. CASE WindowOpens(g, v, t)
  <2>1. phase' = "WAIT_DISCARDS" /\ wall' = wall
    BY <1>8 DEF WindowOpens, PlayOn
  <2>2. InPlay' /\ ~HaiteiOffered'
    BY <2>1 DEF InPlay, HaiteiOffered, InTurn
  <2> QED
    BY <1>1, <2>1, <2>2, StutterMapped
<1>9. CASE HaiteiKept(g, t)
  BY <1>1, <1>9, EndMapped DEF HaiteiKept, EndRoundInDraw
<1>10. CASE AdvanceTurn(g, v)
  BY <1>1, <1>2, <1>5, <1>6, <1>10, AdvanceMapped
<1> QED
  BY <1>7, <1>8, <1>9, <1>10

LEMMA KongMapped ==
    ASSUME MaxChain >= WallLen, SeatsInv, TableInv, NEW o, HandleKong(o)
    PROVE  W!Next
<1> PICK g : g = Konging(activePlayer, o)
  OBVIOUS
<1>1. /\ isHaitei' = isHaitei
      /\ activePlayer' = activePlayer
      /\ HandsOK(g)
      /\ \A s \in Seats \ {activePlayer} : Flowers(wall, g[s].closed) = {}
      /\ Settle(activePlayer, wall, g, validActions, 1)
  BY KongGoes
<1>2. /\ activePlayer \in Seats /\ WallOK(wall) /\ OffersOK(validActions) /\ isHaitei' \in BOOLEAN
      /\ InPlay /\ ~HaiteiOffered /\ 1 \in Nat
  <2>1. InTurn("kan")
    BY DEF HandleKong
  <2>2. InPlay /\ phase # "INIT" /\ ~HaiteiOffered
    BY <2>1, StageNow
  <2> QED
    BY <1>1, <2>2 DEF SeatsInv, TableInv
<1>3. PICK r \in Nat : Replaced(activePlayer, wall, g, 1, r)
  BY <1>1, <1>2, SettleTable
<1> QED
  BY <1>1, <1>2, <1>3, DeadDrawMapped

LEMMA AcceptMapped ==
    ASSUME MaxChain >= WallLen, SeatsInv, TableInv, HandleHaiteiAccept
    PROVE  W!Next
<1> PICK h : h = FindHaitei(WallLen, wall.dice, wall.dead)
  OBVIOUS
<1> PICK w : w = HaiteiTaken(wall, h)
  OBVIOUS
<1> PICK g : g = Taking(activePlayer, h)
  OBVIOUS
<1>1. /\ isHaitei' \in BOOLEAN /\ activePlayer' = activePlayer /\ wall.index = Border(wall)
      /\ h \in Tiles /\ h # -1 /\ WallOK(w) /\ HandsOK(g)
      /\ \A s \in Seats \ {activePlayer} : Flowers(w, g[s].closed) = {}
      /\ Settle(activePlayer, w, g, validActions, 0)
  BY AcceptGoes
<1>2. /\ activePlayer \in Seats /\ OffersOK(validActions) /\ 0 \in Nat /\ WallOK(wall)
      /\ InPlay /\ HaiteiOffered /\ phase # "INIT"
  <2>1. InTurn("accept")
    BY DEF HandleHaiteiAccept
  <2> QED
    BY <2>1, StageNow DEF SeatsInv, TableInv, HaiteiOffered
<1>3. PICK r \in Nat : Replaced(activePlayer, w, g, 0, r)
  BY <1>1, <1>2, SettleTable
<1> PICK m : m = AfterBackDraws(w, r)
  OBVIOUS
<1>4. /\ W!Replace(w.dice, w.index, w.dead, m, w.count, Handed(w))
      /\ m \in W!BackCounters(w.dead)
      /\ wall'.dice = w.dice /\ wall'.index = w.index /\ wall'.haitei = w.haitei
      /\ phase' # "INIT"
  BY <1>1, <1>2, <1>3, ReplaceMapped
<1>5. /\ Handed(w) = Handed(wall) \cup {h} /\ w.dice = wall.dice /\ w.index = wall.index
      /\ w.dead = wall.dead /\ w.haitei = h /\ w.count = (wall.count - 1) % WordSize
  BY <1>1, <1>2, HaiteiFacts
<1>6. W!Replace(wall.dice, wall.index, wall.dead, m, (wall.count - 1) % WordSize, Handed(wall) \cup {h})
  BY <1>4, <1>5
<1>7. W!AcceptHaitei(m)
  BY <1>1, <1>2, <1>4, <1>5, <1>6, DispensedIs, WallOps DEF W!AcceptHaitei
<1> QED
  BY <1>4, <1>5, <1>7 DEF W!Next

LEMMA ClaimMapped ==
    ASSUME MaxChain >= WallLen, SeatsInv, TableInv, phase = "WAIT_DISCARDS",
           NEW s \in Seats, s # activePlayer,
           NEW o \in validActions[s], o.type \in {"chii", "pon", "kan"}, Claim(s, o)
    PROVE  W!Next \/ UNCHANGED W!vars
<1> PICK g : g = Melded(s, o, Front(hands[activePlayer].discards))
  OBVIOUS
<1> PICK due : due = IF o.type = "kan" THEN 1 ELSE 0
  OBVIOUS
<1>1. /\ WallOK(wall) /\ isHaitei' = isHaitei /\ activePlayer' = s /\ HandsOK(g)
      /\ \A q \in Seats : Flowers(wall, g[q].closed) = {}
      /\ due \in {0, 1} /\ Settle(s, wall, g, validActions, due)
  BY ClaimGoes
<1>2. /\ OffersOK(validActions) /\ due \in Nat /\ isHaitei' \in BOOLEAN
      /\ \A q \in Seats \ {s} : Flowers(wall, g[q].closed) = {}
      /\ InPlay /\ ~HaiteiOffered /\ phase # "INIT"
  BY <1>1, StageNow DEF TableInv
<1>3. PICK r \in Nat : Replaced(s, wall, g, due, r)
  BY <1>1, <1>2, SettleTable
<1>4. CASE due = 1
  BY <1>1, <1>2, <1>3, <1>4, DeadDrawMapped
<1>5. CASE due = 0
  <2>1. Owed(wall, g[s], 0, 0) = 0
    <3>1. Flowers(wall, g[s].closed) = {} /\ Flowers(wall, BackTiles(wall, 0)) = {}
      BY <1>1, NoBackDraw DEF Flowers
    <3>2. Cardinality({}) = 0
      BY FS_EmptySet
    <3> QED
      BY <3>1, <3>2 DEF Owed
  <2>2. /\ \A q \in 0 .. r - 1 : q # Owed(wall, g[s], 0, q)
        /\ wall' = WallAfter(wall, r)
        /\ \/ /\ PlayOn("PLAYER_TURN")
              /\ TurnOffers(wall', hands'[s], isHaitei', validActions'[s])
           \/ r # Owed(wall, g[s], 0, r)
    BY <1>3, <1>5 DEF Replaced
  <2>3. r = 0
    BY <2>1, <2>2
  <2>4. InPlay' /\ ~HaiteiOffered' /\ phase' # "INIT"
    BY <1>1, <2>1, <2>2, <2>3, StageTurn
  <2>5. \A q \in 0 .. 0 - 1 : ~BackEmpty(wall, q)
    OBVIOUS
  <2>6. 0 <= wall.count /\ wall.count - 0 = wall.count
    BY <1>1, WallNumbersOK
  <2>7. /\ wall'.dice = wall.dice /\ wall'.index = wall.index /\ wall'.dead = wall.dead
        /\ wall'.haitei = wall.haitei /\ wall'.count = wall.count
    BY <1>1, <2>2, <2>3, <2>5, <2>6, NoBackDraw, BackDrawFacts
  <2> QED
    BY <1>2, <2>4, <2>7, StutterMapped
<1> QED
  BY <1>1, <1>4, <1>5

LEMMA ResolveMapped ==
    ASSUME MaxChain >= WallLen, SeatsInv, TableInv, phase = "WAIT_DISCARDS",
           NEW q, DOMAIN q \subseteq Seats \ {activePlayer},
           \A y \in DOMAIN q : q[y] \in validActions[y] \cup {Pass},
           ResolveInterrupts(q)
    PROVE  W!Next \/ UNCHANGED W!vars
<1>0. InPlay /\ ~HaiteiOffered
  BY StageNow
<1>1. CASE \E s \in Seats \ {activePlayer} : \E S \in WinScores : Ron(s, S)
  BY <1>0, <1>1, EndMapped DEF Ron
<1>2. CASE \E s \in Seats \ {activePlayer} : \E o \in validActions[s] :
              o.type \in {"chii", "pon", "kan"} /\ Claim(s, o)
  BY <1>2, ClaimMapped
<1>3. CASE AdvanceTurn(hands, validActions)
  <2>1. /\ WallOK(wall) /\ HandsOK(hands) /\ OffersOK(validActions)
        /\ isHaitei \in BOOLEAN /\ \A s \in Seats : Flowers(wall, hands[s].closed) = {}
    BY <1>0 DEF TableInv, InPlay
  <2> QED
    BY <1>0, <1>3, <2>1, AdvanceMapped
<1> QED
  BY <1>1, <1>2, <1>3, ResolveGoes

LEMMA InterruptMapped ==
    ASSUME MaxChain >= WallLen, SeatsInv, WindowInv, TableInv,
           NEW s \in Seats, NEW o \in validActions[s] \cup {Pass}, HandleInterrupt(s, o)
    PROVE  W!Next \/ UNCHANGED W!vars
<1> PICK q : q = Respond(interruptQueue, s, o)
  OBVIOUS
<1>1. phase = "WAIT_DISCARDS" /\ s # activePlayer
  BY DEF HandleInterrupt
<1>2. CASE UNCHANGED <<phase, activePlayer, dealer, nextDealer, handNum, wall, hands,
                       validActions, activeDiscard, isHaitei, score, playerReady, roundResult>>
  BY <1>2, StutterMapped DEF InPlay, HaiteiOffered, InTurn, Offered
<1>3. CASE ResolveInterrupts(q)
  <2>1. DOMAIN q \subseteq Seats \ {activePlayer} /\ \A y \in DOMAIN q : q[y] \in validActions[y] \cup {Pass}
    BY <1>1, ResponsesFit
  <2> QED
    BY <1>1, <1>3, <2>1, ResolveMapped
<1> QED
  BY <1>2, <1>3 DEF HandleInterrupt

LEMMA TimerMapped ==
    ASSUME MaxChain >= WallLen, SeatsInv, WindowInv, TableInv, TimerResolve
    PROVE  W!Next \/ UNCHANGED W!vars
<1>1. /\ phase = "WAIT_DISCARDS" /\ ResolveInterrupts(interruptQueue)
      /\ DOMAIN interruptQueue \subseteq Seats \ {activePlayer}
      /\ \A y \in DOMAIN interruptQueue : interruptQueue[y] \in validActions[y] \cup {Pass}
  BY DEF TimerResolve, SeatsInv, WindowInv
<1> QED
  BY <1>1, ResolveMapped

LEMMA TsumoMapped ==
    ASSUME TableInv, NEW S, HandleTsumo(S)
    PROVE  W!Next
<1>1. InTurn("tsumo") /\ wall' = wall /\ \E sc, r : FinalizeRoundEnd(sc, r)
  BY DEF HandleTsumo
<1> QED
  BY <1>1, StageNow, EndMapped

LEMMA RefuseMapped ==
    ASSUME TableInv, HandleHaiteiRefuse
    PROVE  W!Next
<1>1. InTurn("refuse") /\ wall' = wall /\ \E sc, r : FinalizeRoundEnd(sc, r)
  BY DEF HandleHaiteiRefuse, EndRoundInDraw
<1> QED
  BY <1>1, StageNow, EndMapped

LEMMA WallInit == Init => W!Init
<1> SUFFICES ASSUME Init PROVE W!Init
  OBVIOUS
<1>1. \E d \in DiceSums : TRUE
  BY GameAssumption DEF GameAssumption
<1>2. (CHOOSE d \in DiceSums : TRUE) \in DiceSums
  BY <1>1
<1>3. phase = "INIT" /\ ~InPlay /\ wall.index = 0 /\ wall.dead = 0 /\ wall.haitei = None /\ wall.count = 0
  BY DEF Init, InPlay
<1>4. Dispensed = {}
  <2>1. BackDraws(WallLen, wall.dice, 0, 0) = {}
    BY DEF BackDraws
  <2> QED
    BY <1>3, <2>1 DEF Dispensed
<1> QED
  BY <1>2, <1>3, <1>4 DEF W!Init, None

LEMMA WallStep ==
    ASSUME MaxChain >= WallLen, SeatsInv, WindowInv, TableInv, [Next]_vars
    PROVE  W!Next \/ UNCHANGED W!vars
<1>1. CASE UNCHANGED vars
  BY <1>1, StutterMapped DEF vars, InPlay, HaiteiOffered, InTurn, Offered
<1>2. CASE Next
  BY <1>2, StartMapped, DiscardMapped, KongMapped, TsumoMapped, AcceptMapped, RefuseMapped,
     InterruptMapped, TimerMapped, ReadyMapped DEF Next
<1> QED
  BY <1>1, <1>2

(* The engine implements module Wall: from the deal to the end of a hand    *)
(* every draw, from the front or from the back, takes a tile module Wall    *)
(* allows, whichever seat draws and for whatever reason.  MaxChain only     *)
(* bounds what TLC enumerates; a chain is never longer than the wall.       *)
THEOREM GameImplementsWall == ASSUME MaxChain >= WallLen PROVE Spec => WallSpec
<1>1. Init => W!Init
  BY WallInit
<1>2. ASSUME SeatsInv, WindowInv, TableInv, [Next]_vars PROVE [W!Next]_(W!vars)
  BY <1>2, WallStep
<1>3. Spec => [](SeatsInv /\ WindowInv /\ TableInv)
  BY TableInvHolds, PTL DEF TableInvs
<1> QED
  BY <1>1, <1>2, <1>3, PTL DEF Spec, WallSpec, W!Spec

-----------------------------------------------------------------------------
(* Where the tiles are.                                                     *)

(* What a seat has in its hand, its melds and its discards, and with the    *)
(* flowers it has laid out.                                                 *)
Kept(h) == h.closed \cup InMelds(h) \cup ToSet(h.discards)
AllOf(h) == Kept(h) \cup h.flowers

Flower(w, t) == w.faces[t].suit = "flower" /\ ~IsFlowerWild(w, t)

(* A hand whose tiles are each in one place, whose melds are of tiles and   *)
(* which neither melds nor discards a flower.                               *)
HandLaid(w, h) ==
    /\ Apart(h)
    /\ IsFiniteSet(h.melds)
    /\ \A m \in h.melds : m.tiles # {}
    /\ \A t \in InMelds(h) \cup ToSet(h.discards) : ~Flower(w, t)

(* WallCount is the number of tiles not handed out; it is less when the     *)
(* haitei tile, a flower, was drawn once more from the back.  Then only two *)
(* piles of flowers can both have it.                                       *)
Exact(w) == w.count = WallLen - 1 - Cardinality(Handed(w))

SeatsApart(w, hs) ==
    \A s, t \in Seats : s # t =>
        /\ AllOf(hs[s]) \cap Kept(hs[t]) = {}
        /\ hs[s].flowers \cap hs[t].flowers \subseteq {w.haitei}
        /\ Exact(w) => hs[s].flowers \cap hs[t].flowers = {}

(* The tiles handed out are those of the seats and the tiles `won`.         *)
Accounted(w, hs, won) ==
    /\ \A s \in Seats : won \cap AllOf(hs[s]) = {}
    /\ won \cup UNION { AllOf(hs[s]) : s \in Seats } = Handed(w)
    /\ w.count <= WallLen - 1 - Cardinality(Handed(w))

Placed(w, hs, won) ==
    /\ \A s \in Seats : HandLaid(w, hs[s])
    /\ SeatsApart(w, hs)
    /\ Accounted(w, hs, won)

LEMMA FlowersOf ==
    /\ \A w, S, t : t \in Flowers(w, S) <=> t \in S /\ Flower(w, t)
    /\ \A w, v : v.faces = w.faces /\ v.dice = w.dice => \A t : Flower(v, t) <=> Flower(w, t)
BY DEF Flowers, Flower, IsFlowerWild

(* What is drawn from the back is new, but for a haitei tile that is a      *)
(* flower.                                                                  *)
LEMMA BackNew ==
    ASSUME NEW w, WallOK(w), NEW r \in Nat, \A q \in 0 .. r - 1 : ~BackEmpty(w, q),
           r <= w.count, w.haitei # None => r = 0 \/ Flower(w, w.haitei),
           NEW B, B = BackTiles(w, r)
    PROVE  /\ B \in SUBSET Tiles /\ IsFiniteSet(B) /\ Cardinality(B) = r
           /\ \A x \in B \cap Handed(w) : x = w.haitei /\ Flower(w, x)
<1>1. B \in SUBSET Tiles /\ IsFiniteSet(B) /\ Cardinality(B) = r
  BY WallNumbersOK, BackTilesFacts
<1>2. /\ B \cap (Handed(w) \ {w.haitei}) = {}
      /\ w.haitei = None => B \cap Handed(w) = {}
  BY BackDrawFacts
<1>3. r = 0 => B = {}
  BY <1>1, FS_EmptySet
<1> QED
  BY <1>1, <1>2, <1>3

(* The replacements of flowers in a hand.                                   *)
Revealed(w, h, B, g) ==
    /\ g.closed = { x \in h.closed \cup B : ~Flower(w, x) }
    /\ g.flowers = h.flowers \cup { x \in h.closed \cup B : Flower(w, x) }
    /\ g.melds = h.melds /\ g.discards = h.discards

LEMMA RevealedLaid ==
    ASSUME NEW w, NEW h, HandLaid(w, h), NEW B, NEW g, Revealed(w, h, B, g),
           \A x \in B \cap AllOf(h) : Flower(w, x)
    PROVE  /\ HandLaid(w, g)
           /\ Kept(g) = { x \in Kept(h) \cup B : ~Flower(w, x) }
           /\ g.flowers = h.flowers \cup { x \in Kept(h) \cup B : Flower(w, x) }
<1> DEFINE M == InMelds(h)
           D == ToSet(h.discards)
<1>1. InMelds(g) = M /\ ToSet(g.discards) = D /\ g.melds = h.melds /\ g.discards = h.discards
  BY DEF Revealed, InMelds
<1>2. /\ h.closed \cap h.flowers = {} /\ D \cap (h.closed \cup h.flowers) = {}
      /\ M \cap (h.closed \cup h.flowers \cup D) = {} /\ IsInjective(h.discards)
      /\ \A m, n \in h.melds : m # n => m.tiles \cap n.tiles = {}
      /\ IsFiniteSet(h.melds) /\ \A m \in h.melds : m.tiles # {}
      /\ \A t \in M \cup D : ~Flower(w, t)
  BY DEF HandLaid, Apart
<1>3. \A x \in B : x \in h.closed \cup M \cup D \cup h.flowers => Flower(w, x)
  BY DEF AllOf, Kept
<1> HIDE DEF M, D
<1>4. /\ g.closed = { x \in h.closed \cup B : ~Flower(w, x) }
      /\ g.flowers = h.flowers \cup { x \in h.closed \cup B : Flower(w, x) }
  BY DEF Revealed
<1>5. Kept(h) = h.closed \cup M \cup D /\ Kept(g) = g.closed \cup M \cup D
  BY <1>1 DEF Kept, M, D
<1>6. Kept(g) = { x \in Kept(h) \cup B : ~Flower(w, x) }
  BY <1>2, <1>4, <1>5
<1>7. g.flowers = h.flowers \cup { x \in Kept(h) \cup B : Flower(w, x) }
  BY <1>2, <1>4, <1>5
<1>8. g.closed \cap g.flowers = {}
  BY <1>2, <1>3, <1>4
<1>9. D \cap (g.closed \cup g.flowers) = {}
  BY <1>2, <1>3, <1>4
<1>10. M \cap (g.closed \cup g.flowers \cup D) = {}
  BY <1>2, <1>3, <1>4
<1>11. Apart(g)
  BY <1>1, <1>2, <1>8, <1>9, <1>10 DEF Apart
<1> QED
  BY <1>1, <1>2, <1>6, <1>7, <1>11 DEF HandLaid

(* What the table is after the replacements of one seat.                    *)
LEMMA RevealedAccounted ==
    ASSUME NEW w, NEW hs, NEW seat \in Seats, Accounted(w, hs, {}), NEW B, IsFiniteSet(B),
           NEW gs, \A s \in Seats \ {seat} : AllOf(gs[s]) = AllOf(hs[s]),
           AllOf(gs[seat]) = AllOf(hs[seat]) \cup B,
           NEW v, Handed(v) = Handed(w) \cup B, v.count = w.count - Cardinality(B),
           WallLen \in Nat, w.count \in Int, IsFiniteSet(Handed(w))
    PROVE  /\ Accounted(v, gs, {})
           /\ Exact(v) => Exact(w) /\ B \cap Handed(w) = {}
<1>1. Handed(v) = UNION { AllOf(gs[s]) : s \in Seats }
  <2>1. \A x : x \in UNION { AllOf(gs[s]) : s \in Seats } <=>
                  x \in UNION { AllOf(hs[s]) : s \in Seats } \/ x \in B
    <3>1. \A x : (\E s \in Seats : x \in AllOf(gs[s])) <=> (\E s \in Seats : x \in AllOf(hs[s])) \/ x \in B
      BY Zenon
    <3> QED
      BY <3>1
  <2>2. Handed(w) = UNION { AllOf(hs[s]) : s \in Seats }
    BY DEF Accounted
  <2> QED
    BY <2>1, <2>2
<1> PICK H : H = Handed(w)
  OBVIOUS
<1>2. /\ Cardinality(H \cup B) = Cardinality(H) + Cardinality(B) - Cardinality(H \cap B)
      /\ Cardinality(H) \in Nat /\ Cardinality(B) \in Nat /\ Cardinality(H \cap B) \in Nat
      /\ IsFiniteSet(H \cap B)
  <2>1. IsFiniteSet(H) /\ IsFiniteSet(B)
    OBVIOUS
  <2>2. IsFiniteSet(H \cap B)
    BY <2>1, FS_Subset
  <2> QED
    BY <2>1, <2>2, FS_Union, FS_CardinalityType
<1>3. w.count <= WallLen - 1 - Cardinality(H)
  BY DEF Accounted
<1>4. v.count <= WallLen - 1 - Cardinality(H \cup B)
  BY <1>2, <1>3
<1>5. v.count = WallLen - 1 - Cardinality(H \cup B) =>
         Cardinality(H \cap B) = 0 /\ w.count = WallLen - 1 - Cardinality(H)
  BY <1>2, <1>3
<1>6. Cardinality(H \cap B) = 0 => H \cap B = {}
  BY <1>2, FS_EmptySet
<1>7. Exact(v) => Exact(w) /\ B \cap Handed(w) = {}
  BY <1>5, <1>6 DEF Exact
<1>8. Accounted(v, gs, {})
  BY <1>1, <1>4 DEF Accounted
<1> QED
  BY <1>7, <1>8

LEMMA RevealedApart ==
    ASSUME NEW w, NEW hs, NEW seat \in Seats, Placed(w, hs, {}), NEW B,
           \A x \in B \cap Handed(w) : x = w.haitei /\ Flower(w, x),
           \A s \in Seats \ {seat} : \A x \in hs[s].closed : ~Flower(w, x),
           NEW gs, \A s \in Seats \ {seat} : gs[s] = hs[s],
           Kept(gs[seat]) = { x \in Kept(hs[seat]) \cup B : ~Flower(w, x) },
           gs[seat].flowers = hs[seat].flowers \cup { x \in Kept(hs[seat]) \cup B : Flower(w, x) },
           NEW v, v.haitei = w.haitei,
           Exact(v) => Exact(w) /\ B \cap Handed(w) = {}
    PROVE  SeatsApart(v, gs)
<1>1. \A s \in Seats : AllOf(hs[s]) \subseteq Handed(w)
  BY DEF Placed, Accounted
<1>2. \A s, t \in Seats : s # t => AllOf(hs[s]) \cap Kept(hs[t]) = {}
  BY DEF Placed, SeatsApart
<1>3. \A s \in Seats \ {seat} : \A x \in Kept(hs[s]) : ~Flower(w, x)
  BY DEF Placed, HandLaid, Kept
<1>4. \A s, t \in Seats : s # t => hs[s].flowers \cap hs[t].flowers \subseteq {w.haitei}
  BY DEF Placed, SeatsApart
<1>5. \A s, t \in Seats : s # t => (Exact(w) => hs[s].flowers \cap hs[t].flowers = {})
  BY DEF Placed, SeatsApart
<1>6. ASSUME NEW t \in Seats \ {seat}
      PROVE  /\ AllOf(gs[seat]) \cap Kept(gs[t]) = {}
             /\ Kept(gs[seat]) \cap AllOf(gs[t]) = {}
             /\ gs[seat].flowers \cap gs[t].flowers \subseteq {w.haitei}
             /\ Exact(v) => gs[seat].flowers \cap gs[t].flowers = {}
  <2>0. gs[t] = hs[t] /\ t # seat
    BY <1>6
  <2>1. AllOf(hs[seat]) \cap Kept(hs[t]) = {} /\ AllOf(hs[t]) \cap Kept(hs[seat]) = {}
    BY <1>2, <1>6
  <2>2. \A x \in B \cap AllOf(hs[t]) : x = w.haitei /\ Flower(w, x)
    BY <1>1, <1>6
  <2>3. \A x \in Kept(hs[t]) : ~Flower(w, x) /\ x \notin B
    BY <1>3, <1>6, <2>2 DEF AllOf
  <2>4. AllOf(gs[seat]) \subseteq AllOf(hs[seat]) \cup B
    BY DEF AllOf
  <2>5. AllOf(gs[seat]) \cap Kept(gs[t]) = {}
    BY <2>0, <2>1, <2>3, <2>4
  <2>6. Kept(gs[seat]) \cap AllOf(gs[t]) = {}
    BY <2>0, <2>1, <2>2
  <2>7. gs[seat].flowers \subseteq hs[seat].flowers \cup Kept(hs[seat]) \cup B
    OBVIOUS
  <2>8. hs[t].flowers \subseteq AllOf(hs[t])
    BY DEF AllOf
  <2>9. gs[seat].flowers \cap gs[t].flowers \subseteq {w.haitei}
    BY <1>4, <1>6, <2>0, <2>1, <2>2, <2>7, <2>8
  <2>10. ASSUME Exact(v) PROVE gs[seat].flowers \cap gs[t].flowers = {}
    <3>1. B \cap AllOf(hs[t]) = {} /\ hs[seat].flowers \cap hs[t].flowers = {}
      BY <1>1, <1>5, <1>6, <2>10
    <3> QED
      BY <2>0, <2>1, <2>7, <2>8, <3>1
  <2> QED
    BY <2>5, <2>6, <2>9, <2>10
<1>7. Exact(v) => Exact(w)
  OBVIOUS
<1> SUFFICES ASSUME NEW s \in Seats, NEW t \in Seats, s # t
             PROVE  /\ AllOf(gs[s]) \cap Kept(gs[t]) = {}
                    /\ gs[s].flowers \cap gs[t].flowers \subseteq {v.haitei}
                    /\ Exact(v) => gs[s].flowers \cap gs[t].flowers = {}
  BY DEF SeatsApart
<1>8. CASE s = seat
  BY <1>6, <1>8
<1>9. CASE t = seat
  BY <1>6, <1>9
<1>10. CASE s # seat /\ t # seat
  <2>1. gs[s] = hs[s] /\ gs[t] = hs[t]
    BY <1>10
  <2> QED
    BY <1>2, <1>4, <1>5, <1>7, <2>1
<1> QED
  BY <1>8, <1>9, <1>10
(* Replacements leave every tile in one place.                              *)
LEMMA SettledPlaced ==
    ASSUME NEW seat \in Seats, NEW w, WallOK(w), NEW hs, HandsOK(hs), Placed(w, hs, {}),
           \A s \in Seats \ {seat} : Flowers(w, hs[s].closed) = {},
           NEW due, NEW r, Replaced(seat, w, hs, due, r),
           w.haitei # None => r = 0 \/ Flower(w, w.haitei)
    PROVE  /\ Placed(wall', hands', {})
           /\ wall'.haitei = w.haitei
           /\ hands'[seat].melds = hs[seat].melds
           /\ hands'[seat].closed = (hs[seat].closed \cup BackTiles(w, r))
                                    \ Flowers(w, hs[seat].closed \cup BackTiles(w, r))
<1> DEFINE B == BackTiles(w, r)
           h == hs[seat]
           g == hands'[seat]
<1>1. /\ r \in Nat /\ r <= w.count /\ \A q \in 0 .. r - 1 : ~BackEmpty(w, q)
      /\ wall' = WallAfter(w, r) /\ wall'.faces = w.faces /\ wall'.dice = w.dice
      /\ \A s \in Seats \ {seat} : hands'[s] = hs[s]
      /\ g = Settled(w, h, r)
  BY DEF Replaced
<1>2. HandOK(h)
  BY DEF HandsOK
<1>3. /\ g.closed = (h.closed \cup B) \ Flowers(w, h.closed \cup B)
      /\ g.flowers = h.flowers \cup Flowers(w, h.closed \cup B)
      /\ g.melds = h.melds /\ g.discards = h.discards
  BY <1>1, <1>2 DEF Settled, Reveal, HandOK, HandRec
<1> HIDE DEF B, h, g
<1>7. B = BackTiles(w, r) /\ h = hs[seat] /\ g = hands'[seat]
  BY DEF B, h, g
<1>8. Revealed(w, h, B, g)
  <2>1. g.closed = { x \in h.closed \cup B : ~Flower(w, x) }
    BY <1>3, FlowersOf
  <2>2. g.flowers = h.flowers \cup { x \in h.closed \cup B : Flower(w, x) }
    BY <1>3, FlowersOf
  <2> QED
    BY <1>3, <2>1, <2>2 DEF Revealed
<1>9. /\ B \in SUBSET Tiles /\ IsFiniteSet(B) /\ Cardinality(B) = r
      /\ \A x \in B \cap Handed(w) : x = w.haitei /\ Flower(w, x)
  BY <1>1, <1>7, BackNew
<1>10. /\ Handed(wall') = Handed(w) \cup B /\ wall'.count = w.count - r /\ wall'.haitei = w.haitei
  BY <1>1, <1>7, BackDrawFacts
<1>11. \A s \in Seats : HandLaid(w, hs[s]) /\ AllOf(hs[s]) \subseteq Handed(w)
  BY DEF Placed, Accounted
<1>12. \A x \in B \cap AllOf(h) : Flower(w, x)
  BY <1>7, <1>9, <1>11
<1>13. /\ HandLaid(w, g)
       /\ Kept(g) = { x \in Kept(h) \cup B : ~Flower(w, x) }
       /\ g.flowers = h.flowers \cup { x \in Kept(h) \cup B : Flower(w, x) }
  BY <1>7, <1>8, <1>11, <1>12, RevealedLaid
<1>14. AllOf(g) = AllOf(h) \cup B
  BY <1>13 DEF AllOf
<1>15. \A s \in Seats \ {seat} : AllOf(hands'[s]) = AllOf(hs[s])
  BY <1>1
<1>16. Accounted(wall', hands', {}) /\ (Exact(wall') => Exact(w) /\ B \cap Handed(w) = {})
  <2>1. WallLen \in Nat /\ w.count \in Int /\ IsFiniteSet(Handed(w))
    BY WallNumbersOK, HandedFacts
  <2>2. Accounted(w, hs, {})
    BY DEF Placed
  <2> QED
    BY <1>7, <1>9, <1>10, <1>14, <1>15, <2>1, <2>2, RevealedAccounted
<1>17. SeatsApart(wall', hands')
  <2>1. \A s \in Seats \ {seat} : \A x \in hs[s].closed : ~Flower(w, x)
    BY FlowersOf
  <2>2. /\ Kept(hands'[seat]) = { x \in Kept(hs[seat]) \cup B : ~Flower(w, x) }
        /\ hands'[seat].flowers = hs[seat].flowers \cup { x \in Kept(hs[seat]) \cup B : Flower(w, x) }
    BY <1>7, <1>13
  <2>3. PICK gs : gs = hands'
    OBVIOUS
  <2>4. PICK v : v = wall'
    OBVIOUS
  <2>5. /\ \A s \in Seats \ {seat} : gs[s] = hs[s]
        /\ Kept(gs[seat]) = { x \in Kept(hs[seat]) \cup B : ~Flower(w, x) }
        /\ gs[seat].flowers = hs[seat].flowers \cup { x \in Kept(hs[seat]) \cup B : Flower(w, x) }
        /\ v.haitei = w.haitei
        /\ Exact(v) => Exact(w) /\ B \cap Handed(w) = {}
    BY <1>1, <1>10, <1>16, <2>2, <2>3, <2>4
  <2>6. seat \in Seats /\ Placed(w, hs, {})
    OBVIOUS
  <2>7. SeatsApart(v, gs)
    BY ONLY <1>9, <2>1, <2>5, <2>6, RevealedApart
  <2> QED
    BY <2>3, <2>4, <2>7
<1>18. \A s \in Seats : HandLaid(wall', hands'[s])
  <2>1. \A x : Flower(wall', x) <=> Flower(w, x)
    BY <1>1, FlowersOf
  <2>2. \A s \in Seats : HandLaid(w, hands'[s])
    BY <1>1, <1>7, <1>11, <1>13
  <2> QED
    BY <2>1, <2>2 DEF HandLaid
<1> QED
  BY <1>3, <1>7, <1>10, <1>16, <1>17, <1>18 DEF Placed

(* When the replacements are complete the seat has as many tiles more as    *)
(* were due.                                                                *)
LEMMA SettledCount ==
    ASSUME NEW seat \in Seats, NEW w, WallOK(w), NEW hs, HandsOK(hs), Placed(w, hs, {}),
           NEW due \in Nat, NEW r, Replaced(seat, w, hs, due, r), r = Owed(w, hs[seat], due, r),
           w.haitei # None => r = 0 \/ Flower(w, w.haitei),
           NEW C, C = (hs[seat].closed \cup BackTiles(w, r))
                \ Flowers(w, hs[seat].closed \cup BackTiles(w, r))
    PROVE  Cardinality(C) = Cardinality(hs[seat].closed) + due
<1> DEFINE B == BackTiles(w, r)
           A == hs[seat].closed
<1>1. /\ r \in Nat /\ r <= w.count /\ \A q \in 0 .. r - 1 : ~BackEmpty(w, q)
  BY DEF Replaced
<1>2. A \in SUBSET Tiles
  BY DEF HandsOK, HandRec
<1>3. /\ B \in SUBSET Tiles /\ IsFiniteSet(B) /\ Cardinality(B) = r
      /\ \A x \in B \cap Handed(w) : x = w.haitei /\ Flower(w, x)
  BY <1>1, BackNew
<1>4. A \subseteq Handed(w)
  BY DEF Placed, Accounted, AllOf, Kept
<1>5. r = due + Cardinality(Flowers(w, A)) + Cardinality(Flowers(w, B))
  BY DEF Owed
<1>6. C = (A \cup B) \ Flowers(w, A \cup B)
  OBVIOUS
<1> HIDE DEF B, A
<1>7. C = (A \ Flowers(w, A)) \cup (B \ Flowers(w, B))
  BY <1>6, FlowersOf
<1>8. (A \ Flowers(w, A)) \cap (B \ Flowers(w, B)) = {}
  BY <1>3, <1>4, FlowersOf
<1>9. Flowers(w, A) \in SUBSET A /\ Flowers(w, B) \in SUBSET B
  BY FlowersOf
<1>10. /\ Cardinality(A \ Flowers(w, A)) = Cardinality(A) - Cardinality(Flowers(w, A))
       /\ Cardinality(A) \in Nat /\ Cardinality(Flowers(w, A)) \in Nat
  BY <1>2, <1>9, LessTiles
<1>11. /\ Cardinality(B \ Flowers(w, B)) = Cardinality(B) - Cardinality(Flowers(w, B))
       /\ Cardinality(B) \in Nat /\ Cardinality(Flowers(w, B)) \in Nat
  BY <1>3, <1>9, LessTiles
<1>12. IsFiniteSet(A \ Flowers(w, A)) /\ IsFiniteSet(B \ Flowers(w, B))
  BY <1>2, <1>3, TilesSubset
<1>13. Cardinality(C) = Cardinality(A \ Flowers(w, A)) + Cardinality(B \ Flowers(w, B))
  BY <1>7, <1>8, <1>12, DisjointUnion
<1>14. Cardinality(C) = Cardinality(A) + due
  BY <1>3, <1>5, <1>10, <1>11, <1>13
<1> QED
  BY <1>14 DEF A

-----------------------------------------------------------------------------
(* The tiles throughout the match.                                          *)

PlacesInv == phase # "INIT" => Placed(wall, hands, WonTile)
HaiteiOk(w, haitei) == w.haitei # None => haitei \/ Flower(w, w.haitei)
HaiteiInv == InPlay => HaiteiOk(wall, isHaitei)
NobodyWon == InPlay => roundResult.type # "ron"
TilesInv == PlacesInv /\ HaiteiInv /\ NobodyWon /\ HandsFull

Tally(h) == Cardinality(h.closed) + 3 * Cardinality(h.melds)

(* What draws leave behind: the seat has `more` tiles more.                 *)
TilesLeft(seat, hs, more) ==
    /\ Placed(wall', hands', {})
    /\ \A s \in Seats \ {seat} : hands'[s] = hs[s]
    /\ \/ EndRoundInDraw
       \/ /\ PlayOn("PLAYER_TURN") /\ HaiteiOk(wall', isHaitei')
          /\ hands'[seat].melds = hs[seat].melds
          /\ Cardinality(hands'[seat].closed) = Cardinality(hs[seat].closed)
                                                + (IF HaiteiOffered' THEN 0 ELSE more)
          /\ HaiteiOffered' => more = 1

LEMMA TallyIs ==
    ASSUME NEW h, HandOK(h), IsFiniteSet(h.melds)
    PROVE  Cardinality(h.closed) \in Nat /\ Cardinality(h.melds) \in Nat /\ Tally(h) \in Nat
<1>1. h.closed \in SUBSET Tiles
  BY DEF HandOK, HandRec
<1>2. Cardinality(h.closed) \in Nat /\ Cardinality(h.melds) \in Nat
  BY <1>1, TilesSubset, FS_CardinalityType
<1> QED
  BY <1>2 DEF Tally

LEMMA NothingWon ==
    /\ \A sc : FinalizeRoundEnd(sc, Drawn) => WonTile' = {} /\ ~InPlay' /\ phase' # "INIT"
    /\ \A p : PlayOn(p) => WonTile' = {} /\ roundResult'.type # "ron" /\ phase' = p
BY DEF FinalizeRoundEnd, PlayOn, WonTile, Drawn, NoResult, Result, InPlay

(* The invariant after draws.                                               *)
LEMMA LeftTiles ==
    ASSUME NEW seat \in Seats, activePlayer' = seat, NEW hs, HandsOK(hs), NEW more \in Nat,
           TilesLeft(seat, hs, more),
           \A s \in Seats : IsFiniteSet(hs[s].melds),
           \A s \in Seats \ {seat} : Tally(hs[s]) = HandTiles,
           Tally(hs[seat]) + more = HandTiles + 1
    PROVE  TilesInv'
<1>1. Placed(wall', hands', {}) /\ \A s \in Seats \ {seat} : hands'[s] = hs[s]
  BY DEF TilesLeft
<1>2. CASE EndRoundInDraw
  <2>1. WonTile' = {} /\ ~InPlay' /\ phase' # "INIT"
    BY <1>2, NothingWon DEF EndRoundInDraw
  <2> QED
    BY <1>1, <2>1 DEF TilesInv, PlacesInv, HaiteiInv, NobodyWon, HandsFull
<1>3. CASE /\ PlayOn("PLAYER_TURN") /\ HaiteiOk(wall', isHaitei')
           /\ hands'[seat].melds = hs[seat].melds
           /\ Cardinality(hands'[seat].closed) = Cardinality(hs[seat].closed)
                                                 + (IF HaiteiOffered' THEN 0 ELSE more)
           /\ HaiteiOffered' => more = 1
  <2>1. WonTile' = {} /\ roundResult'.type # "ron" /\ phase' = "PLAYER_TURN"
    BY <1>3, NothingWon
  <2>2. \A s \in Seats : /\ Cardinality(hs[s].closed) \in Nat
                         /\ Cardinality(hs[s].melds) \in Nat /\ Tally(hs[s]) \in Nat
    BY TallyIs DEF HandsOK
  <2>3. Tally(hands'[seat]) = IF HaiteiOffered' THEN HandTiles ELSE HandTiles + 1
    <3>1. Tally(hands'[seat]) = Tally(hs[seat]) + (IF HaiteiOffered' THEN 0 ELSE more)
      BY <1>3, <2>2 DEF Tally
    <3>2. HandTiles \in Nat
      BY WallNumbers
    <3> QED
      BY <1>3, <2>2, <3>1, <3>2
  <2>4. \A s \in Seats \ {seat} : Tally(hands'[s]) = HandTiles
    BY <1>1
  <2>5. HandsFull'
    BY <2>1, <2>3, <2>4 DEF HandsFull, Tally
  <2> QED
    BY <1>1, <1>3, <2>1, <2>5 DEF TilesInv, PlacesInv, HaiteiInv, NobodyWon
<1> QED
  BY <1>2, <1>3 DEF TilesLeft

(* Nothing is drawn from the back when nothing is due and no flower held.   *)
LEMMA NothingDrawn ==
    ASSUME NEW w, WallOK(w), NEW h, Flowers(w, h.closed) = {}, NEW r \in Nat,
           \A q \in 0 .. r - 1 : q # Owed(w, h, 0, q)
    PROVE  r = 0
<1>1. 0 \in Nat /\ \A q \in 0 .. 0 - 1 : ~BackEmpty(w, q)
  OBVIOUS
<1>2. EndsOK(w)
  BY WallNumbersOK
<1>3. IsFiniteSet(BackTiles(w, 0)) /\ Cardinality(BackTiles(w, 0)) = 0
  BY <1>1, <1>2, BackTilesFacts
<1>4. BackTiles(w, 0) = {}
  BY <1>3, FS_EmptySet
<1>5. Flowers(w, BackTiles(w, 0)) = {}
  BY <1>4, FlowersOf
<1>6. Cardinality({}) = 0
  BY FS_EmptySet
<1>7. Owed(w, h, 0, 0) = 0
  BY <1>5, <1>6 DEF Owed
<1> QED
  BY <1>7

LEMMA SettleTiles ==
    ASSUME NEW seat \in Seats, activePlayer' = seat, NEW w, WallOK(w), NEW hs, HandsOK(hs),
           NEW va, OffersOK(va), NEW due \in Nat, isHaitei' \in BOOLEAN,
           \A s \in Seats \ {seat} : Flowers(w, hs[s].closed) = {}, Placed(w, hs, {}),
           w.haitei # None => \/ Flower(w, w.haitei)
                              \/ Flowers(w, hs[seat].closed) = {} /\ due = 0 /\ isHaitei',
           Settle(seat, w, hs, va, due)
    PROVE  TilesLeft(seat, hs, due)
<1>1. PICK r \in Nat : Replaced(seat, w, hs, due, r)
  BY SettleTable
<1>2. /\ wall' = WallAfter(w, r) /\ wall'.faces = w.faces /\ wall'.dice = w.dice
      /\ \A s \in Seats \ {seat} : hands'[s] = hs[s]
      /\ \A q \in 0 .. r - 1 : q # Owed(w, hs[seat], due, q)
      /\ \/ /\ PlayOn("PLAYER_TURN") /\ r = Owed(w, hs[seat], due, r)
            /\ TurnOffers(wall', hands'[seat], isHaitei', validActions'[seat])
         \/ EndRoundInDraw
  BY <1>1 DEF Replaced
<1>3. w.haitei # None => r = 0 \/ Flower(w, w.haitei)
  BY <1>2, NothingDrawn
<1>4. /\ Placed(wall', hands', {})
      /\ wall'.haitei = w.haitei
      /\ hands'[seat].melds = hs[seat].melds
      /\ hands'[seat].closed = (hs[seat].closed \cup BackTiles(w, r))
                               \ Flowers(w, hs[seat].closed \cup BackTiles(w, r))
  BY <1>1, <1>3, SettledPlaced
<1>5. CASE EndRoundInDraw
  BY <1>2, <1>4, <1>5 DEF TilesLeft
<1>6. CASE /\ PlayOn("PLAYER_TURN") /\ r = Owed(w, hs[seat], due, r)
           /\ TurnOffers(wall', hands'[seat], isHaitei', validActions'[seat])
  <2>1. ~HaiteiOffered'
    BY <1>6, StageTurn
  <2>2. Cardinality(hands'[seat].closed) = Cardinality(hs[seat].closed) + due
    BY <1>1, <1>3, <1>4, <1>6, SettledCount
  <2>3. HaiteiOk(wall', isHaitei')
    <3>1. Flower(wall', wall'.haitei) <=> Flower(w, w.haitei)
      BY <1>2, <1>4, FlowersOf
    <3> QED
      BY <1>4, <3>1 DEF HaiteiOk
  <2> QED
    BY <1>2, <1>4, <1>6, <2>1, <2>2, <2>3 DEF TilesLeft
<1> QED
  BY <1>2, <1>5, <1>6

(* A tile nobody had is taken.                                              *)
LEMMA TakenPlaced ==
    ASSUME NEW seat \in Seats, NEW w, WallOK(w), w.haitei = None, NEW hs, HandsOK(hs),
           Placed(w, hs, {}), NEW i \in Tiles, i \notin Handed(w),
           NEW gs, gs[seat] = Takes(hs[seat], i), \A s \in Seats \ {seat} : gs[s] = hs[s],
           NEW v, Handed(v) = Handed(w) \cup {i}, v.count = w.count - 1,
           v.faces = w.faces, v.dice = w.dice
    PROVE  /\ Placed(v, gs, {})
           /\ gs[seat].melds = hs[seat].melds
           /\ Cardinality(gs[seat].closed) = Cardinality(hs[seat].closed) + 1
<1> DEFINE h == hs[seat]
           g == gs[seat]
<1>0. HandOK(h) /\ h.closed \in SUBSET Tiles
  BY DEF HandsOK, HandOK, HandRec
<1>1. /\ g.closed = h.closed \cup {i} /\ g.melds = h.melds
      /\ g.discards = h.discards /\ g.flowers = h.flowers
  BY <1>0 DEF HandOK, HandRec, Takes
<1>2. \A s \in Seats : HandLaid(w, hs[s]) /\ AllOf(hs[s]) \subseteq Handed(w)
  BY DEF Placed, Accounted
<1>3. i \notin AllOf(h) /\ \A s \in Seats : i \notin AllOf(hs[s])
  BY <1>2
<1> HIDE DEF h, g
<1>4. Kept(g) = Kept(h) \cup {i} /\ AllOf(g) = AllOf(h) \cup {i} /\ InMelds(g) = InMelds(h)
  BY <1>1 DEF AllOf, Kept, InMelds
<1>5. Apart(g)
  <2>1. Apart(h) /\ i \notin InMelds(h) /\ i \notin h.flowers /\ i \notin ToSet(h.discards)
    BY <1>2, <1>3 DEF AllOf, Kept, HandLaid, h
  <2> QED
    BY <1>1, <1>4, <2>1 DEF Apart
<1>6. \A t : Flower(v, t) <=> Flower(w, t)
  BY FlowersOf
<1>7. HandLaid(w, g)
  BY <1>1, <1>2, <1>4, <1>5 DEF HandLaid, h
<1>8. \A s \in Seats : HandLaid(v, gs[s])
  <2>1. \A s \in Seats : HandLaid(w, gs[s])
    BY <1>2, <1>7 DEF g
  <2> QED
    BY <1>6, <2>1 DEF HandLaid
<1>9. Exact(w)
  BY DEF WallOK, Exact
<1>10. /\ \A s, t \in Seats : s # t => AllOf(hs[s]) \cap Kept(hs[t]) = {}
       /\ \A s, t \in Seats : s # t => hs[s].flowers \cap hs[t].flowers = {}
  BY <1>9 DEF Placed, SeatsApart
<1>11. SeatsApart(v, gs)
  <2> SUFFICES ASSUME NEW s \in Seats, NEW t \in Seats, s # t
               PROVE  AllOf(gs[s]) \cap Kept(gs[t]) = {} /\ gs[s].flowers \cap gs[t].flowers = {}
    BY DEF SeatsApart
  <2>1. \A q \in Seats : gs[q].flowers = hs[q].flowers
    BY <1>1 DEF g, h
  <2>2. CASE s = seat
    BY <1>3, <1>4, <1>10, <2>1, <2>2 DEF g, h, AllOf
  <2>3. CASE t = seat
    BY <1>3, <1>4, <1>10, <2>1, <2>3 DEF g, h, AllOf
  <2>4. CASE s # seat /\ t # seat
    BY <1>10, <2>4
  <2> QED
    BY <2>2, <2>3, <2>4
<1>12. Accounted(v, gs, {})
  <2>1. \A s \in Seats \ {seat} : AllOf(gs[s]) = AllOf(hs[s])
    OBVIOUS
  <2>2. IsFiniteSet({i}) /\ Cardinality({i}) = 1
    BY FS_Singleton
  <2>3. WallLen \in Nat /\ w.count \in Int /\ IsFiniteSet(Handed(w))
    BY WallNumbersOK, HandedFacts
  <2>4. Accounted(w, hs, {}) /\ AllOf(gs[seat]) = AllOf(hs[seat]) \cup {i}
    BY <1>4 DEF Placed, g, h
  <2>5. v.count = w.count - Cardinality({i})
    BY <2>2
  <2>6. PICK B : B = {i}
    OBVIOUS
  <2>7. /\ IsFiniteSet(B) /\ AllOf(gs[seat]) = AllOf(hs[seat]) \cup B
        /\ Handed(v) = Handed(w) \cup B /\ v.count = w.count - Cardinality(B) /\ seat \in Seats
    BY <2>2, <2>4, <2>5, <2>6
  <2> QED
    BY ONLY <2>1, <2>3, <2>4, <2>7, RevealedAccounted
<1>13. Cardinality(g.closed) = Cardinality(h.closed) + 1
  <2>1. IsFiniteSet(h.closed) /\ i \notin h.closed
    BY <1>0, <1>3, TilesSubset DEF AllOf, Kept
  <2>2. PICK C : C = h.closed
    OBVIOUS
  <2>3. Cardinality(C \cup {i}) = Cardinality(C) + 1
    BY <2>1, <2>2, FS_AddElement
  <2> QED
    BY <1>1, <2>2, <2>3
<1> QED
  BY <1>1, <1>8, <1>11, <1>12, <1>13 DEF Placed, g, h

(* A draw from the front, the haitei offer or a drawn hand.                 *)
LEMMA DrawTiles ==
    ASSUME NEW seat \in Seats, activePlayer' = seat, NEW w, WallOK(w), NEW hs, HandsOK(hs),
           NEW va, OffersOK(va), isHaitei \in BOOLEAN,
           \A s \in Seats : Flowers(w, hs[s].closed) = {}, Placed(w, hs, {}),
           ExecuteSystemDraw(seat, w, hs, va)
    PROVE  TilesLeft(seat, hs, 1)
<1>1. CASE \E g : \E r \in Nat : FrontDrawn(seat, w, hs, g, r)
  <2>1. PICK g : \E r \in Nat : FrontDrawn(seat, w, hs, g, r)
    BY <1>1
  <2>2. PICK r \in Nat : FrontDrawn(seat, w, hs, g, r)
    BY <2>1
  <2> DEFINE i == NextFront(w)
             v == Taken(w, i)
  <2>3. /\ i < Border(w) /\ isHaitei' = isHaitei /\ HandsOK(g)
        /\ g[seat] = Takes(hs[seat], i) /\ \A s \in Seats \ {seat} : g[s] = hs[s]
        /\ Replaced(seat, v, g, 0, r)
    BY <2>2 DEF FrontDrawn
  <2>4. /\ WallOK(v) /\ Handed(v) = Handed(w) \cup {i} /\ i \in Tiles
        /\ i \notin Handed(w) /\ w.haitei = None
        /\ v.faces = w.faces /\ v.dice = w.dice /\ v.haitei = w.haitei /\ v.count = w.count - 1
    BY <2>3, FrontDrawFacts
  <2> HIDE DEF i, v
  <2>5. /\ Placed(v, g, {}) /\ g[seat].melds = hs[seat].melds
        /\ Cardinality(g[seat].closed) = Cardinality(hs[seat].closed) + 1
    BY <2>3, <2>4, TakenPlaced
  <2>6. \A s \in Seats \ {seat} : Flowers(v, g[s].closed) = {}
    <3>1. \A S : Flowers(v, S) = Flowers(w, S)
      BY <2>4, SameFaces
    <3> QED
      BY <2>3, <3>1
  <2>7. v.haitei # None => r = 0 \/ Flower(v, v.haitei)
    BY <2>4
  <2>8. /\ Placed(wall', hands', {})
        /\ wall'.haitei = v.haitei
        /\ hands'[seat].melds = g[seat].melds
        /\ hands'[seat].closed = (g[seat].closed \cup BackTiles(v, r))
                                 \ Flowers(v, g[seat].closed \cup BackTiles(v, r))
    BY <2>3, <2>4, <2>5, <2>6, <2>7, SettledPlaced
  <2>9. /\ \A s \in Seats \ {seat} : hands'[s] = g[s]
        /\ \/ /\ PlayOn("PLAYER_TURN") /\ r = Owed(v, g[seat], 0, r)
              /\ TurnOffers(wall', hands'[seat], isHaitei', validActions'[seat])
           \/ EndRoundInDraw
    BY <2>3 DEF Replaced
  <2>10. CASE EndRoundInDraw
    BY <2>3, <2>8, <2>9, <2>10 DEF TilesLeft
  <2>11. CASE /\ PlayOn("PLAYER_TURN") /\ r = Owed(v, g[seat], 0, r)
              /\ TurnOffers(wall', hands'[seat], isHaitei', validActions'[seat])
    <3>1. ~HaiteiOffered'
      BY <2>11, StageTurn
    <3>2. Cardinality(hands'[seat].closed) = Cardinality(g[seat].closed) + 0
      BY <2>3, <2>4, <2>5, <2>7, <2>8, <2>11, SettledCount
    <3>3. Cardinality(hs[seat].closed) \in Nat
      BY TilesSubset DEF HandsOK, HandRec
    <3>4. Cardinality(hands'[seat].closed) = Cardinality(hs[seat].closed) + 1
      BY <2>5, <3>2, <3>3
    <3>5. HaiteiOk(wall', isHaitei')
      BY <2>4, <2>8 DEF HaiteiOk
    <3> QED
      BY <2>3, <2>5, <2>8, <2>9, <2>11, <3>1, <3>4, <3>5 DEF TilesLeft
  <2> QED
    BY <2>9, <2>10, <2>11
<1>2. CASE WallExhausted(seat, w, hs)
  <2>1. /\ NextFront(w) = Border(w) /\ wall' = [w EXCEPT !.index = Border(w)] /\ hands' = hs
        /\ \/ isHaitei' = TRUE /\ validActions'[seat] = HaiteiOffers /\ PlayOn("PLAYER_TURN")
           \/ EndRoundInDraw
    BY <1>2 DEF WallExhausted
  <2>2. /\ Handed(wall') = Handed(w) /\ wall'.faces = w.faces /\ wall'.dice = w.dice
        /\ wall'.haitei = w.haitei /\ wall'.count = w.count
    BY <2>1, ExhaustedFacts
  <2>3. Placed(wall', hands', {})
    <3>1. \A t : Flower(wall', t) <=> Flower(w, t)
      BY <2>2, FlowersOf
    <3>2. \A s \in Seats : HandLaid(wall', hands'[s])
      BY <2>1, <3>1 DEF Placed, HandLaid
    <3>3. Exact(wall') <=> Exact(w)
      BY <2>2 DEF Exact
    <3>4. SeatsApart(wall', hands')
      BY <2>1, <2>2, <3>3 DEF Placed, SeatsApart
    <3>5. Accounted(wall', hands', {})
      BY <2>1, <2>2 DEF Placed, Accounted
    <3> QED
      BY <3>2, <3>4, <3>5 DEF Placed
  <2>4. CASE EndRoundInDraw
    BY <2>1, <2>3, <2>4 DEF TilesLeft
  <2>5. CASE isHaitei' = TRUE /\ validActions'[seat] = HaiteiOffers /\ PlayOn("PLAYER_TURN")
    <3>1. HaiteiOffered'
      BY <2>5, StageOffered
    <3>2. Cardinality(hands'[seat].closed) = Cardinality(hs[seat].closed) + 0
      <4>1. Cardinality(hs[seat].closed) \in Nat
        BY TilesSubset DEF HandsOK, HandRec
      <4> QED
        BY <2>1, <4>1
    <3>3. HaiteiOk(wall', isHaitei')
      BY <2>5 DEF HaiteiOk
    <3> QED
      BY <2>1, <2>3, <2>5, <3>1, <3>2, <3>3 DEF TilesLeft
  <2> QED
    BY <2>1, <2>4, <2>5
<1> QED
  BY <1>1, <1>2, SystemDrawGoes

-----------------------------------------------------------------------------
(* Tiles that move between the places of the table.                         *)

(* Within a hand. *)
LEMMA MovedPlaced ==
    ASSUME NEW w, NEW hs, NEW won, Placed(w, hs, won), NEW gs,
           \A s \in Seats : /\ HandLaid(w, gs[s]) /\ Kept(gs[s]) = Kept(hs[s])
                            /\ gs[s].flowers = hs[s].flowers
    PROVE  Placed(w, gs, won)
<1>1. \A s \in Seats : AllOf(gs[s]) = AllOf(hs[s])
  BY DEF AllOf
<1>2. SeatsApart(w, gs)
  BY <1>1 DEF Placed, SeatsApart
<1>3. UNION { AllOf(gs[s]) : s \in Seats } = UNION { AllOf(hs[s]) : s \in Seats }
  BY <1>1
<1>4. Accounted(w, gs, won)
  BY <1>1, <1>3 DEF Placed, Accounted
<1> QED
  BY <1>2, <1>4 DEF Placed

(* From the pile of seat a to the melds of seat s. *)
LEMMA GivenPlaced ==
    ASSUME NEW w, NEW hs, Placed(w, hs, {}), NEW a \in Seats, NEW s \in Seats, a # s,
           NEW t \in Kept(hs[a]), NEW gs,
           \A q \in Seats : HandLaid(w, gs[q]) /\ gs[q].flowers = hs[q].flowers,
           Kept(gs[a]) = Kept(hs[a]) \ {t}, Kept(gs[s]) = Kept(hs[s]) \cup {t},
           \A q \in Seats \ {a, s} : Kept(gs[q]) = Kept(hs[q])
    PROVE  Placed(w, gs, {})
<1>1. /\ \A p, q \in Seats : p # q => AllOf(hs[p]) \cap Kept(hs[q]) = {}
      /\ \A p, q \in Seats : p # q => hs[p].flowers \cap hs[q].flowers \subseteq {w.haitei}
      /\ \A p, q \in Seats : p # q => (Exact(w) => hs[p].flowers \cap hs[q].flowers = {})
  BY DEF Placed, SeatsApart
<1>2. t \in AllOf(hs[a]) /\ \A q \in Seats \ {a} : t \notin AllOf(hs[q])
  BY <1>1 DEF AllOf
<1>3. t \notin hs[a].flowers
  <2>1. HandLaid(w, hs[a])
    BY DEF Placed
  <2> QED
    BY <2>1 DEF HandLaid, Apart, Kept
<1>4. /\ AllOf(gs[a]) = AllOf(hs[a]) \ {t} /\ AllOf(gs[s]) = AllOf(hs[s]) \cup {t}
      /\ \A q \in Seats \ {a, s} : AllOf(gs[q]) = AllOf(hs[q])
  BY <1>3 DEF AllOf
<1>5. SeatsApart(w, gs)
  <2> SUFFICES ASSUME NEW p \in Seats, NEW q \in Seats, p # q
               PROVE  AllOf(gs[p]) \cap Kept(gs[q]) = {}
    BY <1>1 DEF SeatsApart
  <2>1. AllOf(hs[p]) \cap Kept(hs[q]) = {}
    BY <1>1
  <2>2. CASE p = s
    <3>1. t \notin Kept(gs[q])
      BY <1>2, <2>2 DEF AllOf
    <3>2. Kept(gs[q]) \subseteq Kept(hs[q])
      BY <2>2
    <3> QED
      BY <1>4, <2>1, <2>2, <3>1, <3>2
  <2>3. CASE q = s
    <3>1. t \notin AllOf(gs[p])
      BY <1>2, <1>4, <2>3
    <3>2. AllOf(gs[p]) \subseteq AllOf(hs[p])
      BY <1>4, <2>3
    <3> QED
      BY <2>1, <2>3, <3>1, <3>2
  <2>4. CASE p # s /\ q # s
    <3>1. AllOf(gs[p]) \subseteq AllOf(hs[p]) /\ Kept(gs[q]) \subseteq Kept(hs[q])
      BY <1>4, <2>4
    <3> QED
      BY <2>1, <3>1
  <2> QED
    BY <2>2, <2>3, <2>4
<1>6. UNION { AllOf(gs[q]) : q \in Seats } = UNION { AllOf(hs[q]) : q \in Seats }
  <2>1. \A x : (\E q \in Seats : x \in AllOf(gs[q])) <=> (\E q \in Seats : x \in AllOf(hs[q]))
    <3> TAKE x
    <3>1. CASE x = t
      BY <1>2, <1>4, <3>1
    <3>2. CASE x # t
      BY <1>4, <3>2
    <3> QED
      BY <3>1, <3>2
  <2> QED
    BY <2>1
<1>7. Accounted(w, gs, {})
  BY <1>6 DEF Placed, Accounted
<1> QED
  BY <1>5, <1>7 DEF Placed

(* From the pile of seat a to nobody. *)
LEMMA WonPlaced ==
    ASSUME NEW w, NEW hs, Placed(w, hs, {}), NEW a \in Seats,
           NEW t \in Kept(hs[a]), NEW gs,
           \A q \in Seats : HandLaid(w, gs[q]) /\ gs[q].flowers = hs[q].flowers,
           Kept(gs[a]) = Kept(hs[a]) \ {t},
           \A q \in Seats \ {a} : Kept(gs[q]) = Kept(hs[q])
    PROVE  Placed(w, gs, {t})
<1>1. /\ \A p, q \in Seats : p # q => AllOf(hs[p]) \cap Kept(hs[q]) = {}
      /\ \A p, q \in Seats : p # q => hs[p].flowers \cap hs[q].flowers \subseteq {w.haitei}
      /\ \A p, q \in Seats : p # q => (Exact(w) => hs[p].flowers \cap hs[q].flowers = {})
  BY DEF Placed, SeatsApart
<1>2. t \in AllOf(hs[a]) /\ \A q \in Seats \ {a} : t \notin AllOf(hs[q])
  BY <1>1 DEF AllOf
<1>3. t \notin hs[a].flowers
  <2>1. HandLaid(w, hs[a])
    BY DEF Placed
  <2> QED
    BY <2>1 DEF HandLaid, Apart, Kept
<1>4. /\ AllOf(gs[a]) = AllOf(hs[a]) \ {t}
      /\ \A q \in Seats \ {a} : AllOf(gs[q]) = AllOf(hs[q])
  BY <1>3 DEF AllOf
<1>5. \A q \in Seats : Kept(gs[q]) \subseteq Kept(hs[q]) /\ AllOf(gs[q]) \subseteq AllOf(hs[q])
  BY <1>4
<1>6. SeatsApart(w, gs)
  <2> SUFFICES ASSUME NEW p \in Seats, NEW q \in Seats, p # q
               PROVE  AllOf(gs[p]) \cap Kept(gs[q]) = {}
    BY <1>1 DEF SeatsApart
  <2> QED
    BY <1>1, <1>5
<1>7. \A q \in Seats : t \notin AllOf(gs[q])
  BY <1>2, <1>4
<1>8. {t} \cup UNION { AllOf(gs[q]) : q \in Seats } = UNION { AllOf(hs[q]) : q \in Seats }
  <2>1. \A x : x = t \/ (\E q \in Seats : x \in AllOf(gs[q])) <=> (\E q \in Seats : x \in AllOf(hs[q]))
    <3> TAKE x
    <3>1. CASE x = t
      BY <1>2, <3>1
    <3>2. CASE x # t
      BY <1>4, <3>2
    <3> QED
      BY <3>1, <3>2
  <2> QED
    BY <2>1
<1>9. Accounted(w, gs, {t})
  BY <1>7, <1>8 DEF Placed, Accounted
<1> QED
  BY <1>6, <1>9 DEF Placed

-----------------------------------------------------------------------------
(* What moves do to a hand.                                                 *)

LEMMA AppendedTiles ==
    ASSUME NEW q \in Seq(Tiles), NEW t \in Tiles
    PROVE  /\ ToSet(Append(q, t)) = ToSet(q) \cup {t}
           /\ IsInjective(q) /\ t \notin ToSet(q) => IsInjective(Append(q, t))
<1> PICK n : n = Len(q)
  OBVIOUS
<1> PICK p : p = Append(q, t)
  OBVIOUS
<1>1. /\ n \in Nat /\ DOMAIN q = 1 .. n /\ DOMAIN p = 1 .. n + 1
      /\ \A i \in 1 .. n : p[i] = q[i]
      /\ p[n + 1] = t
  OBVIOUS
<1>2. ToSet(p) = { p[i] : i \in 1 .. n + 1 } /\ ToSet(q) = { q[i] : i \in 1 .. n }
  BY <1>1 DEF ToSet
<1>3. \A i \in 1 .. n + 1 : i \in 1 .. n \/ i = n + 1
  BY <1>1
<1>4. n + 1 \in 1 .. n + 1 /\ \A i \in 1 .. n : i \in 1 .. n + 1
  BY <1>1
<1>5. ToSet(p) = ToSet(q) \cup {t}
  BY <1>1, <1>2, <1>3, <1>4
<1>6. ASSUME IsInjective(q), t \notin ToSet(q) PROVE IsInjective(p)
  <2> SUFFICES ASSUME NEW i \in 1 .. n + 1, NEW j \in 1 .. n + 1, p[i] = p[j] PROVE i = j
    BY <1>1 DEF IsInjective
  <2>1. \A k \in 1 .. n : p[k] # t
    BY <1>1, <1>2, <1>6
  <2>2. \A k, m \in 1 .. n : p[k] = p[m] => k = m
    BY <1>1, <1>6 DEF IsInjective
  <2> QED
    BY <1>1, <1>3, <2>1, <2>2
<1> QED
  BY <1>5, <1>6

LEMMA FrontTiles ==
    ASSUME NEW q \in Seq(Tiles), q # << >>, IsInjective(q)
    PROVE  /\ ToSet(Front(q)) = ToSet(q) \ {Last(q)} /\ Last(q) \in ToSet(q)
           /\ IsInjective(Front(q))
<1> PICK n : n = Len(q) - 1
  OBVIOUS
<1> PICK p : p = Front(q)
  OBVIOUS
<1>1. /\ n \in Nat /\ DOMAIN q = 1 .. n + 1 /\ DOMAIN p = 1 .. n
      /\ \A i \in 1 .. n : p[i] = q[i]
      /\ Last(q) = q[n + 1]
  BY FrontFacts DEF Last
<1>2. ToSet(p) = { p[i] : i \in 1 .. n } /\ ToSet(q) = { q[i] : i \in 1 .. n + 1 }
  BY <1>1 DEF ToSet
<1>3. \A i, j \in 1 .. n + 1 : q[i] = q[j] => i = j
  BY <1>1 DEF IsInjective
<1>4. /\ \A i \in 1 .. n + 1 : i \in 1 .. n \/ i = n + 1
      /\ n + 1 \in 1 .. n + 1 /\ \A i \in 1 .. n : i \in 1 .. n + 1 /\ i # n + 1
  BY <1>1
<1>5. \A i \in 1 .. n : q[i] # q[n + 1]
  BY <1>3, <1>4
<1>6. ToSet(p) = ToSet(q) \ {Last(q)}
  BY <1>1, <1>2, <1>4, <1>5
<1>7. IsInjective(p)
  BY <1>1, <1>3, <1>4 DEF IsInjective
<1> QED
  BY <1>1, <1>2, <1>4, <1>6, <1>7

LEMMA DiscardLaid ==
    ASSUME NEW w, NEW h, HandOK(h), HandLaid(w, h), NEW t \in h.closed, ~Flower(w, t),
           NEW g, g = Discarded(h, t)
    PROVE  /\ HandLaid(w, g) /\ Kept(g) = Kept(h) /\ g.flowers = h.flowers
           /\ g.melds = h.melds /\ Tally(g) = Tally(h) - 1
<1>1. h.closed \in SUBSET Tiles /\ h.discards \in Seq(Tiles) /\ t \in Tiles
  BY DEF HandOK, HandRec
<1>2. /\ g.closed = h.closed \ {t} /\ g.melds = h.melds /\ g.flowers = h.flowers
      /\ g.discards = Append(h.discards, t)
  BY DiscardFacts
<1>3. /\ h.closed \cap h.flowers = {} /\ ToSet(h.discards) \cap (h.closed \cup h.flowers) = {}
      /\ InMelds(h) \cap (h.closed \cup h.flowers \cup ToSet(h.discards)) = {}
      /\ IsInjective(h.discards)
      /\ \A m, n \in h.melds : m # n => m.tiles \cap n.tiles = {}
  BY DEF HandLaid, Apart
<1>4. /\ ToSet(g.discards) = ToSet(h.discards) \cup {t} /\ IsInjective(g.discards)
      /\ InMelds(g) = InMelds(h)
  BY <1>1, <1>2, <1>3, AppendedTiles DEF InMelds
<1>5. Apart(g)
  BY <1>2, <1>3, <1>4 DEF Apart
<1>6. HandLaid(w, g)
  BY <1>2, <1>4, <1>5 DEF HandLaid
<1>7. Kept(g) = Kept(h)
  BY <1>2, <1>4 DEF Kept
<1>8. Tally(g) = Tally(h) - 1
  <2>1. /\ Cardinality(h.closed \ {t}) = Cardinality(h.closed) - Cardinality({t})
        /\ Cardinality(h.closed) \in Nat
    BY <1>1, LessTiles
  <2>2. Cardinality({t}) = 1
    BY FS_Singleton
  <2>3. Cardinality(h.melds) \in Nat
    BY FS_CardinalityType DEF HandLaid
  <2> QED
    BY <1>2, <2>1, <2>2, <2>3 DEF Tally
<1> QED
  BY <1>2, <1>6, <1>7, <1>8

(* The hand g is h without the tile t on its pile. *)
Lifted(w, h, t, g) ==
    /\ HandLaid(w, g) /\ Kept(g) = Kept(h) \ {t} /\ g.flowers = h.flowers
    /\ g.melds = h.melds /\ Tally(g) = Tally(h)
    /\ t \in Kept(h) /\ ~Flower(w, t)

LEMMA PileLaid ==
    ASSUME NEW w, NEW h, HandOK(h), HandLaid(w, h), h.discards # << >>
    PROVE  Lifted(w, h, Last(h.discards), PileHand(h))
<1> PICK t : t = Last(h.discards)
  OBVIOUS
<1> PICK g : g = PileHand(h)
  OBVIOUS
<1>1. h.discards \in Seq(Tiles)
  BY DEF HandOK, HandRec
<1>2. /\ g.closed = h.closed /\ g.melds = h.melds /\ g.flowers = h.flowers
      /\ g.discards = Front(h.discards)
  BY PileFacts
<1>3. /\ h.closed \cap h.flowers = {} /\ ToSet(h.discards) \cap (h.closed \cup h.flowers) = {}
      /\ InMelds(h) \cap (h.closed \cup h.flowers \cup ToSet(h.discards)) = {}
      /\ IsInjective(h.discards)
      /\ \A m, n \in h.melds : m # n => m.tiles \cap n.tiles = {}
  BY DEF HandLaid, Apart
<1>4. /\ ToSet(g.discards) = ToSet(h.discards) \ {t} /\ IsInjective(g.discards)
      /\ t \in ToSet(h.discards) /\ InMelds(g) = InMelds(h)
  BY <1>1, <1>2, <1>3, FrontTiles DEF InMelds
<1>5. Apart(g)
  BY <1>2, <1>3, <1>4 DEF Apart
<1>6. HandLaid(w, g) /\ ~Flower(w, t)
  BY <1>2, <1>4, <1>5 DEF HandLaid
<1>7. Kept(g) = Kept(h) \ {t} /\ t \in Kept(h)
  BY <1>2, <1>3, <1>4 DEF Kept
<1> QED
  BY <1>2, <1>6, <1>7 DEF Tally, Lifted

(* A new meld, of the tiles X of the hand and the tiles Y from elsewhere.   *)
MayMeld(w, h, X, Y) ==
    /\ HandOK(h) /\ HandLaid(w, h) /\ \A x \in h.closed : ~Flower(w, x)
    /\ X \subseteq h.closed /\ Y \cap AllOf(h) = {} /\ X \cup Y # {}
    /\ \A y \in Y : ~Flower(w, y)
Melding(h, type, X, Y, g) ==
    /\ g.closed = h.closed \ X /\ g.melds = h.melds \cup {Offer(type, X \cup Y)}
    /\ g.flowers = h.flowers /\ g.discards = h.discards
WithMeld(w, h, X, Y, g) ==
    /\ HandLaid(w, g) /\ Kept(g) = Kept(h) \cup Y
    /\ Tally(g) = Tally(h) - Cardinality(X) + 3

LEMMA MeldLaid ==
    ASSUME NEW w, NEW h, NEW X, NEW Y, MayMeld(w, h, X, Y), NEW type, NEW g, Melding(h, type, X, Y, g)
    PROVE  WithMeld(w, h, X, Y, g)
<1> PICK m : m = Offer(type, X \cup Y)
  OBVIOUS
<1>0. /\ m.tiles = X \cup Y /\ g.closed = h.closed \ X /\ g.melds = h.melds \cup {m}
      /\ g.flowers = h.flowers /\ g.discards = h.discards
  BY DEF Offer, Melding
<1>. /\ HandOK(h) /\ HandLaid(w, h) /\ \A x \in h.closed : ~Flower(w, x)
     /\ X \subseteq h.closed /\ Y \cap AllOf(h) = {} /\ X \cup Y # {}
     /\ \A y \in Y : ~Flower(w, y)
  BY DEF MayMeld
<1>1. /\ h.closed \cap h.flowers = {} /\ ToSet(h.discards) \cap (h.closed \cup h.flowers) = {}
      /\ InMelds(h) \cap (h.closed \cup h.flowers \cup ToSet(h.discards)) = {}
      /\ IsInjective(h.discards)
      /\ \A p, q \in h.melds : p # q => p.tiles \cap q.tiles = {}
      /\ IsFiniteSet(h.melds)
  BY DEF HandLaid, Apart
<1>2. /\ Y \cap h.closed = {} /\ Y \cap h.flowers = {} /\ Y \cap InMelds(h) = {}
      /\ Y \cap ToSet(h.discards) = {}
  BY DEF AllOf, Kept
<1>3. \A p \in h.melds : p.tiles \cap m.tiles = {}
  <2>1. \A p \in h.melds : p.tiles \subseteq InMelds(h)
    BY DEF InMelds
  <2> QED
    BY <1>0, <1>1, <1>2, <2>1
<1>4. m \notin h.melds
  BY <1>0, <1>3
<1>5. InMelds(g) = InMelds(h) \cup X \cup Y
  BY <1>0 DEF InMelds
<1>6. Apart(g)
  <2>1. /\ g.closed \cap g.flowers = {} /\ ToSet(g.discards) \cap (g.closed \cup g.flowers) = {}
        /\ IsInjective(g.discards)
    BY <1>0, <1>1
  <2>2. InMelds(g) \cap (g.closed \cup g.flowers \cup ToSet(g.discards)) = {}
    BY <1>0, <1>1, <1>2, <1>5
  <2>3. \A p, q \in g.melds : p # q => p.tiles \cap q.tiles = {}
    BY <1>0, <1>1, <1>3
  <2> QED
    BY <2>1, <2>2, <2>3 DEF Apart
<1>7. HandLaid(w, g)
  <2>1. IsFiniteSet(g.melds)
    <3>1. IsFiniteSet(h.melds \cup {m})
      BY <1>1, FS_AddElement
    <3> QED
      BY <1>0, <3>1
  <2>2. \A p \in g.melds : p.tiles # {}
    BY <1>0 DEF HandLaid
  <2>3. \A x \in InMelds(g) \cup ToSet(g.discards) : ~Flower(w, x)
    BY <1>0, <1>5 DEF HandLaid
  <2> QED
    BY <1>6, <2>1, <2>2, <2>3 DEF HandLaid
<1>8. Kept(g) = Kept(h) \cup Y
  BY <1>0, <1>5 DEF Kept
<1>9. Tally(g) = Tally(h) - Cardinality(X) + 3
  <2>1. h.closed \in SUBSET Tiles
    BY DEF HandOK, HandRec
  <2>2. /\ Cardinality(h.closed \ X) = Cardinality(h.closed) - Cardinality(X)
        /\ Cardinality(h.closed) \in Nat /\ Cardinality(X) \in Nat
    BY <2>1, LessTiles
  <2>3. Cardinality(h.melds \cup {m}) = Cardinality(h.melds) + 1 /\ Cardinality(h.melds) \in Nat
    BY <1>1, <1>4, FS_AddElement, FS_CardinalityType
  <2> QED
    BY <1>0, <2>2, <2>3 DEF Tally
<1> QED
  BY <1>7, <1>8, <1>9 DEF WithMeld

LEMMA ClaimLaid ==
    ASSUME NEW w, NEW h, HandOK(h), HandLaid(w, h), \A x \in h.closed : ~Flower(w, x),
           NEW t \in Tiles, t \notin AllOf(h), ~Flower(w, t),
           NEW o, o.tiles \subseteq h.closed, o.type \in {"chii", "pon", "kan"},
           NEW g, g = ClaimHand(h, o, t)
    PROVE  /\ HandLaid(w, g) /\ Kept(g) = Kept(h) \cup {t} /\ g.flowers = h.flowers
           /\ Tally(g) = Tally(h) - Cardinality(o.tiles) + 3
<1>1. /\ g.closed = h.closed \ o.tiles
      /\ g.melds = h.melds \cup { Offer(o.type, o.tiles \cup {t}) }
      /\ g.flowers = h.flowers /\ g.discards = h.discards
  BY ClaimFacts DEF Claimed
<1> PICK Y : Y = {t}
  OBVIOUS
<1>2. Melding(h, o.type, o.tiles, Y, g)
  BY <1>1 DEF Melding
<1>3. MayMeld(w, h, o.tiles, Y)
  BY DEF MayMeld
<1>4. WithMeld(w, h, o.tiles, Y, g)
  BY <1>2, <1>3, MeldLaid
<1> QED
  BY <1>1, <1>4 DEF WithMeld

(* A self-drawn kong of four tiles is not of the face of a pon.             *)
LEMMA KongNotOfPon ==
    ASSUME NEW w, WallOK(w), NEW h, HandOK(h), HandLaid(w, h),
           NEW m \in h.melds, NEW t \in h.closed, Cardinality(Alike(w, h.closed, t)) = 4
    PROVE  ~ \A p \in m.tiles, u \in Alike(w, h.closed, t) : SameFace(w, p, u)
<1> SUFFICES ASSUME \A p \in m.tiles, u \in Alike(w, h.closed, t) : SameFace(w, p, u)
             PROVE  FALSE
  OBVIOUS
<1>1. h.closed \in SUBSET Tiles /\ m.tiles \in SUBSET Tiles
  BY DEF HandOK, HandRec, Melds
<1>2. PICK p \in m.tiles : TRUE
  BY DEF HandLaid
<1>3. p \notin h.closed
  BY <1>2 DEF HandLaid, Apart, InMelds
<1> PICK A : A = Alike(w, h.closed, t)
  OBVIOUS
<1>4. A \in SUBSET h.closed /\ t \in A /\ \A u \in A : w.faces[u] = w.faces[t]
  BY DEF Alike, SameFace
<1>5. w.faces[p] = w.faces[t]
  BY <1>2, <1>4 DEF SameFace
<1>6. w.faces \in Walls
  BY DEF WallOK, WallRec
<1> PICK F : F = { u \in Tiles : w.faces[u] = w.faces[t] }
  OBVIOUS
<1>7. Cardinality(F) <= 4
  BY <1>1, <1>6, FourAlikeAssumption DEF Tiles
<1>8. A \cup {p} \subseteq F
  BY <1>1, <1>2, <1>4, <1>5
<1>9. IsFiniteSet(F) /\ Cardinality(F) \in Nat
  BY TilesSubset
<1>10. Cardinality(A \cup {p}) = 5
  <2>1. IsFiniteSet(A) /\ p \notin A /\ Cardinality(A) = 4
    BY <1>1, <1>3, <1>4, TilesSubset
  <2>2. Cardinality(A \cup {p}) = Cardinality(A) + 1
    BY <2>1, FS_AddElement
  <2> QED
    BY <2>1, <2>2
<1>11. Cardinality(A \cup {p}) <= Cardinality(F)
  BY <1>8, <1>9, FS_Subset
<1> QED
  BY <1>7, <1>9, <1>10, <1>11

LEMMA KongLaid ==
    ASSUME NEW w, WallOK(w), NEW h, HandOK(h), HandLaid(w, h), \A x \in h.closed : ~Flower(w, x),
           NEW o \in ClosedKongs(w, h) \cup UpgradedKongs(w, h), NEW g, g = KongHand(w, h, o)
    PROVE  /\ HandLaid(w, g) /\ Kept(g) = Kept(h) /\ g.flowers = h.flowers
           /\ Tally(g) = Tally(h) - 1
<1> DEFINE U == { m \in h.melds : m.type = "pon" /\ \A p \in m.tiles, t \in o.tiles : SameFace(w, p, t) }
<1>1. o.tiles \subseteq h.closed /\ h.closed \in SUBSET Tiles /\ h \in HandRec
  BY KongsFacts DEF HandOK, HandRec
<1>2. /\ g.closed = h.closed \ o.tiles /\ g.melds = Konged(w, h.melds, o.tiles)
      /\ g.flowers = h.flowers /\ g.discards = h.discards
  BY <1>1, KongFacts
<1>3. Cardinality(h.closed) \in Nat /\ Cardinality(h.melds) \in Nat /\ IsFiniteSet(h.melds)
  BY TallyIs DEF HandLaid
<1>4. CASE U = {}
  <2>1. g.melds = h.melds \cup { Offer("kan", o.tiles) }
    BY <1>2, <1>4 DEF Konged
  <2>2. o \in ClosedKongs(w, h)
    <3>1. ASSUME o \in UpgradedKongs(w, h) PROVE FALSE
      <4>1. PICK t \in h.closed : o = Offer("kan", {t}) /\ \E m \in h.melds :
                    m.type = "pon" /\ \A p \in m.tiles : SameFace(w, p, t)
        BY <3>1 DEF UpgradedKongs
      <4>2. o.tiles = {t}
        BY <4>1 DEF Offer
      <4> QED
        BY <1>4, <4>1, <4>2
    <3> QED
      BY <3>1
  <2>3. Cardinality(o.tiles) = 4
    BY <2>2 DEF ClosedKongs, Offer
  <2>4. o.tiles # {}
    BY <2>3, FS_EmptySet
  <2> PICK Y : Y = {}
    OBVIOUS
  <2>5. Melding(h, "kan", o.tiles, Y, g)
    BY <1>2, <2>1 DEF Melding
  <2>6. MayMeld(w, h, o.tiles, Y)
    BY <1>1, <2>4 DEF MayMeld
  <2>7. WithMeld(w, h, o.tiles, Y, g)
    BY <2>5, <2>6, MeldLaid
  <2>8. Tally(h) \in Nat
    BY <1>3 DEF Tally
  <2> QED
    BY <1>2, <2>3, <2>7, <2>8 DEF WithMeld
<1>5. CASE U # {}
  <2>1. PICK m \in U : g.melds = (h.melds \ {m}) \cup { Offer("kan", m.tiles \cup o.tiles) }
    BY <1>2, <1>5 DEF Konged
  <2>2. \E t \in h.closed : o = Offer("kan", {t})
    <3>1. ASSUME o \in ClosedKongs(w, h) PROVE FALSE
      <4>1. PICK t \in h.closed : /\ o = Offer("kan", Alike(w, h.closed, t))
                                  /\ Cardinality(Alike(w, h.closed, t)) = 4
        BY <3>1 DEF ClosedKongs
      <4>2. o.tiles = Alike(w, h.closed, t)
        BY <4>1 DEF Offer
      <4> QED
        BY <2>1, <4>1, <4>2, KongNotOfPon
    <3> QED
      BY <3>1 DEF UpgradedKongs
  <2>3. PICK t \in h.closed : o.tiles = {t}
    BY <2>2 DEF Offer
  <2>4. /\ h.closed \cap h.flowers = {} /\ ToSet(h.discards) \cap (h.closed \cup h.flowers) = {}
        /\ InMelds(h) \cap (h.closed \cup h.flowers \cup ToSet(h.discards)) = {}
        /\ IsInjective(h.discards)
        /\ \A p, q \in h.melds : p # q => p.tiles \cap q.tiles = {}
    BY DEF HandLaid, Apart
  <2> PICK n : n = Offer("kan", m.tiles \cup o.tiles)
    OBVIOUS
  <2>5. n.tiles = m.tiles \cup {t} /\ g.melds = (h.melds \ {m}) \cup {n}
    BY <2>1, <2>3 DEF Offer
  <2>6. \A q \in h.melds : q.tiles \subseteq InMelds(h) /\ t \notin q.tiles
    BY <2>4 DEF InMelds
  <2>7. InMelds(g) = InMelds(h) \cup {t}
    BY <2>1, <2>5 DEF InMelds
  <2>8. \A p, q \in g.melds : p # q => p.tiles \cap q.tiles = {}
    <3>1. \A p \in h.melds \ {m} : p.tiles \cap n.tiles = {}
      <4> TAKE p \in h.melds \ {m}
      <4>1. m \in h.melds
        BY <2>1
      <4>2. p.tiles \cap m.tiles = {} /\ t \notin p.tiles
        BY <2>4, <2>6, <4>1
      <4> QED
        BY <2>5, <4>2
    <3>2. \A p, q \in h.melds \ {m} : p # q => p.tiles \cap q.tiles = {}
      BY <2>4
    <3>3. \A p \in g.melds : p \in h.melds \ {m} \/ p = n
      BY <2>5
    <3> QED
      BY <3>1, <3>2, <3>3
  <2>9. Apart(g)
    <3>1. InMelds(g) \cap (g.closed \cup g.flowers \cup ToSet(g.discards)) = {}
      BY <1>2, <2>3, <2>4, <2>7
    <3> QED
      BY <1>2, <2>4, <2>8, <3>1 DEF Apart
  <2>10. HandLaid(w, g)
    <3>1. IsFiniteSet(g.melds)
      <4>1. IsFiniteSet(h.melds \ {m})
        BY <1>3, FS_RemoveElement
      <4> QED
        BY <2>5, <4>1, FS_AddElement
    <3>2. \A p \in g.melds : p.tiles # {}
      BY <2>5 DEF HandLaid
    <3>3. \A x \in InMelds(g) \cup ToSet(g.discards) : ~Flower(w, x)
      BY <1>2, <2>7 DEF HandLaid
    <3> QED
      BY <2>9, <3>1, <3>2, <3>3 DEF HandLaid
  <2>11. Kept(g) = Kept(h)
    BY <1>2, <2>3, <2>7 DEF Kept
  <2>12. Cardinality(g.melds) = Cardinality(h.melds)
    <3>1. IsFiniteSet(h.melds \ {m}) /\ Cardinality(h.melds \ {m}) = Cardinality(h.melds) - 1
      BY <1>3, <2>1, FS_RemoveElement
    <3>2. n \notin h.melds \ {m}
      BY <2>5, <2>6
    <3>3. Cardinality((h.melds \ {m}) \cup {n}) = Cardinality(h.melds \ {m}) + 1
      BY <3>1, <3>2, FS_AddElement
    <3> QED
      BY <1>3, <2>5, <3>1, <3>3
  <2>13. Cardinality(g.closed) = Cardinality(h.closed) - 1
    <3>1. Cardinality(h.closed \ {t}) = Cardinality(h.closed) - Cardinality({t})
      BY <1>1, LessTiles
    <3>2. Cardinality({t}) = 1
      BY FS_Singleton
    <3> QED
      BY <1>2, <2>3, <3>1, <3>2
  <2> QED
    BY <1>2, <1>3, <2>10, <2>11, <2>12, <2>13 DEF Tally
<1> QED
  BY <1>4, <1>5

-----------------------------------------------------------------------------
(* Each call of the engine keeps the tiles.                                 *)

LEMMA InPlayTiles ==
    ASSUME SeatsInv, TableInv, TilesInv, InPlay
    PROVE  /\ activePlayer \in Seats /\ WallOK(wall) /\ HandsOK(hands) /\ OffersOK(validActions)
           /\ isHaitei \in BOOLEAN /\ HaiteiOk(wall, isHaitei) /\ Placed(wall, hands, {})
           /\ \A s \in Seats : /\ HandOK(hands[s]) /\ HandLaid(wall, hands[s])
                               /\ IsFiniteSet(hands[s].melds)
                               /\ Flowers(wall, hands[s].closed) = {}
                               /\ \A x \in hands[s].closed : ~Flower(wall, x)
                               /\ Tally(hands[s]) =
                                    IF s = activePlayer /\ phase = "PLAYER_TURN" /\ ~HaiteiOffered
                                    THEN HandTiles + 1 ELSE HandTiles
<1>1. phase # "INIT" /\ WonTile = {}
  BY DEF InPlay, TilesInv, NobodyWon, WonTile
<1>2. /\ activePlayer \in Seats /\ WallOK(wall) /\ HandsOK(hands) /\ OffersOK(validActions)
      /\ isHaitei \in BOOLEAN
      /\ \A s \in Seats : Flowers(wall, hands[s].closed) = {}
  BY <1>1 DEF SeatsInv, TableInv
<1>3. Placed(wall, hands, {}) /\ HaiteiOk(wall, isHaitei)
  BY <1>1 DEF TilesInv, PlacesInv, HaiteiInv
<1>4. \A s \in Seats : HandOK(hands[s]) /\ HandLaid(wall, hands[s]) /\ IsFiniteSet(hands[s].melds)
  BY <1>2, <1>3 DEF HandsOK, Placed, HandLaid
<1>5. \A s \in Seats : \A x \in hands[s].closed : ~Flower(wall, x)
  BY <1>2, FlowersOf
<1>6. \A s \in Seats : Tally(hands[s]) =
            IF s = activePlayer /\ phase = "PLAYER_TURN" /\ ~HaiteiOffered
            THEN HandTiles + 1 ELSE HandTiles
  BY DEF TilesInv, HandsFull, Tally
<1> QED
  BY <1>2, <1>3, <1>4, <1>5, <1>6

LEMMA EndTiles ==
    ASSUME NEW sc, NEW r, FinalizeRoundEnd(sc, r),
           Placed(wall', hands', IF r.type = "ron" THEN {activeDiscard'} ELSE {})
    PROVE  TilesInv'
<1>1. ~InPlay' /\ roundResult' = r
  BY EndPhase DEF InPlay
<1>2. WonTile' = IF r.type = "ron" THEN {activeDiscard'} ELSE {}
  BY <1>1 DEF WonTile
<1> QED
  BY <1>1, <1>2 DEF TilesInv, PlacesInv, HaiteiInv, NobodyWon, HandsFull

LEMMA DealPlaced ==
    ASSUME NEW w, NEW hs, DealOK(w, hs, Seats)
    PROVE  /\ Placed(w, hs, {})
           /\ \A s \in Seats : IsFiniteSet(hs[s].melds) /\ Tally(hs[s]) = HandTiles
<1>1. /\ WallOK(w) /\ w.haitei = None
      /\ \A s \in Seats : /\ hs[s].melds = {} /\ hs[s].discards = << >>
                          /\ Cardinality(hs[s].closed) = HandTiles
                          /\ hs[s].closed \cap hs[s].flowers = {}
      /\ \A s, q \in Seats : s # q => Owned(hs[s]) \cap Owned(hs[q]) = {}
      /\ UNION { Owned(hs[s]) : s \in Seats } = Handed(w)
  BY DEF DealOK
<1>2. ToSet(<< >>) = {} /\ IsInjective(<< >>)
  BY DEF ToSet, IsInjective
<1>3. \A s \in Seats : InMelds(hs[s]) = {} /\ ToSet(hs[s].discards) = {}
  BY <1>1, <1>2 DEF InMelds
<1>4. \A s \in Seats : Kept(hs[s]) = hs[s].closed /\ AllOf(hs[s]) = Owned(hs[s])
  BY <1>3 DEF Kept, AllOf, Owned
<1>5. IsFiniteSet({}) /\ Cardinality({}) = 0
  BY FS_EmptySet
<1>6. \A s \in Seats : HandLaid(w, hs[s])
  BY <1>1, <1>2, <1>3, <1>5 DEF HandLaid, Apart
<1>7. SeatsApart(w, hs)
  BY <1>1, <1>4 DEF SeatsApart, Owned
<1>8. Accounted(w, hs, {})
  <2>1. UNION { AllOf(hs[s]) : s \in Seats } = Handed(w)
    BY <1>1, <1>4
  <2>2. w.count = WallLen - 1 - Cardinality(Handed(w)) /\ w.count \in Int
    BY <1>1, WallNumbersOK DEF WallOK
  <2>3. w.count <= WallLen - 1 - Cardinality(Handed(w))
    BY <2>2
  <2> QED
    BY <2>1, <2>3 DEF Accounted
<1>9. \A s \in Seats : IsFiniteSet(hs[s].melds) /\ Tally(hs[s]) = HandTiles
  <2>1. HandTiles \in Nat
    BY WallNumbers
  <2> TAKE s \in Seats
  <2>2. hs[s].melds = {} /\ Cardinality(hs[s].closed) = HandTiles
    BY <1>1
  <2>3. IsFiniteSet(hs[s].melds) /\ Cardinality(hs[s].melds) = 0
    BY <1>5, <2>2
  <2> QED
    BY <2>1, <2>2, <2>3 DEF Tally
<1> QED
  BY <1>6, <1>7, <1>8, <1>9 DEF Placed

LEMMA DealTiles ==
    ASSUME SeatsInv, TableInv, NEW faces \in Walls, NEW d \in DiceSums, NEW first \in Seats,
           Deal(faces, d, first)
    PROVE  TilesInv'
<1>1. isHaitei \in BOOLEAN /\ activePlayer' = first
  BY DealTable DEF TableInv
<1>2. PICK t : TableOK(t, Seats) /\ ExecuteSystemDraw(first, t.w, t.hs, NoOffers)
  BY <1>1, DealTable
<1> PICK w : w = t.w
  OBVIOUS
<1> PICK hs : hs = t.hs
  OBVIOUS
<1>3. DealOK(w, hs, Seats) /\ ExecuteSystemDraw(first, w, hs, NoOffers)
  BY <1>2 DEF TableOK
<1>4. WallOK(w) /\ HandsOK(hs) /\ \A s \in Seats : Flowers(w, hs[s].closed) = {}
  BY <1>3 DEF DealOK
<1>5. /\ Placed(w, hs, {})
      /\ \A s \in Seats : IsFiniteSet(hs[s].melds) /\ Tally(hs[s]) = HandTiles
  BY <1>3, DealPlaced
<1>6. TilesLeft(first, hs, 1)
  BY <1>1, <1>3, <1>4, <1>5, NoOffersOK, DrawTiles
<1>7. Tally(hs[first]) + 1 = HandTiles + 1 /\ 1 \in Nat
  BY <1>5
<1> QED
  BY <1>1, <1>4, <1>5, <1>6, <1>7, LeftTiles

LEMMA StartTiles ==
    ASSUME SeatsInv, TableInv, Start
    PROVE  TilesInv'
<1>1. PICK faces \in Walls, d \in DiceSums, first \in DealerDraws : Deal(faces, d, first)
  BY DEF Start
<1>2. first \in Seats
  BY SeatFacts
<1> QED
  BY <1>1, <1>2, DealTiles

LEMMA ReadyTiles ==
    ASSUME SeatsInv, TableInv, TilesInv, NEW s \in Seats, HandleReady(s)
    PROVE  TilesInv'
<1>1. CASE UNCHANGED <<phase, activePlayer, dealer, nextDealer, handNum, wall, hands, validActions,
                       interruptQueue, activeDiscard, isHaitei, score, roundResult>>
  BY <1>1 DEF TilesInv, PlacesInv, HaiteiInv, NobodyWon, HandsFull, WonTile, InPlay,
              HaiteiOffered, InTurn, Offered
<1>2. CASE /\ activeDiscard' = None
           /\ \E faces \in Walls, d \in DiceSums,
                 first \in IF nextDealer = None THEN DealerDraws ELSE {nextDealer} :
                 Deal(faces, d, first)
  <2>1. PICK faces \in Walls, d \in DiceSums,
             first \in IF nextDealer = None THEN DealerDraws ELSE {nextDealer} :
             Deal(faces, d, first)
    BY <1>2
  <2>2. first \in Seats
    BY SeatFacts DEF SeatsInv
  <2> QED
    BY <2>1, <2>2, DealTiles
<1> QED
  BY <1>1, <1>2 DEF HandleReady

(* The turn passes on from a table on which everybody has a full hand.      *)
LEMMA AdvanceTiles ==
    ASSUME activePlayer \in Seats, WallOK(wall), NEW hs, HandsOK(hs), NEW va, OffersOK(va),
           isHaitei \in BOOLEAN, Placed(wall, hs, {}),
           \A s \in Seats : /\ Flowers(wall, hs[s].closed) = {}
                            /\ IsFiniteSet(hs[s].melds) /\ Tally(hs[s]) = HandTiles,
           AdvanceTurn(hs, va)
    PROVE  TilesInv'
<1> PICK n : n = NextSeat(activePlayer)
  OBVIOUS
<1>1. n \in Seats
  BY SeatFacts
<1>2. activePlayer' = n /\ ExecuteSystemDraw(n, wall, hs, va)
  BY DEF AdvanceTurn
<1>3. TilesLeft(n, hs, 1)
  BY <1>1, <1>2, DrawTiles
<1>4. Tally(hs[n]) + 1 = HandTiles + 1 /\ 1 \in Nat
  BY <1>1
<1> QED
  BY <1>1, <1>2, <1>3, <1>4, LeftTiles

LEMMA DiscardTiles ==
    ASSUME SeatsInv, TableInv, TilesInv, NEW t, HandleDiscard(t)
    PROVE  TilesInv'
<1> PICK g : g = Discarding(activePlayer, t)
  OBVIOUS
<1> PICK v : v = Offers(wall, g, activePlayer, t, isHaitei)
  OBVIOUS
<1>0. InTurn("discard") /\ t \in hands[activePlayer].closed
  BY DEF HandleDiscard
<1>1. phase = "PLAYER_TURN" /\ InPlay
  BY <1>0 DEF InTurn, InPlay
<1>2. ~HaiteiOffered
  <2>1. TurnOffers(wall, hands[activePlayer], isHaitei, validActions[activePlayer])
    BY <1>0, TurnKinds
  <2> QED
    BY <2>1, OfferedTypes DEF TurnOffers, HaiteiOffered, InTurn, Offered
<1>3. /\ activePlayer \in Seats /\ WallOK(wall) /\ HandsOK(hands)
      /\ isHaitei \in BOOLEAN /\ HaiteiOk(wall, isHaitei) /\ Placed(wall, hands, {})
      /\ \A s \in Seats : /\ HandOK(hands[s]) /\ HandLaid(wall, hands[s])
                          /\ IsFiniteSet(hands[s].melds)
                          /\ Flowers(wall, hands[s].closed) = {}
                          /\ \A x \in hands[s].closed : ~Flower(wall, x)
      /\ Tally(hands[activePlayer]) = HandTiles + 1
      /\ \A s \in Seats \ {activePlayer} : Tally(hands[s]) = HandTiles
  BY <1>1, <1>2, InPlayTiles
<1>4. /\ HandsOK(g) /\ g[activePlayer] = Discarded(hands[activePlayer], t)
      /\ \A s \in Seats \ {activePlayer} : g[s] = hands[s]
  BY <1>0, <1>3, DiscardHands
<1> PICK a : a = activePlayer
  OBVIOUS
<1>5. /\ HandLaid(wall, g[a]) /\ Kept(g[a]) = Kept(hands[a]) /\ g[a].flowers = hands[a].flowers
      /\ g[a].melds = hands[a].melds /\ Tally(g[a]) = Tally(hands[a]) - 1
  BY <1>0, <1>3, <1>4, DiscardLaid
<1>6. Placed(wall, g, {})
  <2>1. \A s \in Seats : /\ HandLaid(wall, g[s]) /\ Kept(g[s]) = Kept(hands[s])
                         /\ g[s].flowers = hands[s].flowers
    BY <1>3, <1>4, <1>5
  <2> QED
    BY <1>3, <2>1, MovedPlaced
<1>7. g[a].closed = hands[a].closed \ {t}
  <2>1. t \in Tiles
    BY <1>0, <1>3 DEF HandOK, HandRec
  <2> QED
    BY <1>0, <1>3, <1>4, <2>1, DiscardFacts
<1>8. \A s \in Seats : /\ Flowers(wall, g[s].closed) = {}
                       /\ IsFiniteSet(g[s].melds) /\ Tally(g[s]) = HandTiles
  <2>1. HandTiles \in Nat
    BY WallNumbers
  <2>2. Tally(g[a]) = HandTiles
    BY <1>3, <1>5, <2>1
  <2>3. Flowers(wall, g[a].closed) = {}
    BY <1>3, <1>7 DEF Flowers
  <2> QED
    BY <1>3, <1>4, <1>5, <2>2, <2>3
<1>9. OffersOK(v)
  <2>1. t \in Tiles
    BY <1>0, <1>3 DEF HandOK, HandRec
  <2> QED
    BY <1>3, <1>4, <2>1, OffersFit
<1>10. WindowOpens(g, v, t) \/ HaiteiKept(g, t) \/ AdvanceTurn(g, v)
  BY DiscardGoes
<1>11. CASE WindowOpens(g, v, t)
  <2>1. /\ PlayOn("WAIT_DISCARDS") /\ hands' = g /\ wall' = wall /\ isHaitei' = isHaitei
    BY <1>11 DEF WindowOpens
  <2>2. WonTile' = {} /\ roundResult'.type # "ron" /\ phase' = "WAIT_DISCARDS"
    BY <2>1, NothingWon
  <2>3. PlacesInv' /\ HaiteiInv' /\ NobodyWon'
    BY <1>3, <1>6, <2>1, <2>2 DEF PlacesInv, HaiteiInv, NobodyWon
  <2>4. HandsFull'
    BY <1>8, <2>1, <2>2 DEF HandsFull, Tally
  <2> QED
    BY <2>3, <2>4 DEF TilesInv
<1>12. CASE HaiteiKept(g, t)
  <2>1. FinalizeRoundEnd(score, Drawn) /\ wall' = wall /\ hands' = g
    BY <1>12 DEF HaiteiKept, EndRoundInDraw
  <2>2. Drawn.type # "ron"
    BY DEF Drawn, Result
  <2> QED
    BY <1>6, <2>1, <2>2, EndTiles
<1>13. CASE AdvanceTurn(g, v)
  BY <1>3, <1>4, <1>6, <1>8, <1>9, <1>13, AdvanceTiles
<1> QED
  BY <1>10, <1>11, <1>12, <1>13

LEMMA KongTiles ==
    ASSUME SeatsInv, TableInv, TilesInv, NEW o, HandleKong(o)
    PROVE  TilesInv'
<1> PICK g : g = Konging(activePlayer, o)
  OBVIOUS
<1> PICK a : a = activePlayer
  OBVIOUS
<1>1. /\ phase = "PLAYER_TURN" /\ ~isHaitei /\ isHaitei' = isHaitei
      /\ activePlayer' = a
      /\ o \in ClosedKongs(wall, hands[a]) \cup UpgradedKongs(wall, hands[a])
      /\ HandsOK(g) /\ g[a] = KongHand(wall, hands[a], o)
      /\ \A s \in Seats \ {a} : g[s] = hands[s]
      /\ \A s \in Seats \ {a} : Flowers(wall, g[s].closed) = {}
      /\ Settle(a, wall, g, validActions, 1)
  BY KongGoes
<1>2. InPlay /\ ~HaiteiOffered
  <2>1. HaiteiOffered => isHaitei
    BY TurnKinds DEF HaiteiOffered
  <2> QED
    BY <1>1, <2>1 DEF InPlay
<1>3. /\ a \in Seats /\ WallOK(wall) /\ OffersOK(validActions)
      /\ isHaitei \in BOOLEAN /\ HaiteiOk(wall, isHaitei) /\ Placed(wall, hands, {})
      /\ \A s \in Seats : /\ HandOK(hands[s]) /\ HandLaid(wall, hands[s])
                          /\ IsFiniteSet(hands[s].melds)
                          /\ \A x \in hands[s].closed : ~Flower(wall, x)
      /\ Tally(hands[a]) = HandTiles + 1
      /\ \A s \in Seats \ {a} : Tally(hands[s]) = HandTiles
  BY <1>1, <1>2, InPlayTiles
<1>4. /\ HandLaid(wall, g[a]) /\ Kept(g[a]) = Kept(hands[a]) /\ g[a].flowers = hands[a].flowers
      /\ Tally(g[a]) = Tally(hands[a]) - 1
  BY <1>1, <1>3, KongLaid
<1>5. Placed(wall, g, {})
  <2>1. \A s \in Seats : /\ HandLaid(wall, g[s]) /\ Kept(g[s]) = Kept(hands[s])
                         /\ g[s].flowers = hands[s].flowers
    BY <1>1, <1>3, <1>4
  <2> QED
    BY <1>3, <2>1, MovedPlaced
<1>6. wall.haitei # None => Flower(wall, wall.haitei)
  BY <1>1, <1>3 DEF HaiteiOk
<1>7. TilesLeft(a, g, 1)
  BY <1>1, <1>3, <1>5, <1>6, SettleTiles
<1>8. HandTiles \in Nat
  BY WallNumbers
<1>9. /\ \A s \in Seats : IsFiniteSet(g[s].melds)
      /\ \A s \in Seats \ {a} : Tally(g[s]) = HandTiles
      /\ Tally(g[a]) + 1 = HandTiles + 1
  BY <1>1, <1>3, <1>4, <1>8 DEF HandLaid
<1> QED
  BY <1>1, <1>3, <1>7, <1>9, LeftTiles

LEMMA TsumoTiles ==
    ASSUME SeatsInv, TableInv, TilesInv, NEW S, HandleTsumo(S)
    PROVE  TilesInv'
<1>1. /\ phase = "PLAYER_TURN" /\ wall' = wall /\ hands' = hands
      /\ FinalizeRoundEnd(Paid(Result("tsumo", activePlayer, None), S), Result("tsumo", activePlayer, None))
  BY DEF HandleTsumo, InTurn
<1>2. Placed(wall, hands, {})
  BY <1>1, InPlayTiles DEF InPlay
<1>3. Result("tsumo", activePlayer, None).type # "ron"
  BY DEF Result
<1> QED
  BY <1>1, <1>2, <1>3, EndTiles

LEMMA RefuseTiles ==
    ASSUME SeatsInv, TableInv, TilesInv, HandleHaiteiRefuse
    PROVE  TilesInv'
<1>1. /\ phase = "PLAYER_TURN" /\ wall' = wall /\ hands' = hands
      /\ FinalizeRoundEnd(score, Drawn)
  BY DEF HandleHaiteiRefuse, InTurn, EndRoundInDraw
<1>2. Placed(wall, hands, {})
  BY <1>1, InPlayTiles DEF InPlay
<1>3. Drawn.type # "ron"
  BY DEF Drawn, Result
<1> QED
  BY <1>1, <1>2, <1>3, EndTiles

(* The haitei tile nobody has yet is drawn; when it is a flower it is laid  *)
(* out and replaced, else nothing is drawn for it.                          *)
LEMMA AcceptTiles ==
    ASSUME SeatsInv, TableInv, TilesInv, wall.haitei = None, HandleHaiteiAccept
    PROVE  TilesInv'
<1> PICK h : h = FindHaitei(WallLen, wall.dice, wall.dead)
  OBVIOUS
<1> PICK w : w = HaiteiTaken(wall, h)
  OBVIOUS
<1> PICK g : g = Taking(activePlayer, h)
  OBVIOUS
<1> PICK a : a = activePlayer
  OBVIOUS
<1>1. /\ phase = "PLAYER_TURN" /\ isHaitei' \in BOOLEAN
      /\ isHaitei' = (Flowers(wall, g[a].closed) = {})
      /\ activePlayer' = a /\ validActions[a] = HaiteiOffers /\ wall.index = Border(wall)
      /\ h \in Tiles /\ h # -1 /\ WallOK(w) /\ w.faces = wall.faces /\ w.dice = wall.dice
      /\ HandsOK(g) /\ g[a] = Takes(hands[a], h)
      /\ \A s \in Seats \ {a} : g[s] = hands[s] /\ Flowers(w, g[s].closed) = {}
      /\ Settle(a, w, g, validActions, 0)
  BY AcceptGoes
<1>2. InPlay /\ HaiteiOffered
  BY <1>1, OfferedTypes DEF InPlay, HaiteiOffered, InTurn, Offered
<1>3. /\ a \in Seats /\ WallOK(wall) /\ HandsOK(hands) /\ OffersOK(validActions)
      /\ Placed(wall, hands, {})
      /\ \A s \in Seats : /\ HandOK(hands[s]) /\ IsFiniteSet(hands[s].melds)
                          /\ \A x \in hands[s].closed : ~Flower(wall, x)
                          /\ Tally(hands[s]) = HandTiles
  BY <1>2, InPlayTiles
<1>4. /\ Handed(w) = Handed(wall) \cup {h} /\ w.haitei = h
      /\ h \notin Handed(wall) /\ w.count = wall.count - 1
  BY <1>1, <1>3, HaiteiFacts
<1>5. /\ Placed(w, g, {}) /\ g[a].melds = hands[a].melds
      /\ Cardinality(g[a].closed) = Cardinality(hands[a].closed) + 1
  BY <1>1, <1>3, <1>4, TakenPlaced
<1>6. g[a].closed = hands[a].closed \cup {h}
  BY <1>1, <1>3 DEF Takes, HandOK, HandRec
<1>7. Flower(w, h) \/ (Flowers(w, g[a].closed) = {} /\ isHaitei')
  <2>1. Flowers(w, g[a].closed) = Flowers(wall, g[a].closed)
    BY <1>1, SameFaces
  <2>2. ASSUME Flowers(wall, g[a].closed) # {} PROVE Flower(w, h)
    <3>1. PICK x : x \in g[a].closed /\ Flower(wall, x)
      BY <2>2, FlowersOf
    <3>2. x = h
      BY <1>3, <1>6, <3>1
    <3> QED
      BY <1>1, <3>1, <3>2, FlowersOf
  <2>3. Flowers(wall, g[a].closed) = {} => isHaitei'
    BY <1>1
  <2> QED
    BY <2>1, <2>2, <2>3
<1>8. TilesLeft(a, g, 0)
  <2>1. w.haitei # None => \/ Flower(w, w.haitei)
                           \/ (Flowers(w, g[a].closed) = {} /\ 0 = 0 /\ isHaitei')
    BY <1>4, <1>7
  <2> QED
    BY <1>1, <1>3, <1>5, <2>1, SettleTiles
<1>9. /\ \A s \in Seats : IsFiniteSet(g[s].melds)
      /\ \A s \in Seats \ {a} : Tally(g[s]) = HandTiles
      /\ Tally(g[a]) + 0 = HandTiles + 1
  <2>1. Cardinality(hands[a].closed) \in Nat /\ Cardinality(hands[a].melds) \in Nat
    BY <1>3, TallyIs
  <2>2. Tally(g[a]) = Tally(hands[a]) + 1
    BY <1>5, <2>1 DEF Tally
  <2>3. HandTiles \in Nat
    BY WallNumbers
  <2>4. Tally(g[a]) + 0 = HandTiles + 1
    BY <1>3, <2>2, <2>3
  <2> QED
    BY <1>1, <1>3, <1>5, <2>4
<1> QED
  BY <1>1, <1>3, <1>8, <1>9, LeftTiles

(* The open discard is on its pile, in no other place, and no flower.       *)
LEMMA OpenDiscard ==
    ASSUME SeatsInv, TableInv, TilesInv, phase = "WAIT_DISCARDS",
           NEW a, a = activePlayer, NEW t, t = activeDiscard, NEW g, g = PileHand(hands[a])
    PROVE  /\ t \in Tiles /\ ~Flower(wall, t) /\ t \in Kept(hands[a])
           /\ \A s \in Seats \ {a} : t \notin AllOf(hands[s])
           /\ HandLaid(wall, g) /\ Kept(g) = Kept(hands[a]) \ {t} /\ g.flowers = hands[a].flowers
           /\ g.melds = hands[a].melds /\ Tally(g) = Tally(hands[a])
<1>1. InPlay
  BY DEF InPlay
<1>2. a \in Seats /\ HandOK(hands[a]) /\ HandLaid(wall, hands[a]) /\ Placed(wall, hands, {})
  BY <1>1, InPlayTiles
<1>3. t \in Tiles /\ hands[a].discards # << >> /\ t = Last(hands[a].discards)
  BY DEF TableInv, WindowFits
<1>4. /\ HandLaid(wall, g) /\ Kept(g) = Kept(hands[a]) \ {t} /\ g.flowers = hands[a].flowers
      /\ g.melds = hands[a].melds /\ Tally(g) = Tally(hands[a])
      /\ t \in Kept(hands[a]) /\ ~Flower(wall, t)
  <2> PICK h : h = hands[a]
    OBVIOUS
  <2>1. HandOK(h) /\ HandLaid(wall, h) /\ h.discards # << >>
    BY <1>2, <1>3
  <2>2. Lifted(wall, h, Last(h.discards), PileHand(h))
    BY ONLY <2>1, PileLaid
  <2>3. Lifted(wall, hands[a], t, g)
    BY <1>3, <2>2
  <2> QED
    BY <2>3 DEF Lifted
<1>5. \A s \in Seats \ {a} : AllOf(hands[s]) \cap Kept(hands[a]) = {}
  BY <1>2 DEF Placed, SeatsApart
<1> QED
  BY <1>3, <1>4, <1>5

LEMMA ClaimTiles ==
    ASSUME SeatsInv, TableInv, TilesInv, phase = "WAIT_DISCARDS", NEW s \in Seats, s # activePlayer,
           NEW o \in validActions[s], o.type \in {"chii", "pon", "kan"}, Claim(s, o)
    PROVE  TilesInv'
<1> PICK g : g = Melded(s, o, Front(hands[activePlayer].discards))
  OBVIOUS
<1> PICK due : due = IF o.type = "kan" THEN 1 ELSE 0
  OBVIOUS
<1> PICK a : a = activePlayer
  OBVIOUS
<1> PICK t : t = activeDiscard
  OBVIOUS
<1>1. /\ WallOK(wall) /\ ~isHaitei /\ isHaitei' = isHaitei /\ activePlayer' = s
      /\ o.tiles \subseteq hands[s].closed /\ Fits(wall, hands[s], t, o)
      /\ HandsOK(g) /\ g[s] = ClaimHand(hands[s], o, t)
      /\ g[a] = PileHand(hands[a])
      /\ \A q \in Seats \ {a, s} : g[q] = hands[q]
      /\ \A q \in Seats : Flowers(wall, g[q].closed) = {}
      /\ due \in {0, 1} /\ Settle(s, wall, g, validActions, due)
  BY ClaimGoes
<1>2. InPlay
  BY DEF InPlay
<1>3. /\ a \in Seats /\ OffersOK(validActions)
      /\ isHaitei \in BOOLEAN /\ HaiteiOk(wall, isHaitei) /\ Placed(wall, hands, {})
      /\ \A q \in Seats : /\ HandOK(hands[q]) /\ HandLaid(wall, hands[q])
                          /\ IsFiniteSet(hands[q].melds)
                          /\ \A x \in hands[q].closed : ~Flower(wall, x)
                          /\ Tally(hands[q]) = HandTiles
  BY <1>2, InPlayTiles
<1>4. /\ t \in Tiles /\ ~Flower(wall, t) /\ t \in Kept(hands[a]) /\ t \notin AllOf(hands[s])
      /\ HandLaid(wall, g[a]) /\ Kept(g[a]) = Kept(hands[a]) \ {t}
      /\ g[a].flowers = hands[a].flowers
      /\ g[a].melds = hands[a].melds /\ Tally(g[a]) = Tally(hands[a])
  BY <1>1, OpenDiscard
<1>5. /\ HandLaid(wall, g[s]) /\ Kept(g[s]) = Kept(hands[s]) \cup {t}
      /\ g[s].flowers = hands[s].flowers
      /\ Tally(g[s]) = Tally(hands[s]) - Cardinality(o.tiles) + 3
  BY <1>1, <1>3, <1>4, ClaimLaid
<1>6. Placed(wall, g, {})
  <2>1. \A q \in Seats : HandLaid(wall, g[q]) /\ g[q].flowers = hands[q].flowers
    BY <1>1, <1>3, <1>4, <1>5
  <2>2. \A q \in Seats \ {a, s} : Kept(g[q]) = Kept(hands[q])
    BY <1>1
  <2> QED
    BY <1>3, <1>4, <1>5, <2>1, <2>2, GivenPlaced
<1>7. TilesLeft(s, g, due)
  <2>1. wall.haitei # None => Flower(wall, wall.haitei)
    BY <1>1, <1>3 DEF HaiteiOk
  <2>2. due \in Nat /\ isHaitei' \in BOOLEAN
    BY <1>1, <1>3
  <2>3. \A q \in Seats \ {s} : Flowers(wall, g[q].closed) = {}
    BY <1>1
  <2> QED
    BY <1>1, <1>3, <1>6, <2>1, <2>2, <2>3, SettleTiles
<1>8. HandTiles \in Nat
  BY WallNumbers
<1>9. Tally(g[s]) + due = HandTiles + 1
  <2>1. Cardinality(o.tiles) = IF o.type = "kan" THEN 3 ELSE 2
    BY <1>1 DEF Fits
  <2>2. Tally(g[s]) = HandTiles - Cardinality(o.tiles) + 3
    BY <1>3, <1>5
  <2> QED
    BY <1>8, <2>1, <2>2
<1>10. /\ \A q \in Seats : IsFiniteSet(g[q].melds)
       /\ \A q \in Seats \ {s} : Tally(g[q]) = HandTiles
       /\ due \in Nat
  <2>1. IsFiniteSet(g[s].melds)
    BY <1>5 DEF HandLaid
  <2> QED
    BY <1>1, <1>3, <1>4, <2>1
<1> QED
  BY <1>1, <1>7, <1>9, <1>10, LeftTiles

LEMMA RonTiles ==
    ASSUME SeatsInv, TableInv, TilesInv, phase = "WAIT_DISCARDS", NEW s, NEW S, Ron(s, S)
    PROVE  TilesInv'
<1> PICK a : a = activePlayer
  OBVIOUS
<1> PICK t : t = activeDiscard
  OBVIOUS
<1> PICK r : r = Result("ron", s, activePlayer)
  OBVIOUS
<1>1. /\ UNCHANGED <<wall, activeDiscard>> /\ FinalizeRoundEnd(Paid(r, S), r)
      /\ hands' = [hands EXCEPT ![a].discards = Front(@)]
  BY DEF Ron
<1>2. InPlay
  BY DEF InPlay
<1>3. /\ a \in Seats /\ Placed(wall, hands, {}) /\ HandsOK(hands)
      /\ \A q \in Seats : HandLaid(wall, hands[q])
  BY <1>2, InPlayTiles
<1>4. /\ hands'[a] = PileHand(hands[a]) /\ \A q \in Seats \ {a} : hands'[q] = hands[q]
  BY <1>1, <1>3 DEF PileHand, HandsOK
<1>5. /\ t \in Kept(hands[a]) /\ HandLaid(wall, hands'[a])
      /\ Kept(hands'[a]) = Kept(hands[a]) \ {t} /\ hands'[a].flowers = hands[a].flowers
  BY <1>4, OpenDiscard
<1> PICK g : g = hands'
  OBVIOUS
<1>6. Placed(wall, g, {t})
  <2>1. \A q \in Seats : HandLaid(wall, g[q]) /\ g[q].flowers = hands[q].flowers
    BY <1>3, <1>4, <1>5
  <2>2. \A q \in Seats \ {a} : Kept(g[q]) = Kept(hands[q])
    BY <1>4
  <2> QED
    BY <1>3, <1>5, <2>1, <2>2, WonPlaced
<1>7. r.type = "ron"
  BY DEF Result
<1> QED
  BY <1>1, <1>6, <1>7, EndTiles

LEMMA ResolveTiles ==
    ASSUME SeatsInv, TableInv, TilesInv, phase = "WAIT_DISCARDS",
           NEW q, DOMAIN q \subseteq Seats \ {activePlayer},
           \A y \in DOMAIN q : q[y] \in validActions[y] \cup {Pass},
           ResolveInterrupts(q)
    PROVE  TilesInv'
<1>1. CASE \E s \in Seats \ {activePlayer} : \E S \in WinScores : Ron(s, S)
  BY <1>1, RonTiles
<1>2. CASE \E s \in Seats \ {activePlayer} : \E o \in validActions[s] :
              o.type \in {"chii", "pon", "kan"} /\ Claim(s, o)
  BY <1>2, ClaimTiles
<1>3. CASE AdvanceTurn(hands, validActions)
  <2>1. InPlay
    BY DEF InPlay
  <2>2. /\ activePlayer \in Seats /\ WallOK(wall) /\ HandsOK(hands) /\ OffersOK(validActions)
        /\ isHaitei \in BOOLEAN /\ Placed(wall, hands, {})
        /\ \A s \in Seats : /\ Flowers(wall, hands[s].closed) = {}
                            /\ IsFiniteSet(hands[s].melds) /\ Tally(hands[s]) = HandTiles
    BY <2>1, InPlayTiles
  <2> QED
    BY <1>3, <2>2, AdvanceTiles
<1> QED
  BY <1>1, <1>2, <1>3, ResolveGoes

LEMMA InterruptTiles ==
    ASSUME SeatsInv, WindowInv, TableInv, TilesInv,
           NEW s \in Seats, NEW o \in validActions[s] \cup {Pass}, HandleInterrupt(s, o)
    PROVE  TilesInv'
<1> PICK q : q = Respond(interruptQueue, s, o)
  OBVIOUS
<1>1. phase = "WAIT_DISCARDS" /\ s # activePlayer
  BY DEF HandleInterrupt
<1>2. CASE UNCHANGED <<phase, activePlayer, dealer, nextDealer, handNum, wall, hands,
                       validActions, activeDiscard, isHaitei, score, playerReady, roundResult>>
  BY <1>2 DEF TilesInv, PlacesInv, HaiteiInv, NobodyWon, HandsFull, WonTile, InPlay,
              HaiteiOffered, InTurn, Offered
<1>3. CASE ResolveInterrupts(q)
  <2>1. DOMAIN q \subseteq Seats \ {activePlayer} /\ \A y \in DOMAIN q : q[y] \in validActions[y] \cup {Pass}
    BY <1>1, ResponsesFit
  <2> QED
    BY <1>1, <1>3, <2>1, ResolveTiles
<1> QED
  BY <1>2, <1>3 DEF HandleInterrupt

LEMMA TimerTiles ==
    ASSUME SeatsInv, WindowInv, TableInv, TilesInv, TimerResolve
    PROVE  TilesInv'
<1>1. /\ phase = "WAIT_DISCARDS" /\ ResolveInterrupts(interruptQueue)
      /\ DOMAIN interruptQueue \subseteq Seats \ {activePlayer}
      /\ \A y \in DOMAIN interruptQueue : interruptQueue[y] \in validActions[y] \cup {Pass}
  BY DEF TimerResolve, SeatsInv, WindowInv
<1> QED
  BY <1>1, ResolveTiles

LEMMA TilesStep ==
    ASSUME SeatsInv, WindowInv, TableInv, TilesInv, NothingAfterHaitei, [Next]_vars
    PROVE  TilesInv'
<1>1. CASE UNCHANGED vars
  BY <1>1 DEF vars, TilesInv, PlacesInv, HaiteiInv, NobodyWon, HandsFull, WonTile, InPlay,
              HaiteiOffered, InTurn, Offered
<1>2. CASE HandleHaiteiAccept
  <2>1. HaiteiOffered
    BY <1>2 DEF HandleHaiteiAccept, HaiteiOffered
  <2> QED
    BY <1>2, <2>1, AcceptTiles DEF NothingAfterHaitei
<1>3. CASE Next
  BY <1>2, <1>3, StartTiles, DiscardTiles, KongTiles, TsumoTiles, RefuseTiles,
     InterruptTiles, TimerTiles, ReadyTiles DEF Next
<1> QED
  BY <1>1, <1>3

LEMMA TilesInit == Init => TilesInv
BY DEF Init, TilesInv, PlacesInv, HaiteiInv, NobodyWon, HandsFull, InPlay

(* Where the tiles are, as EachTileOnce says it.                            *)
LEMMA PlacedOnce ==
    ASSUME PlacesInv
    PROVE  EachTileOnce
<1> SUFFICES ASSUME phase # "INIT", wall.count = WallLen - 1 - Cardinality(Dispensed)
             PROVE  /\ WonTile \cup UNION { Held(s) : s \in Seats } = Dispensed
                    /\ \A s \in Seats : /\ Apart(hands[s]) /\ WonTile \cap Held(s) = {}
                                        /\ \A t \in Seats \ {s} : Held(s) \cap Held(t) = {}
  BY DEF EachTileOnce
<1>1. Placed(wall, hands, WonTile)
  BY DEF PlacesInv
<1>2. \A s \in Seats : Held(s) = AllOf(hands[s])
  BY DEF Held, AllOf, Kept
<1>3. Exact(wall) /\ Dispensed = Handed(wall)
  BY DispensedIs DEF Exact
<1>4. WonTile \cup UNION { Held(s) : s \in Seats } = Dispensed
  BY <1>1, <1>2, <1>3 DEF Placed, Accounted
<1>5. \A s, t \in Seats : s # t => AllOf(hands[s]) \cap AllOf(hands[t]) = {}
  <2>1. \A s, t \in Seats : s # t => /\ AllOf(hands[s]) \cap Kept(hands[t]) = {}
                                     /\ hands[s].flowers \cap hands[t].flowers = {}
    BY <1>1, <1>3 DEF Placed, SeatsApart
  <2> QED
    BY <2>1 DEF AllOf
<1>6. \A s \in Seats : Apart(hands[s]) /\ WonTile \cap AllOf(hands[s]) = {}
  BY <1>1 DEF Placed, HandLaid, Accounted
<1> QED
  BY <1>2, <1>4, <1>5, <1>6

(* As long as the haitei tile is not on offer again after it was drawn, no  *)
(* tile is lost or duplicated and every hand has as many tiles as it        *)
(* should, whatever the shuffle, the claims, the kongs and the flowers.     *)
THEOREM TilesAreConserved == Spec => ([]NothingAfterHaitei => []TilesConserved)
<1>1. Init => TilesInv
  BY TilesInit
<1>2. TableInvs /\ TilesInv /\ NothingAfterHaitei /\ [Next]_vars => TilesInv'
  BY TilesStep DEF TableInvs
<1>3. TypeOK /\ TilesInv => TilesConserved
  BY PlacedOnce DEF TilesInv, TilesConserved
<1> QED
  BY <1>1, <1>2, <1>3, TableInvHolds, TypesHold, PTL DEF Spec

=============================================================================
