----------------------------- MODULE WallProofs -----------------------------
(***************************************************************************)
(* No tile of the wall is handed out twice before the haitei tile is drawn, *)
(* for every even wall length, deal, dice sum and number of replacements.   *)
(***************************************************************************)
EXTENDS Wall, FiniteSetTheorems, TLAPS

Slots == 0 .. WallLen - 1

(* The tiles the two ends of the wall have moved over, and the haitei tile. *)
HandedOut ==
    (0 .. wallIndex - 1) \cup BackDraws(WallLen, dice, 0, deadWallIndex)
        \cup ({haiteiDrawIndex} \ {-1})

(* The inductive strengthening: dispensed is determined by the two ends.    *)
WallInv ==
    /\ TypeOK
    /\ stage # "over" => dispensed # {}
    /\ dispensed # {} =>
        /\ wallIndex \in Dealt .. Boundary
        /\ dispensed = HandedOut
        /\ haiteiDrawIndex \in {-1, HaiteiSlot(WallLen, dice)}
        /\ haiteiDrawIndex # -1 => wallIndex = Boundary
        /\ haiteiDrawIndex = -1 => wallCount = WallLen - 1 - Cardinality(dispensed)
        /\ stage = "offered" =>
            /\ wallIndex = Boundary
            /\ FindHaitei(WallLen, dice, deadWallIndex) = HaiteiSlot(WallLen, dice)

-----------------------------------------------------------------------------
(* Two different back draws are of two different tiles. *)
LEMMA SlotInjective ==
    ASSUME NEW j \in Nat, NEW k \in Nat, DeadWallSlot(WallLen, j) = DeadWallSlot(WallLen, k)
    PROVE  j = k
BY WallAssumption, SMT DEF WallAssumption, DeadWallSlot

(* A back draw at or above the front of the wall is a tile of the wall, and *)
(* there are only WallLen of them.                                          *)
LEMMA SlotInWall ==
    ASSUME NEW k \in Nat, DeadWallSlot(WallLen, k) >= 0
    PROVE  DeadWallSlot(WallLen, k) \in Slots /\ k < WallLen
BY WallAssumption, SMT DEF WallAssumption, DeadWallSlot, Slots

LEMMA SlotsFinite == IsFiniteSet(Slots) /\ Cardinality(Slots) = WallLen
<1>1. WallLen \in Nat
  BY WallAssumption DEF WallAssumption
<1> QED
  BY <1>1, FS_Interval DEF Slots

(* Taking back draws n..m-1: they are fresh when the front and the haitei   *)
(* tile are clear of them, and their number leaves WallCount exact.         *)
LEMMA BackDrawsFresh ==
    ASSUME NEW d, NEW front \in Nat, NEW n \in Nat, NEW m \in Nat, m >= n,
           NEW count \in Int, BackDrawsLegal(d, front, n, m, count)
    PROVE  /\ BackDraws(WallLen, d, n, m) \subseteq front .. WallLen - 1
           /\ BackDraws(WallLen, d, 0, m)
                = BackDraws(WallLen, d, 0, n) \cup BackDraws(WallLen, d, n, m)
           /\ BackDraws(WallLen, d, 0, n) \cap BackDraws(WallLen, d, n, m) = {}
           /\ m = n \/ m \in 0 .. WallLen
<1>1. \A k \in n .. m - 1 : /\ k \in Nat /\ k < WallLen
                            /\ DeadWallSlot(WallLen, k) \in front .. WallLen - 1
  <2> TAKE k \in n .. m - 1
  <2>1. k \in Nat /\ DeadWallSlot(WallLen, k) >= front
    BY DEF BackDrawsLegal
  <2>2. DeadWallSlot(WallLen, k) \in Int /\ WallLen \in Nat
    BY <2>1, WallAssumption DEF WallAssumption, DeadWallSlot
  <2>3. DeadWallSlot(WallLen, k) >= 0
    BY <2>1, <2>2
  <2> QED
    BY <2>1, <2>2, <2>3, SlotInWall DEF Slots
<1>2. BackDraws(WallLen, d, n, m) \subseteq front .. WallLen - 1
  BY <1>1 DEF BackDraws
<1>3. 0 .. m - 1 = (0 .. n - 1) \cup (n .. m - 1)
  OBVIOUS
<1>4. BackDraws(WallLen, d, 0, m)
        = BackDraws(WallLen, d, 0, n) \cup BackDraws(WallLen, d, n, m)
  BY <1>3, Zenon DEF BackDraws
<1>5. BackDraws(WallLen, d, 0, n) \cap BackDraws(WallLen, d, n, m) = {}
  <2> SUFFICES ASSUME NEW j \in 0 .. n - 1, NEW k \in n .. m - 1,
                      DeadWallSlot(WallLen, j) = DeadWallSlot(WallLen, k)
               PROVE  FALSE
    BY Zenon DEF BackDraws
  <2> QED
    BY SlotInjective
<1>6. m = n \/ m \in 0 .. WallLen
  <2>1. m > n => m - 1 \in n .. m - 1
    OBVIOUS
  <2> QED
    BY <2>1, <1>1, WallAssumption DEF WallAssumption
<1> QED
  BY <1>2, <1>4, <1>5, <1>6

LEMMA ReplaceExact ==
    ASSUME NEW d \in DiceSums, NEW front \in Nat, NEW n \in 0 .. WallLen,
           NEW m \in Nat, m >= n, NEW count \in Nat, count < WordSize,
           NEW given \in SUBSET Slots, Replace(d, front, n, m, count, given)
    PROVE  /\ deadWallIndex' = m
           /\ m \in 0 .. WallLen
           /\ wallCount' \in 0 .. WordSize - 1
           /\ dispensed' = given \cup BackDraws(WallLen, d, n, m)
           /\ dispensed' \in SUBSET Slots
           /\ stage' \in {"turn", "over"}
           /\ given \cap BackDraws(WallLen, d, n, m) = {}
              /\ count = WallLen - 1 - Cardinality(given)
                => wallCount' = WallLen - 1 - Cardinality(dispensed')
<1> DEFINE extra == BackDraws(WallLen, d, n, m)
<1>1. /\ BackDrawsLegal(d, front, n, m, count)
      /\ deadWallIndex' = m
      /\ wallCount' = count - Cardinality(extra)
      /\ dispensed' = given \cup extra
      /\ stage' \in {"turn", "over"}
  BY DEF Replace
<1>2. WallLen \in Nat /\ WordSize \in Nat
  BY WallAssumption DEF WallAssumption
<1>3. extra \in SUBSET Slots /\ (m = n \/ m \in 0 .. WallLen)
  <2>1. extra \subseteq front .. WallLen - 1 /\ (m = n \/ m \in 0 .. WallLen)
    <3>1. n \in Nat /\ count \in Int
      BY <1>2
    <3> QED
      BY <3>1, <1>1, BackDrawsFresh, Zenon
  <2> QED
    BY <2>1, <1>2 DEF Slots
<1>4. IsFiniteSet(extra) /\ IsFiniteSet(given)
  BY <1>3, SlotsFinite, FS_Subset
<1>5. Cardinality(extra) \in Nat /\ Cardinality(given) \in Nat
  BY <1>4, FS_CardinalityType
<1>6. Cardinality(extra) <= count
  BY <1>1 DEF BackDrawsLegal
<1>7. wallCount' \in 0 .. WordSize - 1
  BY <1>1, <1>2, <1>5, <1>6
<1>8. given \cap extra = {}
        => Cardinality(given \cup extra) = Cardinality(given) + Cardinality(extra)
  BY <1>4, <1>5, FS_Union, FS_EmptySet
<1> HIDE DEF extra
<1> QED
  BY <1>1, <1>2, <1>3, <1>5, <1>7, <1>8 DEF extra

-----------------------------------------------------------------------------
(* The deal: its flowers are replaced from the back, then the dealer draws. *)
LEMMA DrawFrontInv ==
    ASSUME NEW d \in DiceSums, NEW front \in Dealt .. WangpaiBoundary(WallLen, d),
           NEW n \in 0 .. WallLen, NEW m \in BackCounters(n), NEW count \in Int,
           NEW given \in SUBSET Slots,
           given = (0 .. front - 1) \cup BackDraws(WallLen, d, 0, n),
           count = WallLen - 1 - Cardinality(given),
           count < WordSize,
           DrawFront(d, front, n, m, count, given), dice' = d, haiteiDrawIndex' = -1
    PROVE  WallInv'
<1>1. PICK i \in front .. WangpaiBoundary(WallLen, d) - 1 :
        /\ IsNextFront(WallLen, d, front, n, i)
        /\ wallIndex' = i + 1
        /\ Replace(d, i + 1, n, m, count - 1, given \cup {i})
  BY DEF DrawFront
<1>2. /\ WallLen \in Nat /\ Dealt \in Nat /\ WordSize \in Nat /\ d \in Nat \ {0}
      /\ WangpaiBoundary(WallLen, d) \in Nat /\ WangpaiBoundary(WallLen, d) < WallLen
  BY WallAssumption DEF WallAssumption, WangpaiBoundary
<1>3. i \notin given
  <2>1. i \notin 0 .. front - 1
    BY <1>2
  <2>2. i \notin BackDraws(WallLen, d, 0, n)
    BY <1>1, <1>2 DEF IsNextFront, ConsumedByDeadWall, BackDraws
  <2> QED
    BY <2>1, <2>2
<1>4. given \cup {i} = (0 .. i) \cup BackDraws(WallLen, d, 0, n)
  <2>1. \A j \in front .. i - 1 : j \in BackDraws(WallLen, d, 0, n)
    BY <1>1, <1>2 DEF IsNextFront, ConsumedByDeadWall, BackDraws, WildIndicator
  <2>2. 0 .. i = (0 .. front - 1) \cup (front .. i - 1) \cup {i}
    BY <1>2
  <2> QED
    BY <2>1, <2>2
<1>5. given \cup {i} \in SUBSET Slots
  BY <1>2 DEF Slots
<1>6. /\ IsFiniteSet(given)
      /\ IsFiniteSet(given \cup {i})
      /\ Cardinality(given) \in Nat
      /\ Cardinality(given \cup {i}) = Cardinality(given) + 1
      /\ Cardinality(given \cup {i}) <= WallLen
  <2>1. IsFiniteSet(given) /\ IsFiniteSet(given \cup {i})
    BY <1>5, SlotsFinite, FS_Subset
  <2>2. Cardinality(given) \in Nat
    BY <2>1, FS_CardinalityType
  <2>3. Cardinality(given \cup {i}) = Cardinality(given) + 1
    BY <2>1, <1>3, FS_AddElement
  <2>4. Cardinality(given \cup {i}) <= WallLen
    BY <1>5, SlotsFinite, FS_Subset
  <2> QED
    BY <2>1, <2>2, <2>3, <2>4
<1>7. count - 1 = WallLen - 1 - Cardinality(given \cup {i})
  BY <1>2, <1>6
<1>8. WallLen - 1 \notin given \cup {i} \/ WildIndicator(WallLen, d) \notin given \cup {i}
  BY <1>2, <1>4 DEF BackDraws, WildIndicator
<1>9. count - 1 \in Nat
  <2>1. given \cup {i} # Slots
    BY <1>2, <1>8 DEF Slots, WildIndicator
  <2>2. Cardinality(given \cup {i}) # WallLen
    BY <2>1, <1>5, SlotsFinite, FS_Subset
  <2> QED
    BY <2>2, <1>2, <1>6, <1>7
<1>10. m \in Nat /\ m >= n
  BY WallAssumption DEF WallAssumption, BackCounters
<1>11. (given \cup {i}) \cap BackDraws(WallLen, d, n, m) = {}
  <2>1. /\ BackDraws(WallLen, d, n, m) \subseteq i + 1 .. WallLen - 1
        /\ BackDraws(WallLen, d, 0, n) \cap BackDraws(WallLen, d, n, m) = {}
    <3>1. i + 1 \in Nat /\ n \in Nat /\ count - 1 \in Int
      BY <1>2, <1>9
    <3>2. BackDrawsLegal(d, i + 1, n, m, count - 1)
      BY <1>1 DEF Replace
    <3> QED
      BY <3>1, <3>2, <1>10, BackDrawsFresh, Zenon
  <2>2. (0 .. i) \cap (i + 1 .. WallLen - 1) = {}
    BY <1>2
  <2> QED
    BY <2>1, <2>2, <1>4
<1>12. BackDraws(WallLen, d, 0, m)
         = BackDraws(WallLen, d, 0, n) \cup BackDraws(WallLen, d, n, m)
  <2>1. i + 1 \in Nat /\ n \in Nat /\ count - 1 \in Int
    BY <1>2, <1>9
  <2>2. BackDrawsLegal(d, i + 1, n, m, count - 1)
    BY <1>1 DEF Replace
  <2> QED
    BY <2>1, <2>2, <1>10, BackDrawsFresh
<1>13. /\ deadWallIndex' = m
       /\ m \in 0 .. WallLen
       /\ wallCount' \in 0 .. WordSize - 1
       /\ dispensed' = (given \cup {i}) \cup BackDraws(WallLen, d, n, m)
       /\ dispensed' \in SUBSET Slots
       /\ stage' \in {"turn", "over"}
       /\ wallCount' = WallLen - 1 - Cardinality(dispensed')
  <2>1. i + 1 \in Nat /\ count - 1 < WordSize
    BY <1>2
  <2> QED
    BY <2>1, <1>1, <1>5, <1>7, <1>9, <1>10, <1>11, ReplaceExact
<1>14. TypeOK'
  BY <1>1, <1>2, <1>13 DEF TypeOK, Slots
<1>15. dispensed' = HandedOut'
  <2>1. wallIndex' - 1 = i
    BY <1>1, <1>2
  <2> QED
    BY <2>1, <1>4, <1>12, <1>13 DEF HandedOut
<1>16. wallIndex' \in Dealt .. WangpaiBoundary(WallLen, dice')
  BY <1>1, <1>2
<1> QED
  BY <1>13, <1>14, <1>15, <1>16 DEF WallInv, Boundary

(* Back draws from a running hand: the other way tiles are handed out. *)
LEMMA ReplaceInv ==
    ASSUME WallInv, dispensed # {}, NEW m \in BackCounters(deadWallIndex),
           Replace(dice, wallIndex, deadWallIndex, m, wallCount, dispensed),
           UNCHANGED <<dice, wallIndex, haiteiDrawIndex>>
    PROVE  WallInv'
<1>1. /\ WallLen \in Nat /\ Dealt \in Nat /\ WordSize \in Nat /\ dice \in Nat \ {0}
      /\ Boundary \in Nat /\ Boundary < WallLen
  BY WallAssumption DEF WallAssumption, WallInv, TypeOK, Boundary, WangpaiBoundary
<1>2. /\ m \in Nat /\ m >= deadWallIndex /\ deadWallIndex \in Nat
      /\ wallIndex \in Nat /\ wallCount \in Nat /\ wallCount < WordSize
      /\ deadWallIndex \in 0 .. WallLen /\ dispensed \in SUBSET Slots
      /\ dice \in DiceSums
  BY <1>1, WallAssumption DEF WallAssumption, BackCounters, WallInv, TypeOK, Slots
<1>3. /\ dispensed = HandedOut
      /\ wallIndex \in Dealt .. Boundary
      /\ haiteiDrawIndex \in {-1, HaiteiSlot(WallLen, dice)}
      /\ haiteiDrawIndex # -1 => wallIndex = Boundary
      /\ haiteiDrawIndex = -1 => wallCount = WallLen - 1 - Cardinality(dispensed)
  BY DEF WallInv
<1>4. BackDrawsLegal(dice, wallIndex, deadWallIndex, m, wallCount)
  BY DEF Replace
<1>5. /\ BackDraws(WallLen, dice, deadWallIndex, m) \subseteq wallIndex .. WallLen - 1
      /\ BackDraws(WallLen, dice, 0, m) = BackDraws(WallLen, dice, 0, deadWallIndex)
                                            \cup BackDraws(WallLen, dice, deadWallIndex, m)
      /\ BackDraws(WallLen, dice, 0, deadWallIndex)
           \cap BackDraws(WallLen, dice, deadWallIndex, m) = {}
  BY <1>2, <1>4, BackDrawsFresh
<1>6. haiteiDrawIndex = -1
        => dispensed \cap BackDraws(WallLen, dice, deadWallIndex, m) = {}
  <2>1. (0 .. wallIndex - 1) \cap (wallIndex .. WallLen - 1) = {}
    BY <1>1, <1>2
  <2> QED
    BY <2>1, <1>3, <1>5 DEF HandedOut
<1>7. /\ deadWallIndex' = m
      /\ m \in 0 .. WallLen
      /\ wallCount' \in 0 .. WordSize - 1
      /\ dispensed' = dispensed \cup BackDraws(WallLen, dice, deadWallIndex, m)
      /\ dispensed' \in SUBSET Slots
      /\ stage' \in {"turn", "over"}
      /\ haiteiDrawIndex = -1 => wallCount' = WallLen - 1 - Cardinality(dispensed')
  BY <1>2, <1>3, <1>6, ReplaceExact
<1>8. TypeOK'
  BY <1>1, <1>7 DEF TypeOK, Slots, WallInv
<1>9. dispensed' = HandedOut'
  BY <1>3, <1>5, <1>7 DEF HandedOut
<1> QED
  BY <1>3, <1>7, <1>8, <1>9 DEF WallInv, Boundary

LEMMA DealInv ==
    ASSUME WallInv, NEW d \in DiceSums, NEW n \in BackCounters(0), NEW m \in BackCounters(n),
           Deal(d, n, m)
    PROVE  WallInv'
<1> DEFINE flowers == BackDraws(WallLen, d, 0, n)
           given   == (0 .. Dealt - 1) \cup flowers
           count   == WallLen - Dealt - 1
<1>1. /\ WallLen \in Nat /\ Dealt \in Nat /\ WordSize \in Nat /\ WallLen < WordSize
      /\ d \in Nat \ {0} /\ n \in Nat /\ Dealt \in Dealt .. WangpaiBoundary(WallLen, d)
      /\ count \in Nat
  BY WallAssumption DEF WallAssumption, BackCounters, WangpaiBoundary
<1>2. /\ BackDrawsLegal(d, Dealt, 0, n, count)
      /\ DrawFront(d, Dealt, n, m, count - Cardinality(flowers), given)
      /\ dice' = d /\ haiteiDrawIndex' = -1
  BY DEF Deal
<1>3. flowers \subseteq Dealt .. WallLen - 1 /\ n \in 0 .. WallLen
  BY <1>1, <1>2, BackDrawsFresh
<1>4. /\ 0 .. Dealt - 1 \in SUBSET Slots /\ flowers \in SUBSET Slots /\ given \in SUBSET Slots
      /\ (0 .. Dealt - 1) \cap flowers = {}
  BY <1>1, <1>3 DEF Slots
<1>5. /\ IsFiniteSet(0 .. Dealt - 1) /\ IsFiniteSet(flowers) /\ IsFiniteSet(given)
      /\ Cardinality(0 .. Dealt - 1) = Dealt
  <2>1. IsFiniteSet(0 .. Dealt - 1) /\ Cardinality(0 .. Dealt - 1) = Dealt
    <3>1. Dealt - 1 \in Int /\ 0 \in Int
      BY <1>1
    <3>2. /\ IsFiniteSet(0 .. Dealt - 1)
          /\ Cardinality(0 .. Dealt - 1) = IF 0 > Dealt - 1 THEN 0 ELSE Dealt - 1 - 0 + 1
      BY ONLY <3>1, FS_Interval
    <3> QED
      BY <1>1, <3>2
  <2> QED
    BY <2>1, <1>4, SlotsFinite, FS_Subset
<1>6. Cardinality(flowers) \in Nat
  BY <1>5, FS_CardinalityType
<1>7. Cardinality(given) = Dealt + Cardinality(flowers)
  <2>1. Cardinality(given) = Cardinality(0 .. Dealt - 1) + Cardinality(flowers)
                               - Cardinality((0 .. Dealt - 1) \cap flowers)
    BY <1>5, FS_Union
  <2>2. Cardinality((0 .. Dealt - 1) \cap flowers) = 0
    BY <1>4, FS_EmptySet, Zenon
  <2> HIDE DEF given, flowers
  <2> QED
    BY <2>1, <2>2, <1>1, <1>5, <1>6
<1>8. /\ count - Cardinality(flowers) = WallLen - 1 - Cardinality(given)
      /\ count - Cardinality(flowers) < WordSize
      /\ count - Cardinality(flowers) \in Int
  BY <1>1, <1>6, <1>7
<1> HIDE DEF flowers, count
<1> QED
  BY <1>1, <1>2, <1>3, <1>4, <1>8, DrawFrontInv DEF flowers

LEMMA AcceptHaiteiInv ==
    ASSUME WallInv, NEW m \in BackCounters(deadWallIndex), AcceptHaitei(m)
    PROVE  WallInv'
<1> DEFINE h == FindHaitei(WallLen, dice, deadWallIndex)
           count == (wallCount - 1) % WordSize
<1>1. /\ WallLen \in Nat /\ Dealt \in Nat /\ WordSize \in Nat \ {0} /\ dice \in DiceSums
      /\ dice \in Nat \ {0} /\ Boundary \in Nat /\ Boundary < WallLen /\ wallCount \in Int
      /\ m \in Nat /\ m >= deadWallIndex /\ deadWallIndex \in 0 .. WallLen
  BY WallAssumption DEF WallAssumption, WallInv, TypeOK, Boundary, WangpaiBoundary, BackCounters
<1>2. count \in Nat /\ count < WordSize
  BY <1>1
<1>3. /\ h = HaiteiSlot(WallLen, dice) /\ h \in Slots /\ h # -1
      /\ wallIndex = Boundary /\ wallIndex \in Dealt .. Boundary /\ dispensed = HandedOut
      /\ haiteiDrawIndex \in {-1, h}
  BY <1>1 DEF WallInv, AcceptHaitei, FindHaitei, Slots, HaiteiSlot, WildIndicator, Boundary,
              WangpaiBoundary
<1>4. /\ haiteiDrawIndex' = h
      /\ Replace(dice, wallIndex, deadWallIndex, m, count, dispensed \cup {h})
      /\ dice' = dice /\ wallIndex' = wallIndex
  BY DEF AcceptHaitei
<1>5. dispensed \cup {h} \in SUBSET Slots
  BY <1>3 DEF WallInv, TypeOK, Slots
<1> HIDE DEF h, count
<1>6. /\ deadWallIndex' = m
      /\ m \in 0 .. WallLen
      /\ wallCount' \in 0 .. WordSize - 1
      /\ dispensed' = (dispensed \cup {h}) \cup BackDraws(WallLen, dice, deadWallIndex, m)
      /\ dispensed' \in SUBSET Slots
      /\ stage' \in {"turn", "over"}
  <2>1. wallIndex \in Nat
    BY <1>1, <1>3
  <2> QED
    BY <2>1, <1>1, <1>2, <1>4, <1>5, ReplaceExact
<1>7. BackDraws(WallLen, dice, 0, m) = BackDraws(WallLen, dice, 0, deadWallIndex)
                                         \cup BackDraws(WallLen, dice, deadWallIndex, m)
  <2>1. /\ BackDrawsLegal(dice, wallIndex, deadWallIndex, m, count)
        /\ wallIndex \in Nat /\ deadWallIndex \in Nat /\ count \in Int
    BY <1>1, <1>2, <1>3, <1>4 DEF Replace
  <2> QED
    BY <2>1, <1>1, BackDrawsFresh
<1>8. TypeOK'
  BY <1>1, <1>3, <1>4, <1>6 DEF TypeOK, Slots, WallInv
<1>9. dispensed' = HandedOut'
  BY <1>3, <1>4, <1>6, <1>7 DEF HandedOut
<1>10. Boundary' = Boundary /\ HaiteiSlot(WallLen, dice') = HaiteiSlot(WallLen, dice)
  BY <1>4 DEF Boundary
<1> QED
  BY <1>1, <1>3, <1>4, <1>6, <1>8, <1>9, <1>10 DEF WallInv

LEMMA ExhaustedInv == WallInv /\ LiveWallExhausted => WallInv'
<1> SUFFICES ASSUME WallInv, LiveWallExhausted PROVE WallInv'
  OBVIOUS
<1>1. /\ WallLen \in Nat /\ Dealt \in Nat /\ dice \in Nat \ {0}
      /\ Boundary \in Nat /\ Boundary < WallLen /\ dispensed # {}
  BY WallAssumption DEF WallAssumption, WallInv, TypeOK, Boundary, WangpaiBoundary,
                        LiveWallExhausted
<1>2. wallIndex \in Dealt .. Boundary /\ dispensed = HandedOut
  BY <1>1 DEF WallInv
<1>3. \A j \in wallIndex .. Boundary - 1 : j \in BackDraws(WallLen, dice, 0, deadWallIndex)
  BY <1>1, <1>2 DEF LiveWallExhausted, IsNextFront, ConsumedByDeadWall, BackDraws,
                    WildIndicator, Boundary
<1>4. 0 .. Boundary - 1 = (0 .. wallIndex - 1) \cup (wallIndex .. Boundary - 1)
  BY <1>1, <1>2
<1>5. HandedOut' = HandedOut
  <2>1. HandedOut' = (0 .. Boundary - 1) \cup BackDraws(WallLen, dice, 0, deadWallIndex)
                        \cup ({haiteiDrawIndex} \ {-1})
    BY DEF HandedOut, LiveWallExhausted
  <2> QED
    BY <2>1, <1>3, <1>4 DEF HandedOut
<1>6. TypeOK'
  BY <1>1 DEF WallInv, TypeOK, LiveWallExhausted
<1>7. /\ wallIndex' = Boundary /\ Boundary' = Boundary
      /\ UNCHANGED <<dice, deadWallIndex, haiteiDrawIndex, wallCount, dispensed>>
      /\ stage' \in {"over", "offered"}
      /\ stage' = "offered" => FindHaitei(WallLen, dice, deadWallIndex) # -1
  BY DEF LiveWallExhausted, Boundary
<1>8. FindHaitei(WallLen, dice, deadWallIndex) # -1
        => FindHaitei(WallLen, dice, deadWallIndex) = HaiteiSlot(WallLen, dice)
  BY DEF FindHaitei
<1> QED
  BY <1>1, <1>2, <1>5, <1>6, <1>7, <1>8 DEF WallInv

(* One step per action of Wall. *)
LEMMA StepInv == WallInv /\ [Next]_vars => WallInv'
<1> SUFFICES ASSUME WallInv, [Next]_vars PROVE WallInv'
  OBVIOUS
<1>1. CASE \E d \in DiceSums, n \in BackCounters(0) : \E m \in BackCounters(n) : Deal(d, n, m)
  BY <1>1, DealInv
<1>2. CASE \E m \in BackCounters(deadWallIndex) : SystemDraw(m)
  <2>1. PICK m \in BackCounters(deadWallIndex) : SystemDraw(m)
    BY <1>2
  <2>2. /\ dispensed # {} /\ dice \in DiceSums /\ deadWallIndex \in 0 .. WallLen
        /\ wallIndex \in Dealt .. Boundary /\ dispensed = HandedOut
        /\ dispensed \in SUBSET Slots /\ wallCount \in Int /\ wallCount < WordSize
        /\ dice' = dice /\ haiteiDrawIndex' = haiteiDrawIndex
        /\ DrawFront(dice, wallIndex, deadWallIndex, m, wallCount, dispensed)
    BY <2>1, WallAssumption DEF SystemDraw, WallInv, TypeOK, Slots, WallAssumption
  <2>3. haiteiDrawIndex = -1
    <3>1. Boundary \in Int
      BY WallAssumption, <2>2 DEF WallAssumption, Boundary, WangpaiBoundary
    <3>2. wallIndex # Boundary
      BY <2>2, <3>1 DEF DrawFront, Boundary
    <3> QED
      BY <2>2, <3>2 DEF WallInv
  <2>4. /\ dispensed = (0 .. wallIndex - 1) \cup BackDraws(WallLen, dice, 0, deadWallIndex)
        /\ wallCount = WallLen - 1 - Cardinality(dispensed)
    BY <2>2, <2>3 DEF HandedOut, WallInv
  <2> QED
    BY <2>2, <2>3, <2>4, DrawFrontInv DEF Boundary
<1>3. CASE LiveWallExhausted
  BY <1>3, ExhaustedInv
<1>4. CASE \E m \in BackCounters(deadWallIndex) : DeadWallDraw(m)
  <2>1. PICK m \in BackCounters(deadWallIndex) : DeadWallDraw(m)
    BY <1>4
  <2>2. dispensed # {}
    BY <2>1 DEF DeadWallDraw, WallInv
  <2> QED
    BY <2>1, <2>2, ReplaceInv DEF DeadWallDraw
<1>5. CASE \E m \in BackCounters(deadWallIndex) : AcceptHaitei(m)
  BY <1>5, AcceptHaiteiInv
<1>6. CASE EndHand
  BY <1>6 DEF EndHand, WallInv, TypeOK, HandedOut, Boundary
<1>7. CASE UNCHANGED vars
  BY <1>7 DEF vars, WallInv, TypeOK, HandedOut, Boundary
<1> QED
  BY <1>1, <1>2, <1>3, <1>4, <1>5, <1>6, <1>7 DEF Next

-----------------------------------------------------------------------------
LEMMA WallInvHolds == Spec => []WallInv
<1>1. Init => WallInv
  BY WallAssumption DEF Init, WallInv, TypeOK, WallAssumption
<1> QED
  BY <1>1, StepInv, PTL DEF Spec

(* Every variable keeps its type, in particular both ends stay in the wall. *)
THEOREM WallTypeCorrect == Spec => []TypeOK
<1>1. WallInv => TypeOK
  BY DEF WallInv
<1> QED
  BY <1>1, WallInvHolds, PTL

(* Before the haitei tile is drawn, WallCount is the number of tiles left.  *)
THEOREM WallCountIsExact == Spec => []WallCountExact
<1>1. WallInv => WallCountExact
  BY DEF WallInv, WallCountExact
<1> QED
  BY <1>1, WallInvHolds, PTL

(* Nobody ever draws the wild indicator. *)
THEOREM IndicatorStays == Spec => []IndicatorNeverDrawn
<1>1. WallInv => IndicatorNeverDrawn
  <2> SUFFICES ASSUME WallInv, dispensed # {} PROVE Indicator \notin dispensed
    BY DEF IndicatorNeverDrawn
  <2>1. /\ dispensed = HandedOut /\ wallIndex \in Dealt .. Boundary
        /\ haiteiDrawIndex \in {-1, Indicator + 1}
        /\ Indicator = Boundary /\ Boundary \in Int /\ Dealt \in Nat
        /\ Indicator # -1 => Indicator # haiteiDrawIndex
    BY WallAssumption DEF WallInv, TypeOK, WallAssumption, HaiteiSlot, Indicator, Boundary,
                          WildIndicator, WangpaiBoundary
  <2> QED
    BY <2>1 DEF HandedOut, BackDraws, Indicator
<1> QED
  BY <1>1, WallInvHolds, PTL

(* The haitei tile on offer for the first time is still in the wall. *)
THEOREM HaiteiIsFresh == Spec => []HaiteiOfferedFresh
<1>1. WallInv => HaiteiOfferedFresh
  <2> SUFFICES ASSUME WallInv, stage = "offered", haiteiDrawIndex = -1
               PROVE  FindHaitei(WallLen, dice, deadWallIndex) \notin dispensed \cup {-1}
    BY DEF HaiteiOfferedFresh
  <2> DEFINE h == FindHaitei(WallLen, dice, deadWallIndex)
  <2>1. /\ dispensed = HandedOut /\ wallIndex = Boundary /\ h = Boundary + 1
        /\ Boundary \in Nat
    BY WallAssumption DEF WallInv, TypeOK, WallAssumption, HaiteiSlot, WildIndicator, Boundary,
                          WangpaiBoundary
  <2>2. h \notin ConsumedByDeadWall(WallLen, deadWallIndex)
    BY <2>1 DEF FindHaitei
  <2>3. h \notin BackDraws(WallLen, dice, 0, deadWallIndex)
    BY <2>2 DEF BackDraws, ConsumedByDeadWall
  <2> HIDE DEF h
  <2> QED
    BY <2>1, <2>3 DEF HandedOut, h
<1> QED
  BY <1>1, WallInvHolds, PTL
=============================================================================
