------------------------------- MODULE MCGame -------------------------------
(***************************************************************************)
(* Hands of 4 tiles (3 blocks of one tile and a single tile; a win is one   *)
(* set and a pair) from a wall of 24 tiles with two wangpai stacks: 16 to   *)
(* 19 are the live wall, 20 the indicator and 21 the haitei tile.           *)
(***************************************************************************)
EXTENDS Game

M(v) == [suit |-> "man", value |-> v]
P(v) == [suit |-> "pin", value |-> v]
S(v) == [suit |-> "sou", value |-> v]
Z(v) == [suit |-> "jihai", value |-> v]
F(v) == [suit |-> "flower", value |-> v]

(* A wall from the four dealt hands (3 + 1 tiles each) and the rest. *)
Shuffle(h0, h1, h2, h3, rest) ==
    LET h == <<h0, h1, h2, h3>>
        wallSeq == [i \in 1 .. 16 |-> h[((i - 1) % 4) + 1][((i - 1) \div 4) + 1]] \o rest
    IN  [i \in 0 .. WallLen - 1 |-> wallSeq[i + 1]]

(* M5 lets seat 1 chii, or win with P2 as its pair, and seat 2 pon or kan;  *)
(* the haitei tile is a flower.                                             *)
Claims == Shuffle(<<M(5), M(9), Z(1), Z(1)>>, <<M(4), M(6), P(2), P(2)>>,
                  <<M(5), M(5), M(5), F(1)>>, <<Z(1), Z(2), Z(2), S(9)>>,
                  <<P(2), F(5), Z(2), Z(1)>> \o <<Z(3), F(2)>> \o <<S(2), S(7)>>)

(* Seat 0 draws a closed kong; seat 3 can pon P2 and, when seat 2 pons its  *)
(* S5, draw the fourth P2; a kong draws a flower.                           *)
Kongs == Shuffle(<<Z(1), Z(1), Z(1), P(2)>>, <<M(7), M(8), Z(2), Z(2)>>,
                 <<S(5), S(5), M(9), M(9)>>, <<P(2), P(2), S(5), S(6)>>,
                 <<Z(1), P(2), M(9), F(6)>> \o <<Z(5), S(1)>> \o <<F(1), M(9)>>)

(* So many flowers that back draws take the haitei tile, come down into the *)
(* live wall and meet the front.                                            *)
Exhaustion == Shuffle(<<F(1), M(2), M(5), M(8)>>, <<P(1), P(4), P(7), F(2)>>,
                      <<S(1), S(4), S(7), Z(1)>>, <<Z(2), Z(3), Z(4), Z(5)>>,
                      <<F(5), F(6), Z(7), F(7)>> \o <<Z(6), M(1)>> \o <<P(9), S(9)>>)

(* A flower indicator: F1, F2 and F3 are wild and stay in the hand.         *)
WildFlowers == Shuffle(<<F(1), M(2), M(5), M(8)>>, <<F(2), F(3), P(7), P(7)>>,
                       <<S(1), S(1), S(7), F(5)>>, <<Z(2), Z(3), Z(4), Z(5)>>,
                       <<F(6), P(7), Z(7), S(1)>> \o <<F(4), S(1)>> \o <<P(9), S(9)>>)

(* Two live tiles only, for matches of several short hands: seat 0 wins on  *)
(* its first draw, seat 3 on S4, seat 2 on the haitei tile.                 *)
Short == Shuffle(<<M(1), M(2), M(3), S(4)>>, <<M(7), M(8), Z(2), Z(3)>>,
                 <<P(2), P(2), P(3), P(4)>>, <<S(5), S(6), Z(1), Z(1)>>,
                 <<S(4), Z(5)>> \o <<Z(6), P(5)>> \o <<P(9), S(9)>>)

IsSet(w, tiles) ==
    \/ \A t, u \in tiles : w.faces[t] = w.faces[u]
    \/ \E t \in tiles : /\ w.faces[t].suit \notin {"jihai", "flower"}
                        /\ \A d \in 1 .. 2 : \E u \in tiles :
                              w.faces[u] = [suit |-> w.faces[t].suit, value |-> w.faces[t].value + d]

(* A hand of 2 or 5 tiles is a pair and at most one set. *)
MCCanWin(w, tiles, tsumo) ==
    /\ Cardinality(tiles) \in {2, 5}
    /\ \E p \in { {t, u} : t, u \in tiles } :
          /\ Cardinality(p) = 2 /\ \A t, u \in p : w.faces[t] = w.faces[u]
          /\ tiles \ p = {} \/ IsSet(w, tiles \ p)

MCWalls == { Claims, Kongs, Exhaustion, WildFlowers }
MCShortWalls == { Short }
MCSeat0 == {0}

(* The haitei tile may be drawn twice, not more often. *)
RedrawsBounded ==
    phase # "INIT" => wall.count >= WallLen - 1 - Cardinality(Dispensed) - 1
=============================================================================
