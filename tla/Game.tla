-------------------------------- MODULE Game --------------------------------
(***************************************************************************)
(* The match state machine of internal/engine/game.go with the offers of    *)
(* internal/rules/fh.go: deal, draws, discards, claim windows, kongs, wins, *)
(* round ends and the READY barrier.  One action is one call of Start,      *)
(* ProcessPlayerAction or ResolveInterrupts, with everything that call      *)
(* triggers.  A tile is its wall index; how a hand is scored is a parameter.*)
(***************************************************************************)
EXTENDS WallGeometry, Sequences, SequencesExt

CONSTANTS
    WallLen,        \* tiles in the wall (144)
    DealBlock,      \* tiles of one dealing block (4); a hand is 3 blocks and 1
    DiceSums,       \* the sums two dice can show
    Walls,          \* the shuffles: functions from wall index to face
    DealerDraws,    \* the seats a random dealer draw can yield (0 .. 3)
    CanWin(_, _, _),\* EvaluateHand's verdict on <<wall, tiles, tsumo?>>
    WinScores,      \* the scores of winning hands
    Chongci,        \* match mode: TRUE chongci, FALSE classic
    Capped,         \* is there a cap config (ChongciConfig)?
    StartingScore, BustThreshold, MaxHands,  \* the cap config
    HandBound,      \* bound on the hands explored
    MaxChain,       \* bound on a chain of replacements (module Wall)
    WordSize        \* WallCount is a word

Seats == 0 .. 3
None == -1
NextSeat(s) == (s + 1) % 4
HandTiles == 3 * DealBlock + 1
Suits == {"man", "pin", "sou", "jihai", "flower"}

ASSUME GameAssumption ==
    /\ WallLen \in Nat /\ WallLen % 2 = 0 /\ DealBlock \in Nat \ {0}
    /\ DiceSums \subseteq Nat \ {0} /\ DiceSums # {}
    /\ \A d \in DiceSums : 4 * HandTiles + 1 <= WallLen - 2 * d
    /\ Walls \subseteq [0 .. WallLen - 1 -> [suit : Suits, value : 1 .. 9]]
    /\ DealerDraws \subseteq Seats /\ DealerDraws # {}
    /\ WinScores \subseteq Nat
    /\ Chongci \in BOOLEAN /\ Capped \in BOOLEAN /\ (Chongci => Capped)
    /\ StartingScore \in Int /\ BustThreshold \in Int
    /\ MaxHands \in Nat /\ HandBound \in Nat
    /\ MaxChain \in Nat /\ WordSize \in Nat /\ WallLen < WordSize

VARIABLES
    phase,          \* State.Phase
    activePlayer,   \* State.ActivePlayer: whose turn, or who discarded
    dealer,         \* the seat whose SeatWind is East
    nextDealer,     \* g.nextDealerOverride, or None
    handNum,        \* State.HandNum
    wall,           \* the wall, its two ends, the haitei index and WallCount
    hands,          \* per seat: closed tiles, HandSize, DrawnTileId, melds, ...
    validActions,   \* per seat: PlayerState.ValidActions
    interruptQueue, \* g.interruptQueue: responses by seat
    activeDiscard,  \* State.ActiveDiscard, or None
    isHaitei,       \* State.IsHaitei
    score,          \* per seat: PlayerState.Score
    playerReady,    \* seats whose State.PlayerReady is set
    roundResult     \* State.RoundResult, NoResult when nil

vars == <<phase, activePlayer, dealer, nextDealer, handNum, wall, hands,
          validActions, interruptQueue, activeDiscard, isHaitei, score,
          playerReady, roundResult>>

Offer(type, tiles) == [type |-> type, tiles |-> tiles]
Pass == Offer("pass", {})
Types(offers) == { o.type : o \in offers }
NoOffers == [s \in Seats |-> {}]
Result(type, winner, discarder) == [type |-> type, winner |-> winner, discarder |-> discarder]
NoResult == Result("none", None, None)
Drawn == Result("draw", None, None)
EmptyHand == [closed |-> {}, size |-> 0, drawn |-> None, melds |-> {},
              discards |-> << >>, flowers |-> {}]

-----------------------------------------------------------------------------
(* Tiles and faces. *)

SameFace(w, t, u) == w.faces[t] = w.faces[u]
Alike(w, tiles, t) == { u \in tiles : SameFace(w, u, t) }

(* A flower indicator makes the other flowers of its group (1-4 seasons,    *)
(* 5-8 plants) wild; every other flower is revealed as soon as it is held.  *)
IsFlowerWild(w, t) ==
    LET wild == w.faces[WildIndicator(WallLen, w.dice)]
    IN  /\ wild.suit = "flower"
        /\ wild.value # w.faces[t].value
        /\ (wild.value <= 4) = (w.faces[t].value <= 4)
Flowers(w, tiles) == { t \in tiles : w.faces[t].suit = "flower" /\ ~IsFlowerWild(w, t) }

(* Few tiles of the set are flowers (8 of 144): when all are revealed in    *)
(* the deal, tiles are left at both ends of the wall.                       *)
ASSUME FlowersAssumption ==
    \A faces \in Walls, d \in DiceSums :
        4 * HandTiles + 3
            + Cardinality(Flowers([faces |-> faces, dice |-> d], 0 .. WallLen - 1)) <= WallLen

(* A tile has at most three others of its face (GetInitialWall).            *)
ASSUME FourAlikeAssumption ==
    \A faces \in Walls : \A t \in 0 .. WallLen - 1 :
        Cardinality({ u \in 0 .. WallLen - 1 : faces[u] = faces[t] }) <= 4

-----------------------------------------------------------------------------
(* What the rules offer (internal/rules/fh.go). *)

HaiteiOffers == { Offer("accept", {}), Offer("refuse", {}) }

ClosedKongs(w, hand) ==
    { Offer("kan", Alike(w, hand.closed, t)) :
        t \in { u \in hand.closed : /\ w.faces[u].suit # "flower"
                                    /\ Cardinality(Alike(w, hand.closed, u)) = 4 } }
UpgradedKongs(w, hand) ==
    { Offer("kan", {t}) :
        t \in { u \in hand.closed : \E m \in hand.melds :
                    m.type = "pon" /\ \A p \in m.tiles : SameFace(w, p, u) } }

(* Fault: an added kan is offered right after a pon, before any draw. *)
GetValidActionsKanAfterPon(w, hand, haitei) ==
    { Offer("discard", {}) }
    \cup (IF CanWin(w, hand.closed, TRUE) THEN { Offer("tsumo", {}) } ELSE {})
    \cup (IF haitei THEN {} ELSE ClosedKongs(w, hand) \cup UpgradedKongs(w, hand))

(* Tsumo and kongs need a drawn tile, so none is offered after a chii or a  *)
(* pon; on the haitei tile only tsumo and discard are offered.              *)
GetValidActions(w, hand, haitei) ==
    { Offer("discard", {}) }
    \cup { o \in { Offer("tsumo", {}) } : /\ haitei \/ hand.drawn # None
                                          /\ CanWin(w, hand.closed, TRUE) }
    \cup { o \in ClosedKongs(w, hand) \cup UpgradedKongs(w, hand) :
             ~haitei /\ hand.drawn # None }

(* The tile of the hand dx above t in t's suit, if there is one. *)
Beside(w, hand, t, dx) ==
    { u \in hand.closed : w.faces[u] = [suit |-> w.faces[t].suit, value |-> w.faces[t].value + dx] }
Runs(w, hand, t) ==
    { Offer("chii", {CHOOSE u \in Beside(w, hand, t, p[1]) : TRUE,
                     CHOOSE u \in Beside(w, hand, t, p[2]) : TRUE}) :
        p \in { q \in {<<-2, -1>>, <<-1, 1>>, <<1, 2>>} :
                  Beside(w, hand, t, q[1]) # {} /\ Beside(w, hand, t, q[2]) # {} } }

(* What `seat` may claim of tile t discarded by `discarder`: which of       *)
(* several equal tiles enter the meld makes no difference.                  *)
GetValidInterrupts(w, hand, t, seat, discarder) ==
    LET same == Alike(w, hand.closed, t)
    IN  { o \in { Offer("ron", {}) } : CanWin(w, hand.closed \cup {t}, FALSE) }
        \cup { o \in { Offer("kan", same) } : Cardinality(same) = 3 }
        \cup (IF Cardinality(same) < 2 THEN {}
              ELSE { Offer("pon", CHOOSE p \in SUBSET same : Cardinality(p) = 2) })
        \cup { o \in Runs(w, hand, t) :
                 NextSeat(discarder) = seat /\ w.faces[t].suit # "jihai" }

(* Fault: the offers are added to those of the last window. *)
OffersAppended(w, hs, discarder, t, ronOnly) ==
    [s \in Seats |->
        IF s = discarder THEN {}
        ELSE validActions[s] \cup { o \in GetValidInterrupts(w, hs[s], t, s, discarder) :
                                      ronOnly => o.type = "ron" }]

(* Every seat's offers on a discard; on a haitei discard only ron. *)
Offers(w, hs, discarder, t, ronOnly) ==
    [s \in Seats |->
        IF s = discarder THEN {}
        ELSE { o \in GetValidInterrupts(w, hs[s], t, s, discarder) : ronOnly => o.type = "ron" }]

Weight(type) == CASE type = "ron" -> 4 [] type = "kan" -> 3 [] type = "pon" -> 2
                  [] type = "chii" -> 1 [] OTHER -> 0

(* Fault: the lightest claim wins.                                          *)
ResolveInterruptPriorityReversed(queue) ==
    LET claims == { s \in DOMAIN queue : queue[s].type # "pass" }
    IN  IF claims = {} THEN None
        ELSE CHOOSE s \in claims : \A o \in claims : Weight(queue[s].type) <= Weight(queue[o].type)

(* The seat whose response wins the window, None when all passed: the       *)
(* heaviest claim, and of equal ones the lowest seat's.                     *)
ResolveInterruptPriority(queue) ==
    LET claims == { s \in DOMAIN queue : queue[s].type # "pass" }
        weight(s) == Weight(queue[s].type)
    IN  IF claims = {} THEN None
        ELSE CHOOSE s \in claims : \A o \in claims \ {s} :
                weight(s) > weight(o) \/ (weight(s) = weight(o) /\ s < o)

(* Fault: the other two seats of a ron pay as much as the discarder. *)
PayoutAllDouble(s, r, S) ==
    IF s = r.winner THEN IF r.type = "tsumo" THEN 6 * S ELSE 4 * S ELSE -(2 * S)

(* What CalculatePayouts gives seat s for a win r of score S. *)
Payout(s, r, S) ==
    IF s = r.winner THEN IF r.type = "tsumo" THEN 6 * S ELSE 4 * S
    ELSE IF r.type = "tsumo" \/ s = r.discarder THEN -(2 * S)
    ELSE -S

-----------------------------------------------------------------------------
(* Ends of a hand. *)

(* Fault: one hand too many is played. *)
MatchOverLate(sc, hand) ==
    Capped /\ \/ \E s \in Seats : sc[s] <= BustThreshold
              \/ MaxHands > 0 /\ hand > MaxHands

(* shouldEndChongciMatch. *)
MatchOver(sc, hand) ==
    Capped /\ \/ \E s \in Seats : sc[s] <= BustThreshold
              \/ MaxHands > 0 /\ hand >= MaxHands

(* Fault: after a win the deal passes to the seat on the dealer's left. *)
SuccessorRotates(r) ==
    IF ~Chongci THEN nextDealer ELSE IF r.type = "draw" THEN dealer' ELSE NextSeat(dealer')

(* Chongci: the winner deals next, and the dealer again after a draw. *)
Successor(r) ==
    IF ~Chongci THEN nextDealer ELSE IF r.type = "draw" THEN dealer' ELSE r.winner

(* concludeRound: the result, dealer succession, end of match or READY. *)
FinalizeRoundEnd(sc, r) ==
    /\ score' = sc
    /\ roundResult' = r
    /\ nextDealer' = Successor(r)
    /\ phase' = IF MatchOver(sc, handNum') THEN "MATCH_END" ELSE "ROUND_END"
    /\ playerReady' = {}

EndRoundInDraw == FinalizeRoundEnd(score, Drawn)

(* The hand goes on, or begins: while one is in play no result, READY or    *)
(* dealer override is pending (startNextRound and dealTiles clear them).    *)
PlayOn(p) ==
    /\ phase' = p
    /\ roundResult' = NoResult /\ playerReady' = {} /\ nextDealer' = None
    /\ score' = score

-----------------------------------------------------------------------------
(* Draws. *)

(* The back-draw counter after r drawn tiles: one more slot than tiles when *)
(* the indicator was stepped over.                                          *)
AfterBackDraws(w, r) ==
    LET k == 2 * (w.dice - 1)   \* the indicator's own slot
    IN  IF w.dead <= k /\ w.dead + r > k THEN w.dead + r + 1 ELSE w.dead + r

BackTiles(w, r) == BackDraws(WallLen, w.dice, w.dead, AfterBackDraws(w, r))

(* No tile is left once r more were drawn from the back. *)
BackEmpty(w, r) == w.count = r \/ DeadWallSlot(WallLen, AfterBackDraws(w, r)) < w.index

(* How many tiles the seat draws from the back when `due` draws are due and *)
(* each revealed flower makes one more due: as long as the wall lasts.      *)
Owed(w, hand, due, r) ==
    due + Cardinality(Flowers(w, hand.closed)) + Cardinality(Flowers(w, BackTiles(w, r)))
Replacements(w, hand, due) ==
    CHOOSE r \in 0 .. WallLen :
        /\ r = Owed(w, hand, due, r) \/ BackEmpty(w, r)
        /\ \A q \in 0 .. r - 1 : q # Owed(w, hand, due, q) /\ ~BackEmpty(w, q)

(* Fault: stepping over the indicator uses up a tile of WallCount. *)
WallAfterCountsIndicator(w, r) ==
    [w EXCEPT !.dead = AfterBackDraws(w, r), !.count = @ - (AfterBackDraws(w, r) - w.dead)]

WallAfter(w, r) == [w EXCEPT !.dead = AfterBackDraws(w, r), !.count = @ - r]

(* The hand with its r replacements, every revealable flower laid out. *)
Reveal(w, hand, r) ==
    LET shown == Flowers(w, hand.closed \cup BackTiles(w, r))
    IN  [hand EXCEPT !.closed = (@ \cup BackTiles(w, r)) \ shown,
                     !.size = @ + r - Cardinality(shown),
                     !.flowers = @ \cup shown]
LastBackTile(w, r, drawn) ==
    IF r = 0 THEN drawn ELSE DeadWallSlot(WallLen, AfterBackDraws(w, r) - 1)

(* ExecuteDeadWallDraw for the due draws and autoRevealFlowers, on the      *)
(* state (w, hs, va) the caller has reached.  Out of tiles, the hand is     *)
(* drawn; the offers of a seat that was revealing flowers are recomputed    *)
(* even then.                                                               *)
Settle(seat, w, hs, va, due) ==
    LET r     == Replacements(w, hs[seat], due)
        hand  == [Reveal(w, hs[seat], r) EXCEPT !.drawn = LastBackTile(w, r, hs[seat].drawn)]
        offer == GetValidActions(w, hand, isHaitei')
        shown == hand.flowers # hs[seat].flowers
    IN  /\ wall' = WallAfter(w, r)
        /\ hands' = [hs EXCEPT ![seat] = hand]
        /\ IF r = Owed(w, hs[seat], due, r)
           THEN /\ validActions' = [va EXCEPT ![seat] = offer]
                /\ PlayOn("PLAYER_TURN")
           ELSE /\ validActions' = [NoOffers EXCEPT ![seat] = IF shown THEN offer ELSE {}]
                /\ EndRoundInDraw

(* Fault: tiles the back draws have taken are not stepped over. *)
NextFrontNoSkip(w) == w.index
NextFront(w) == CHOOSE i \in 0 .. WallLen : IsNextFront(WallLen, w.dice, w.index, w.dead, i)

(* ExecuteSystemDraw: a front draw, or on an exhausted live wall the offer  *)
(* of the unseen haitei tile, or a drawn hand.                              *)
ExecuteSystemDraw(seat, w, hs, va) ==
    LET i       == NextFront(w)
        taken   == [w EXCEPT !.index = i + 1, !.count = @ - 1]
        drawer  == [hs[seat] EXCEPT !.closed = @ \cup {i}, !.size = @ + 1, !.drawn = i]
    IN  IF i < WangpaiBoundary(WallLen, w.dice)
        THEN /\ isHaitei' = isHaitei
             /\ Settle(seat, taken, [hs EXCEPT ![seat] = drawer], va, 0)
        ELSE /\ wall' = [w EXCEPT !.index = i]
             /\ hands' = hs
             /\ IF FindHaitei(WallLen, w.dice, w.dead) # -1
                THEN /\ isHaitei' = TRUE
                     /\ validActions' = [va EXCEPT ![seat] = HaiteiOffers]
                     /\ PlayOn("PLAYER_TURN")
                ELSE /\ isHaitei' = isHaitei
                     /\ validActions' = NoOffers
                     /\ EndRoundInDraw

(* The turn passes on, with no claim on the last discard. *)
AdvanceTurn(hs, va) ==
    /\ activePlayer' = NextSeat(activePlayer)
    /\ activeDiscard' = None
    /\ ExecuteSystemDraw(NextSeat(activePlayer), wall, hs, va)

-----------------------------------------------------------------------------
(* Deal. *)

(* The dealt tiles of a seat: three blocks and a single tile. *)
DealtTo(s) ==
    (UNION { (4 * k + s) * DealBlock .. (4 * k + s + 1) * DealBlock - 1 : k \in 0 .. 2 })
    \cup { 12 * DealBlock + s }

RevealSeat(table, s) ==
    LET r == Replacements(table.w, table.hs[s], 0)
    IN  [w  |-> WallAfter(table.w, r),
         hs |-> [q \in Seats |-> IF q = s THEN Reveal(table.w, table.hs[s], r) ELSE table.hs[q]]]

(* dealTiles and revealInitialFlowers: every hand in turn, from the dealer, *)
(* lays out its flowers; the wall is far too long for this to exhaust it.   *)
RevealInitialFlowers(w0, first) ==
    LET dealt == [w |-> w0, hs |-> [s \in Seats |-> [EmptyHand EXCEPT !.closed = DealtTo(s),
                                                                     !.size = HandTiles]]]
        two == RevealSeat(RevealSeat(dealt, first), (first + 1) % 4)
    IN  RevealSeat(RevealSeat(two, (first + 2) % 4), (first + 3) % 4)

(* A new hand: shuffle, dice, dealer, deal, flowers and the dealer's draw.  *)
Deal(faces, d, first) ==
    LET w == [faces |-> faces, dice |-> d, index |-> 4 * HandTiles, dead |-> 0,
              haitei |-> None, count |-> WallLen - 4 * HandTiles - 1]
        table == RevealInitialFlowers(w, first)
    IN  /\ dealer' = first
        /\ activePlayer' = first
        /\ ExecuteSystemDraw(first, table.w, table.hs, NoOffers)

Init ==
    /\ phase = "INIT"
    /\ activePlayer = 0 /\ dealer = 0 /\ nextDealer = None /\ handNum = 1
    /\ wall = [faces |-> << >>, dice |-> 0, index |-> 0, dead |-> 0, haitei |-> None, count |-> 0]
    /\ hands = [s \in Seats |-> EmptyHand]
    /\ validActions = NoOffers
    /\ interruptQueue = << >>
    /\ activeDiscard = None /\ isHaitei = FALSE
    /\ score = [s \in Seats |-> IF Capped THEN StartingScore ELSE 0]
    /\ playerReady = {} /\ roundResult = NoResult

Start ==
    /\ phase = "INIT"
    /\ UNCHANGED <<handNum, interruptQueue, activeDiscard>>
    /\ \E faces \in Walls, d \in DiceSums, first \in DealerDraws : Deal(faces, d, first)

-----------------------------------------------------------------------------
(* Turns.  Clients and bots send what their seat was offered. *)

Offered(seat, type) == type \in Types(validActions[seat])
InTurn(type) == phase = "PLAYER_TURN" /\ Offered(activePlayer, type)

(* handleDiscard: a window opens when someone can act on the tile; else the *)
(* hand is drawn on a haitei discard, and the turn passes on any other.     *)
HandleDiscard(t) ==
    LET hs == [hands EXCEPT ![activePlayer].closed = @ \ {t},
                            ![activePlayer].size = @ - 1,
                            ![activePlayer].drawn = None,
                            ![activePlayer].discards = Append(@, t)]
        va == Offers(wall, hs, activePlayer, t, isHaitei)
        claimable == \E s \in Seats : va[s] # {}
    IN  /\ InTurn("discard")
        /\ t \in hands[activePlayer].closed
        /\ UNCHANGED <<dealer, handNum>>
        /\ \/ /\ claimable
              /\ validActions' = va
              /\ activeDiscard' = t
              /\ interruptQueue' = << >>
              /\ hands' = hs
              /\ PlayOn("WAIT_DISCARDS")
              /\ UNCHANGED <<activePlayer, wall, isHaitei>>
           \/ /\ ~claimable /\ isHaitei
              /\ isHaitei' = FALSE
              /\ activeDiscard' = t
              /\ validActions' = NoOffers
              /\ hands' = hs
              /\ EndRoundInDraw
              /\ UNCHANGED <<activePlayer, wall, interruptQueue>>
           \/ /\ ~claimable /\ ~isHaitei
              /\ AdvanceTurn(hs, va)
              /\ UNCHANGED interruptQueue

(* Melds after a self-drawn kong: an added tile upgrades its pon. *)
Konged(w, melds, tiles) ==
    LET upgraded == { m \in melds : m.type = "pon" /\ \A p \in m.tiles, t \in tiles : SameFace(w, p, t) }
        pon      == CHOOSE m \in upgraded : TRUE
    IN  IF upgraded = {} THEN melds \cup { Offer("kan", tiles) }
        ELSE (melds \ {pon}) \cup { Offer("kan", pon.tiles \cup tiles) }

(* handleKongOrFlowerReveal for a kong; flowers are revealed by the engine  *)
(* itself, in Settle.                                                       *)
HandleKong(o) ==
    LET hs == [hands EXCEPT ![activePlayer].closed = @ \ o.tiles,
                            ![activePlayer].size = @ - Cardinality(o.tiles),
                            ![activePlayer].melds = Konged(wall, hands[activePlayer].melds, o.tiles)]
    IN  /\ InTurn("kan")
        /\ o \in validActions[activePlayer] /\ o.type = "kan"
        /\ UNCHANGED <<activePlayer, dealer, handNum, interruptQueue, activeDiscard, isHaitei>>
        /\ Settle(activePlayer, wall, hs, validActions, 1)

Paid(r, S) == [s \in Seats |-> score[s] + Payout(s, r, S)]

HandleTsumo(S) ==
    LET r == Result("tsumo", activePlayer, None)
    IN  /\ InTurn("tsumo")
        /\ CanWin(wall, hands[activePlayer].closed, TRUE)
        /\ UNCHANGED <<activePlayer, dealer, handNum, wall, hands, interruptQueue,
                       activeDiscard, isHaitei>>
        /\ validActions' = NoOffers
        /\ FinalizeRoundEnd(Paid(r, S), r)

(* handleHaiteiAccept: the haitei tile is drawn; when it is a flower its    *)
(* replacement comes from the back and the haitei restriction is lifted.    *)
HandleHaiteiAccept ==
    LET h  == FindHaitei(WallLen, wall.dice, wall.dead)
        w  == [wall EXCEPT !.count = (@ - 1) % WordSize, !.haitei = h]
        hs == [hands EXCEPT ![activePlayer].closed = @ \cup {h},
                            ![activePlayer].size = @ + 1,
                            ![activePlayer].drawn = h]
    IN  /\ InTurn("accept")
        /\ h # -1
        /\ isHaitei' = (Flowers(wall, hs[activePlayer].closed) = {})
        /\ UNCHANGED <<activePlayer, dealer, handNum, interruptQueue, activeDiscard>>
        /\ Settle(activePlayer, w, hs, validActions, 0)

HandleHaiteiRefuse ==
    /\ InTurn("refuse")
    /\ UNCHANGED <<activePlayer, dealer, handNum, wall, hands, interruptQueue, activeDiscard>>
    /\ isHaitei' = FALSE
    /\ validActions' = NoOffers
    /\ EndRoundInDraw

-----------------------------------------------------------------------------
(* Claim windows. *)

(* The table after a chii, pon or kan by seat s on the open discard.        *)
(* HandSize is left as it is.                                               *)
Melded(s, o, pile) ==
    [hands EXCEPT ![s].closed = @ \ o.tiles,
                  ![s].melds = @ \cup { Offer(o.type, o.tiles \cup {activeDiscard}) },
                  ![s].drawn = None,
                  ![activePlayer].discards = pile]

(* Fault: the claimed tile stays on the discarder's pile. *)
ClaimKeepsDiscard(s, o) ==
    /\ activePlayer' = s
    /\ activeDiscard' = None
    /\ interruptQueue' = << >>
    /\ UNCHANGED isHaitei
    /\ Settle(s, wall, Melded(s, o, hands[activePlayer].discards), validActions,
              IF o.type = "kan" THEN 1 ELSE 0)

(* Fault: a claimed kan is not followed by a back draw. *)
ClaimKanNoDraw(s, o) ==
    /\ activePlayer' = s
    /\ activeDiscard' = None
    /\ interruptQueue' = << >>
    /\ UNCHANGED isHaitei
    /\ Settle(s, wall, Melded(s, o, Front(hands[activePlayer].discards)), validActions, 0)

(* The tile leaves the discarder's pile; a kan is followed by a back draw.  *)
Claim(s, o) ==
    /\ activePlayer' = s
    /\ activeDiscard' = None
    /\ interruptQueue' = << >>
    /\ UNCHANGED isHaitei
    /\ Settle(s, wall, Melded(s, o, Front(hands[activePlayer].discards)), validActions,
              IF o.type = "kan" THEN 1 ELSE 0)

Ron(s, S) ==
    LET r == Result("ron", s, activePlayer)
    IN  /\ hands' = [hands EXCEPT ![activePlayer].discards = Front(@)]
        /\ interruptQueue' = << >>
        /\ validActions' = NoOffers
        /\ FinalizeRoundEnd(Paid(r, S), r)
        /\ UNCHANGED <<activePlayer, wall, activeDiscard, isHaitei>>

(* ResolveInterrupts on the responses q.  A ron is evaluated again before   *)
(* it is paid.  The queue is left as it is when the turn just passes on.    *)
ResolveInterrupts(q) ==
    LET s == ResolveInterruptPriority(q)
        wins == s # None /\ q[s].type = "ron"
                         /\ CanWin(wall, hands[s].closed \cup {activeDiscard}, FALSE)
        melds == s # None /\ q[s].type \in {"chii", "pon", "kan"}
    IN  /\ UNCHANGED <<dealer, handNum>>
        /\ \/ wins /\ \E S \in WinScores : Ron(s, S)
           \/ melds /\ Claim(s, q[s])
           \/ /\ ~wins /\ ~melds
              /\ interruptQueue' = q
              /\ AdvanceTurn(hands, validActions)

Expected == { s \in Seats : validActions[s] # {} }

(* Fault: the window waits for one response more than it can get. *)
WindowFullStrict(q) == Cardinality(DOMAIN q) > Cardinality(Expected)
(* Fault: the first response closes the window. *)
WindowFullAtOnce(q) == DOMAIN q # {}

WindowFull(q) == Cardinality(DOMAIN q) >= Cardinality(Expected)

(* The queue with the response o of seat s in place of an earlier one. *)
Respond(q, s, o) == [t \in DOMAIN q \cup {s} |-> IF t = s THEN o ELSE q[t]]

(* handleInterruptAction: a pass (also a late one, of a seat that was       *)
(* offered nothing) or an offered claim.  With as many responses as seats   *)
(* that were offered something the window resolves.                         *)
HandleInterrupt(s, o) ==
    LET q == Respond(interruptQueue, s, o)
    IN  /\ phase = "WAIT_DISCARDS"
        /\ s # activePlayer
        /\ o \in validActions[s] \cup {Pass}
        /\ \/ /\ ~WindowFull(q)
              /\ interruptQueue' = q
              /\ UNCHANGED <<phase, activePlayer, dealer, nextDealer, handNum, wall, hands,
                             validActions, activeDiscard, isHaitei, score, playerReady, roundResult>>
           \/ WindowFull(q) /\ ResolveInterrupts(q)

(* The room's timer resolves the window with the responses there are. *)
TimerResolve == phase = "WAIT_DISCARDS" /\ ResolveInterrupts(interruptQueue)

-----------------------------------------------------------------------------
(* Between hands. *)

(* handleReadyAction; the last seat's READY starts the next hand.  Neither  *)
(* IsHaitei nor the score is reset.                                         *)
HandleReady(s) ==
    /\ phase = "ROUND_END"
    /\ handNum < HandBound
    /\ s \in Seats \ playerReady
    /\ \/ /\ playerReady \cup {s} # Seats
          /\ playerReady' = playerReady \cup {s}
          /\ UNCHANGED <<phase, activePlayer, dealer, nextDealer, handNum, wall, hands, validActions,
                         interruptQueue, activeDiscard, isHaitei, score, roundResult>>
       \/ /\ playerReady \cup {s} = Seats
          /\ handNum' = handNum + 1
          /\ interruptQueue' = << >>
          /\ activeDiscard' = None
          /\ \E faces \in Walls, d \in DiceSums,
                first \in IF nextDealer = None THEN DealerDraws ELSE {nextDealer} :
                Deal(faces, d, first)

Next ==
    \/ Start
    \/ \E t \in hands[activePlayer].closed : HandleDiscard(t)
    \/ \E o \in validActions[activePlayer] : HandleKong(o)
    \/ \E S \in WinScores : HandleTsumo(S)
    \/ HandleHaiteiAccept
    \/ HandleHaiteiRefuse
    \/ \E s \in Seats : \E o \in validActions[s] \cup {Pass} : HandleInterrupt(s, o)
    \/ TimerResolve
    \/ \E s \in Seats : HandleReady(s)

Spec == Init /\ [][Next]_vars

-----------------------------------------------------------------------------
InPlay == phase \in {"PLAYER_TURN", "WAIT_DISCARDS"}
HaiteiOffered == InTurn("accept")

(* Tiles handed out this hand, read off the wall. *)
Dispensed ==
    (0 .. wall.index - 1) \cup BackDraws(WallLen, wall.dice, 0, wall.dead)
                          \cup ({wall.haitei} \ {None})

InMelds(h) == UNION { m.tiles : m \in h.melds }
Held(s) == hands[s].closed \cup hands[s].flowers \cup ToSet(hands[s].discards) \cup InMelds(hands[s])

(* Each tile of a seat is in one place.                                     *)
Apart(h) ==
    /\ h.closed \cap h.flowers = {}
    /\ ToSet(h.discards) \cap (h.closed \cup h.flowers) = {}
    /\ InMelds(h) \cap (h.closed \cup h.flowers \cup ToSet(h.discards)) = {}
    /\ IsInjective(h.discards)
    /\ \A m, n \in h.melds : m # n => m.tiles \cap n.tiles = {}
WonTile == IF roundResult.type = "ron" THEN {activeDiscard} ELSE {}

(* Every variable has its type. *)
TypeOK ==
    /\ phase \in {"INIT", "PLAYER_TURN", "WAIT_DISCARDS", "ROUND_END", "MATCH_END"}
    /\ {activePlayer, dealer} \subseteq Seats /\ nextDealer \in Seats \cup {None}
    /\ handNum \in Nat \ {0}
    /\ wall.index \in 0 .. WallLen /\ wall.dead \in 0 .. WallLen
    /\ wall.count \in 0 .. WordSize - 1
    /\ \A s \in Seats : /\ hands[s].closed \cup hands[s].flowers \subseteq 0 .. WallLen - 1
                        /\ hands[s].size \in Nat /\ hands[s].drawn \in -1 .. WallLen - 1
    /\ \A s \in Seats : Types(validActions[s]) \subseteq
           {"discard", "tsumo", "kan", "accept", "refuse", "ron", "pon", "chii"}
    /\ DOMAIN interruptQueue \subseteq Seats
    /\ activeDiscard \in -1 .. WallLen - 1
    /\ isHaitei \in BOOLEAN
    /\ score \in [Seats -> Int]
    /\ playerReady \subseteq Seats

(* As long as WallCount is exact (the haitei tile has not been drawn        *)
(* twice), the tiles handed out by the wall are exactly those in hands,     *)
(* melds, flowers and discard piles or won by ron, and each is in one       *)
(* place only: no claim, kong or reveal loses or duplicates a tile.         *)
EachTileOnce ==
    phase # "INIT" /\ wall.count = WallLen - 1 - Cardinality(Dispensed)
        => /\ WonTile \cup UNION { Held(s) : s \in Seats } = Dispensed
           /\ \A s \in Seats : /\ Apart(hands[s]) /\ WonTile \cap Held(s) = {}
                               /\ \A t \in Seats \ {s} : Held(s) \cap Held(t) = {}

(* A meld counts as three tiles: everybody holds a full hand, and only the  *)
(* seat whose turn it is holds one tile more, unless it has yet to decide   *)
(* about the haitei tile.                                                   *)
HandsFull ==
    InPlay => \A s \in Seats :
        Cardinality(hands[s].closed) + 3 * Cardinality(hands[s].melds)
            = IF s = activePlayer /\ phase = "PLAYER_TURN" /\ ~HaiteiOffered
              THEN HandTiles + 1 ELSE HandTiles

(* In a state of the right types no tile is lost or duplicated, neither on    *)
(* the table nor in a hand: a claimed kan that goes without its back draw    *)
(* leaves a hand one tile short.                                             *)
TilesConserved == TypeOK /\ EachTileOnce /\ HandsFull

(* Points are only ever moved between the seats. *)
ScoreSum == score[0] + score[1] + score[2] + score[3]
ZeroSum == ScoreSum = IF Capped THEN 4 * StartingScore ELSE 0

(* A window that is open waits for somebody: a seat other than the          *)
(* discarder that was offered a claim and has not responded.  And the seat  *)
(* whose turn it is can always do something.                                *)
SomebodyToAct ==
    /\ phase = "WAIT_DISCARDS" => Expected \ (DOMAIN interruptQueue \cup {activePlayer}) # {}
    /\ phase = "PLAYER_TURN" => validActions[activePlayer] # {}

(* ResolveInterrupts removes the meld's tiles without checking that they    *)
(* are there: in an open window each queued claim, and each offer, is of    *)
(* tiles still in that seat's hand and fits the discard, and the discard is *)
(* still on top of its pile.                                                *)
ClaimsExecutable ==
    phase = "WAIT_DISCARDS" =>
        /\ \A s \in Seats \ {activePlayer} : \A o \in validActions[s] : o.tiles \subseteq hands[s].closed
        /\ \A s \in DOMAIN interruptQueue : interruptQueue[s].tiles \subseteq hands[s].closed
        /\ \A s \in Seats \ {activePlayer} : \A o \in validActions[s] :
              o.type \in {"pon", "kan"} => \A t \in o.tiles : SameFace(wall, t, activeDiscard)
        /\ Last(hands[activePlayer].discards) = activeDiscard


(* After a chii or a pon, which give no tile to win or to kong with, the    *)
(* claimer can only discard (the kan-after-pon bug the code comments on).   *)
StealThenDiscard ==
    [][ phase = "PLAYER_TURN" /\ hands[activePlayer].drawn = None /\ ~HaiteiOffered
            => hands'[activePlayer].discards # hands[activePlayer].discards ]_vars

Closing == phase = "WAIT_DISCARDS" /\ phase' # "WAIT_DISCARDS"

(* A queued ron wins whatever the last response is and whether the window   *)
(* fills up or its timer fires: the hand is evaluated once more when the    *)
(* window resolves, and of several rons the lowest seat's is paid.          *)
RonWins ==
    [][ Closing => \A s \in DOMAIN interruptQueue : interruptQueue[s].type = "ron"
            => roundResult'.type = "ron" /\ roundResult'.winner <= s ]_vars

(* A capped match ends with the hand that busts a seat or reaches the cap,  *)
(* neither earlier nor later; any other hand is followed by READY.          *)
MatchEndsOnTime ==
    LET busted == \E s \in Seats : score[s] <= BustThreshold
    IN  Capped => /\ phase = "MATCH_END" => busted \/ handNum = MaxHands
                  /\ InPlay => ~busted /\ (MaxHands > 0 => handNum <= MaxHands)
                  /\ phase = "ROUND_END" => ~busted /\ (MaxHands > 0 => handNum < MaxHands)

(* The next hand is dealt by the seat that is entitled to it: in chongci    *)
(* the winner of the last hand, the last dealer after a draw; scores stay.  *)
DealSucceeds ==
    [][ handNum' # handNum =>
          /\ Chongci => dealer' = IF roundResult.type = "draw" THEN dealer ELSE roundResult.winner
          /\ score' = score /\ activePlayer' = dealer' ]_vars

(* Hands follow one another as the mode of the match says.                  *)
MatchProceeds == []MatchEndsOnTime /\ DealSucceeds

-----------------------------------------------------------------------------
(* What the repository says and the engine does not do. *)

(* "no more tiles to draw after haitei" (handleDiscard). *)
NothingAfterHaitei == HaiteiOffered => wall.haitei = None

(* "endRoundInDraw ends the current round as an exhaustive draw": a hand is  *)
(* drawn only when no tile is left to draw from where it is drawn from.     *)
DrawOnlyWhenExhausted ==
    roundResult.type = "draw"
        => wall.index = WangpaiBoundary(WallLen, wall.dice) \/ BackEmpty(wall, 0)

(* proto/game.proto, hand_size: "The number of tiles in the hand (always    *)
(* public)."                                                                *)
HandSizeExact == \A s \in Seats : hands[s].size = Cardinality(hands[s].closed)

(* proto/game.proto, valid_actions: "Actions the player is currently        *)
(* allowed to take"; on another seat's turn there are none.                 *)
NoStaleOffers ==
    phase = "PLAYER_TURN" => \A s \in Seats \ {activePlayer} : validActions[s] = {}

(* docs/architecture.md: "Each other seat with a legal call responds or     *)
(* passes.  The window resolves once every eligible seat has responded or   *)
(* the room's timer fires": a response closes the window only when no other *)
(* eligible seat is missing.                                                *)
AllOfferedAsked ==
    [][ \A s \in Seats : \A o \in validActions[s] \cup {Pass} :
            Closing /\ HandleInterrupt(s, o) => Expected \ DOMAIN interruptQueue \subseteq {s} ]_vars

(* concludeRound: "clear every seat's valid actions".                       *)
OffersClearedAtEnd == phase \in {"ROUND_END", "MATCH_END"} => validActions = NoOffers

-----------------------------------------------------------------------------
(* The draws, seen from the wall alone, are those of module Wall. *)
W == INSTANCE Wall WITH
        Dealt <- 4 * HandTiles,
        dice <- IF phase = "INIT" THEN CHOOSE d \in DiceSums : TRUE ELSE wall.dice,
        wallIndex <- wall.index,
        deadWallIndex <- wall.dead,
        haiteiDrawIndex <- wall.haitei,
        wallCount <- wall.count,
        dispensed <- Dispensed,
        stage <- IF ~InPlay THEN "over" ELSE IF HaiteiOffered THEN "offered" ELSE "turn"

(* Every call draws from the wall as module Wall allows, or not at all.     *)
WallSpec == W!Spec

-----------------------------------------------------------------------------
(* Who may act, seen without the tiles, is as module Turns says. *)
T == INSTANCE Turns WITH
        activePlayer <- IF InPlay THEN activePlayer ELSE 0,
        offered <- IF phase = "WAIT_DISCARDS" THEN Expected ELSE {},
        responded <- IF phase = "WAIT_DISCARDS" THEN DOMAIN interruptQueue ELSE {},
        ready <- playerReady

(* The room drives the engine by its phase, active player, offers,          *)
(* responses and READYs alone, and every call moves them as module Turns    *)
(* lets it: no window closes before as many seats have responded as were    *)
(* offered something (or the timer fires), only a seat that responded gets  *)
(* the turn by a claim, and a hand starts on the fourth READY.              *)
TurnsSpec == T!TurnsSpec
=============================================================================
