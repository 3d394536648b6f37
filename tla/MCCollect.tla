----------------------------- MODULE MCCollect -----------------------------
(* Four matches per iteration, each one of four scripts, one of them         *)
(* truncated; and worlds in which the simulator fails on one match or every  *)
(* match ends at its reset.                                                 *)
EXTENDS Collect

Scripts == {<<>>, <<0>>, <<0, 1, 0>>, <<2, 0, 1, 3, 2>>}
Draws == [m \in 0 .. 3 |-> [s \in 1 .. 3 |-> m + s]]
World(plays, broken) ==
    [plays |-> plays, draws |-> Draws, ends |-> {1, 3}, cut |-> {1}, broken |-> broken]
MCWorlds ==
    {World(plays, {}) : plays \in {f \in [0 .. 3 -> Scripts] : Range(f) = Scripts}}
      \cup {World(plays, {}) : plays \in [0 .. 3 -> {<<>>, <<1, 1>>}]}
      \cup {World([k \in 0 .. 3 |-> <<0, 1, 2, 3>>], {m}) : m \in 0 .. 3}
      \cup {[plays |-> [k \in 0 .. 3 |-> <<3, 2, 1, 0, 1>>], draws |-> Draws, ends |-> {2}, cut |-> {}, broken |-> {}]}

Setup(kind, n, chunk, slots, groups, bonus) ==
    [kind |-> kind, workers |-> n, chunk |-> chunk, slots |-> slots,
     groups |-> groups, bonus |-> bonus, iterations |-> 2,
     poolMax |-> 1, interval |-> 1, shaped |-> FALSE]
Ppo(n, poolMax, interval, shaped) ==
    [Setup("ppo", n, 0, 1, 1, FALSE) EXCEPT
        !.iterations = 4, !.poolMax = poolMax, !.interval = interval, !.shaped = shaped]
MCSetups ==
    {Setup("process", 1, 0, 1, 1, bonus) : bonus \in BOOLEAN}
      \cup {Setup("b2b", 2, chunk, 1, 1, bonus) : chunk \in {0, 3}, bonus \in BOOLEAN}
      \cup {Setup(kind, n, 0, 1, 1, FALSE) : kind \in {"symmetric", "oracle"}, n \in {1, 3}}
      \cup {Setup("batched", 1, 0, slots, groups, bonus) :
               slots \in {2, 3, 5}, groups \in {1, 2, 3}, bonus \in BOOLEAN}
      \cup {Setup("selfplay", 1, 0, slots, 1, FALSE) : slots \in {1, 3, 5}}
      \cup {Ppo(n, size[1], size[2], shaped) :
               n \in 1 .. 2, size \in {<<1, 1>>, <<2, 1>>, <<3, 1>>, <<2, 2>>}, shaped \in BOOLEAN}
      \cup {Setup("eval", seat, 0, 3, 1, FALSE) : seat \in 1 .. 2}
=============================================================================
