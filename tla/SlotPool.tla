------------------------------ MODULE SlotPool ------------------------------
(***************************************************************************)
(* An env pool (envpool.py): many matches stepped in lock step, one call    *)
(* per round.  A call carries at most one command per slot; a slot never    *)
(* resets itself, since its owner keeps the schedule of seeds.  The pool is *)
(* a function from slots to the match there and the decisions taken in it.  *)
(***************************************************************************)
EXTENDS Matches

None == [none |-> TRUE]

Reset(m) == [reset |-> m]
Act == [act |-> TRUE]
IsReset(c) == "reset" \in DOMAIN c

EmptyPool(slots) == [s \in slots |-> None]

(* InProcessEnvPool.step, GoEnvPool.step: the pool once the commands have   *)
(* been executed ...                                                        *)
PoolAfter(pool, cmds) ==
    [s \in DOMAIN pool |->
        IF s \notin DOMAIN cmds THEN pool[s]
        ELSE IF IsReset(cmds[s]) THEN [match |-> cmds[s].reset, taken |-> 0]
        ELSE [pool[s] EXCEPT !.taken = @ + 1]]

(* ... and what it reports of a slot that was stepped: the step, whether    *)
(* the match has ended, or else the seat that is to decide, or an error.    *)
SlotMeta(w, pool, s) ==
    LET m == pool[s].match
        play == w.plays[m]
        ended == pool[s].taken = Len(play)
    IN [step |-> pool[s].taken, ended |-> ended, error |-> m \in w.broken,
        seat |-> IF ended THEN 0 ELSE play[pool[s].taken + 1]]

StepResult(w, pool, cmds) ==
    [s \in DOMAIN cmds |-> SlotMeta(w, PoolAfter(pool, cmds), s)]

(* Commands for some slots: the action that was decided, or the next match  *)
(* for a slot that has none; slots are served in their order.               *)
FreeOf(slots, active) == {s \in slots : active[s] = None}
NextMatchFor(s, slots, active, next) ==
    next + Cardinality({t \in FreeOf(slots, active) : t < s})
Starting(slots, active, next, total) ==
    {s \in FreeOf(slots, active) : NextMatchFor(s, slots, active, next) < total}

CommandsFor(slots, active, pending, next, total) ==
    [s \in (slots \cap pending) \cup Starting(slots, active, next, total) |->
        IF s \in pending THEN Act ELSE Reset(NextMatchFor(s, slots, active, next))]
=============================================================================
