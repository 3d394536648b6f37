------------------------------ MODULE Collect ------------------------------
(***************************************************************************)
(* How a trainer gets the rollouts of an iteration, and the evaluator its   *)
(* matches: in its own process, from a pool of worker processes, or from an *)
(* env pool whose slots play in lock step, with the pool's next step and    *)
(* the network's forward overlapping when the slots are split into groups.  *)
(* Whatever the way, the batch must be the one the first way yields.        *)
(***************************************************************************)
EXTENDS SlotPool

CONSTANTS Setups,    \* ways to collect: see IsSetup
          MaxDeaths  \* bound: worker processes that are killed

(* kind: "process" (collect_b2b_rollouts), "b2b" (ParallelB2bCollector),     *)
(* "batched" (collect_b2b_rollouts_batched), "selfplay"                     *)
(* (collect_selfplay_rollouts_batched), "eval" (batched_eval._play), and in  *)
(* the trainer's process or, with more than one worker, in theirs:          *)
(* "symmetric" (train_selfplay_oracle with collect_selfplay_rollouts),      *)
(* "oracle" (train_oracle with collect_oracle_rollouts), "ppo" (train_ppo   *)
(* with collect_rollouts, against a pool of opponents, with rewards shaped   *)
(* or not).                                                                 *)
IsSetup(c) ==
    /\ c.kind \in {"process", "b2b", "symmetric", "oracle", "ppo", "batched", "selfplay", "eval"}
    /\ c.iterations \in Nat \ {0}
    /\ c.poolMax \in Nat \ {0} /\ c.interval \in Nat \ {0} /\ c.shaped \in BOOLEAN
    /\ c.workers \in Nat \ {0} /\ c.chunk \in Nat
    /\ c.slots \in Nat \ {0} /\ c.groups \in Nat \ {0}
    /\ c.bonus \in BOOLEAN

ASSUME CollectAssumption ==
    /\ \A c \in Setups : IsSetup(c)
    /\ MaxDeaths \in Nat

VARIABLES
    world, setup,  \* what is simulated and how: fixed at the start
    out,           \* the batches of the iterations that are done
    failed,        \* the reason the run ended with an exception, or "no"
    workers,       \* worker process -> Waiting, the task it has, Dead or Gone
    tasks,         \* task_q
    results,       \* result_q
    parent,        \* the locals of ParallelB2bCollector.collect
    b              \* the locals of the collectors over an env pool

vars == <<world, setup, out, failed, workers, tasks, results, parent, b>>
queues == <<workers, tasks, results>>

Total == Cardinality(DOMAIN world.plays)  \* matches_per_iter

Fail(reason) == failed' = reason

Running == failed = "no" /\ Len(out) < setup.iterations
Iteration == Len(out) + 1

(* Fault: the oldest entry is the anchor. *)
GrownWithoutAnchor(pool, i) ==
    LET more == IF setup.poolMax > 1 /\ i % setup.interval = 0 THEN Append(pool, i) ELSE pool
    IN IF Len(more) > setup.poolMax THEN Tail(more) ELSE more

(* train_ppo's pool_states at the start of an iteration: the anchor, and the *)
(* learner as it was at every so many iterations, the oldest one evicted.   *)
Anchor == 0
Grown(pool, i) ==
    LET more == IF setup.poolMax > 1 /\ i % setup.interval = 0 THEN Append(pool, i) ELSE pool
    IN IF Len(more) > setup.poolMax THEN RemoveAt(more, 2) ELSE more

Opponents == FoldLeft(Grown, <<Anchor>>, [i \in 1 .. Iteration |-> i])

-----------------------------------------------------------------------------
(* The pool of worker processes. *)

Procs == 0 .. setup.workers - 1

Waiting == [is |-> "idle"]
Dead == [is |-> "dead"]
Gone == [is |-> "gone"]

(* Fault: the remainder on the last workers, though offsets follow the ids. *)
SplitCountsFloor(total, n) == [i \in 0 .. n - 1 |-> total \div n]

(* _split_counts: an even split, the remainder on the first workers. *)
SplitCounts(total, n) ==
    [i \in 0 .. n - 1 |-> total \div n + (IF i < total % n THEN 1 ELSE 0)]

OffsetOf(counts, i) == FoldLeft(+, 0, [k \in 1 .. i |-> counts[k - 1]])

EitherWay == {"symmetric", "oracle", "ppo"}
InWorkers == setup.kind = "b2b" \/ (setup.kind \in EitherWay /\ setup.workers > 1)

(* One task per worker id that has matches: a contiguous block of seeds,    *)
(* with the weights it is to play with.                                     *)
TasksFor(first, count) ==
    LET counts == SplitCounts(count, setup.workers)
        All == [k \in 1 .. setup.workers |->
            [id |-> k - 1, first |-> first + OffsetOf(counts, k - 1), count |-> counts[k - 1],
             pool |-> Opponents]]
    IN SelectSeq(All, LAMBDA t : t.count > 0)

NoCall == [at |-> "ready", first |-> 0, count |-> 0, got |-> <<>>, chunks |-> Nothing]

(* Matches of the dispatch that begins with match `first`. *)
ChunkFrom(first) ==
    IF setup.kind # "b2b" \/ setup.chunk = 0 THEN Total - first
    ELSE Min({setup.chunk, Total - first})

Dispatch(first, chunks) ==
    /\ tasks' = tasks \o TasksFor(first, ChunkFrom(first))
    /\ parent' = [at |-> "wait", first |-> first, count |-> ChunkFrom(first),
                  got |-> <<>>, chunks |-> chunks]

(* collect: the B2b collector starts its workers again when it has none. *)
StartCollect ==
    /\ Running /\ InWorkers /\ parent.at = "ready"
    /\ IF \E p \in Procs : workers[p] # Gone
       THEN /\ Dispatch(0, Nothing)
            /\ UNCHANGED <<workers, results>>
       ELSE /\ workers' = [p \in Procs |-> Waiting] /\ results' = <<>>
            /\ tasks' = TasksFor(0, ChunkFrom(0))
            /\ parent' = [NoCall EXCEPT !.at = "wait", !.count = ChunkFrom(0)]
    /\ UNCHANGED <<world, setup, out, failed, b>>

(* _worker_loop: any worker may take any task. *)
TakeTask(p) ==
    /\ workers[p] = Waiting /\ tasks # <<>>
    /\ workers' = [workers EXCEPT ![p] = Head(tasks)]
    /\ tasks' = Tail(tasks)
    /\ UNCHANGED <<world, setup, out, failed, results, parent, b>>

(* collect_selfplay_rollouts: rows without hands, no telemetry.              *)
Plain(batch) == [rows |-> [i \in DOMAIN batch.rows |-> [batch.rows[i] EXCEPT !.hand = 0]],
                 telemetry |-> <<>>]

(* collect_oracle_rollouts: one learner, its opponents the env's heuristic.  *)
Alone(batch) == [rows |-> [i \in DOMAIN batch.rows |-> [batch.rows[i] EXCEPT !.against = <<>>]],
                 telemetry |-> <<>>]

(* What a process yields for a block of matches, and when it raises.        *)
RaisesOn(block) ==
    IF setup.kind \in {"ppo", "oracle"} THEN LearnerRaises(world, block)
    ELSE Raises(world, block, setup.bonus)

BatchOf(first, count, pool) ==
    CASE setup.kind = "ppo" -> CollectLearner(world, first, count, pool, setup.shaped)
      [] setup.kind = "oracle" -> Alone(CollectLearner(world, first, count, pool, FALSE))
      [] setup.kind = "symmetric" -> Plain(CollectRollouts(world, first, count))
      [] OTHER -> CollectRollouts(world, first, count)

Busy(p) == workers[p] \notin {Waiting, Dead, Gone}

PutResult(p) ==
    /\ Busy(p)
    /\ LET t == workers[p] IN
       results' = Append(results,
           IF RaisesOn(t.first .. t.first + t.count - 1)
           THEN [id |-> t.id, err |-> TRUE, batch |-> Nothing]
           ELSE [id |-> t.id, err |-> FALSE,
                 batch |-> BatchOf(t.first, t.count, t.pool)])
    /\ workers' = [workers EXCEPT ![p] = Waiting]
    /\ UNCHANGED <<world, setup, out, failed, tasks, parent, b>>

(* A worker is killed; a task it had is lost with it. *)
Die(p) ==
    /\ Running /\ (workers[p] = Waiting \/ Busy(p))
    /\ Cardinality({q \in Procs : workers[q] = Dead}) < MaxDeaths
    /\ workers' = [workers EXCEPT ![p] = Dead]
    /\ UNCHANGED <<world, setup, out, failed, tasks, results, parent, b>>

(* close: the workers are told to end and, after 10 s, made to. *)
ClosePool == workers' = [p \in Procs |-> Gone] /\ tasks' = <<>> /\ results' = <<>>

Receive ==
    /\ parent.at = "wait" /\ results # <<>>
    /\ LET r == Head(results) IN
       IF r.err
       THEN ClosePool /\ Fail("worker") /\ parent' = [parent EXCEPT !.at = "raised"]
       ELSE /\ parent' = [parent EXCEPT !.got = (r.id :> r.batch) @@ @]
            /\ results' = Tail(results)
            /\ UNCHANGED <<workers, tasks, failed>>
    /\ UNCHANGED <<world, setup, out, b>>

(* Nothing came for 30 seconds and a worker has exited. *)
NoticeDeath ==
    /\ parent.at = "wait" /\ results = <<>>
    /\ Cardinality(DOMAIN parent.got) < Len(TasksFor(parent.first, parent.count))
    /\ \E p \in Procs : workers[p] = Dead
    /\ ClosePool /\ Fail("death")
    /\ parent' = [parent EXCEPT !.at = "raised"]
    /\ UNCHANGED <<world, setup, out, b>>

(* Fault: in the order they came in. *)
InArrivalOrder(got) ==
    JoinAll([k \in 1 .. Cardinality(DOMAIN got) |->
        got[CHOOSE i \in DOMAIN got : Cardinality({j \in DOMAIN got : j > i}) = k - 1]])

(* concat_rollout_batches over the results in the order of the worker ids. *)
InIdOrder(got) ==
    JoinAll([k \in 1 .. Cardinality(DOMAIN got) |->
        got[CHOOSE i \in DOMAIN got : Cardinality({j \in DOMAIN got : j < i}) = k - 1]])

(* The end of _collect_dispatch: after the last one the B2b collector       *)
(* closes its workers before it joins the chunks.                           *)
Gathered ==
    /\ parent.at = "wait"
    /\ Cardinality(DOMAIN parent.got) = Len(TasksFor(parent.first, parent.count))
    /\ LET chunks == Join(parent.chunks, InIdOrder(parent.got))
           next == parent.first + parent.count
       IN IF next < Total
          THEN Dispatch(next, chunks) /\ UNCHANGED <<out, workers, results>>
          ELSE /\ out' = Append(out, chunks)
               /\ parent' = NoCall
               /\ IF setup.kind = "b2b" THEN ClosePool ELSE UNCHANGED queues
    /\ UNCHANGED <<world, setup, failed, b>>

-----------------------------------------------------------------------------
(* In the trainer's process. *)

ProcessCollect ==
    /\ Running /\ setup.kind \in {"process"} \cup EitherWay /\ ~InWorkers
    /\ IF RaisesOn(DOMAIN world.plays)
       THEN Fail("raised") /\ UNCHANGED out
       ELSE out' = Append(out, BatchOf(0, Total, Opponents)) /\ UNCHANGED failed
    /\ UNCHANGED <<world, setup, queues, parent, b>>

-----------------------------------------------------------------------------
(* The env pool and its slots.  make_b2b_pool is given no more slots than    *)
(* there are matches; groups take the slots in turn.                        *)

SlotCount == IF setup.kind = "selfplay" THEN setup.slots ELSE Min({setup.slots, Total})
PoolSlots == 0 .. SlotCount - 1
Groups == Min({setup.groups, SlotCount})
GroupSlots(g) == {s \in PoolSlots : s % Groups = g}

(* The locals: `pool` is the pool's own state; `active` the match of each    *)
(* slot; `pending` the slots whose action is decided; `completed` the        *)
(* matches that wait for an earlier one to be emitted; `inFlight` the live   *)
(* slots of each group whose forward runs; `future` the step the stepping    *)
(* thread was given; `stepped` the one that was taken from it.              *)
NewCall ==
    [at |-> "round", pool |-> EmptyPool(PoolSlots), active |-> [s \in PoolSlots |-> None],
     pending |-> {}, completed |-> <<>>, nextMatch |-> 0, emitNext |-> 0, sink |-> Nothing,
     inFlight |-> [g \in 0 .. Groups - 1 |-> None], future |-> None, stepped |-> None,
     group |-> 0, idle |-> 0, error |-> "no"]

Unemitted(c) == c.emitNext < Total

CommandsOf(c, g) == CommandsFor(GroupSlots(g), c.active, c.pending, c.nextMatch, Total)

(* commands_for: decided actions are handed out, free slots get matches. *)
Commanded(c, cmds) ==
    LET starts == {s \in DOMAIN cmds : IsReset(cmds[s])} IN
    [c EXCEPT !.pending = @ \ DOMAIN cmds,
              !.nextMatch = @ + Cardinality(starts),
              !.active = [s \in PoolSlots |->
                  IF s \in starts THEN [match |-> cmds[s].reset, ms |-> NewMatch] ELSE @[s]]]

Submit(c, g) ==
    LET cmds == CommandsOf(c, g) IN
    [Commanded(c, cmds) EXCEPT
        !.future = IF cmds = <<>> THEN None ELSE [cmds |-> cmds, done |-> FALSE]]

Idle(ms) == \A k \in Seats : ms.rows[k] = <<>>

(* Fault: matches are emitted as they complete. *)
FlushAsCompleted(c) ==
    LET ms == SetToSortSeq(DOMAIN c.completed, LAMBDA x, y : x < y) IN
    [c EXCEPT !.sink = Join(@, JoinAll([i \in 1 .. Len(ms) |-> c.completed[ms[i]]])),
              !.completed = <<>>, !.emitNext = @ + Len(ms)]

(* flush_in_seed_order *)
FlushInSeedOrder(c) ==
    LET stop == Min({m \in c.emitNext .. Total : m \notin DOMAIN c.completed}) IN
    [c EXCEPT !.sink = Join(@, JoinAll([i \in 1 .. stop - c.emitNext |->
                                            c.completed[c.emitNext + i - 1]])),
              !.completed = [m \in DOMAIN @ \ (c.emitNext .. stop - 1) |-> @[m]],
              !.emitNext = stop]

(* observe: settle the bookkeeping of every slot that was stepped; `live`    *)
(* are those with a decision to take.                                       *)
Observe(c, metas) ==
    LET Slot(s) == c.active[s]
        mine == {s \in DOMAIN metas : Slot(s) # None}
        over == {s \in mine : metas[s].ended}
        Paid(s) == RecordOutcome(CreditStepRewards(Slot(s).ms, metas[s].step),
                                 world, metas[s].step)
        Result(s) == IF Idle(Slot(s).ms) THEN Nothing
                     ELSE Finalize(Paid(s), world, Slot(s).match)
        bad == {s \in mine : metas[s].error}
                 \cup {s \in over : setup.bonus /\ Unplaceable(world, Slot(s).match)}
        settled == [c EXCEPT
            !.active = [s \in PoolSlots |-> IF s \in over THEN None
                           ELSE IF s \in mine THEN [@[s] EXCEPT !.ms = Paid(s)] ELSE @[s]],
            !.completed = [m \in {Slot(s).match : s \in over} |->
                              Result(CHOOSE s \in over : Slot(s).match = m)] @@ @]
    IN IF bad # {} THEN [c EXCEPT !.error = "simulator"] ELSE FlushInSeedOrder(settled)

LiveSlots(c, metas) == {s \in DOMAIN metas : c.active[s] # None}

(* finish_round: the decisions of a round's live rows.  The match has taken  *)
(* `taken` decisions before, and the row says which seat decides now.       *)
FinishRound(c, live, seatOf, takenOf) ==
    [c EXCEPT !.pending = @ \cup live,
              !.active = [s \in PoolSlots |->
                  IF s \in live
                  THEN [@[s] EXCEPT !.ms = RecordDecision(@, c.active[s].match, seatOf[s],
                                                          takenOf[s] + 1)]
                  ELSE @[s]]]

LaunchForward(c, g, metas) ==
    LET live == LiveSlots(c, metas) IN
    [c EXCEPT !.inFlight[g] = IF live = {} THEN None
        ELSE [slots |-> live, seat |-> [s \in live |-> metas[s].seat],
              taken |-> [s \in live |-> metas[s].step]]]

ReadBack(c, g) ==
    LET f == c.inFlight[g] IN
    IF f = None THEN c
    ELSE [FinishRound(c, f.slots, f.seat, f.taken) EXCEPT !.inFlight[g] = None]

(* The end of a collection, and of an iteration. *)
Ended(c) ==
    IF c.sink.rows = <<>> THEN [c EXCEPT !.error = "no decisions"] ELSE [c EXCEPT !.at = "done"]

Proceed(c) ==
    /\ b' = IF c.at = "done" THEN NewCall ELSE c
    /\ out' = IF c.at = "done" THEN Append(out, c.sink) ELSE out
    /\ failed' = c.error
    /\ UNCHANGED <<world, setup, queues, parent>>

(* One group: commands, step, observe, forward, decide. *)
SerialRound ==
    /\ Running /\ setup.kind = "batched" /\ Groups = 1
    /\ LET cmds == CommandsOf(b, 0)
           sent == [Commanded(b, cmds) EXCEPT !.pool = PoolAfter(@, cmds)]
           metas == StepResult(world, b.pool, cmds)
           seen == Observe(sent, metas)
       IN Proceed(IF ~Unemitted(b) THEN Ended(b)
                  ELSE IF cmds = <<>> THEN [b EXCEPT !.error = "wedged"]
                  ELSE IF seen.error # "no" THEN seen
                  ELSE ReadBack(LaunchForward(seen, 0, metas), 0))

(* Several groups, in _collect_pipelined: the stepping thread ...           *)
PoolStep ==
    /\ Running /\ setup.kind = "batched" /\ b.future # None /\ ~b.future.done
    /\ b' = [b EXCEPT !.future = [@ EXCEPT !.done = TRUE]
                                   @@ [metas |-> StepResult(world, b.pool, b.future.cmds)],
                      !.pool = PoolAfter(@, b.future.cmds)]
    /\ UNCHANGED <<world, setup, out, failed, queues, parent>>

NextGroup(c) == (c.group + 1) % Groups

(* ... and the turn of a group, up to the early submission of the next      *)
(* group's step: at once when that group's forward is not in flight.        *)
PipelineOver(c) == ~Unemitted(c) /\ c.future = None /\ \A g \in DOMAIN c.inFlight : c.inFlight[g] = None

TakeStep ==
    /\ Running /\ setup.kind = "batched" /\ Groups > 1 /\ b.at \in {"round", "turn"}
    /\ IF b.at = "round" THEN Proceed([Submit(b, 0) EXCEPT !.at = "turn"])
       ELSE IF PipelineOver(b) THEN Proceed(Ended(b))
       ELSE /\ b.future # None => b.future.done
            /\ LET taken == [b EXCEPT !.stepped = b.future, !.future = None, !.at = "settle"]
               IN Proceed(IF b.inFlight[NextGroup(b)] = None
                          THEN Submit(taken, NextGroup(b)) ELSE taken)

(* The rest of the turn: settle the step, read the previous group's forward  *)
(* back, submit the next group's step if that had to wait, and launch this   *)
(* group's forward.                                                         *)
Settle ==
    /\ Running /\ setup.kind = "batched" /\ b.at = "settle"
    /\ LET c == b
           g == c.group
           early == c.inFlight[NextGroup(c)] = None
           previous == (g + Groups - 1) % Groups
           seen == IF c.stepped = None THEN c ELSE Observe(c, c.stepped.metas)
           read == ReadBack(seen, previous)
           sent == IF early THEN read ELSE Submit(read, NextGroup(c))
           launched == IF c.stepped = None THEN sent
                       ELSE LaunchForward(sent, g, c.stepped.metas)
           idle == IF c.stepped = None THEN c.idle + 1 ELSE 0
       IN Proceed(IF seen.error # "no" THEN seen
                  ELSE IF idle > Groups /\ Unemitted(launched)
                  THEN [launched EXCEPT !.error = "wedged"]
                  ELSE [launched EXCEPT !.idle = idle, !.group = NextGroup(c),
                                        !.stepped = None, !.at = "turn"])

-----------------------------------------------------------------------------
(* collect_selfplay_rollouts_batched: the rows of collect_selfplay_rollouts, *)
(* and a match that ends at its reset completes with no rows.               *)

ObserveSelfplay(c, metas) ==
    LET Slot(s) == c.active[s]
        over == {s \in DOMAIN metas : metas[s].ended}
        Paid(s) == CreditStepRewards(Slot(s).ms, metas[s].step)
        OfMatch(m) == CHOOSE s \in over : Slot(s).match = m
    IN IF \E s \in DOMAIN metas : metas[s].error THEN [c EXCEPT !.error = "simulator"]
       ELSE FlushInSeedOrder([c EXCEPT
            !.active = [s \in PoolSlots |-> IF s \in over THEN None
                           ELSE IF s \in DOMAIN metas THEN [@[s] EXCEPT !.ms = Paid(s)] ELSE @[s]],
            !.completed = [m \in {Slot(s).match : s \in over} |->
                Plain(Finalize(Paid(OfMatch(m)), world, m))] @@ @])

SelfplayRound ==
    /\ Running /\ setup.kind = "selfplay"
    /\ LET cmds == CommandsFor(PoolSlots, b.active, b.pending, b.nextMatch, Total)
           sent == [Commanded(b, cmds) EXCEPT !.pool = PoolAfter(@, cmds)]
           metas == StepResult(world, b.pool, cmds)
           seen == ObserveSelfplay(sent, metas)
           live == LiveSlots(seen, metas)
       IN Proceed(IF ~Unemitted(b) THEN Ended(b)
                  ELSE IF cmds = <<>> THEN [b EXCEPT !.error = "wedged"]
                  ELSE IF seen.error # "no" THEN seen
                  ELSE FinishRound(seen, live, [s \in live |-> metas[s].seat],
                                   [s \in live |-> metas[s].step]))

-----------------------------------------------------------------------------
(* batched_eval._play on the strong table: the learner has the seat          *)
(* setup.workers - 1 of every match; all seats' transitions are recorded,    *)
(* its actions apart.  `completed` maps a job to its result.                *)

LearnerSeat == setup.workers - 1

NewEpisode(m) == [match |-> m, fresh |-> TRUE, steps |-> <<>>, mine |-> <<>>]

EvalSlot(st, meta) ==
    IF st.fresh THEN [st EXCEPT !.fresh = FALSE]
    ELSE [st EXCEPT !.steps = Append(@, meta.step)]

Decided(st, meta) ==
    IF meta.seat = LearnerSeat THEN [st EXCEPT !.mine = Append(@, meta.step + 1)] ELSE st

EvalRound ==
    /\ Running /\ setup.kind = "eval"
    /\ LET cmds == CommandsFor(PoolSlots, b.active, b.pending, b.nextMatch, Total)
           metas == StepResult(world, b.pool, cmds)
           Had(s) == IF IsReset(cmds[s]) THEN NewEpisode(cmds[s].reset) ELSE b.active[s]
           over == {s \in DOMAIN metas : metas[s].ended}
           live == DOMAIN metas \ over
           started == Cardinality({s \in DOMAIN cmds : IsReset(cmds[s])})
           finished == [m \in {Had(s).match : s \in over} |->
               EvalSlot(Had(CHOOSE s \in over : Had(s).match = m),
                        metas[CHOOSE s \in over : Had(s).match = m])]
       IN IF Cardinality(DOMAIN b.completed) = Total
          THEN Proceed([b EXCEPT !.at = "done",
                   !.sink = [rows |-> [i \in 1 .. Total |-> b.completed[i - 1]],
                             telemetry |-> <<>>]])
          ELSE IF \E s \in DOMAIN metas : metas[s].error
          THEN Proceed([b EXCEPT !.error = "simulator"])
          ELSE Proceed([b EXCEPT
                   !.pool = PoolAfter(@, cmds), !.nextMatch = @ + started, !.pending = live,
                   !.completed = finished @@ @,
                   !.active = [s \in PoolSlots |-> IF s \in live
                                  THEN Decided(EvalSlot(Had(s), metas[s]), metas[s])
                                  ELSE IF s \in over THEN None ELSE @[s]]])

(* What the evaluator is to report of a match. *)
Episode(w, m) ==
    [match |-> m, fresh |-> FALSE, steps |-> [j \in 1 .. Len(w.plays[m]) |-> j],
     mine |-> SelectSeq([j \in 1 .. Len(w.plays[m]) |-> j],
                        LAMBDA j : w.plays[m][j] = LearnerSeat)]
-----------------------------------------------------------------------------
Init ==
    /\ world \in Worlds /\ setup \in Setups
    /\ out = <<>> /\ failed = "no"
    /\ workers = [p \in Procs |-> Gone]
    /\ tasks = <<>> /\ results = <<>> /\ parent = NoCall
    /\ b = NewCall

(* The only way to stop: TLC's search for deadlocks shows that a collection *)
(* ends, with a batch or an exception, even when a worker that had a task is *)
(* killed, and though slots wait for each other's turns.                    *)
Finished == ~Running /\ UNCHANGED vars

Next ==
    \/ ProcessCollect
    \/ StartCollect \/ Receive \/ NoticeDeath \/ Gathered
    \/ \E p \in Procs : TakeTask(p) \/ PutResult(p) \/ Die(p)
    \/ SerialRound \/ PoolStep \/ TakeStep \/ Settle
    \/ SelfplayRound \/ EvalRound
    \/ Finished

Spec == Init /\ [][Next]_vars

-----------------------------------------------------------------------------
(* Types, and the bookkeeping of the slots: a slot with a decided action has *)
(* a match, no match is in two slots, none is behind the next to be emitted. *)
TypeOK ==
    /\ failed \in {"no", "raised", "worker", "death", "simulator", "wedged", "no decisions"}
    /\ \A p \in Procs : Busy(p) => workers[p].first + workers[p].count <= Total
    /\ parent.at \in {"ready", "wait", "raised"} /\ parent.count \in 0 .. Total
    /\ b.at \in {"round", "turn", "settle"}
    /\ b.emitNext \in 0 .. b.nextMatch /\ b.nextMatch \in 0 .. Total
    /\ b.pending \subseteq {s \in PoolSlots : b.active[s] # None}
    /\ \A s, t \in PoolSlots : s # t /\ b.active[s] # None /\ b.active[t] # None
                                 => b.active[s].match # b.active[t].match

(* What the rest of the trainer relies on (module Rollouts): whichever way   *)
(* they are collected, however workers, groups and slots take turns, the     *)
(* batches are those of one process playing one match after the other, row   *)
(* for row, and a run fails only for a cause that lies in the simulation.    *)
(* The pool of an iteration: the anchor, and the latest snapshots it holds. *)
PoolOf(i) ==
    LET taken == IF setup.poolMax = 1 THEN {} ELSE {k \in 1 .. i : k % setup.interval = 0}
        kept == {k \in taken : Cardinality({n \in taken : n > k}) < setup.poolMax - 1}
    IN <<Anchor>> \o SetToSortSeq(kept, <)

ExpectedBatch ==
    CASE setup.kind = "ppo" -> ExpectedOfLearner(world, PoolOf(Iteration), setup.shaped)
      [] setup.kind = "eval" ->
             [rows |-> [i \in 1 .. Total |-> Episode(world, i - 1)], telemetry |-> <<>>]
      [] setup.kind = "oracle" -> Alone(ExpectedOfLearner(world, <<Anchor>>, FALSE))
      [] setup.kind \in {"selfplay", "symmetric"} -> Plain(Expected(world))
      [] OTHER -> Expected(world)

R == INSTANCE Rollouts WITH
        iterations <- setup.iterations,
        batch <- ExpectedBatch,
        simulated <- world.broken # {}
                     \/ (setup.bonus /\ \E m \in DOMAIN world.plays : Unplaceable(world, m)),
        blank <- LET idle == IF setup.kind \in {"ppo", "oracle"}
                             THEN {m \in DOMAIN world.plays : Unlearned(world, m)}
                             ELSE {m \in DOMAIN world.plays : world.plays[m] = <<>>}
                 IN IF InWorkers THEN idle # {} ELSE setup.kind # "eval" /\ idle = DOMAIN world.plays,
        killed <- \E p \in Procs : workers[p] = Dead

RolloutsSpec == R!Spec
=============================================================================
