------------------------------- MODULE Shards -------------------------------
(* Transition datasets on disk: NPZ shards and the manifest that names      *)
(* them (storage.py), and the two ways in which a trainer reads them, into   *)
(* memory and as a stream (buffer.py, streaming_buffer.py).                  *)
(*                                                                          *)
(* A row stands for a transition: its episode, whether it ends it ("done"),  *)
(* "left", the decisions that really remain to the end of its episode, and   *)
(* what it was made from.  A stored row adds "steps", what the shard says of *)
(* that distance.                                                            *)
EXTENDS Integers, Sequences, FiniteSets, SequencesExt, Functions

CONSTANTS ShardSize,    \* rows of a shard
          None

ASSUME ShardAssumption == ShardSize \in Nat \ {0}

(* A directory: the shard files in it and its manifest.                      *)
EmptyDir == [shards |-> <<>>, manifest |-> None]

(* The rows of an episode of n decisions; one that stops because nobody has  *)
(* a legal action ("open") has no row that ends it.                          *)
EpisodeRows(source, e, episode) ==
    [i \in 1..episode.decisions |->
        [source |-> source, episode |-> e, left |-> episode.decisions - i,
         done |-> episode.closed /\ i = episode.decisions]]

(* collect_mixed_selfplay_episodes: an episode that is over, or in which     *)
(* nobody has a legal action, at its reset is skipped; its number is not     *)
(* used again.                                                               *)
Collected(source, first, episodes) ==
    FlattenSeq([i \in DOMAIN episodes |-> EpisodeRows(source, first + i, episodes[i])])

(* compute_steps_to_done over the rows it is given: from the back, the       *)
(* distance within an episode is reset by a row that ends it and otherwise   *)
(* goes up by one.                                                           *)
StepsToDone(rows) ==
    [p \in DOMAIN rows |->
        LET rest == {q \in p..Len(rows) : rows[q].episode = rows[p].episode}
            ends == {q \in rest : rows[q].done}
        IN  Cardinality({q \in rest : \A e \in ends : q < e})]

WithSteps(rows, steps) == [p \in DOMAIN rows |-> [row |-> rows[p], steps |-> steps[p]]]

(* _transitions_to_arrays: a shard stores the distances within itself.       *)
Shard(rows) == WithSteps(rows, StepsToDone(rows))

(* write_many flushes a shard whenever ShardSize rows are there; close       *)
(* flushes what is left.                                                     *)
Full(rows) == Len(rows) >= ShardSize
Flushed(dir, rows) == [dir EXCEPT !.shards = Append(@, Shard(rows))]
ManifestOf(shards) ==
    [counts |-> [i \in DOMAIN shards |-> Len(shards[i])],
     transitions |-> FoldLeft(LAMBDA n, shard : n + Len(shard), 0, shards)]
Closed(dir) == [dir EXCEPT !.manifest = ManifestOf(dir.shards)]

-----------------------------------------------------------------------------
(* Reading into memory (_read_npz_transition_arrays): as many rows as the    *)
(* manifest counts, from the shards in its order.  It refuses a directory    *)
(* without a manifest and one whose manifest counts nothing.                 *)
ReadRows(dir) ==
    LET named == SubSeq(dir.shards, 1, Len(dir.manifest.counts))
    IN  SubSeq(FlattenSeq(named), 1, dir.manifest.transitions)
Loadable(dir) == dir.manifest # None /\ dir.manifest.transitions > 0

(* A fault: what the shards say is taken for the distance.                   *)
InMemoryStored(dir) == ReadRows(dir)

(* load_iql_replay_buffer asks the shards for IQL_ARRAY_KEYS, which do not   *)
(* name steps_to_done, and so computes the distances again, over the whole   *)
(* dataset.                                                                  *)
InMemory(dir) ==
    LET rows == [i \in DOMAIN ReadRows(dir) |-> ReadRows(dir)[i].row]
    IN  WithSteps(rows, StepsToDone(rows))

(* The stream's index (build_shard_index): the shards of all directories in  *)
(* the order of their manifests.  A directory without a manifest is refused, *)
(* and so is an index without a shard.                                       *)
ShardIndex(dirs) ==
    FlattenSeq([i \in DOMAIN dirs |-> SubSeq(dirs[i].shards, 1, Len(dirs[i].manifest.counts))])
Streamable(dirs) ==
    /\ \A dir \in Range(dirs) : dir.manifest # None
    /\ ShardIndex(dirs) # <<>>

(* The rows a load is told of (len of the buffer); their order is left out.  *)
LoadedInMemory(dirs) == FlattenSeq([i \in DOMAIN dirs |-> InMemory(dirs[i])])
LoadedAsStream(dirs) == FlattenSeq(ShardIndex(dirs))

(* _shards_for_worker deals the shards of the index out to the loader's      *)
(* workers.                                                                  *)
RowsOfWorker(index, w, workers) ==
    FlattenSeq([i \in DOMAIN index |-> IF (i - 1) % workers = w THEN index[i] ELSE <<>>])
BatchesOf(index, w, workers, batch) == Len(RowsOfWorker(index, w, workers)) \div batch

(* What a worker yields in a pass: it shuffles its rows, and those that end  *)
(* up in a last, incomplete batch are dropped (drop_last).  Any rows may be  *)
(* the ones left out; the others are kept in the shards' order.              *)
YieldsOf(rows, batch) ==
    {LET kept == SelectSeq([i \in DOMAIN rows |-> i], LAMBDA i : i \notin out)
     IN  [n \in DOMAIN kept |-> rows[kept[n]]] : out \in kSubset(Len(rows) % batch, DOMAIN rows)}

(* A pass of the loader: the workers' batches in turn, past a worker that    *)
(* has no more.                                                              *)
PassOf(yields, batch) ==
    LET most == Max({Len(yields[w]) : w \in DOMAIN yields}) \div batch
        round(j) == LET more == SelectSeq([w \in DOMAIN yields |-> w], LAMBDA w : j * batch <= Len(yields[w]))
                    IN  [n \in DOMAIN more |-> Range(SubSeq(yields[more[n]], (j - 1) * batch + 1, j * batch))]
    IN  FlattenSeq([j \in 1..most |-> round(j)])
Passes(index, workers, batch) ==
    LET yields(n) == YieldsOf(RowsOfWorker(index, n - 1, workers), batch)
        choices == [1..workers -> UNION {yields(n) : n \in 1..workers}]
    IN  {PassOf(f, batch) : f \in {g \in choices : \A n \in 1..workers : g[n] \in yields(n)}}
=============================================================================
