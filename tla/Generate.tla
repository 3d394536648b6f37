------------------------------ MODULE Generate ------------------------------
(* The base dataset: generate_dataset and generate_mixed_selfplay_dataset    *)
(* collect episodes in chunks, write them to shards as they come and leave a *)
(* manifest beside the shards and a report beside the directory.  A chunk    *)
(* may raise, which closes the writer, and the process may be killed.        *)
EXTENDS Shards

CONSTANTS BasePlans,     \* the episodes a generation plays: sequences of [decisions, closed]
          ChunkSize,     \* episodes of a chunk
          MaxAttempts    \* generations into the same directory

VARIABLES base,          \* the directory
          report,        \* the generation that <name>.manifest.json speaks of, or None
          attempt,       \* generations started
          planned,       \* the episodes of the last one
          generator,     \* "idle", "writing", "closed"
          played,        \* its episodes collected so far
          pending        \* its rows in memory (ShardedTransitionWriter._current)

genVars == <<base, report, attempt, planned, generator, played, pending>>

GenInit ==
    /\ base = EmptyDir /\ report = None
    /\ attempt = 0 /\ planned = <<>>
    /\ generator = "idle" /\ played = 0 /\ pending = <<>>


(* ShardedTransitionWriter.__init__ removes the shards and the manifest of   *)
(* an earlier generation; the report stays until the next one is written.    *)
StartGeneration ==
    /\ generator = "idle" /\ attempt < MaxAttempts
    /\ \E plan \in BasePlans : planned' = plan
    /\ attempt' = attempt + 1
    /\ base' = EmptyDir
    /\ generator' = "writing" /\ played' = 0 /\ pending' = <<>>
    /\ UNCHANGED report

ChunkRows ==
    LET last == played + ChunkSize
    IN  Collected(<<0, attempt>>, played, SubSeq(planned, played + 1, last))

(* A chunk of generate_mixed_selfplay_dataset: no rows are no error.         *)
CollectChunk ==
    /\ generator = "writing" /\ ~Full(pending) /\ played < Len(planned)
    /\ pending' = pending \o ChunkRows
    /\ played' = played + ChunkSize
    /\ UNCHANGED <<base, report, attempt, planned, generator>>

FlushShard ==
    /\ generator = "writing" /\ Full(pending)
    /\ base' = Flushed(base, SubSeq(pending, 1, ShardSize))
    /\ pending' = SubSeq(pending, ShardSize + 1, Len(pending))
    /\ UNCHANGED <<report, attempt, planned, generator, played>>

Rest == IF pending = <<>> THEN base ELSE Flushed(base, pending)

(* close, at the end of the chunks.                                          *)
CloseWriter ==
    /\ generator = "writing" /\ ~Full(pending) /\ played >= Len(planned)
    /\ base' = Closed(Rest)
    /\ generator' = "closed" /\ pending' = <<>>
    /\ UNCHANGED <<report, attempt, planned, played>>

(* generate_dataset refuses a chunk without a row, and a bridge may fail:    *)
(* "finally" closes the writer, so that what was written so far gets its     *)
(* manifest all the same; there is no report.                                *)
ChunkRaises ==
    /\ generator = "writing" /\ ~Full(pending) /\ played < Len(planned)
    /\ base' = Closed(Rest)
    /\ generator' = "idle" /\ pending' = <<>>
    /\ UNCHANGED <<report, attempt, planned, played>>

WriteReport ==
    /\ generator = "closed"
    /\ report' = attempt
    /\ generator' = "idle"
    /\ UNCHANGED <<base, attempt, planned, played, pending>>

(* The process is killed.                                                    *)
KillGenerator ==
    /\ generator # "idle"
    /\ generator' = "idle" /\ pending' = <<>>
    /\ UNCHANGED <<base, report, attempt, planned, played>>

Generation ==
    \/ StartGeneration \/ CollectChunk \/ FlushShard \/ CloseWriter
    \/ ChunkRaises \/ WriteReport \/ KillGenerator

StoredRows(dir) ==
    LET rows == ReadRows(dir) IN [i \in DOMAIN rows |-> rows[i].row]
=============================================================================
