--------------------------- MODULE MCSelfplayLoop ---------------------------
(* Shards of two rows: episodes that end within a shard, are cut by one and  *)
(* are left open; self-play without any row; and a base that was cut short,  *)
(* of one row, which leaves a worker of the stream with an odd number.       *)
(* Beside the loop, every offline trainer for itself.                        *)
EXTENDS SelfplayLoop, EpochTraining

Ep(n, c) == [decisions |-> n, closed |-> c]
MCBasePlans == {<<Ep(1, TRUE), Ep(3, TRUE)>>}
MCSelfPlans == {<<Ep(0, TRUE)>>, <<Ep(1, FALSE), Ep(0, TRUE), Ep(1, TRUE)>>}
Report(mean, ci, large) == [mean |-> mean, ci |-> ci, large |-> large, positive |-> 1]
MCMetrics == {Report(0, 1, 0), Report(1, 0, 0), Report(2, 1, 1)}

Args(epochs, resume) ==
    [epochs |-> epochs, init |-> FALSE, resume |-> resume, validates |-> FALSE,
     patience |-> None, minDelta |-> 0, minEpochs |-> 1]
Patient(epochs, resume, patience, delta, least) ==
    [Args(epochs, resume) EXCEPT !.validates = TRUE, !.patience = patience, !.minDelta = delta, !.minEpochs = least]
MCTrainerArgs ==
    {Args(2, FALSE), Args(3, TRUE), [Args(2, FALSE) EXCEPT !.init = TRUE], [Args(3, TRUE) EXCEPT !.init = TRUE],
     [Args(1, FALSE) EXCEPT !.validates = TRUE], [Args(2, FALSE) EXCEPT !.validates = TRUE],
     Patient(3, FALSE, 2, 1, 1), Patient(3, TRUE, 1, 0, 1), Patient(3, TRUE, 1, 1, 3)}
MCMethods == DOMAIN Programs
MCEpisodes == <<{1, 2, 3}, {2}>>
MCSplit == <<{2}, {}>>

(* The loop and the trainers have nothing in common here: one or the other.  *)
MCInit == Init /\ TrainInit
MCNext ==
    \/ starts = 0 /\ method = "bc" /\ version = 1 /\ Next /\ UNCHANGED trainVars
    \/ attempt = 0 /\ launches = 0 /\ TrainNext /\ UNCHANGED vars
MCSpec == MCInit /\ [][MCNext]_<<vars, trainVars>>
=============================================================================
