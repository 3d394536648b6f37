---------------------------- MODULE MCTrainRun ----------------------------
EXTENDS TrainRun

(* No flags, and those that change what a launch accepts. *)
MCOptions == {{}, {"fresh_run_overwrite"}, {"allow_bridge_mismatch"}, {"accept_legacy_unpinned_state"}}

(* A scratch run collected in batches, with a warm phase of the heads; the same with
   other workers and the recipe of an older run, both of use to a resume only; and
   what must not get through, a warm phase of no iterations. *)
Invoke(flags, collector, warm, iters, workers) ==
    [flags |-> flags,
     recipe |-> [base_seed |-> 0, collector |-> collector, head_lr |-> warm,
                 head_lr_iters |-> iters, num_workers |-> workers]]
FromBC == {"scratch", "init_from_bc"}
MCInvocations ==
    {Invoke(FromBC, "batched", TRUE, 1, 1),
     Invoke({}, "batched", TRUE, 1, 2),
     Invoke({}, "process", FALSE, 0, 1),
     Invoke(FromBC, "batched", TRUE, 0, 1)}

(* Nothing tells two processes apart, or two contents of the library. *)
MCSymmetry == Permutations(Procs) \cup Permutations(Libs)
=============================================================================
