------------------------------ MODULE Rollouts ------------------------------
(***************************************************************************)
(* What a trainer may expect of any collector: one batch per iteration, the *)
(* one that is fixed by the simulation and its seeds, or an exception that   *)
(* has a cause.                                                             *)
(***************************************************************************)
EXTENDS Integers, Sequences

VARIABLES
    iterations,   \* how many there are to be
    out, failed,  \* the batches so far, and whether the run has failed
    batch,        \* the batch an iteration is to yield
    simulated,    \* does the simulation itself fail, or refuse a bonus?
    blank,        \* is there a share of the matches without any decision?
    killed        \* has a worker process been killed?

Init == out = <<>> /\ failed = "no"

Deliver ==
    /\ failed = "no" /\ UNCHANGED failed
    /\ Len(out') = Len(out) + 1 /\ Len(out) < iterations
    /\ out' = Append(out, batch)

Fail ==
    /\ failed = "no" /\ (simulated \/ blank \/ killed)
    /\ failed' # "no" /\ UNCHANGED out

Spec == Init /\ [][Deliver \/ Fail]_<<out, failed>>
=============================================================================
