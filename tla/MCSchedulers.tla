---------------------------- MODULE MCSchedulers ----------------------------
(* Schedulers with the tasks as model values. *)
EXTENDS Schedulers

CONSTANTS t0, t1, t2

\* The tasks other than main are interchangeable (t0 is always MainTask).
Symmetry == Permutations({t1, t2})
=============================================================================
