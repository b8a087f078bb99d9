-------------------------------- MODULE Lists --------------------------------
(***************************************************************************)
(* The lists of workers (stl::IList): a scheduler's through Worker::m_node *)
(* and a condition variable's through Worker::m_waiter_node, so a worker   *)
(* is at most once in each.                                                *)
(***************************************************************************)
EXTENDS Integers, Sequences, SequencesExt

\* The sequence q lists the members of S, each once.
Enumerates(q, S) ==
    /\ q \in Seq(S)
    /\ \A i, j \in 1..Len(q) : q[i] = q[j] => i = j
    /\ \A x \in S : \E i \in 1..Len(q) : q[i] = x

=============================================================================
