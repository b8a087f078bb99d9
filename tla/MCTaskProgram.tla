--------------------------- MODULE MCTaskProgram ---------------------------
(* One producer with two items, two consumers that look for one each. *)
EXTENDS TaskProgram

Tasks == <<"producer", "consumer_1", "consumer_2">>
MutexOf ==
    [c \in Cv |-> CASE c = "cv" -> "mutex" [] c = "cv_any" -> "m_mtx" [] OTHER -> c]
=============================================================================
