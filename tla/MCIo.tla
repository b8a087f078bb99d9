-------------------------------- MODULE MCIo --------------------------------
(* I/O by two threads, of two schedulers. *)
EXTENDS Io

Threads == {<<1, 0>>, <<2, 1>>}
=============================================================================
