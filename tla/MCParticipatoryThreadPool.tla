---------------------- MODULE MCParticipatoryThreadPool ----------------------
(* Three threads and a counter that can only count two of them.              *)
EXTENDS ParticipatoryThreadPool

MCWrappers == 1 .. Cardinality(Jobs) + Cardinality(Threads) + 1
=============================================================================
