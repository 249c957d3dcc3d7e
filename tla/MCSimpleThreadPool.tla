------------------------- MODULE MCSimpleThreadPool -------------------------
(* Two worker threads, two callers, an ordinary and a self-resubmitting job. *)
EXTENDS SimpleThreadPool

MCWrappers == 1 .. Cardinality(Jobs) + Cardinality(Threads) + 1
=============================================================================
