------------------------------ MODULE MCStrand ------------------------------
(* One strand with three jobs on a pool of two threads that others share.    *)
EXTENDS Strand
=============================================================================
