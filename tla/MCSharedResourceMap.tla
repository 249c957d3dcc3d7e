------------------------ MODULE MCSharedResourceMap ------------------------
(* One key that three threads fight for: revivals, deleters that overtake    *)
(* each other and objects that follow each other all happen at one key.      *)
EXTENDS SharedResourceMap
=============================================================================
