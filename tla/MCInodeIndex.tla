---------------------------- MODULE MCInodeIndex ----------------------------
(***************************************************************************)
(* Model-checking instance of InodeIndex.  The constants are given in the *)
(* MCInodeIndex*.cfg files; FilesBound is their state constraint.         *)
(***************************************************************************)
EXTENDS InodeIndex

=============================================================================
