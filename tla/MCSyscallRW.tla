----------------------------- MODULE MCSyscallRW -----------------------------
(* Three threads calling read and write on one file. *)
EXTENDS SyscallRW
==============================================================================
