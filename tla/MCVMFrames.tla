----------------------------- MODULE MCVMFrames -----------------------------
(* Two processes.  Process A has a read-only executable page a1; process *)
(* B has a writable executable page b1 and an anonymous stack page b2.   *)
EXTENDS VMFrames

MCPages == {"a1", "b1", "b2"}
MCOwner == [p \in MCPages |-> IF p = "a1" THEN "A" ELSE "B"]
==============================================================================
