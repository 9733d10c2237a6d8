----------------------------- MODULE AbstractRW -----------------------------
(***************************************************************************)
(* What a reader/writer lock promises: any number of readers, or a single  *)
(* writer and no reader, hold it at a time.  A thread takes the lock only  *)
(* when that stays true, and gives up only what it holds.                  *)
(***************************************************************************)
CONSTANTS Threads

VARIABLES readers, writer     \* writer is a set with at most one element

vars == <<readers, writer>>

Init == readers = {} /\ writer = {}

TakeRead(t) ==
    /\ t \notin readers \cup writer
    /\ writer = {}
    /\ readers' = readers \cup {t}
    /\ UNCHANGED writer

TakeWrite(t) ==
    /\ readers = {} /\ writer = {}
    /\ writer' = {t}
    /\ UNCHANGED readers

DropRead(t) ==
    /\ t \in readers
    /\ readers' = readers \ {t}
    /\ UNCHANGED writer

DropWrite(t) ==
    /\ writer = {t}
    /\ writer' = {}
    /\ UNCHANGED readers

Next == \E t \in Threads :
            TakeRead(t) \/ TakeWrite(t) \/ DropRead(t) \/ DropWrite(t)

Spec == Init /\ [][Next]_vars
==============================================================================
