----------------------------- MODULE BoundedFIFO -----------------------------
(***************************************************************************)
(* What a producer-consumer buffer of capacity Capacity promises: items   *)
(* leave in the order they came in, a put happens only while there is    *)
(* room, and a take only while there is an item, which the taking         *)
(* consumer receives.                                                      *)
(***************************************************************************)
EXTENDS Naturals, Sequences

CONSTANTS Capacity, Items, Consumers, Nothing

VARIABLES queue, taken      \* taken[c]: what consumer c received last

vars == <<queue, taken>>

Init == queue = <<>> /\ taken = [c \in Consumers |-> Nothing]

Put(x) ==
    /\ Len(queue) < Capacity
    /\ queue' = Append(queue, x)
    /\ UNCHANGED taken

Get(c) ==
    /\ queue # <<>>
    /\ taken' = [taken EXCEPT ![c] = Head(queue)]
    /\ queue' = Tail(queue)

Next == (\E x \in Items : Put(x)) \/ (\E c \in Consumers : Get(c))

Spec == Init /\ [][Next]_vars
==============================================================================
