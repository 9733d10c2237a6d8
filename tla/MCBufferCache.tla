--------------------------- MODULE MCBufferCache ---------------------------
(* Model-checking instance of BufferCache: two client threads and the     *)
(* read-ahead thread sharing a two-slot cache over a three-sector device.   *)
EXTENDS BufferCache, TLC

CONSTANTS c1, c2

MCClients == {c1, c2}
MCNSlots == 2
MCDevSize == 3

\* Clients are interchangeable; used only by the runs checking safety.
ClientSymmetry == Permutations(MCClients)

=============================================================================
