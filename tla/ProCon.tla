------------------------------- MODULE ProCon -------------------------------
(***************************************************************************)
(* The producer-consumer bounded buffer of src/src/threads/procon.c:       *)
(* procon_produce and procon_consume over one struct procon, called by any *)
(* number of producer and consumer threads.                               *)
(*                                                                         *)
(* Both functions run under pc->lock and give it up only inside cond_wait, *)
(* so each stretch between lock_acquire or a return from cond_wait and the *)
(* next cond_wait or lock_release is one step.  cond_wait(c) releases the  *)
(* lock and puts the thread among the waiters of c; cond_signal takes one  *)
(* waiter out, which is then "woken" until it re-acquires the lock and     *)
(* re-tests its while condition.  synch.c is not part of src, so which    *)
(* waiter cond_signal wakes is left open.                                  *)
(***************************************************************************)
EXTENDS Naturals, FiniteSets

CONSTANTS
    Producers,     \* threads calling procon_produce
    Consumers,     \* threads calling procon_consume
    Size,          \* buffer_size given to procon_init
    Chars,         \* the characters produced
    NoChar         \* model value: nothing consumed yet

VARIABLES
    buffer,        \* pc->buffer[0 .. size-1]
    in, out, current,
    notEmpty,      \* waiters of pc->not_empty
    notFull,       \* waiters of pc->not_full
    pc,            \* "idle", "wait" (in cond_wait) or "woken"
    item,          \* item[p]: the char producer p is putting
    taken          \* taken[c]: the char consumer c's last call returned

vars == <<buffer, in, out, current, notEmpty, notFull, pc, item, taken>>

Threads == Producers \cup Consumers

(* procon_init: malloc leaves the buffer's bytes unspecified. *)
Init ==
    /\ buffer \in [0 .. Size - 1 -> Chars]
    /\ in = 0 /\ out = 0 /\ current = 0
    /\ notEmpty = {} /\ notFull = {}
    /\ pc = [t \in Threads |-> "idle"]
    /\ item = [p \in Producers |-> NoChar]
    /\ taken = [c \in Consumers |-> NoChar]

(* cond_signal on pc->not_empty / pc->not_full, on top of the pc function *)
(* p the signalling step leaves: wake one waiter if there is one.          *)
SignalNotEmpty(p) ==
    \/ notEmpty = {} /\ notEmpty' = {} /\ pc' = p
    \/ \E u \in notEmpty : /\ notEmpty' = notEmpty \ {u}
                           /\ pc' = [p EXCEPT ![u] = "woken"]

SignalNotFull(p) ==
    \/ notFull = {} /\ notFull' = {} /\ pc' = p
    \/ \E u \in notFull : /\ notFull' = notFull \ {u}
                          /\ pc' = [p EXCEPT ![u] = "woken"]

(* Lines 41-47: store c, advance in, count it, signal not_empty, release. *)
Put(t, c) ==
    /\ buffer' = [buffer EXCEPT ![in] = c]
    /\ in' = (in + 1) % Size
    /\ current' = current + 1
    /\ SignalNotEmpty([pc EXCEPT ![t] = "idle"])
    /\ UNCHANGED <<out, notFull, item, taken>>

(* The while loop of procon_produce: wait on not_full while full. *)
ProduceLoop(t, c) ==
    IF current = Size
    THEN /\ notFull' = notFull \cup {t}
         /\ pc' = [pc EXCEPT ![t] = "wait"]
         /\ item' = [item EXCEPT ![t] = c]
         /\ UNCHANGED <<buffer, in, out, current, notEmpty, taken>>
    ELSE Put(t, c)

(* Mutant: a consume that forgets to advance out. *)
TakeKeepsOut(t) ==
    /\ taken' = [taken EXCEPT ![t] = buffer[out]]
    /\ current' = current - 1
    /\ SignalNotFull([pc EXCEPT ![t] = "idle"])
    /\ UNCHANGED <<buffer, in, out, notEmpty, item>>

(* Mutant: consume signals not_empty where it means not_full. *)
TakeSignalsNotEmpty(t) ==
    /\ taken' = [taken EXCEPT ![t] = buffer[out]]
    /\ out' = (out + 1) % Size
    /\ current' = current - 1
    /\ SignalNotEmpty([pc EXCEPT ![t] = "idle"])
    /\ UNCHANGED <<buffer, in, notFull, item>>

(* Lines 64-71: read buffer[out], advance out, uncount, signal not_full,  *)
(* release and return the char.                                           *)
Take(t) ==
    /\ taken' = [taken EXCEPT ![t] = buffer[out]]
    /\ out' = (out + 1) % Size
    /\ current' = current - 1
    /\ SignalNotFull([pc EXCEPT ![t] = "idle"])
    /\ UNCHANGED <<buffer, in, notEmpty, item>>

(* The while loop of procon_consume: wait on not_empty while empty. *)
ConsumeLoop(t) ==
    IF current = 0
    THEN /\ notEmpty' = notEmpty \cup {t}
         /\ pc' = [pc EXCEPT ![t] = "wait"]
         /\ UNCHANGED <<buffer, in, out, current, notFull, item, taken>>
    ELSE Take(t)

(* procon_produce(pc, c): lock_acquire, then the loop. *)
Produce(t) ==
    /\ pc[t] = "idle"
    /\ \E c \in Chars : ProduceLoop(t, c)

(* procon_consume(pc): lock_acquire, then the loop. *)
Consume(t) ==
    /\ pc[t] = "idle"
    /\ ConsumeLoop(t)

(* Mutant: a woken producer stores without re-testing (an if for the    *)
(* while, as if cond_signal handed over the lock).                      *)
WakeProducerNoRecheck(t) ==
    /\ pc[t] = "woken"
    /\ Put(t, item[t])

(* Return from cond_wait(&pc->not_full): re-acquire, test again. *)
WakeProducer(t) ==
    /\ pc[t] = "woken"
    /\ ProduceLoop(t, item[t])

(* Return from cond_wait(&pc->not_empty): re-acquire, test again. *)
WakeConsumer(t) ==
    /\ pc[t] = "woken"
    /\ ConsumeLoop(t)

Next ==
    \/ \E t \in Producers : Produce(t) \/ WakeProducer(t)
    \/ \E t \in Consumers : Consume(t) \/ WakeConsumer(t)

Spec == Init /\ [][Next]_vars

-----------------------------------------------------------------------------
TypeOK ==
    /\ buffer \in [0 .. Size - 1 -> Chars]
    /\ in \in 0 .. Size - 1 /\ out \in 0 .. Size - 1
    /\ current \in 0 .. Size
    /\ notFull \subseteq Producers /\ notEmpty \subseteq Consumers
    /\ pc \in [Threads -> {"idle", "wait", "woken"}]
    /\ item \in [Producers -> Chars \cup {NoChar}]
    /\ taken \in [Consumers -> Chars \cup {NoChar}]

Woken(S) == {t \in S : pc[t] = "woken"}

(* No lost wakeup: while a producer sleeps in cond_wait(&not_full), every *)
(* free slot has a woken producer on its way to it, and while a consumer  *)
(* sleeps in cond_wait(&not_empty), every stored char has a woken         *)
(* consumer on its way to it.  Each consume and each produce signals the  *)
(* other side's condition exactly once; a signal sent to the wrong        *)
(* condition, or skipped, leaves a sleeper with nothing to wake it while  *)
(* the buffer could serve it.                                              *)
NoLostWakeup ==
    /\ notFull # {} => Size - current <= Cardinality(Woken(Producers))
    /\ notEmpty # {} => current <= Cardinality(Woken(Consumers))

(* The ring implements BoundedFIFO: its contents are the current chars     *)
(* from out on, every produce appends, and every consume hands the oldest  *)
(* char to its caller.                                                     *)
RingContents == [k \in 1 .. current |-> buffer[(out + k - 1) % Size]]

FIFO == INSTANCE BoundedFIFO
          WITH Capacity <- Size, Items <- Chars, Nothing <- NoChar,
               queue <- RingContents
ProConRefinement == FIFO!Spec
=============================================================================
