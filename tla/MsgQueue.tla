------------------------------ MODULE MsgQueue ------------------------------
(***************************************************************************)
(* The host simulator's message queue, src/queue.c: a ring buffer guarded  *)
(* by one mutex, with the condition variable not_empty.                    *)
(*                                                                         *)
(* Every access to the ring is made with queue->mutex held and no other    *)
(* lock is taken inside, so a critical section is one action.  queue_pop   *)
(* gives the mutex up inside pthread_cond_(timed)wait, so it is several:   *)
(*    idle     the consumer is outside queue_pop                           *)
(*    wait     it is blocked on not_empty                                  *)
(*    woken    it was woken and has yet to take the mutex back             *)
(*    expired  its wait ended in ETIMEDOUT, it has yet to take the mutex   *)
(*    late     the same, and a signal was given to it nevertheless: POSIX  *)
(*             lets pthread_cond_timedwait return ETIMEDOUT and consume it *)
(*    missed   outside queue_pop as in idle; the label remembers that its  *)
(*             last call was late and left without the item                *)
(* The clock is abstracted: a timed wait may run out at any moment.        *)
(* not_full is signalled by the code, but nobody ever waits on it.         *)
(***************************************************************************)
EXTENDS Integers, Sequences, FiniteSets

CONSTANTS Producers,       (* threads that call queue_push                 *)
          Consumers,       (* threads that call queue_pop in a loop        *)
          TimedConsumers,  (* those that pass timeout_ms >= 0              *)
          Items,           (* the messages                                 *)
          NoItem,          (* content of a buffer nobody has written       *)
          Capacity,        (* queue_create's capacity                      *)
          Spurious         (* whether the platform wakes waiters unasked   *)

ASSUME QueueAssumption ==
    /\ Capacity \in Nat \ {0}               (* queue_create refuses 0      *)
    /\ TimedConsumers \subseteq Consumers
    /\ IsFiniteSet(Consumers)
    /\ Producers \cap Consumers = {}
    /\ NoItem \notin Items
    /\ Spurious \in BOOLEAN

VARIABLES storage,  (* the ring's slots                                    *)
          head,     (* slot of the oldest item                             *)
          tail,     (* slot the next push writes                           *)
          count,    (* number of queued items                              *)
          pc,       (* pc[c]: where consumer c is in queue_pop             *)
          item,     (* item[c]: the buffer c passes to queue_pop           *)
          ret       (* ret[t]: what t's last completed call returned       *)

ring == <<storage, head, tail, count>>
vars == <<storage, head, tail, count, pc, item, ret>>

Threads == Producers \cup Consumers
Slots   == 0..(Capacity - 1)
Waiting == {c \in Consumers : pc[c] = "wait"}
Woken   == {c \in Consumers : pc[c] = "woken"}
Expired == {c \in Consumers : pc[c] = "expired"}
Missed  == {c \in Consumers : pc[c] \in {"late", "missed"}}

-----------------------------------------------------------------------------
(* queue_create *)
Init == /\ storage = [i \in Slots |-> NoItem]
        /\ head = 0 /\ tail = 0 /\ count = 0
        /\ pc   = [c \in Consumers |-> "idle"]
        /\ item = [c \in Consumers |-> NoItem]
        /\ ret  = [t \in Threads |-> FALSE]

(***************************************************************************)
(* queue_push                                                              *)
(***************************************************************************)
\* pthread_cond_signal(&queue->not_empty): one waiter, if there is one; it may
\* also be one whose wait has timed out, and is lost on that one.
SignalNotEmpty ==
    \/ /\ Waiting = {}
       /\ UNCHANGED pc
    \/ \E c \in Waiting : pc' = [pc EXCEPT ![c] = "woken"]
    \/ \E c \in Expired : pc' = [pc EXCEPT ![c] = "late"]

NextSlot(i) == (i + 1) % Capacity

StoreItem(v) == /\ storage' = [storage EXCEPT ![tail] = v]
                /\ tail'    = NextSlot(tail)
                /\ count'   = count + 1
                /\ UNCHANGED head

\* Mutants: the push forgets the signal; the check lets one item too many in.
queue_push_NoSignal(p, v) ==
    /\ count < Capacity
    /\ StoreItem(v)
    /\ ret' = [ret EXCEPT ![p] = TRUE]
    /\ UNCHANGED <<pc, item>>

queue_push_Overrun(p, v) ==
    /\ count <= Capacity
    /\ StoreItem(v)
    /\ SignalNotEmpty
    /\ ret' = [ret EXCEPT ![p] = TRUE]
    /\ UNCHANGED item

queue_push(p, v) ==
    /\ count < Capacity
    /\ StoreItem(v)
    /\ SignalNotEmpty
    /\ ret' = [ret EXCEPT ![p] = TRUE]
    /\ UNCHANGED item

queue_push_full(p) ==
    /\ count >= Capacity
    /\ ret' = [ret EXCEPT ![p] = FALSE]
    /\ UNCHANGED <<ring, pc, item>>

(***************************************************************************)
(* queue_pop                                                               *)
(***************************************************************************)
\* Mutant: the item is copied but head stays where it is.
Take_HeadStays(c) ==
    /\ count > 0
    /\ item'  = [item EXCEPT ![c] = storage[head]]
    /\ count' = count - 1
    /\ ret'   = [ret EXCEPT ![c] = TRUE]
    /\ pc'    = [pc EXCEPT ![c] = "idle"]
    /\ UNCHANGED <<storage, head, tail>>

\* The loop is left: copy the oldest item out, move head, return true.
Take(c) ==
    /\ count > 0
    /\ item'  = [item EXCEPT ![c] = storage[head]]
    /\ head'  = NextSlot(head)
    /\ count' = count - 1
    /\ ret'   = [ret EXCEPT ![c] = TRUE]
    /\ pc'    = [pc EXCEPT ![c] = "idle"]
    /\ UNCHANGED <<storage, tail>>

\* The loop body: compute a deadline and wait.
Block(c) == /\ count = 0
            /\ pc' = [pc EXCEPT ![c] = "wait"]
            /\ UNCHANGED <<ring, item, ret>>

queue_pop(c) == /\ pc[c] \in {"idle", "missed"}
                /\ Take(c) \/ Block(c)

\* The wait returned 0: the while condition is evaluated again, and a queue
\* found empty is waited for anew, with a new deadline.
PopWake(c) == /\ pc[c] = "woken"
              /\ Take(c) \/ Block(c)

SpuriousWake(c) == /\ Spurious
                   /\ pc[c] = "wait"
                   /\ pc' = [pc EXCEPT ![c] = "woken"]
                   /\ UNCHANGED <<ring, item, ret>>

\* The wait runs out; the mutex is still to be taken back, and until it is a
\* signal may find this consumer (SignalNotEmpty).
PopExpire(c) == /\ c \in TimedConsumers
                /\ pc[c] = "wait"
                /\ pc' = [pc EXCEPT ![c] = "expired"]
                /\ UNCHANGED <<ring, item, ret>>

\* rc == ETIMEDOUT: return false, without looking at count again.
PopReturnFalse(c) == /\ pc[c] \in {"expired", "late"}
                     /\ pc'  = [pc EXCEPT ![c] = IF @ = "late" THEN "missed" ELSE "idle"]
                     /\ ret' = [ret EXCEPT ![c] = FALSE]
                     /\ UNCHANGED <<ring, item>>

(***************************************************************************)
(* queue_clear: broadcasts not_full, wakes nobody on not_empty.            *)
(***************************************************************************)
\* Mutant: the write index keeps its old value.
queue_clear_TailStays == /\ head' = 0 /\ count' = 0
                         /\ UNCHANGED <<storage, tail, pc, item, ret>>

queue_clear == /\ head' = 0 /\ tail' = 0 /\ count' = 0
               /\ UNCHANGED <<storage, pc, item, ret>>

-----------------------------------------------------------------------------
Next == \/ \E p \in Producers, v \in Items : queue_push(p, v)
        \/ \E p \in Producers : queue_push_full(p)
        \/ \E c \in Consumers : \/ queue_pop(c)
                                \/ PopWake(c)
                                \/ SpuriousWake(c)
                                \/ PopExpire(c)
                                \/ PopReturnFalse(c)
        \/ queue_clear

\* The consumers of ecu_sim.c call queue_pop in an endless loop, an unblocked
\* thread gets the mutex some day, and a deadline passes some day.
Fairness == \A c \in Consumers : /\ WF_vars(queue_pop(c))
                                 /\ WF_vars(PopWake(c))
                                 /\ WF_vars(PopExpire(c))
                                 /\ WF_vars(PopReturnFalse(c))

Spec == Init /\ [][Next]_vars /\ Fairness

-----------------------------------------------------------------------------
(***************************************************************************)
(* Properties.                                                             *)
(***************************************************************************)
Places == {"idle", "wait", "woken", "expired", "late", "missed"}

\* Every variable has its type: the indices stay inside the ring that
\* queue_push and queue_pop index with them.
TypeOK == /\ storage \in [Slots -> Items \cup {NoItem}]
          /\ head \in Slots
          /\ tail \in Slots
          /\ count \in 0..Capacity
          /\ pc   \in [Consumers -> Places]
          /\ item \in [Consumers -> Items \cup {NoItem}]
          /\ ret  \in [Threads -> BOOLEAN]

\* The three redundant fields head, tail and count, which queue_push,
\* queue_pop and queue_clear each update in part, always describe one window.
RingInv == tail = (head + count) % Capacity

\* As long as any consumer is blocked, each queued item has a consumer on its
\* way to it: one that was woken, or one whose wait timed out although a signal
\* was meant for it and that has not called queue_pop again.  So an item can
\* wait beside a blocked consumer, but only until the one that timed out is
\* back; queue_push's single signal is otherwise enough.
NoLostWakeup == Waiting # {} => count <= Cardinality(Woken) + Cardinality(Missed)

\* The window of the ring from head on, oldest item first.
Contents == [i \in 1..count |-> storage[(head + i - 1) % Capacity]]

Fifo == INSTANCE BoundedFifo WITH fifo <- Contents, item <- item, ret <- ret

\* The ring buffer with its condition variable is a bounded FIFO: nothing is
\* lost, duplicated or reordered by queue_push, queue_pop and queue_clear.
FifoSpec == Fifo!Spec

\* A consumer blocked in queue_pop, even one without a timeout, does not stay
\* blocked while items stay queued.
BlockedConsumerServed ==
    \A c \in Consumers :
        (count > 0 /\ pc[c] = "wait") ~> (count = 0 \/ pc[c] # "wait")

\* What the comment in ecu_stop says its two queue_clear calls do: "unblock
\* queue waiters".
ClearUnblocks == [][queue_clear => Waiting' = {}]_vars
=============================================================================
