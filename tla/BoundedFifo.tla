---------------------------- MODULE BoundedFifo ----------------------------
(***************************************************************************)
(* What src/queue.c promises its callers: a first-in first-out queue of at *)
(* most Capacity items.  A push never blocks and is refused exactly when   *)
(* the queue is full; a pop hands out the oldest item or, when its wait    *)
(* runs out, nothing; a clear forgets every item.  MsgQueue implements     *)
(* this specification with a ring buffer and a condition variable.         *)
(***************************************************************************)
EXTENDS Naturals, Sequences

CONSTANTS Producers,  (* threads that call queue_push                      *)
          Consumers,  (* threads that call queue_pop                       *)
          Items,      (* the messages                                      *)
          NoItem,     (* content of a caller's buffer before any pop       *)
          Capacity    (* queue_create's capacity                           *)

VARIABLES fifo,  (* the queued items, oldest first                         *)
          item,  (* item[c]: the buffer consumer c passes to queue_pop     *)
          ret    (* ret[t]: what thread t's last completed call returned   *)

fifoVars == <<fifo, item, ret>>

Init == /\ fifo = <<>>
        /\ item = [c \in Consumers |-> NoItem]
        /\ ret  = [t \in Producers \cup Consumers |-> FALSE]

\* An accepted push appends, a push on a full queue changes nothing.
Push(p, v) == /\ Len(fifo) < Capacity
              /\ fifo' = Append(fifo, v)
              /\ ret'  = [ret EXCEPT ![p] = TRUE]
              /\ UNCHANGED item

Refuse(p) == /\ Len(fifo) = Capacity
             /\ ret' = [ret EXCEPT ![p] = FALSE]
             /\ UNCHANGED <<fifo, item>>

\* A successful pop hands out the oldest item.
Pop(c) == /\ fifo # <<>>
          /\ item' = [item EXCEPT ![c] = Head(fifo)]
          /\ fifo' = Tail(fifo)
          /\ ret'  = [ret EXCEPT ![c] = TRUE]

\* A pop whose wait runs out hands out nothing and leaves the buffer alone.
TimeOut(c) == /\ ret' = [ret EXCEPT ![c] = FALSE]
              /\ UNCHANGED <<fifo, item>>

Clear == /\ fifo' = <<>>
         /\ UNCHANGED <<item, ret>>

Next == \/ \E p \in Producers, v \in Items : Push(p, v)
        \/ \E p \in Producers : Refuse(p)
        \/ \E c \in Consumers : Pop(c) \/ TimeOut(c)
        \/ Clear

Spec == Init /\ [][Next]_fifoVars
============================================================================
