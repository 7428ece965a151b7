--------------------------- MODULE MsgQueueProofs ---------------------------
(***************************************************************************)
(* Theorems about MsgQueue, for every Capacity and every set of threads.   *)
(*                                                                         *)
(* The inductive invariant is TypeOK /\ RingInv; NoLostWakeup is inductive *)
(* on top of it.  The ring's indices wrap at most once in any sum the code *)
(* forms, so two lemmas about % carry all the arithmetic.                  *)
(***************************************************************************)
EXTENDS MsgQueue, FiniteSetTheorems, SequenceTheorems, TLAPS

-----------------------------------------------------------------------------
(* Arithmetic of the ring.                                                 *)

\* An index below the capacity is its own slot.
LEMMA ModBelow ==
    ASSUME NEW C \in Nat \ {0}, NEW a \in Int, 0 <= a, a < C
    PROVE  a % C = a
  BY SMT

\* An index past the end wraps once.
LEMMA ModWrap ==
    ASSUME NEW C \in Nat \ {0}, NEW a \in Int, C <= a, a < C + C
    PROVE  a % C = a - C
  BY SMT

\* NextSlot steps through the slots and wraps at the last one.
LEMMA NextSlotIs ==
    ASSUME NEW i \in Slots
    PROVE  /\ NextSlot(i) \in Slots
           /\ NextSlot(i) = IF i = Capacity - 1 THEN 0 ELSE i + 1
  <1>1. CASE i = Capacity - 1
    BY <1>1, QueueAssumption, ModWrap DEF NextSlot, Slots
  <1>2. CASE i # Capacity - 1
    BY <1>2, QueueAssumption, ModBelow DEF NextSlot, Slots
  <1> QED BY <1>1, <1>2

\* Slot number k of the window that starts at h.
LEMMA WindowSlot ==
    ASSUME NEW h \in Slots, NEW k \in 0..Capacity
    PROVE  /\ (h + k) % Capacity \in Slots
           /\ (h + k) % Capacity = IF h + k < Capacity THEN h + k
                                                       ELSE h + k - Capacity
  <1>1. CASE h + k < Capacity
    BY <1>1, QueueAssumption, ModBelow DEF Slots
  <1>2. CASE h + k >= Capacity
    <2> DEFINE sum == h + k
    <2>1. sum \in Int /\ Capacity <= sum /\ sum < Capacity + Capacity
      BY <1>2, QueueAssumption DEF Slots
    <2>2. sum % Capacity = sum - Capacity
      <3> HIDE DEF sum
      <3> QED BY <2>1, QueueAssumption, ModWrap
    <2> QED BY <1>2, <2>1, <2>2, QueueAssumption DEF Slots
  <1> QED BY <1>1, <1>2, QueueAssumption DEF Slots

\* Advancing the tail widens the window of n slots by one.
LEMMA WindowPush ==
    ASSUME NEW h \in Slots, NEW n \in 0..(Capacity - 1)
    PROVE  NextSlot((h + n) % Capacity) = (h + (n + 1)) % Capacity
  <1> DEFINE a == (h + n) % Capacity
             b == (h + (n + 1)) % Capacity
  <1>1. n \in 0..Capacity /\ n + 1 \in 0..Capacity
    BY QueueAssumption
  <1>2. /\ a \in Slots
        /\ a = IF h + n < Capacity THEN h + n ELSE h + n - Capacity
    BY <1>1, WindowSlot
  <1>3. b = IF h + (n + 1) < Capacity THEN h + (n + 1)
                                      ELSE h + (n + 1) - Capacity
    BY <1>1, WindowSlot
  <1>4. NextSlot(a) = IF a = Capacity - 1 THEN 0 ELSE a + 1
    BY <1>2, NextSlotIs
  <1> HIDE DEF a, b
  <1>5. NextSlot(a) = b
    BY <1>2, <1>3, <1>4, QueueAssumption DEF Slots
  <1> QED BY <1>5 DEF a, b

\* Advancing the head narrows it from the other end.
LEMMA WindowPop ==
    ASSUME NEW h \in Slots, NEW n \in 1..Capacity
    PROVE  (NextSlot(h) + (n - 1)) % Capacity = (h + n) % Capacity
  <1> DEFINE g == NextSlot(h)
             a == (g + (n - 1)) % Capacity
             b == (h + n) % Capacity
  <1>1. n \in 0..Capacity /\ n - 1 \in 0..Capacity
    BY QueueAssumption
  <1>2. g \in Slots /\ g = IF h = Capacity - 1 THEN 0 ELSE h + 1
    BY NextSlotIs
  <1>3. b = IF h + n < Capacity THEN h + n ELSE h + n - Capacity
    BY <1>1, WindowSlot
  <1> HIDE DEF g
  <1>4. a = IF g + (n - 1) < Capacity THEN g + (n - 1)
                                      ELSE g + (n - 1) - Capacity
    BY <1>1, <1>2, WindowSlot
  <1> HIDE DEF a, b
  <1>5. a = b
    BY <1>2, <1>3, <1>4, QueueAssumption DEF Slots
  <1> QED BY <1>5 DEF a, b, g

-----------------------------------------------------------------------------
(* Type correctness and the ring invariant.                                *)

IInv == TypeOK /\ RingInv

LEMMA InitIInv == Init => IInv
  <1> SUFFICES ASSUME Init PROVE IInv
    OBVIOUS
  <1>1. TypeOK
    BY QueueAssumption DEF Init, TypeOK, Slots, Threads, Places
  <1>2. RingInv
    BY QueueAssumption, ModBelow DEF Init, RingInv
  <1> QED BY <1>1, <1>2 DEF IInv

LEMMA NextIInv == IInv /\ [Next]_vars => IInv'
  <1> SUFFICES ASSUME IInv, [Next]_vars PROVE IInv'
    OBVIOUS
  <1> USE QueueAssumption DEF IInv, TypeOK, RingInv, Places
  <1>1. ASSUME NEW p \in Producers, NEW v \in Items, queue_push(p, v)
        PROVE  IInv'
    <2>1. /\ count < Capacity /\ count' = count + 1 /\ head' = head
          /\ tail' = NextSlot(tail) /\ storage' = [storage EXCEPT ![tail] = v]
      BY <1>1 DEF queue_push, StoreItem
    <2>2. tail' \in Slots /\ count' \in 0..Capacity
      BY <2>1, NextSlotIs
    <2>3. tail' = (head' + count') % Capacity
      <3>1. count \in 0..(Capacity - 1)
        BY <2>1
      <3>2. NextSlot((head + count) % Capacity) = (head + (count + 1)) % Capacity
        BY <3>1, WindowPush
      <3> QED BY <2>1, <3>2
    <2>4. pc' \in [Consumers -> Places]
      BY <1>1 DEF queue_push, SignalNotEmpty, Waiting, Expired
    <2>5. storage' \in [Slots -> Items \cup {NoItem}]
      BY <2>1
    <2>6. ret' \in [Threads -> BOOLEAN] /\ item' = item
      BY <1>1 DEF queue_push, Threads
    <2> QED BY <2>1, <2>2, <2>3, <2>4, <2>5, <2>6
  <1>2. ASSUME NEW p \in Producers, queue_push_full(p)
        PROVE  IInv'
    BY <1>2 DEF queue_push_full, ring, Threads
  <1>3. ASSUME NEW c \in Consumers, Take(c)
        PROVE  IInv'
    <2>1. /\ count > 0 /\ count' = count - 1 /\ head' = NextSlot(head)
          /\ tail' = tail /\ storage' = storage
      BY <1>3 DEF Take
    <2>2. head' \in Slots /\ count' \in 0..Capacity
      BY <2>1, NextSlotIs
    <2>3. tail' = (head' + count') % Capacity
      BY <2>1, WindowPop
    <2>4. /\ pc' \in [Consumers -> Places]
          /\ item' \in [Consumers -> Items \cup {NoItem}]
      BY <1>3 DEF Take
    <2>5. ret' \in [Threads -> BOOLEAN]
      BY <1>3 DEF Take, Threads
    <2> QED BY <2>1, <2>2, <2>3, <2>4, <2>5
  <1>4. ASSUME NEW c \in Consumers, Block(c)
        PROVE  IInv'
    BY <1>4 DEF Block, ring
  <1>5. ASSUME NEW c \in Consumers, queue_pop(c)
        PROVE  IInv'
    BY <1>3, <1>4, <1>5 DEF queue_pop
  <1>6. ASSUME NEW c \in Consumers, PopWake(c)
        PROVE  IInv'
    BY <1>3, <1>4, <1>6 DEF PopWake
  <1>7. ASSUME NEW c \in Consumers,
               SpuriousWake(c) \/ PopExpire(c) \/ PopReturnFalse(c)
        PROVE  IInv'
    BY <1>7 DEF SpuriousWake, PopExpire, PopReturnFalse, ring, Threads
  <1>8. CASE queue_clear
    <2>1. /\ head' = 0 /\ tail' = 0 /\ count' = 0
          /\ UNCHANGED <<storage, pc, item, ret>>
      BY <1>8 DEF queue_clear
    <2>2. (head' + count') % Capacity = 0
      BY <2>1, ModBelow
    <2> QED BY <2>1, <2>2 DEF Slots
  <1>9. CASE UNCHANGED vars
    BY <1>9 DEF vars
  <1> QED BY <1>1, <1>2, <1>5, <1>6, <1>7, <1>8, <1>9 DEF Next

\* TypeOK holds in every reachable state: the indices queue_push and queue_pop
\* write through never leave the ring.
THEOREM TypeCorrect == Spec => []TypeOK
  <1>1. IInv => TypeOK
    BY DEF IInv
  <1> QED BY <1>1, InitIInv, NextIInv, PTL DEF Spec

\* RingInv holds in every reachable state: the three variables queue_push and
\* queue_pop update describe one window, count slots from head up to tail.
THEOREM RingCorrect == Spec => []RingInv
  <1>1. IInv => RingInv
    BY DEF IInv
  <1> QED BY <1>1, InitIInv, NextIInv, PTL DEF Spec

LEMMA IInvHolds == Spec => []IInv
  BY InitIInv, NextIInv, PTL DEF Spec
-----------------------------------------------------------------------------
(* No lost wakeup.                                                         *)

\* A set of consumers, the woken ones and those that missed an item in
\* particular, has a cardinality.
LEMMA ConsumersFinite ==
    \A S : S \subseteq Consumers => IsFiniteSet(S) /\ Cardinality(S) \in Nat
  BY QueueAssumption, FS_Subset, FS_CardinalityType

LEMMA GroupsFinite ==
    /\ IsFiniteSet(Woken)  /\ Cardinality(Woken) \in Nat
    /\ IsFiniteSet(Woken') /\ Cardinality(Woken') \in Nat
    /\ IsFiniteSet(Missed)  /\ Cardinality(Missed) \in Nat
    /\ IsFiniteSet(Missed') /\ Cardinality(Missed') \in Nat
  <1>1. /\ Woken \subseteq Consumers /\ Woken' \subseteq Consumers
        /\ Missed \subseteq Consumers /\ Missed' \subseteq Consumers
    BY DEF Woken, Missed
  <1> QED BY <1>1, ConsumersFinite

LEMMA InitNoLostWakeup == Init => NoLostWakeup
  BY DEF Init, NoLostWakeup, Waiting

\* A wakeup adds one woken consumer and takes one from those that wait.
LEMMA WakeOne ==
    ASSUME NEW c \in Consumers, pc[c] = "wait", TypeOK,
           pc' = [pc EXCEPT ![c] = "woken"]
    PROVE  /\ Cardinality(Woken') = Cardinality(Woken) + 1
           /\ Missed' = Missed /\ Waiting # {}
  <1>1. /\ Woken' = Woken \cup {c} /\ c \notin Woken /\ c \in Waiting
        /\ Missed' = Missed
    BY DEF Woken, Waiting, Missed, TypeOK
  <1> QED BY <1>1, GroupsFinite, FS_AddElement

\* A signal that a timed-out wait consumes adds one that misses an item.
LEMMA MissOne ==
    ASSUME NEW c \in Consumers, pc[c] = "expired", TypeOK,
           pc' = [pc EXCEPT ![c] = "late"]
    PROVE  /\ Cardinality(Missed') = Cardinality(Missed) + 1
           /\ Woken' = Woken /\ Waiting' = Waiting
  <1>1. /\ Missed' = Missed \cup {c} /\ c \notin Missed
        /\ Woken' = Woken /\ Waiting' = Waiting
    BY DEF Woken, Waiting, Missed, TypeOK
  <1> QED BY <1>1, GroupsFinite, FS_AddElement

\* A consumer that takes an item was woken for it, missed one before or
\* neither: it is one of at most one of the groups, and leaves it.
LEMMA RetireOne ==
    ASSUME NEW c \in Consumers, pc[c] \in {"idle", "missed", "woken"}, TypeOK,
           pc' = [pc EXCEPT ![c] = "idle"]
    PROVE  /\ Cardinality(Woken') + Cardinality(Missed') >=
                 Cardinality(Woken) + Cardinality(Missed) - 1
           /\ Waiting' = Waiting
  <1>1. Waiting' = Waiting
    BY DEF Waiting, TypeOK
  <1>2. CASE pc[c] = "idle"
    <2>1. Woken' = Woken /\ Missed' = Missed
      BY <1>2 DEF Woken, Missed, TypeOK
    <2> QED BY <1>1, <2>1, GroupsFinite
  <1>3. CASE pc[c] = "woken"
    <2>1. Woken' = Woken \ {c} /\ c \in Woken /\ Missed' = Missed
      BY <1>3 DEF Woken, Missed, TypeOK
    <2>2. Cardinality(Woken') = Cardinality(Woken) - 1
      BY <2>1, GroupsFinite, FS_RemoveElement
    <2> QED BY <1>1, <2>1, <2>2, GroupsFinite
  <1>4. CASE pc[c] = "missed"
    <2>1. Missed' = Missed \ {c} /\ c \in Missed /\ Woken' = Woken
      BY <1>4 DEF Woken, Missed, TypeOK
    <2>2. Cardinality(Missed') = Cardinality(Missed) - 1
      BY <2>1, GroupsFinite, FS_RemoveElement
    <2> QED BY <1>1, <2>1, <2>2, GroupsFinite
  <1> QED BY <1>2, <1>3, <1>4

LEMMA NextNoLostWakeup == TypeOK /\ NoLostWakeup /\ [Next]_vars => NoLostWakeup'
  <1> SUFFICES ASSUME TypeOK, NoLostWakeup, [Next]_vars PROVE NoLostWakeup'
    OBVIOUS
  <1>0. count \in Nat /\ Cardinality(Woken) \in Nat /\ Cardinality(Missed) \in Nat
    BY GroupsFinite, QueueAssumption DEF TypeOK
  <1>1. ASSUME NEW p \in Producers, NEW v \in Items, queue_push(p, v)
        PROVE  NoLostWakeup'
    <2>1. count' = count + 1 /\ SignalNotEmpty
      BY <1>1 DEF queue_push, StoreItem
    <2>2. CASE Waiting = {} /\ pc' = pc
      BY <2>2 DEF NoLostWakeup, Waiting
    <2>3. ASSUME NEW c \in Waiting, pc' = [pc EXCEPT ![c] = "woken"]
          PROVE  NoLostWakeup'
      <3>1. c \in Consumers /\ pc[c] = "wait"
        BY DEF Waiting
      <3>2. /\ Cardinality(Woken') = Cardinality(Woken) + 1
            /\ Missed' = Missed /\ Waiting # {}
        BY <2>3, <3>1, WakeOne
      <3> QED BY <1>0, <2>1, <3>2 DEF NoLostWakeup
    <2>4. ASSUME NEW c \in Expired, pc' = [pc EXCEPT ![c] = "late"]
          PROVE  NoLostWakeup'
      <3>1. c \in Consumers /\ pc[c] = "expired"
        BY DEF Expired
      <3>2. /\ Cardinality(Missed') = Cardinality(Missed) + 1
            /\ Woken' = Woken /\ Waiting' = Waiting
        BY <2>4, <3>1, MissOne
      <3> QED BY <1>0, <2>1, <3>2 DEF NoLostWakeup
    <2> QED BY <2>1, <2>2, <2>3, <2>4 DEF SignalNotEmpty
  <1>2. ASSUME NEW p \in Producers, queue_push_full(p)
        PROVE  NoLostWakeup'
    BY <1>2 DEF queue_push_full, ring, NoLostWakeup, Waiting, Woken, Missed
  <1>3. ASSUME NEW c \in Consumers, pc[c] \in {"idle", "missed", "woken"}, Take(c)
        PROVE  NoLostWakeup'
    <2>1. count' = count - 1 /\ count > 0 /\ pc' = [pc EXCEPT ![c] = "idle"]
      BY <1>3 DEF Take
    <2>2. /\ Cardinality(Woken') + Cardinality(Missed') >=
                Cardinality(Woken) + Cardinality(Missed) - 1
          /\ Waiting' = Waiting
      BY <1>3, <2>1, RetireOne
    <2> QED BY <1>0, <2>1, <2>2, GroupsFinite DEF NoLostWakeup
  <1>4. ASSUME NEW c \in Consumers, Block(c)
        PROVE  NoLostWakeup'
    <2>1. count' = 0
      BY <1>4 DEF Block, ring
    <2> QED BY <2>1, GroupsFinite DEF NoLostWakeup
  <1>5. ASSUME NEW c \in Consumers, queue_pop(c) \/ PopWake(c)
        PROVE  NoLostWakeup'
    BY <1>3, <1>4, <1>5 DEF queue_pop, PopWake
  <1>6. ASSUME NEW c \in Consumers, SpuriousWake(c)
        PROVE  NoLostWakeup'
    <2>1. /\ pc[c] = "wait" /\ pc' = [pc EXCEPT ![c] = "woken"]
          /\ count' = count
      BY <1>6 DEF SpuriousWake, ring
    <2>2. /\ Cardinality(Woken') = Cardinality(Woken) + 1
          /\ Missed' = Missed /\ Waiting # {}
      BY <2>1, WakeOne
    <2> QED BY <1>0, <2>1, <2>2 DEF NoLostWakeup
  <1>7. ASSUME NEW c \in Consumers, PopExpire(c) \/ PopReturnFalse(c)
        PROVE  NoLostWakeup'
    <2>1. /\ Woken' = Woken /\ Missed' = Missed
          /\ Waiting' \subseteq Waiting /\ count' = count
      BY <1>7 DEF PopExpire, PopReturnFalse, ring, Woken, Waiting, Missed, TypeOK
    <2> QED BY <2>1 DEF NoLostWakeup
  <1>8. CASE queue_clear
    <2>1. count' = 0
      BY <1>8 DEF queue_clear
    <2> QED BY <2>1, GroupsFinite DEF NoLostWakeup
  <1>9. CASE UNCHANGED vars
    BY <1>9 DEF vars, NoLostWakeup, Waiting, Woken, Missed
  <1> QED BY <1>1, <1>2, <1>5, <1>6, <1>7, <1>8, <1>9 DEF Next

\* While a consumer is blocked, each queued item has a consumer that was woken
\* for it or that a timeout, returned with the signal, has sent back to its
\* caller: queue_push's single pthread_cond_signal loses no more than these.
THEOREM NoWakeupIsLost == Spec => []NoLostWakeup
  BY TypeCorrect, InitNoLostWakeup, NextNoLostWakeup, PTL DEF Spec

\* Where nobody passes a timeout, no wait ends in ETIMEDOUT and no signal can
\* be consumed by one: queue_push's single signal is enough.
THEOREM UntimedNeverMiss ==
    ASSUME TimedConsumers = {}
    PROVE  Spec => [](Waiting # {} => count <= Cardinality(Woken))
  <1> DEFINE None == Expired = {} /\ Missed = {}
  <1>1. Init => None
    BY DEF Init, Expired, Missed
  <1>2. TypeOK /\ None /\ [Next]_vars => None'
    BY DEF Next, vars, ring, queue_push, SignalNotEmpty, queue_push_full, queue_pop, PopWake,
           Take, Block, SpuriousWake, PopExpire, PopReturnFalse, queue_clear, TypeOK,
           Expired, Missed, Waiting
  <1>3. TypeOK /\ None /\ NoLostWakeup => (Waiting # {} => count <= Cardinality(Woken))
    <2>1. Cardinality({}) = 0
      BY FS_EmptySet
    <2> QED BY <2>1, GroupsFinite, QueueAssumption DEF NoLostWakeup, TypeOK
  <1> HIDE DEF None
  <1> QED BY <1>1, <1>2, <1>3, TypeCorrect, NoWakeupIsLost, PTL DEF Spec

\* A queue with one consumer, as both of ecu_sim.c's have, never holds an item
\* while that consumer sleeps: whatever a timeout swallows, it swallows on the
\* consumer's own way out.
THEOREM LoneConsumerNeverSleeps ==
    ASSUME NEW c, Consumers = {c}
    PROVE  Spec => [](pc[c] = "wait" => count = 0)
  <1>1. TypeOK /\ NoLostWakeup => (pc[c] = "wait" => count = 0)
    <2> SUFFICES ASSUME TypeOK, NoLostWakeup, pc[c] = "wait"
                 PROVE  count = 0
      OBVIOUS
    <2>1. c \in Waiting /\ Woken = {} /\ Missed = {}
      BY DEF Waiting, Woken, Missed
    <2>2. Cardinality({}) = 0
      BY FS_EmptySet
    <2>3. count <= 0 + 0
      BY <2>1, <2>2 DEF NoLostWakeup
    <2> QED BY <2>3, QueueAssumption DEF TypeOK
  <1> QED BY <1>1, TypeCorrect, NoWakeupIsLost, PTL
-----------------------------------------------------------------------------
(* The ring implements the bounded FIFO.                                   *)

Window == /\ Contents \in Seq(Items \cup {NoItem})
          /\ Len(Contents) = count
          /\ \A i \in 1..count : Contents[i] = storage[(head + (i - 1)) % Capacity]

\* Contents is a sequence of count items, and each is in its slot.
LEMMA ContentsSeq == IInv => Window
  <1> SUFFICES ASSUME IInv PROVE Window
    OBVIOUS
  <1>1. count \in Nat /\ head \in Int
    BY QueueAssumption DEF IInv, TypeOK, Slots
  <1>2. ASSUME NEW i \in 1..count
        PROVE  /\ head + i - 1 = head + (i - 1)
               /\ storage[(head + (i - 1)) % Capacity] \in Items \cup {NoItem}
    <2>1. i - 1 \in 0..Capacity /\ head + i - 1 = head + (i - 1)
      BY <1>1, QueueAssumption DEF IInv, TypeOK, Slots
    <2>2. (head + (i - 1)) % Capacity \in Slots
      BY <2>1, WindowSlot DEF IInv, TypeOK
    <2> QED BY <2>1, <2>2 DEF IInv, TypeOK
  <1>3. Contents = [i \in 1..count |-> storage[(head + (i - 1)) % Capacity]]
    BY <1>2 DEF Contents
  <1> QED BY <1>1, <1>2, <1>3 DEF Window

LEMMA ContentsSeqNext == IInv' => Window'
  BY ContentsSeq, PTL

\* Storing at the tail appends to the window and disturbs no slot of it.
LEMMA StoreAppends ==
    ASSUME IInv, IInv', NEW v \in Items, count < Capacity, StoreItem(v)
    PROVE  Contents' = Append(Contents, v)
  <1>1. /\ count' = count + 1 /\ head' = head
        /\ storage' = [storage EXCEPT ![tail] = v]
        /\ tail = (head + count) % Capacity
        /\ count \in Nat /\ head \in Slots /\ tail \in Slots
        /\ storage \in [Slots -> Items \cup {NoItem}]
    BY QueueAssumption DEF StoreItem, IInv, TypeOK, RingInv
  <1>2. /\ Contents \in Seq(Items \cup {NoItem}) /\ Len(Contents) = count
        /\ \A i \in 1..count : Contents[i] = storage[(head + (i - 1)) % Capacity]
    BY ContentsSeq DEF Window
  <1>3. /\ Contents' \in Seq(Items \cup {NoItem}) /\ Len(Contents') = count + 1
        /\ \A i \in 1..(count + 1) :
              Contents'[i] = storage'[(head + (i - 1)) % Capacity]
    BY <1>1, ContentsSeqNext DEF Window
  <1>4. Contents'[count + 1] = v
    <2>1. (count + 1) - 1 = count /\ count + 1 \in 1..(count + 1)
      BY <1>1
    <2>2. Contents'[count + 1] = storage'[(head + count) % Capacity]
      BY <1>3, <2>1
    <2> QED BY <1>1, <2>2
  <1>5. ASSUME NEW i \in 1..count PROVE Contents'[i] = Contents[i]
    <2> DEFINE s == (head + (i - 1)) % Capacity
    <2>1. i - 1 \in 0..Capacity /\ count \in 0..Capacity /\ i \in 1..(count + 1)
      BY <1>1, QueueAssumption
    <2>2. /\ s \in Slots
          /\ s = IF head + (i - 1) < Capacity THEN head + (i - 1)
                                              ELSE head + (i - 1) - Capacity
      BY <1>1, <2>1, WindowSlot
    <2>3. tail = IF head + count < Capacity THEN head + count
                                            ELSE head + count - Capacity
      BY <1>1, <2>1, WindowSlot
    <2>4. Contents'[i] = storage'[s] /\ Contents[i] = storage[s]
      BY <1>2, <1>3, <2>1
    <2> HIDE DEF s
    <2>5. s # tail
      BY <1>1, <2>1, <2>2, <2>3, QueueAssumption DEF Slots
    <2> QED BY <1>1, <2>2, <2>4, <2>5
  <1> QED BY <1>1, <1>2, <1>3, <1>4, <1>5

\* Moving the head drops the oldest item of the window.
LEMMA TakeDropsHead ==
    ASSUME IInv, IInv', NEW c \in Consumers, Take(c)
    PROVE  /\ Contents # <<>>
           /\ item' = [item EXCEPT ![c] = Head(Contents)]
           /\ Contents' = Tail(Contents)
  <1>1. /\ count > 0 /\ count' = count - 1 /\ head' = NextSlot(head)
        /\ storage' = storage /\ count \in 0..Capacity /\ head \in Slots
        /\ item' = [item EXCEPT ![c] = storage[head]]
    BY DEF Take, IInv, TypeOK
  <1>2. /\ Contents \in Seq(Items \cup {NoItem}) /\ Len(Contents) = count
        /\ \A i \in 1..count : Contents[i] = storage[(head + (i - 1)) % Capacity]
    BY ContentsSeq DEF Window
  <1>3. /\ Contents' \in Seq(Items \cup {NoItem}) /\ Len(Contents') = count - 1
        /\ \A i \in 1..(count - 1) :
              Contents'[i] = storage[(NextSlot(head) + (i - 1)) % Capacity]
    BY <1>1, ContentsSeqNext DEF Window
  <1>4. Head(Contents) = storage[head]
    <2>1. 1 \in 1..count /\ head + (1 - 1) = head
      BY <1>1, QueueAssumption DEF Slots
    <2>2. head % Capacity = head
      BY <1>1, QueueAssumption, ModBelow DEF Slots
    <2>3. Contents[1] = storage[head]
      BY <1>2, <2>1, <2>2
    <2> QED BY <1>1, <1>2, <2>3
  <1>5. ASSUME NEW i \in 1..(count - 1) PROVE Contents'[i] = Contents[i + 1]
    <2>1. i \in 1..Capacity /\ i + 1 \in 1..count /\ (i + 1) - 1 = i
      BY <1>1, QueueAssumption
    <2>2. (NextSlot(head) + (i - 1)) % Capacity = (head + i) % Capacity
      BY <1>1, <2>1, WindowPop
    <2>3. Contents[i + 1] = storage[(head + i) % Capacity]
      BY <1>2, <2>1
    <2> QED BY <1>3, <2>2, <2>3
  <1>6. Contents # <<>>
    BY <1>1, <1>2
  <1>7. Contents' = Tail(Contents)
    <2>1. \A i \in 1..(count - 1) : Tail(Contents)[i] = Contents[i + 1]
      BY <1>1, <1>2, <1>6
    <2>2. /\ Tail(Contents) \in Seq(Items \cup {NoItem})
          /\ Len(Tail(Contents)) = count - 1
      BY <1>2, <1>6
    <2>3. \A i \in 1..Len(Contents') : Contents'[i] = Tail(Contents)[i]
      BY <1>3, <1>5, <2>1
    <2> QED BY <1>3, <2>2, <2>3, SeqEqual
  <1> QED BY <1>1, <1>4, <1>6, <1>7

LEMMA InitRefines == Init => Fifo!Init
  <1> SUFFICES ASSUME Init PROVE Fifo!Init
    OBVIOUS
  <1>1. Len(Contents) = 0 /\ Contents \in Seq(Items \cup {NoItem})
    BY InitIInv, ContentsSeq DEF Init, Window
  <1> QED BY <1>1 DEF Init, Fifo!Init, Threads

LEMMA StepRefines == IInv /\ IInv' /\ [Next]_vars => [Fifo!Next]_Fifo!fifoVars
  <1> SUFFICES ASSUME IInv, IInv', [Next]_vars PROVE [Fifo!Next]_Fifo!fifoVars
    OBVIOUS
  <1>0. Len(Contents) = count
    BY ContentsSeq DEF Window
  <1>1. ASSUME NEW p \in Producers, NEW v \in Items, queue_push(p, v)
        PROVE  Fifo!Push(p, v)
    <2>1. Contents' = Append(Contents, v)
      BY <1>1, StoreAppends DEF queue_push
    <2> QED BY <1>0, <1>1, <2>1 DEF queue_push, Fifo!Push
  <1>2. ASSUME NEW p \in Producers, queue_push_full(p)
        PROVE  Fifo!Refuse(p)
    <2>1. Contents' = Contents
      BY <1>2 DEF queue_push_full, ring, Contents
    <2>2. count = Capacity
      BY <1>2, QueueAssumption DEF queue_push_full, IInv, TypeOK
    <2> QED BY <1>0, <1>2, <2>1, <2>2 DEF queue_push_full, Fifo!Refuse
  <1>3. ASSUME NEW c \in Consumers, Take(c)
        PROVE  Fifo!Pop(c)
    BY <1>3, TakeDropsHead DEF Take, Fifo!Pop
  <1>4. ASSUME NEW c \in Consumers, Block(c)
        PROVE  UNCHANGED Fifo!fifoVars
    BY <1>4 DEF Block, ring, Contents, Fifo!fifoVars
  <1>5. ASSUME NEW c \in Consumers, queue_pop(c) \/ PopWake(c)
        PROVE  [Fifo!Next]_Fifo!fifoVars
    BY <1>3, <1>4, <1>5 DEF queue_pop, PopWake, Fifo!Next
  <1>6. ASSUME NEW c \in Consumers, SpuriousWake(c) \/ PopExpire(c)
        PROVE  UNCHANGED Fifo!fifoVars
    BY <1>6 DEF SpuriousWake, PopExpire, ring, Contents, Fifo!fifoVars
  <1>7. ASSUME NEW c \in Consumers, PopReturnFalse(c)
        PROVE  Fifo!TimeOut(c)
    BY <1>7 DEF PopReturnFalse, ring, Contents, Fifo!TimeOut
  <1>8. CASE queue_clear
    <2>1. Len(Contents') = 0 /\ Contents' \in Seq(Items \cup {NoItem})
      BY <1>8, ContentsSeqNext DEF queue_clear, Window
    <2> QED BY <1>8, <2>1 DEF queue_clear, Fifo!Clear, Fifo!Next
  <1>9. CASE UNCHANGED vars
    BY <1>9 DEF vars, Contents, Fifo!fifoVars
  <1> QED BY <1>1, <1>2, <1>5, <1>6, <1>7, <1>8, <1>9 DEF Next, Fifo!Next

\* Every behaviour of queue.c's ring buffer and condition variable, seen
\* through Contents, is a behaviour of BoundedFifo: no item is lost,
\* duplicated or reordered, whatever the capacity and however many threads.
THEOREM RefinesBoundedFifo == Spec => FifoSpec
  BY IInvHolds, InitRefines, StepRefines, PTL DEF Spec, FifoSpec, Fifo!Spec
=============================================================================
