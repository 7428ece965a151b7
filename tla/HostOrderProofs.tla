-------------------------- MODULE HostOrderProofs --------------------------
(***************************************************************************)
(* What the pipeline of HostSim does to the order, the numbers and the     *)
(* flags of its samples, and what a stop leaves in it: proved for every    *)
(* capacity, burst length and bound.                                       *)
(*                                                                         *)
(* The pipeline is five places in a row: the sensor's hand, the sensor     *)
(* queue, the processor's hand, the telemetry queue, the logger's hand.    *)
(* OrderInv says that whatever is further on was made earlier; a step      *)
(* removes samples, hands one to the next place or makes a new one.        *)
(***************************************************************************)
EXTENDS HostSimProofs

-----------------------------------------------------------------------------
(* The places, and the order between them.                                 *)

Items(q) == {queue[q][i] : i \in DOMAIN queue[q]}

InSensor    == IF pc["sensor"] = "push" THEN {hand["sensor"]} ELSE {}
InProcessor == IF pc["processor"] = "push" THEN {hand["processor"]} ELSE {}
InLogger    == IF pc["logger"] = "print" THEN {hand["logger"]} ELSE {}

Pipeline == InSensor \cup Items("sensor_queue") \cup InProcessor
            \cup Items("telemetry_queue") \cup InLogger

Increasing(s) == \A i, j \in DOMAIN s : i < j => s[i].id < s[j].id
Ahead(X, Y)   == \A x \in X, y \in Y : x.id < y.id

\* Five places, from the logger back to the sensor.
InOrder(L, T, P, S, N) == /\ Ahead(L, T \cup P \cup S \cup N)
                          /\ Ahead(T, P \cup S \cup N)
                          /\ Ahead(P, S \cup N)
                          /\ Ahead(S, N)

QueuesInOrder == Increasing(queue["sensor_queue"]) /\ Increasing(queue["telemetry_queue"])
PlacesInOrder == InOrder(InLogger, Items("telemetry_queue"), InProcessor,
                         Items("sensor_queue"), InSensor)
IdsInRange    == /\ logged <= made
                 /\ \A s \in Pipeline : logged < s.id /\ s.id <= made

OrderInv == QueuesInOrder /\ PlacesInOrder /\ IdsInRange

-----------------------------------------------------------------------------
(* Places that stand in order: what may happen to them.                    *)

LEMMA Lost ==
    ASSUME NEW L, NEW T, NEW P, NEW S, NEW N, InOrder(L, T, P, S, N),
           NEW L2 \in SUBSET L, NEW T2 \in SUBSET T, NEW P2 \in SUBSET P,
           NEW S2 \in SUBSET S, NEW N2 \in SUBSET N
    PROVE  InOrder(L2, T2, P2, S2, N2)
  BY DEF InOrder, Ahead

LEMMA SensorHandsOn ==
    ASSUME NEW L, NEW T, NEW P, NEW S, NEW N, InOrder(L, T, P, S, N)
    PROVE  InOrder(L, T, P, S \cup N, {})
  BY DEF InOrder, Ahead

LEMMA ProcessorTakes ==
    ASSUME NEW L, NEW T, NEW S, NEW N, InOrder(L, T, {}, S, N),
           NEW s \in S, NEW S2 \in SUBSET S, Ahead({s}, S2)
    PROVE  InOrder(L, T, {s}, S2, N)
  BY DEF InOrder, Ahead

LEMMA ProcessorHandsOn ==
    ASSUME NEW L, NEW T, NEW P, NEW S, NEW N, InOrder(L, T, P, S, N)
    PROVE  InOrder(L, T \cup P, {}, S, N)
  BY DEF InOrder, Ahead

LEMMA LoggerTakes ==
    ASSUME NEW T, NEW P, NEW S, NEW N, InOrder({}, T, P, S, N),
           NEW s \in T, NEW T2 \in SUBSET T, Ahead({s}, T2)
    PROVE  InOrder({s}, T2, P, S, N)
  BY DEF InOrder, Ahead

LEMMA SensorMakes ==
    ASSUME NEW L, NEW T, NEW P, NEW S, InOrder(L, T, P, S, {}),
           NEW s, \A x \in L \cup T \cup P \cup S : x.id < s.id
    PROVE  InOrder(L, T, P, S, {s})
  BY DEF InOrder, Ahead

-----------------------------------------------------------------------------
(* Queues in order.                                                        *)

\* An item put behind all others.
LEMMA AppendInOrder ==
    ASSUME NEW s \in Seq(Sample), Increasing(s), NEW v \in Sample,
           \A i \in DOMAIN s : s[i].id < v.id
    PROVE  /\ Increasing(Append(s, v))
           /\ {Append(s, v)[i] : i \in DOMAIN Append(s, v)}
                 = {s[i] : i \in DOMAIN s} \cup {v}
  <1> DEFINE a == Append(s, v)
  <1>1. /\ DOMAIN s = 1..Len(s) /\ DOMAIN a = 1..(Len(s) + 1) /\ Len(s) \in Nat
        /\ \A i \in DOMAIN s : a[i] = s[i]
        /\ a[Len(s) + 1] = v
    OBVIOUS
  <1> HIDE DEF a
  <1>2. Increasing(a)
    <2> SUFFICES ASSUME NEW i \in DOMAIN a, NEW j \in DOMAIN a, i < j
                 PROVE  a[i].id < a[j].id
      BY DEF Increasing
    <2>1. i \in DOMAIN s
      BY <1>1
    <2>2. CASE j \in DOMAIN s
      BY <1>1, <2>1, <2>2 DEF Increasing
    <2>3. CASE j = Len(s) + 1
      BY <1>1, <2>1, <2>3
    <2> QED BY <1>1, <2>2, <2>3
  <1>3. {a[i] : i \in DOMAIN a} = {s[i] : i \in DOMAIN s} \cup {v}
    <2>1. ASSUME NEW i \in DOMAIN a PROVE a[i] \in {s[k] : k \in DOMAIN s} \cup {v}
      BY <1>1
    <2>2. ASSUME NEW i \in DOMAIN s PROVE s[i] \in {a[k] : k \in DOMAIN a}
      BY <1>1
    <2>3. v \in {a[k] : k \in DOMAIN a}
      <3>1. Len(s) + 1 \in DOMAIN a
        BY <1>1
      <3> QED BY <1>1, <3>1
    <2> QED BY <2>1, <2>2, <2>3
  <1> QED BY <1>2, <1>3 DEF a

\* The head was ahead of the rest.
LEMMA TailInOrder ==
    ASSUME NEW s \in Seq(Sample), Increasing(s), s # <<>>
    PROVE  /\ Increasing(Tail(s))
           /\ Head(s) \in {s[i] : i \in DOMAIN s}
           /\ {Tail(s)[i] : i \in DOMAIN Tail(s)} \subseteq {s[i] : i \in DOMAIN s}
           /\ Ahead({Head(s)}, {Tail(s)[i] : i \in DOMAIN Tail(s)})
  <1> DEFINE r == Tail(s)
  <1>1. /\ DOMAIN s = 1..Len(s) /\ Len(s) \in Nat /\ Len(s) # 0 /\ Head(s) = s[1]
        /\ DOMAIN r = 1..(Len(s) - 1)
        /\ \A i \in DOMAIN r : r[i] = s[i + 1]
    OBVIOUS
  <1> HIDE DEF r
  <1>2. 1 \in DOMAIN s /\ \A i \in DOMAIN r : i + 1 \in DOMAIN s /\ 1 < i + 1
    BY <1>1
  <1>3. Increasing(r)
    <2> SUFFICES ASSUME NEW i \in DOMAIN r, NEW j \in DOMAIN r, i < j
                 PROVE  r[i].id < r[j].id
      BY DEF Increasing
    <2>1. i + 1 < j + 1
      BY <1>1
    <2> QED BY <1>1, <1>2, <2>1 DEF Increasing
  <1>4. \A i \in DOMAIN r : s[1].id < r[i].id
    BY <1>1, <1>2 DEF Increasing
  <1> QED BY <1>1, <1>2, <1>3, <1>4 DEF Ahead, r

-----------------------------------------------------------------------------
(* Facts about a state.                                                    *)

LEMMA PlacesTyped ==
    ASSUME IInv
    PROVE  /\ \A q \in Queues : queue[q] \in Seq(Sample) /\ Items(q) \subseteq Sample
           /\ \A t \in Workers : hand[t] \in Sample
           /\ Pipeline \subseteq Sample
           /\ made \in Nat /\ logged \in Nat
  <1>1. /\ \A q \in Queues : queue[q] \in Seq(Sample)
        /\ \A t \in Workers : hand[t] \in Sample
        /\ made \in Nat /\ logged \in Nat
    BY DEF IInv, TypeOK, QueueOK, PlainOK
  <1>2. \A q \in Queues : Items(q) \subseteq Sample
    BY <1>1 DEF Items
  <1>3. Pipeline \subseteq Sample
    BY <1>1, <1>2, Places DEF Pipeline, InSensor, InProcessor, InLogger, Workers
  <1> QED BY <1>1, <1>2, <1>3

\* The pipeline is what the properties call InFlight.
LEMMA InFlightIs == ASSUME IInv PROVE InFlight = Pipeline
  <1>1. Working \subseteq {"sensor", "processor", "logger"}
        /\ ("sensor" \in Working <=> pc["sensor"] = "push")
        /\ ("processor" \in Working <=> pc["processor"] = "push")
        /\ ("logger" \in Working <=> pc["logger"] = "print")
    BY LabelsOf DEF Working, Workers, IInv, TypeOK, PcOK, Threads
  <1>2. {hand[t] : t \in Working} = InSensor \cup InProcessor \cup InLogger
    BY <1>1 DEF InSensor, InProcessor, InLogger
  <1>3. UNION {{queue[q][i] : i \in DOMAIN queue[q]} : q \in Queues}
           = Items("sensor_queue") \cup Items("telemetry_queue")
    BY DEF Items, Queues
  <1> QED BY <1>2, <1>3 DEF InFlight, Pipeline

-----------------------------------------------------------------------------
(* One lemma per kind of step: it keeps the order, and all that it leaves  *)
(* in the pipeline was there before, but for the sample the sensor makes.  *)

Kept(t, label) == pc'[t] = label => pc[t] = label /\ hand'[t] = hand[t]

\* Steps that hand nothing on: at most they take samples out.
LEMMA NothingMoves ==
    ASSUME OrderInv, Kept("sensor", "push"), Kept("processor", "push"),
           Kept("logger", "print"),
           \A q \in Queues : queue'[q] = queue[q] \/ queue'[q] = <<>>,
           made' = made, logged' = logged
    PROVE  OrderInv' /\ Pipeline' \subseteq Pipeline
  <1>1. /\ InSensor' \subseteq InSensor /\ InProcessor' \subseteq InProcessor
        /\ InLogger' \subseteq InLogger
    BY DEF Kept, InSensor, InProcessor, InLogger
  <1>2. ASSUME NEW q \in Queues
        PROVE  Items(q)' \subseteq Items(q) /\ (Increasing(queue[q]) => Increasing(queue'[q]))
    BY DEF Items, Increasing
  <1>3. Pipeline' \subseteq Pipeline
    BY <1>1, <1>2, Places DEF Pipeline
  <1>4. QueuesInOrder'
    BY <1>2, Places DEF OrderInv, QueuesInOrder
  <1>5. PlacesInOrder'
    BY <1>1, <1>2, Places, Lost DEF OrderInv, PlacesInOrder
  <1>6. IdsInRange'
    BY <1>3 DEF OrderInv, IdsInRange
  <1> QED BY <1>3, <1>4, <1>5, <1>6 DEF OrderInv

\* queue_push with room, by the sensor or by the processor.
LEMMA PushKeepsOrder ==
    ASSUME IInv, OrderInv, NEW t \in Producers, Push(t)
    PROVE  OrderInv' /\ Pipeline' \subseteq Pipeline
  <1>0. /\ made' = made /\ logged' = logged /\ hand' = hand
        /\ t \in Threads /\ t \in Workers /\ t \in {"sensor", "processor"}
    BY DEF Push, making, output, Producers, Threads, Workers
  <1>1. CASE ~Room(Into[t])
    <2>1. Step(t, "push", "drop") /\ queue' = queue
      BY <1>1 DEF Push
    <2>2. pc'[t] = "drop" /\ \A u \in Threads : u # t => pc'[u] = pc[u]
      BY <2>1, <1>0, StepMoves, LabelsOf DEF IInv, TypeOK
    <2>3. Kept("sensor", "push") /\ Kept("processor", "push") /\ Kept("logger", "print")
      BY <1>0, <2>2, Places DEF Kept
    <2> QED BY <1>0, <2>1, <2>3, NothingMoves
  <1>2. CASE Room(Into[t])
    <2> DEFINE q == Into[t]
    <2>1. Step(t, "push", "update") /\ queue' = [queue EXCEPT ![q] = Append(@, hand[t])]
      BY <1>2 DEF Push
    <2>2. /\ pc[t] = "push" /\ pc'[t] = "update"
          /\ \A u \in Threads : u # t => pc'[u] = pc[u]
      BY <2>1, <1>0, StepMoves, LabelsOf DEF IInv, TypeOK
    <2>3. /\ q \in Queues /\ queue[q] \in Seq(Sample) /\ hand[t] \in Sample
          /\ Pipeline \subseteq Sample /\ queue \in [Queues -> Seq(Sample)]
      BY <1>0, Places, PlacesTyped DEF IInv, TypeOK, QueueOK
    <2>4. /\ queue'[q] = Append(queue[q], hand[t])
          /\ \A r \in Queues : r # q => queue'[r] = queue[r]
      BY <2>1, <2>3
    <2>5. Increasing(queue[q]) /\ \A i \in DOMAIN queue[q] : queue[q][i].id < hand[t].id
      <3>1. CASE t = "sensor"
        BY <3>1, <2>2, Places
           DEF OrderInv, QueuesInOrder, PlacesInOrder, InOrder, Ahead, Items, InSensor
      <3>2. CASE t = "processor"
        BY <3>2, <2>2, Places
           DEF OrderInv, QueuesInOrder, PlacesInOrder, InOrder, Ahead, Items, InProcessor
      <3> QED BY <1>0, <3>1, <3>2
    <2>6. Increasing(queue'[q]) /\ Items(q)' = Items(q) \cup {hand[t]}
      <3>1. /\ Increasing(Append(queue[q], hand[t]))
            /\ {Append(queue[q], hand[t])[i] : i \in DOMAIN Append(queue[q], hand[t])}
                  = Items(q) \cup {hand[t]}
        BY <2>3, <2>5, AppendInOrder DEF Items
      <3>2. Items(q)' = {queue'[q][i] : i \in DOMAIN queue'[q]}
        BY DEF Items
      <3> QED BY <2>4, <3>1, <3>2
    <2>7. \A r \in Queues : r # q => Items(r)' = Items(r)
      BY <2>4 DEF Items
    <2>8. CASE t = "sensor"
      <3>1. /\ InSensor = {hand["sensor"]} /\ InSensor' = {}
            /\ InProcessor' = InProcessor /\ InLogger' = InLogger
            /\ Items("sensor_queue")' = Items("sensor_queue") \cup InSensor
            /\ Items("telemetry_queue")' = Items("telemetry_queue")
        BY <1>0, <2>2, <2>6, <2>7, <2>8, Places DEF InSensor, InProcessor, InLogger
      <3>2. Pipeline' \subseteq Pipeline
        BY <3>1 DEF Pipeline
      <3>3. PlacesInOrder'
        BY <3>1, SensorHandsOn DEF OrderInv, PlacesInOrder
      <3>4. QueuesInOrder'
        BY <2>4, <2>6, <2>8, Places DEF OrderInv, QueuesInOrder
      <3>5. IdsInRange'
        BY <1>0, <3>2 DEF OrderInv, IdsInRange
      <3> QED BY <3>2, <3>3, <3>4, <3>5 DEF OrderInv
    <2>9. CASE t = "processor"
      <3>1. /\ InProcessor = {hand["processor"]} /\ InProcessor' = {}
            /\ InSensor' = InSensor /\ InLogger' = InLogger
            /\ Items("telemetry_queue")' = Items("telemetry_queue") \cup InProcessor
            /\ Items("sensor_queue")' = Items("sensor_queue")
        BY <1>0, <2>2, <2>6, <2>7, <2>9, Places DEF InSensor, InProcessor, InLogger
      <3>2. Pipeline' \subseteq Pipeline
        BY <3>1 DEF Pipeline
      <3>3. PlacesInOrder'
        BY <3>1, ProcessorHandsOn DEF OrderInv, PlacesInOrder
      <3>4. QueuesInOrder'
        BY <2>4, <2>6, <2>9, Places DEF OrderInv, QueuesInOrder
      <3>5. IdsInRange'
        BY <1>0, <3>2 DEF OrderInv, IdsInRange
      <3> QED BY <3>2, <3>3, <3>4, <3>5 DEF OrderInv
    <2> QED BY <1>0, <2>8, <2>9
  <1> QED BY <1>1, <1>2

\* queue_pop with something to take, by the processor or by the logger.
LEMMA PopKeepsOrder ==
    ASSUME IInv, OrderInv, NEW t \in Poppers, Pop(t)
    PROVE  OrderInv' /\ Pipeline' \subseteq Pipeline
  <1> DEFINE q == From[t]
             b == IF t = "logger" THEN "print" ELSE "push"
  <1>1. /\ made' = made /\ logged' = logged /\ queue[q] # <<>>
        /\ t \in Threads /\ t \in Workers /\ t \in {"processor", "logger"}
        /\ hand' = [hand EXCEPT ![t] = Head(queue[q])]
        /\ queue' = [queue EXCEPT ![q] = Tail(@)]
        /\ Step(t, pc[t], b) /\ pc[t] \in {"pop", "wait"}
    BY DEF Pop, Grab, Oldest, making, output, Poppers, Threads, Workers
  <1>2. /\ pc'[t] = b /\ \A u \in Threads : u # t => pc'[u] = pc[u]
    BY <1>1, StepMoves, LabelsOf DEF IInv, TypeOK
  <1>3. /\ q \in Queues /\ queue[q] \in Seq(Sample) /\ queue \in [Queues -> Seq(Sample)]
        /\ hand \in [Workers -> Sample]
    BY <1>1, Places DEF IInv, TypeOK, QueueOK
  <1>4. /\ queue'[q] = Tail(queue[q]) /\ \A r \in Queues : r # q => queue'[r] = queue[r]
        /\ hand'[t] = Head(queue[q]) /\ \A u \in Workers : u # t => hand'[u] = hand[u]
    BY <1>1, <1>3
  <1>5. Increasing(queue[q])
    BY <1>3, Places DEF OrderInv, QueuesInOrder, Queues
  <1>6. /\ Increasing(queue'[q]) /\ hand'[t] \in Items(q)
        /\ Items(q)' \subseteq Items(q) /\ Ahead({hand'[t]}, Items(q)')
    <2>1. /\ Increasing(Tail(queue[q])) /\ Head(queue[q]) \in Items(q)
          /\ {Tail(queue[q])[i] : i \in DOMAIN Tail(queue[q])} \subseteq Items(q)
          /\ Ahead({Head(queue[q])}, {Tail(queue[q])[i] : i \in DOMAIN Tail(queue[q])})
      BY <1>1, <1>3, <1>5, TailInOrder DEF Items
    <2>2. Items(q)' = {queue'[q][i] : i \in DOMAIN queue'[q]}
      BY DEF Items
    <2> QED BY <1>4, <2>1, <2>2
  <1>7. \A r \in Queues : r # q => Items(r)' = Items(r)
    BY <1>4 DEF Items
  <1>8. CASE t = "processor"
    <2>1. /\ InProcessor = {} /\ InProcessor' = {hand'[t]}
          /\ InSensor' = InSensor /\ InLogger' = InLogger
          /\ Items("telemetry_queue")' = Items("telemetry_queue")
      BY <1>1, <1>2, <1>4, <1>7, <1>8, Places DEF InSensor, InProcessor, InLogger, Workers
    <2>2. Pipeline' \subseteq Pipeline
      BY <1>6, <1>8, <2>1, Places DEF Pipeline
    <2>3. PlacesInOrder'
      BY <1>6, <1>8, <2>1, Places, ProcessorTakes DEF OrderInv, PlacesInOrder
    <2>4. QueuesInOrder'
      BY <1>4, <1>6, <1>8, Places DEF OrderInv, QueuesInOrder
    <2>5. IdsInRange'
      BY <1>1, <2>2 DEF OrderInv, IdsInRange
    <2> QED BY <2>2, <2>3, <2>4, <2>5 DEF OrderInv
  <1>9. CASE t = "logger"
    <2>1. /\ InLogger = {} /\ InLogger' = {hand'[t]}
          /\ InSensor' = InSensor /\ InProcessor' = InProcessor
          /\ Items("sensor_queue")' = Items("sensor_queue")
      BY <1>1, <1>2, <1>4, <1>7, <1>9, Places DEF InSensor, InProcessor, InLogger, Workers
    <2>2. Pipeline' \subseteq Pipeline
      BY <1>6, <1>9, <2>1, Places DEF Pipeline
    <2>3. PlacesInOrder'
      BY <1>6, <1>9, <2>1, Places, LoggerTakes DEF OrderInv, PlacesInOrder
    <2>4. QueuesInOrder'
      BY <1>4, <1>6, <1>9, Places DEF OrderInv, QueuesInOrder
    <2>5. IdsInRange'
      BY <1>1, <2>2 DEF OrderInv, IdsInRange
    <2> QED BY <2>2, <2>3, <2>4, <2>5 DEF OrderInv
  <1> QED BY <1>1, <1>8, <1>9

\* The logger prints its frame: all others were made after it.
LEMMA PrintKeepsOrder ==
    ASSUME IInv, OrderInv, LoggerPrint
    PROVE  OrderInv' /\ Pipeline' \subseteq Pipeline /\ logged' > logged
  <1>1. /\ made' = made /\ queue' = queue /\ logged' = hand["logger"].id
        /\ Step("logger", "print", "loop")
        /\ hand' = [hand EXCEPT !["logger"] = Blank]
    BY DEF LoggerPrint, Grab, making
  <1>2. /\ pc["logger"] = "print" /\ pc'["logger"] = "loop"
        /\ \A u \in Threads : u # "logger" => pc'[u] = pc[u]
    BY <1>1, Places, StepMoves, LabelsOf DEF IInv, TypeOK
  <1>3. hand'["sensor"] = hand["sensor"] /\ hand'["processor"] = hand["processor"]
    BY <1>1 DEF IInv, TypeOK, QueueOK, Workers
  <1>4. /\ InLogger = {hand["logger"]} /\ InLogger' = {}
        /\ InSensor' = InSensor /\ InProcessor' = InProcessor
    BY <1>2, <1>3, Places DEF InSensor, InProcessor, InLogger
  <1>5. \A q \in Queues : Items(q)' = Items(q)
    BY <1>1 DEF Items
  <1>6. Pipeline' \subseteq Pipeline
    BY <1>4, <1>5, Places DEF Pipeline
  <1>7. PlacesInOrder'
    BY <1>4, <1>5, Places, Lost DEF OrderInv, PlacesInOrder
  <1>8. QueuesInOrder'
    BY <1>1 DEF OrderInv, QueuesInOrder
  <1>9. IdsInRange'
    <2>1. \A s \in Pipeline' : hand["logger"].id < s.id
      BY <1>4, <1>5, Places DEF OrderInv, PlacesInOrder, InOrder, Ahead, Pipeline
    <2>2. hand["logger"].id <= made
      BY <1>4 DEF OrderInv, IdsInRange, Pipeline
    <2> QED BY <1>1, <1>6, <2>1, <2>2 DEF OrderInv, IdsInRange
  <1>10. logged' > logged
    <2>1. hand["logger"] \in Pipeline
      BY <1>4 DEF Pipeline
    <2>2. logged < hand["logger"].id /\ hand["logger"].id \in Nat /\ logged \in Nat
      BY <2>1, PlacesTyped DEF OrderInv, IdsInRange, Sample
    <2> QED BY <1>1, <2>2
  <1> QED BY <1>6, <1>7, <1>8, <1>9, <1>10 DEF OrderInv

\* prvMakeSensorSample: the new sample is behind all others.
LEMMA MakeKeepsOrder ==
    ASSUME IInv, OrderInv, prvMakeSensorSample
    PROVE  OrderInv' /\ Pipeline' \subseteq Pipeline \cup {hand'["sensor"]}
  <1>1. /\ made' = made + 1 /\ queue' = queue /\ logged' = logged
        /\ Step("sensor", "make", "push")
        /\ hand' = [hand EXCEPT !["sensor"] =
                       [id |-> made + 1, seq |-> reg, bad |-> fault_code]]
    BY DEF prvMakeSensorSample, Grab, output
  <1>2. /\ pc["sensor"] = "make" /\ pc'["sensor"] = "push"
        /\ \A u \in Threads : u # "sensor" => pc'[u] = pc[u]
    BY <1>1, Places, StepMoves, LabelsOf DEF IInv, TypeOK
  <1>3. /\ hand'["sensor"].id = made + 1
        /\ hand'["logger"] = hand["logger"] /\ hand'["processor"] = hand["processor"]
    BY <1>1 DEF IInv, TypeOK, QueueOK, Workers
  <1>4. /\ InSensor = {} /\ InSensor' = {hand'["sensor"]}
        /\ InLogger' = InLogger /\ InProcessor' = InProcessor
    BY <1>2, <1>3, Places DEF InSensor, InProcessor, InLogger
  <1>5. \A q \in Queues : Items(q)' = Items(q)
    BY <1>1 DEF Items
  <1>6. Pipeline' \subseteq Pipeline \cup {hand'["sensor"]}
    BY <1>4, <1>5, Places DEF Pipeline
  <1>7. /\ made \in Nat /\ logged \in Nat /\ logged <= made
        /\ \A s \in Pipeline : s.id \in Nat /\ s.id < made + 1
    BY PlacesTyped DEF OrderInv, IdsInRange, Sample
  <1>8. PlacesInOrder'
    BY <1>3, <1>4, <1>5, <1>7, Places, SensorMakes DEF OrderInv, PlacesInOrder, Pipeline
  <1>9. QueuesInOrder'
    BY <1>1 DEF OrderInv, QueuesInOrder
  <1>10. IdsInRange'
    BY <1>1, <1>3, <1>6, <1>7 DEF OrderInv, IdsInRange
  <1> QED BY <1>6, <1>8, <1>9, <1>10 DEF OrderInv

\* Every other step hands nothing on and prints nothing.
LEMMA OthersKeepOrder ==
    ASSUME IInv, BornInv, OrderInv,
           \/ \E t \in Workers : Loop(t)
           \/ \E t \in Producers : Update(t) \/ prvIncrementDrop(t)
           \/ \E t \in Poppers : Wait(t) \/ Timeout(t)
           \/ SensorMode \/ SensorNext \/ SensorLoad \/ SensorStore
           \/ Main \/ Command \/ Exited \/ UNCHANGED vars
    PROVE  /\ OrderInv' /\ Pipeline' \subseteq Pipeline
           /\ made' = made /\ printed' = printed
  <1>0. /\ pc = [t \in Threads |-> pc[t]] /\ hand \in [Workers -> Sample]
        /\ queue \in [Queues -> Seq(Sample)]
    BY DEF IInv, TypeOK, PcOK, QueueOK
  <1> DEFINE Still == /\ Kept("sensor", "push") /\ Kept("processor", "push")
                      /\ Kept("logger", "print")
                      /\ \A q \in Queues : queue'[q] = queue[q] \/ queue'[q] = <<>>
                      /\ made' = made /\ logged' = logged /\ printed' = printed
  <1>1. ASSUME NEW t \in Workers, Loop(t) PROVE Still
    <2>1. UNCHANGED <<hand, queue, made, logged, printed>>
      BY <1>1 DEF Loop, making, output
    <2>2. pc' = [pc EXCEPT ![t] = IF stop_requested THEN "done" ELSE Body[t]]
      BY <1>1 DEF Loop, Step
    <2>3. Body[t] \notin {"push", "print"}
      BY DEF Body, Workers
    <2> QED BY <1>0, <2>1, <2>2, <2>3, Places DEF Kept
  <1>2. ASSUME NEW t \in Producers, Update(t) \/ prvIncrementDrop(t) PROVE Still
    <2>1. /\ UNCHANGED <<queue, made, logged, printed>>
          /\ hand' = [hand EXCEPT ![t] = Blank]
          /\ \E a \in {"update", "drop"}, b \in {"loop", "next"} :
                pc' = [pc EXCEPT ![t] = b]
          /\ t \in {"sensor", "processor"}
      BY <1>2 DEF Update, prvIncrementDrop, Continue, EndRound, Grab, Step, making, output,
                  Producers
    <2> QED BY <1>0, <2>1, Places DEF Kept, Workers
  <1>3. ASSUME NEW t \in Poppers, Wait(t) \/ Timeout(t) PROVE Still
    <2>1. /\ UNCHANGED <<hand, queue, made, logged, printed>>
          /\ \E b \in {"wait", "loop"} : pc' = [pc EXCEPT ![t] = b]
      BY <1>3 DEF Wait, Timeout, Step, making, output
    <2> QED BY <1>0, <2>1, Places DEF Kept
  <1>4. ASSUME SensorMode \/ SensorNext \/ SensorLoad \/ SensorStore PROVE Still
    <2>1. /\ UNCHANGED <<hand, queue, made, logged, printed>>
          /\ \E b \in {"next", "load", "store", "make", "loop"} :
                pc' = [pc EXCEPT !["sensor"] = b]
      BY <1>4 DEF SensorMode, SensorNext, SensorLoad, SensorStore, EndRound, Step, making,
                  output
    <2> QED BY <1>0, <2>1, Places DEF Kept
  <1>5. ASSUME ecu_start PROVE Still
    <2>1. /\ UNCHANGED <<hand, queue, made, logged, printed>>
          /\ pc' = [t \in Threads |-> IF t = "main" THEN "cmd" ELSE "loop"]
      BY <1>5 DEF ecu_start, making, output
    <2> QED BY <2>1, Places DEF Kept
  <1>6. ASSUME NEW q \in Queues, NEW a, NEW b, queue_clear(q, a, b) PROVE Still
    <2>1. /\ UNCHANGED <<hand, made, logged, printed>>
          /\ pc' = [pc EXCEPT !["main"] = b] /\ queue' = [queue EXCEPT ![q] = <<>>]
      BY <1>6 DEF queue_clear, Step, making, output
    <2> QED BY <1>0, <2>1, Places DEF Kept
  <1>7. ASSUME \/ ecu_reset \/ ecu_stop \/ JoinAndDestroy
               \/ \E m \in FaultModes : ecu_set_fault(m)
        PROVE  Still
    <2>1. /\ UNCHANGED <<hand, queue, made, logged, printed>>
          /\ \E b : pc' = [pc EXCEPT !["main"] = b]
      BY <1>7 DEF ecu_reset, ecu_stop, JoinAndDestroy, ecu_set_fault, Step, making, output
    <2> QED BY <1>0, <2>1, Places DEF Kept
  <1>8. ASSUME Exited \/ UNCHANGED vars PROVE Still
    BY <1>8 DEF Exited, vars, making, output, Kept
  <1>9. Still
    <2>1. CASE Main
      BY <2>1, <1>5, <1>6, <1>7, Places DEF Main
    <2>2. CASE Command
      BY <2>2, <1>7 DEF Command
    <2> QED BY <1>1, <1>2, <1>3, <1>4, <1>8, <2>1, <2>2
  <1> QED BY <1>9, NothingMoves

\* The steps of a thread, sorted by what they do to the pipeline.
LEMMA StepsOfNext ==
    ASSUME [Next]_vars
    PROVE  \/ \E t \in Workers : Loop(t)
           \/ \E t \in Producers : Push(t) \/ Update(t) \/ prvIncrementDrop(t)
           \/ \E t \in Poppers : Pop(t) \/ Wait(t) \/ Timeout(t)
           \/ LoggerPrint
           \/ SensorMode \/ SensorNext \/ SensorLoad \/ SensorStore \/ prvMakeSensorSample
           \/ Main \/ Command \/ Exited \/ UNCHANGED vars
  BY DEF Next, Thread

\* A step keeps the order; what it leaves in the pipeline was there before, but
\* for the sample a sensor step makes; a step that prints prints a later id.
LEMMA NextOrder ==
    ASSUME IInv, BornInv, OrderInv, [Next]_vars
    PROVE  /\ OrderInv'
           /\ prvMakeSensorSample \/ (Pipeline' \subseteq Pipeline /\ made' = made)
           /\ printed' # printed => logged' > logged
  <1>1. CASE \E t \in Producers : Push(t)
    <2>1. made' = made /\ printed' = printed
      BY <1>1 DEF Push, making, output
    <2> QED BY <1>1, <2>1, PushKeepsOrder
  <1>2. CASE \E t \in Poppers : Pop(t)
    <2>1. made' = made /\ printed' = printed
      BY <1>2 DEF Pop, making, output
    <2> QED BY <1>2, <2>1, PopKeepsOrder
  <1>3. CASE LoggerPrint
    <2>1. made' = made
      BY <1>3 DEF LoggerPrint, making
    <2> QED BY <1>3, <2>1, PrintKeepsOrder
  <1>4. CASE prvMakeSensorSample
    <2>1. printed' = printed
      BY <1>4 DEF prvMakeSensorSample, output
    <2> QED BY <1>4, <2>1, MakeKeepsOrder
  <1> QED BY <1>1, <1>2, <1>3, <1>4, StepsOfNext, OthersKeepOrder

LEMMA InitOrder == ASSUME Init PROVE OrderInv /\ Pipeline = {}
  <1>1. /\ queue["sensor_queue"] = <<>> /\ queue["telemetry_queue"] = <<>>
        /\ pc["sensor"] = "unborn" /\ pc["processor"] = "unborn" /\ pc["logger"] = "unborn"
        /\ made = 0 /\ logged = 0
    BY Places DEF Init
  <1>2. InSensor = {} /\ InProcessor = {} /\ InLogger = {}
    BY <1>1 DEF InSensor, InProcessor, InLogger
  <1>3. Items("sensor_queue") = {} /\ Items("telemetry_queue") = {}
    BY <1>1 DEF Items
  <1> QED BY <1>1, <1>2, <1>3
          DEF OrderInv, QueuesInOrder, PlacesInOrder, IdsInRange, InOrder, Ahead, Increasing,
              Pipeline

LEMMA SpecOrderInv == Spec => [](IInv /\ BornInv /\ OrderInv)
  <1>1. Init => OrderInv
    BY InitOrder
  <1>2. IInv /\ BornInv /\ OrderInv /\ [Next]_vars => OrderInv'
    BY NextOrder
  <1> QED BY <1>1, <1>2, SpecIInv, PTL DEF Spec

\* Frames are printed in the order prvSensorThread made their samples, each at
\* most once, whatever the capacity, through drops, resets and the stop.
THEOREM PrintsInOrder == Spec => PrintedInOrder
  <1>1. IInv /\ BornInv /\ OrderInv /\ [Next]_vars => [printed' # printed => logged' > logged]_vars
    BY NextOrder
  <1> QED BY <1>1, SpecOrderInv, PTL DEF Spec, PrintedInOrder

-----------------------------------------------------------------------------
(* Sequence numbers and fault flags.                                       *)

\* The number the next sample will carry, unless a reset comes first.
NextNumber == IF pc["sensor"] = "store" THEN reg + 1
              ELSE IF pc["sensor"] = "make" THEN reg
              ELSE sensor_sequence + 1

\* Counted back from the next sample, numbers and ids agree.  A reset that comes
\* between the sensor's read and its use of the number spoils one sample, which
\* is the first after resetAt.
NumberInv ==
    /\ resetAt \in Nat /\ resetAt <= made
    /\ pc["sensor"] = "make" /\ resetAt < made => sensor_sequence = reg
    /\ \A s \in Pipeline : resetAt + 1 < s.id => NextNumber - s.seq = made + 1 - s.id

\* Samples made since the latest fault command carry its flag.
FlagInv ==
    /\ faultAt <= made
    /\ \A s \in Pipeline : s.id > faultAt => s.bad = (fault_mode = "sensor")

\* Which steps touch what the two speak of.
Numbering == <<pc["sensor"], reg, sensor_sequence, resetAt>>

LEMMA NumberingSteps ==
    ASSUME IInv, BornInv, [Next]_vars
    PROVE  \/ SensorLoad \/ SensorStore \/ prvMakeSensorSample \/ ecu_reset
           \/ /\ NextNumber' = NextNumber /\ resetAt' = resetAt
              /\ pc'["sensor"] # "make"
           \/ UNCHANGED Numbering
  <1>0. pc = [t \in Threads |-> pc[t]] /\ "sensor" \in Threads
    BY Places DEF IInv, TypeOK, PcOK
  <1>1. CASE \E t \in Workers : Loop(t)
    <2>1. PICK t \in Workers : Loop(t)
      BY <1>1
    <2>2. /\ UNCHANGED <<reg, sensor_sequence, resetAt>>
          /\ pc' = [pc EXCEPT ![t] = IF stop_requested THEN "done" ELSE Body[t]]
          /\ pc[t] = "loop"
      BY <2>1 DEF Loop, Step, commands, round, making
    <2>3. Body["sensor"] = "mode"
      BY DEF Body
    <2>4. CASE t = "sensor"
      BY <1>0, <2>2, <2>3, <2>4 DEF NextNumber
    <2>5. CASE t # "sensor"
      BY <1>0, <2>2, <2>5 DEF Numbering
    <2> QED BY <2>4, <2>5
  <1>2. CASE \E t \in Producers : Push(t) \/ Update(t) \/ prvIncrementDrop(t)
    <2>1. PICK t \in Producers : Push(t) \/ Update(t) \/ prvIncrementDrop(t)
      BY <1>2
    <2>2. /\ UNCHANGED <<reg, sensor_sequence, resetAt>>
          /\ pc[t] \in {"push", "update", "drop"}
          /\ \E b \in {"update", "drop", "loop", "next"} : pc' = [pc EXCEPT ![t] = b]
      BY <2>1 DEF Push, Update, prvIncrementDrop, Continue, EndRound, Step, commands, round,
                  making
    <2>4. CASE t = "sensor"
      BY <1>0, <2>2, <2>4 DEF NextNumber
    <2>5. CASE t # "sensor"
      BY <1>0, <2>2, <2>5 DEF Numbering
    <2> QED BY <2>4, <2>5
  <1>3. CASE \/ \E t \in Poppers : Pop(t) \/ Wait(t) \/ Timeout(t)
             \/ LoggerPrint
    <2>1. /\ UNCHANGED <<reg, sensor_sequence, resetAt>>
          /\ \E t \in {"processor", "logger"} : \E b : pc' = [pc EXCEPT ![t] = b]
      BY <1>3 DEF Pop, Wait, Timeout, LoggerPrint, Step, Poppers, commands, round, making
    <2> QED BY <1>0, <2>1 DEF Numbering
  <1>4. CASE SensorMode \/ SensorNext
    <2>1. /\ UNCHANGED <<reg, sensor_sequence, resetAt>>
          /\ pc["sensor"] \in {"mode", "next"}
          /\ \E b \in {"next", "load", "loop"} : pc' = [pc EXCEPT !["sensor"] = b]
      BY <1>4 DEF SensorMode, SensorNext, EndRound, Step, commands, making
    <2> QED BY <1>0, <2>1 DEF NextNumber
  <1>5. CASE ecu_start
    <2>1. UNCHANGED <<reg, sensor_sequence, resetAt>> /\ pc'["sensor"] = "loop"
          /\ pc["main"] = "start"
      BY <1>5, Places DEF ecu_start, commands, round, making
    <2>2. pc["sensor"] = "unborn"
      BY <2>1 DEF BornInv, Workers
    <2> QED BY <2>1, <2>2 DEF NextNumber
  <1>6. ASSUME NEW q, NEW a, NEW b, queue_clear(q, a, b) PROVE UNCHANGED Numbering
    <2>1. /\ UNCHANGED <<reg, sensor_sequence, resetAt>>
          /\ pc' = [pc EXCEPT !["main"] = b]
      BY <1>6 DEF queue_clear, Step, commands, round, making
    <2> QED BY <1>0, <2>1 DEF Numbering
  <1>7. ASSUME ecu_stop \/ JoinAndDestroy \/ \E m \in FaultModes : ecu_set_fault(m)
        PROVE  UNCHANGED Numbering
    <2>1. /\ UNCHANGED <<reg, sensor_sequence, resetAt>>
          /\ \E b : pc' = [pc EXCEPT !["main"] = b]
      BY <1>7 DEF ecu_stop, JoinAndDestroy, ecu_set_fault, Step, commands, round, making
    <2> QED BY <1>0, <2>1 DEF Numbering
  <1>8. CASE Exited \/ UNCHANGED vars
    BY <1>8 DEF Exited, vars, commands, round, making, Numbering
  <1>9. CASE Main
    BY <1>5, <1>6, <1>7, <1>9 DEF Main
  <1>10. CASE Command
    BY <1>7, <1>10 DEF Command
  <1> QED BY <1>1, <1>2, <1>3, <1>4, <1>8, <1>9, <1>10, StepsOfNext

LEMMA NextNumberInv ==
    ASSUME IInv, BornInv, OrderInv, NumberInv, [Next]_vars
    PROVE  NumberInv'
  <1>0. /\ made \in Nat /\ reg \in Nat /\ sensor_sequence \in Nat
        /\ \A s \in Pipeline : s.id \in Nat /\ s.seq \in Nat /\ s.id <= made
        /\ pc = [t \in Threads |-> pc[t]] /\ "sensor" \in Threads
    BY PlacesTyped, Places
       DEF IInv, TypeOK, PcOK, PlainOK, Sample, OrderInv, IdsInRange
  <1>1. CASE prvMakeSensorSample
    <2>1. /\ made' = made + 1 /\ resetAt' = resetAt /\ sensor_sequence' = sensor_sequence
          /\ pc["sensor"] = "make" /\ pc'["sensor"] = "push"
          /\ hand'["sensor"].id = made + 1 /\ hand'["sensor"].seq = reg
      BY <1>0, <1>1 DEF prvMakeSensorSample, Step, Grab, commands, IInv, TypeOK, QueueOK,
                        Workers
    <2>2. NextNumber = reg /\ NextNumber' = sensor_sequence + 1
      BY <2>1 DEF NextNumber
    <2>3. Pipeline' \subseteq Pipeline \cup {hand'["sensor"]}
      BY <1>1, MakeKeepsOrder
    <2>4. ASSUME NEW s \in Pipeline', resetAt + 1 < s.id
          PROVE  NextNumber' - s.seq = made' + 1 - s.id
      <3>1. CASE s \in Pipeline
        BY <1>0, <2>1, <2>2, <2>4, <3>1 DEF NumberInv
      <3>2. CASE s = hand'["sensor"]
        BY <1>0, <2>1, <2>2, <2>4, <3>2 DEF NumberInv
      <3> QED BY <2>3, <3>1, <3>2
    <2> QED BY <1>0, <2>1, <2>4 DEF NumberInv
  <1>2. CASE ~prvMakeSensorSample
    <2>1. made' = made /\ Pipeline' \subseteq Pipeline
      BY <1>2, NextOrder
    <2>2. CASE ecu_reset
      <3>1. resetAt' = made
        BY <2>2 DEF ecu_reset
      <3>2. \A s \in Pipeline' : ~(resetAt' + 1 < s.id)
        BY <1>0, <2>1, <3>1
      <3> QED BY <1>0, <2>1, <3>1, <3>2 DEF NumberInv
    <2>3. CASE SensorLoad
      <3>1. /\ pc["sensor"] = "load" /\ pc'["sensor"] = "store"
            /\ reg' = sensor_sequence /\ resetAt' = resetAt
        BY <1>0, <2>3 DEF SensorLoad, Step, commands, making
      <3>2. NextNumber' = NextNumber /\ pc'["sensor"] # "make"
        BY <3>1 DEF NextNumber
      <3> QED BY <2>1, <3>1, <3>2 DEF NumberInv
    <2>4. CASE SensorStore
      <3>1. /\ pc["sensor"] = "store" /\ pc'["sensor"] = "make"
            /\ reg' = reg + 1 /\ sensor_sequence' = reg + 1 /\ resetAt' = resetAt
        BY <1>0, <2>4 DEF SensorStore, Stored, Step, commands
      <3>2. NextNumber' = NextNumber /\ sensor_sequence' = reg'
        BY <3>1 DEF NextNumber
      <3> QED BY <2>1, <3>1, <3>2 DEF NumberInv
    <2>5. CASE NextNumber' = NextNumber /\ resetAt' = resetAt /\ pc'["sensor"] # "make"
      BY <2>1, <2>5 DEF NumberInv
    <2>6. CASE UNCHANGED Numbering
      <3>1. NextNumber' = NextNumber
        BY <2>6 DEF Numbering, NextNumber
      <3> QED BY <2>1, <2>6, <3>1 DEF NumberInv, Numbering
    <2> QED BY <1>2, <2>2, <2>3, <2>4, <2>5, <2>6, NumberingSteps
  <1> QED BY <1>1, <1>2

LEMMA NextFlagInv ==
    ASSUME IInv, BornInv, OrderInv, FlagInv, [Next]_vars
    PROVE  FlagInv'
  <1>0. /\ made \in Nat /\ faultAt \in Nat
        /\ \A s \in Pipeline : s.id \in Nat /\ s.id <= made
    BY PlacesTyped DEF IInv, TypeOK, PlainOK, Sample, OrderInv, IdsInRange
  <1>1. CASE prvMakeSensorSample
    <2>1. /\ made' = made + 1 /\ faultAt' = faultAt /\ fault_mode' = fault_mode
          /\ hand'["sensor"].bad = (fault_mode = "sensor")
      BY <1>1 DEF prvMakeSensorSample, fault_code, Grab, commands, IInv, TypeOK, QueueOK,
                  Workers
    <2>2. Pipeline' \subseteq Pipeline \cup {hand'["sensor"]}
      BY <1>1, MakeKeepsOrder
    <2> QED BY <1>0, <2>1, <2>2 DEF FlagInv
  <1>2. ASSUME NEW m \in FaultModes, ecu_set_fault(m) PROVE FlagInv'
    <2>1. faultAt' = made /\ made' = made /\ Pipeline' \subseteq Pipeline
      <3>1. /\ faultAt' = made /\ \E b : pc' = [pc EXCEPT !["main"] = b]
        BY <1>2 DEF ecu_set_fault, Step
      <3>2. Command
        BY <1>2 DEF Command
      <3> QED BY <3>1, <3>2, OthersKeepOrder
    <2> QED BY <1>0, <2>1 DEF FlagInv
  <1>3. CASE ~prvMakeSensorSample /\ ~\E m \in FaultModes : ecu_set_fault(m)
    <2>1. made' = made /\ Pipeline' \subseteq Pipeline
      BY <1>3, NextOrder
    <2>2. faultAt' = faultAt /\ fault_mode' = fault_mode
      BY <1>3, StepsOfNext
         DEF Loop, Push, Update, prvIncrementDrop, Continue, Pop, Wait, Timeout, LoggerPrint,
             SensorMode, SensorNext, SensorLoad, SensorStore, Main, ecu_start, queue_clear,
             JoinAndDestroy, Command, ecu_reset, ecu_stop, Exited, vars, commands
    <2> QED BY <2>1, <2>2 DEF FlagInv
  <1> QED BY <1>1, <1>2, <1>3

LEMMA SpecNumberInv == Spec => [](IInv /\ OrderInv /\ NumberInv /\ FlagInv)
  <1>1. Init => NumberInv /\ FlagInv
    <2> SUFFICES ASSUME Init PROVE NumberInv /\ FlagInv
      OBVIOUS
    <2>1. Pipeline = {} /\ made = 0 /\ resetAt = 0 /\ faultAt = 0
      BY InitOrder DEF Init
    <2>2. pc["sensor"] = "unborn"
      BY Places DEF Init
    <2> QED BY <2>1, <2>2 DEF NumberInv, FlagInv
  <1>2. IInv /\ BornInv /\ OrderInv /\ NumberInv /\ FlagInv /\ [Next]_vars
           => NumberInv' /\ FlagInv'
    BY NextNumberInv, NextFlagInv
  <1> QED BY <1>1, <1>2, SpecOrderInv, PTL DEF Spec

\* Between two samples on their way the sequence numbers differ by the number
\* of samples made between them, so drops show as gaps, although prvSensorThread
\* increments sensor_sequence without a lock and a reset zeroes it meanwhile; one
\* sample after a reset is exempt.
THEOREM NumbersAreDense == Spec => []SequencesDense
  <1>1. ASSUME IInv, OrderInv, NumberInv PROVE SequencesDense
    <2>1. /\ InFlight = Pipeline /\ made \in Nat /\ resetAt \in Nat
          /\ reg \in Nat /\ sensor_sequence \in Nat
          /\ \A s \in Pipeline : s.id \in Nat /\ s.seq \in Nat
      BY <1>1, InFlightIs, PlacesTyped DEF Sample, IInv, TypeOK, PlainOK
    <2>2. NextNumber \in Nat
      BY <2>1 DEF NextNumber
    <2>3. SUFFICES ASSUME NEW s \in Pipeline, NEW t \in Pipeline,
                          resetAt + 1 < s.id, s.id < t.id
                   PROVE  t.seq - s.seq = t.id - s.id
      BY <2>1 DEF SequencesDense
    <2>4. resetAt + 1 < t.id
      BY <2>1, <2>3
    <2>5. /\ NextNumber - s.seq = made + 1 - s.id
          /\ NextNumber - t.seq = made + 1 - t.id
      BY <1>1, <2>3, <2>4 DEF NumberInv
    <2> QED BY <2>1, <2>2, <2>5
  <1> QED BY <1>1, SpecNumberInv, PTL

\* A sample made after a fault command returned carries the new fault, even one
\* made in the middle of a burst that began under the former mode.
THEOREM FlagsAreCurrent == Spec => []FlagsFollowFault
  <1>1. IInv /\ FlagInv => FlagsFollowFault
    BY InFlightIs DEF FlagInv, FlagsFollowFault
  <1> QED BY <1>1, SpecNumberInv, PTL

-----------------------------------------------------------------------------
(* What a stop leaves behind.                                              *)

\* Where a thread will still push one item without looking at stop_requested.
SensorCommitted ==
    IF pc["sensor"] \in {"mode", "load", "store", "make", "push"} THEN 1 ELSE 0
ProcessorCommitted == IF pc["processor"] \in {"pop", "wait", "push"} THEN 1 ELSE 0

Stopping        == {"stop_sensor", "stop_telemetry", "join", "exited"}
SensorFlushed   == {"stop_telemetry", "join", "exited"}
TelemetryFlushed == {"join", "exited"}

\* Once ecu_stop has cleared a queue, at most the item its producer was already
\* committed to comes after.
StopInv ==
    /\ pc["main"] \in Stopping => stop_requested
    /\ pc["main"] \in SensorFlushed => Len(queue["sensor_queue"]) + SensorCommitted <= 1
    /\ pc["main"] \in TelemetryFlushed
          => Len(queue["telemetry_queue"]) + ProcessorCommitted <= 1

\* A step that commits nobody, lengthens no queue and leaves the main thread and
\* the stop alone.
LEMMA NobodyCommits ==
    ASSUME IInv, StopInv, pc'["main"] = pc["main"], stop_requested' = stop_requested,
           stop_requested =>
              /\ Len(queue'["sensor_queue"]) + SensorCommitted'
                    <= Len(queue["sensor_queue"]) + SensorCommitted
              /\ Len(queue'["telemetry_queue"]) + ProcessorCommitted'
                    <= Len(queue["telemetry_queue"]) + ProcessorCommitted,
           /\ Len(queue'["sensor_queue"]) \in Nat /\ Len(queue'["telemetry_queue"]) \in Nat
    PROVE  StopInv'
  <1>1. /\ Len(queue["sensor_queue"]) \in Nat /\ Len(queue["telemetry_queue"]) \in Nat
    BY Places DEF IInv, TypeOK, QueueOK
  <1>2. /\ SensorCommitted \in 0..1 /\ SensorCommitted' \in 0..1
        /\ ProcessorCommitted \in 0..1 /\ ProcessorCommitted' \in 0..1
    BY DEF SensorCommitted, ProcessorCommitted
  <1>3. pc["main"] \in SensorFlushed \/ pc["main"] \in TelemetryFlushed => stop_requested
    BY DEF StopInv, SensorFlushed, TelemetryFlushed, Stopping
  <1> QED BY <1>1, <1>2, <1>3 DEF StopInv

LEMMA NextStopInv == ASSUME IInv, BornInv, StopInv, [Next]_vars PROVE StopInv'
  <1>0. /\ pc = [t \in Threads |-> pc[t]] /\ "main" \in Threads
        /\ \A t \in Workers : t # "main" /\ t \in Threads
        /\ queue \in [Queues -> Seq(Sample)] /\ hand \in [Workers -> Sample]
        /\ \A q \in Queues : Len(queue[q]) \in Nat
    BY DEF IInv, TypeOK, PcOK, QueueOK, Threads, Workers
  <1>1. CASE \/ \E t \in Workers : Loop(t)
             \/ \E t \in Producers : Update(t) \/ prvIncrementDrop(t)
             \/ \E t \in Poppers : Wait(t) \/ Timeout(t)
             \/ SensorMode \/ SensorNext \/ SensorLoad \/ SensorStore
             \/ LoggerPrint \/ prvMakeSensorSample
    <2>1. queue' = queue /\ stop_requested' = stop_requested
      BY <1>1 DEF Loop, Update, prvIncrementDrop, Continue, EndRound, Wait, Timeout,
                  SensorMode, SensorNext, SensorLoad, SensorStore, LoggerPrint,
                  prvMakeSensorSample, commands
    <2>2. /\ pc'["main"] = pc["main"]
          /\ stop_requested => /\ SensorCommitted' <= SensorCommitted
                               /\ ProcessorCommitted' <= ProcessorCommitted
      <3>1. ASSUME NEW t \in Workers, Loop(t)
            PROVE  pc' = [pc EXCEPT ![t] = IF stop_requested THEN "done" ELSE Body[t]]
        BY <3>1 DEF Loop, Step
      <3>2. ASSUME NEW t \in Producers, Update(t) \/ prvIncrementDrop(t)
            PROVE  \E b \in {"loop", "next"} : pc' = [pc EXCEPT ![t] = b]
        BY <3>2 DEF Update, prvIncrementDrop, Continue, EndRound, Step
      <3>3. ASSUME NEW t \in Poppers, Wait(t) \/ Timeout(t)
            PROVE  /\ pc[t] \in {"pop", "wait"}
                   /\ \E b \in {"wait", "loop"} : pc' = [pc EXCEPT ![t] = b]
        BY <3>3 DEF Wait, Timeout, Step
      <3>4. ASSUME SensorNext
            PROVE  \E b \in {"load", "loop"} :
                      pc' = [pc EXCEPT !["sensor"] = b] /\ (stop_requested => b = "loop")
        BY <3>4 DEF SensorNext, BurstGoesOn, EndRound, Step
      <3>5. ASSUME SensorMode \/ SensorLoad \/ SensorStore \/ prvMakeSensorSample
            PROVE  /\ pc["sensor"] \in {"mode", "load", "store", "make"}
                   /\ \E b : pc' = [pc EXCEPT !["sensor"] = b]
        BY <3>5 DEF SensorMode, SensorLoad, SensorStore, prvMakeSensorSample, Step
      <3>6. ASSUME LoggerPrint PROVE pc' = [pc EXCEPT !["logger"] = "loop"]
        BY <3>6 DEF LoggerPrint, Step
      <3>7. "sensor" \in Workers /\ "processor" \in Workers /\ "logger" \in Workers
            /\ Producers = {"sensor", "processor"} /\ Poppers = {"processor", "logger"}
        BY DEF Workers, Producers, Poppers
      <3> QED BY <1>0, <1>1, <3>1, <3>2, <3>3, <3>4, <3>5, <3>6, <3>7
              DEF SensorCommitted, ProcessorCommitted
    <2> QED BY <1>0, <2>1, <2>2, NobodyCommits, Places DEF SensorCommitted, ProcessorCommitted
  <1>2. ASSUME NEW t \in Producers, Push(t) PROVE StopInv'
    <2>1. /\ t \in {"sensor", "processor"} /\ t \in Workers /\ stop_requested' = stop_requested
          /\ hand' = hand /\ pc[t] = "push" /\ Into[t] \in Queues
      BY <1>2, Places DEF Push, Step, Producers, Workers, commands
    <2>2. /\ pc'["main"] = pc["main"] /\ pc'[t] \in {"update", "drop"}
          /\ \A u \in Threads : u # t => pc'[u] = pc[u]
      BY <1>0, <1>2, <2>1 DEF Push, Step
    <2>3. /\ Len(queue'[Into[t]]) \in Nat /\ Len(queue'[Into[t]]) <= Len(queue[Into[t]]) + 1
          /\ \A r \in Queues : r # Into[t] => queue'[r] = queue[r]
      <3>1. CASE Room(Into[t])
        <4>1. hand[t] \in Sample /\ queue' = [queue EXCEPT ![Into[t]] = Append(@, hand[t])]
          BY <1>0, <1>2, <2>1, <3>1 DEF Push
        <4> QED BY <1>0, <2>1, <3>1, <4>1, AppendOK DEF IInv, TypeOK
      <3>2. CASE ~Room(Into[t])
        BY <1>0, <1>2, <2>1, <3>2 DEF Push
      <3> QED BY <3>1, <3>2
    <2>4. CASE t = "sensor"
      <3>1. SensorCommitted = 1 /\ SensorCommitted' = 0
            /\ ProcessorCommitted' = ProcessorCommitted
        BY <2>1, <2>2, <2>4, Places DEF SensorCommitted, ProcessorCommitted
      <3>2. /\ Len(queue'["sensor_queue"]) \in Nat
            /\ Len(queue'["sensor_queue"]) <= Len(queue["sensor_queue"]) + 1
            /\ queue'["telemetry_queue"] = queue["telemetry_queue"]
        BY <2>3, <2>4, Places
      <3>3. /\ Len(queue["sensor_queue"]) \in Nat /\ Len(queue["telemetry_queue"]) \in Nat
            /\ ProcessorCommitted \in Nat
        BY <1>0, Places DEF ProcessorCommitted
      <3> QED BY <2>1, <2>2, <3>1, <3>2, <3>3, NobodyCommits
    <2>5. CASE t = "processor"
      <3>1. ProcessorCommitted = 1 /\ ProcessorCommitted' = 0
            /\ SensorCommitted' = SensorCommitted
        BY <2>1, <2>2, <2>5, Places DEF SensorCommitted, ProcessorCommitted
      <3>2. /\ Len(queue'["telemetry_queue"]) \in Nat
            /\ Len(queue'["telemetry_queue"]) <= Len(queue["telemetry_queue"]) + 1
            /\ queue'["sensor_queue"] = queue["sensor_queue"]
        BY <2>3, <2>5, Places
      <3>3. /\ Len(queue["sensor_queue"]) \in Nat /\ Len(queue["telemetry_queue"]) \in Nat
            /\ SensorCommitted \in Nat
        BY <1>0, Places DEF SensorCommitted
      <3> QED BY <2>1, <2>2, <3>1, <3>2, <3>3, NobodyCommits
    <2> QED BY <2>1, <2>4, <2>5
  <1>3. ASSUME NEW t \in Poppers, Pop(t) PROVE StopInv'
    <2>1. /\ t \in {"processor", "logger"} /\ t \in Workers /\ stop_requested' = stop_requested
          /\ pc[t] \in {"pop", "wait"} /\ From[t] \in Queues /\ queue[From[t]] # <<>>
          /\ queue' = [queue EXCEPT ![From[t]] = Tail(@)]
          /\ hand' = [hand EXCEPT ![t] = Head(queue[From[t]])]
      BY <1>3, Places DEF Pop, Grab, Oldest, Poppers, Workers, commands
    <2>2. /\ pc'["main"] = pc["main"]
          /\ \A u \in Threads : u # t => pc'[u] = pc[u]
      BY <1>0, <1>3, <2>1 DEF Pop, Step
    <2>3. /\ \A r \in Queues : Len(queue'[r]) \in Nat /\ Len(queue'[r]) <= Len(queue[r])
      BY <1>0, <2>1, TailOK DEF IInv, TypeOK, QueueOK
    <2>4. /\ SensorCommitted' = SensorCommitted /\ ProcessorCommitted' <= ProcessorCommitted
      BY <2>1, <2>2, Places DEF SensorCommitted, ProcessorCommitted
    <2>5. /\ Len(queue["sensor_queue"]) \in Nat /\ Len(queue["telemetry_queue"]) \in Nat
          /\ Len(queue'["sensor_queue"]) \in Nat /\ Len(queue'["telemetry_queue"]) \in Nat
          /\ Len(queue'["sensor_queue"]) <= Len(queue["sensor_queue"])
          /\ Len(queue'["telemetry_queue"]) <= Len(queue["telemetry_queue"])
      BY <1>0, <2>3, Places
    <2>6. /\ SensorCommitted \in Nat
          /\ ProcessorCommitted \in Nat /\ ProcessorCommitted' \in Nat
      BY DEF SensorCommitted, ProcessorCommitted
    <2> QED BY <2>1, <2>2, <2>4, <2>5, <2>6, NobodyCommits
  <1>4. CASE ecu_start \/ ecu_reset \/ ecu_stop \/ JoinAndDestroy
             \/ (\E m \in FaultModes : ecu_set_fault(m))
    <2>1. /\ queue' = queue
          /\ pc'["main"] \in {"cmd", "reset_sensor"} \/ ecu_stop \/ JoinAndDestroy
      BY <1>0, <1>4 DEF ecu_start, ecu_reset, ecu_stop, JoinAndDestroy, ecu_set_fault, Step
    <2>2. CASE pc'["main"] \in {"cmd", "reset_sensor"}
      BY <2>2 DEF StopInv, Stopping, SensorFlushed, TelemetryFlushed
    <2>3. CASE ecu_stop
      <3>1. pc'["main"] = "stop_sensor" /\ stop_requested' = TRUE
        BY <1>0, <2>3 DEF ecu_stop, Step
      <3> QED BY <3>1 DEF StopInv, Stopping, SensorFlushed, TelemetryFlushed
    <2>4. CASE JoinAndDestroy
      <3>1. /\ pc["main"] = "join" /\ pc' = [pc EXCEPT !["main"] = "exited"]
            /\ stop_requested' = stop_requested
        BY <2>4 DEF JoinAndDestroy, Step, commands
      <3>2. SensorCommitted' = SensorCommitted /\ ProcessorCommitted' = ProcessorCommitted
        BY <1>0, <3>1 DEF SensorCommitted, ProcessorCommitted
      <3> QED BY <1>0, <2>1, <3>1, <3>2
              DEF StopInv, Stopping, SensorFlushed, TelemetryFlushed
    <2> QED BY <2>1, <2>2, <2>3, <2>4
  <1>5. ASSUME NEW q \in Queues, NEW a, NEW b, queue_clear(q, a, b)
        PROVE  /\ pc["main"] = a /\ pc'["main"] = b /\ stop_requested' = stop_requested
               /\ Len(queue'[q]) = 0 /\ \A r \in Queues : r # q => queue'[r] = queue[r]
               /\ SensorCommitted' = SensorCommitted
               /\ ProcessorCommitted' = ProcessorCommitted
    <2>1. /\ pc["main"] = a /\ pc' = [pc EXCEPT !["main"] = b]
          /\ queue' = [queue EXCEPT ![q] = <<>>] /\ stop_requested' = stop_requested
      BY <1>5 DEF queue_clear, Step, commands
    <2> QED BY <1>0, <2>1 DEF SensorCommitted, ProcessorCommitted
  <1>6. CASE Main
    <2>0. SensorCommitted <= 1 /\ ProcessorCommitted <= 1
          /\ SensorCommitted \in Nat /\ ProcessorCommitted \in Nat
      BY DEF SensorCommitted, ProcessorCommitted
    <2>1. CASE queue_clear("sensor_queue", "reset_sensor", "reset_telemetry")
      BY <1>5, <2>1, Places DEF StopInv, Stopping, SensorFlushed, TelemetryFlushed
    <2>2. CASE queue_clear("telemetry_queue", "reset_telemetry", "cmd")
      BY <1>5, <2>2, Places DEF StopInv, Stopping, SensorFlushed, TelemetryFlushed
    <2>3. CASE queue_clear("sensor_queue", "stop_sensor", "stop_telemetry")
      BY <1>5, <2>0, <2>3, Places DEF StopInv, Stopping, SensorFlushed, TelemetryFlushed
    <2>4. CASE queue_clear("telemetry_queue", "stop_telemetry", "join")
      BY <1>5, <2>0, <2>4, Places DEF StopInv, Stopping, SensorFlushed, TelemetryFlushed
    <2> QED BY <1>4, <1>6, <2>1, <2>2, <2>3, <2>4 DEF Main
  <1>7. CASE Exited \/ UNCHANGED vars
    BY <1>7 DEF Exited, vars, commands, StopInv, SensorCommitted, ProcessorCommitted
  <1> QED BY <1>1, <1>2, <1>3, <1>4, <1>6, <1>7, StepsOfNext DEF Command

\* When ecu_destroy frees the queues each holds at most the one item that its
\* producer was committed to when stop_requested was set.
THEOREM StopsPromptly == Spec => []StopIsPrompt
  <1>1. Init => StopInv
    <2> SUFFICES ASSUME Init PROVE StopInv
      OBVIOUS
    <2>1. pc["main"] = "start"
      BY DEF Init, Threads
    <2> QED BY <2>1 DEF StopInv, Stopping, SensorFlushed, TelemetryFlushed
  <1>2. IInv /\ BornInv /\ StopInv /\ [Next]_vars => StopInv'
    BY NextStopInv
  <1>3. ASSUME IInv, StopInv PROVE StopIsPrompt
    <2>1. /\ SensorCommitted \in Nat /\ ProcessorCommitted \in Nat
          /\ \A q \in Queues : Len(queue[q]) \in Nat
      BY <1>3 DEF SensorCommitted, ProcessorCommitted, IInv, TypeOK, QueueOK
    <2>2. pc["main"] = "exited"
             => Len(queue["sensor_queue"]) <= 1 /\ Len(queue["telemetry_queue"]) <= 1
      BY <1>3, <2>1, Places DEF StopInv, SensorFlushed, TelemetryFlushed
    <2> QED BY <2>2 DEF StopIsPrompt, Queues
  <1> QED BY <1>1, <1>2, <1>3, SpecIInv, PTL DEF Spec

=============================================================================
