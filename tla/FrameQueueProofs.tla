-------------------------- MODULE FrameQueueProofs --------------------------
(***************************************************************************)
(* Lemmas about the ring of FrameQueue, for every number of slots.         *)
(***************************************************************************)
EXTENDS FrameQueue, TLAPS

\* The index arithmetic of queue_put and queue_take wraps at the last slot.
LEMMA SuccWraps ==
  ASSUME NEW k \in Slots
  PROVE  /\ Succ(k) = IF k = QCount - 1 THEN 0 ELSE k + 1
         /\ Succ(k) \in Slots
<1>1. CASE k = QCount - 1
  BY <1>1, QCountAssumption DEF Slots, Succ
<1>2. CASE k # QCount - 1
  BY <1>2, QCountAssumption DEF Slots, Succ
<1> QED
  BY <1>1, <1>2

(***************************************************************************)
(* queue_init yields an empty ring; a ring never holds more than QCount-1  *)
(* frames; queue_put reports NULL exactly when it holds that many, and     *)
(* queue_take exactly when it holds none.                                  *)
(***************************************************************************)
LEMMA QueueLenFacts ==
  ASSUME NEW q \in Queue
  PROVE  /\ QueueLen(q) \in 0 .. QCount - 1
         /\ IsFull(q) <=> QueueLen(q) = QCount - 1
         /\ IsEmpty(q) <=> QueueLen(q) = 0
<1>1. q.head \in Slots /\ q.tail \in Slots
  BY DEF Queue
<1>2. Succ(q.tail) = IF q.tail = QCount - 1 THEN 0 ELSE q.tail + 1
  BY <1>1, SuccWraps
<1> QED
  BY <1>1, <1>2, QCountAssumption DEF Slots, QueueLen, IsFull, IsEmpty

(***************************************************************************)
(* queue_put on a ring that is not full adds one frame behind the others:  *)
(* the slot it hands out is none of those in use, and they stay in place.  *)
(***************************************************************************)
LEMMA QueuePutFacts ==
  ASSUME NEW q \in Queue, ~ IsFull(q)
  PROVE  /\ QueuePut(q) \in Queue
         /\ QueueLen(QueuePut(q)) = QueueLen(q) + 1
         /\ SlotAt(QueuePut(q), QueueLen(q)) = q.tail
         /\ \A k \in 0 .. QueueLen(q) - 1 :
              /\ SlotAt(q, k) \in Slots
              /\ SlotAt(q, k) # q.tail
              /\ SlotAt(QueuePut(q), k) = SlotAt(q, k)
<1>1. q.head \in Slots /\ q.tail \in Slots
  BY DEF Queue
<1>2. /\ Succ(q.tail) = IF q.tail = QCount - 1 THEN 0 ELSE q.tail + 1
      /\ Succ(q.tail) \in Slots
  BY <1>1, SuccWraps
<1>3. /\ QueuePut(q) \in Queue
      /\ QueuePut(q).head = q.head
      /\ QueuePut(q).tail = Succ(q.tail)
  BY <1>1, <1>2 DEF Queue, QueuePut
<1> QED
  BY <1>1, <1>2, <1>3, QCountAssumption DEF Slots, QueueLen, SlotAt, IsFull

(***************************************************************************)
(* queue_take on a ring that is not empty removes the first frame, the one *)
(* queue_peek shows, and moves every other one forward by one.             *)
(***************************************************************************)
LEMMA QueueTakeFacts ==
  ASSUME NEW q \in Queue, ~ IsEmpty(q)
  PROVE  /\ QueueTake(q) \in Queue
         /\ QueueLen(QueueTake(q)) = QueueLen(q) - 1
         /\ SlotAt(q, 0) = q.head
         /\ \A k \in 0 .. QueueLen(q) - 2 : SlotAt(QueueTake(q), k) = SlotAt(q, k + 1)
<1>1. q.head \in Slots /\ q.tail \in Slots
  BY DEF Queue
<1>2. /\ Succ(q.head) = IF q.head = QCount - 1 THEN 0 ELSE q.head + 1
      /\ Succ(q.head) \in Slots
  BY <1>1, SuccWraps
<1>3. /\ QueueTake(q) \in Queue
      /\ QueueTake(q).tail = q.tail
      /\ QueueTake(q).head = Succ(q.head)
  BY <1>1, <1>2 DEF Queue, QueueTake
<1> QED
  BY <1>1, <1>2, <1>3, QCountAssumption DEF Slots, QueueLen, SlotAt, IsEmpty
=============================================================================
