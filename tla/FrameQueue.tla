----------------------------- MODULE FrameQueue -----------------------------
(***************************************************************************)
(* The circular queue of src/src/cannelloni.c (frames_queue_t and the      *)
(* static queue_* functions).  A queue is its two indices; the array of    *)
(* frames it indexes belongs to the module that uses the queue, because    *)
(* cannelloni.c gets it from its caller (Init.can_tx_buf, Init.can_rx_buf).*)
(*                                                                         *)
(* queue_put and queue_take return a pointer to a slot, or NULL.  Here the *)
(* NULL case is the predicate (IsFull, IsEmpty) and the slot is the index  *)
(* before the move (tail for put, head for take and peek).                 *)
(***************************************************************************)
EXTENDS Integers

CONSTANT QCount             \* q->count, the number of slots (CNL_BUF_SIZE = 128)

ASSUME QCountAssumption == QCount \in Nat /\ QCount >= 2

Slots == 0 .. QCount - 1
Queue == [head : Slots, tail : Slots]

QueueInit == [head |-> 0, tail |-> 0]

Succ(k) == (k + 1) % QCount

\* Faulty variants: the test forgets the wrap; the test gives one more slot away.
IsFullNoWrap(q) == q.tail + 1 = q.head
IsFullEarly(q) == Succ(Succ(q.tail)) = q.head

IsFull(q) == Succ(q.tail) = q.head
IsEmpty(q) == q.head = q.tail

QueuePut(q) == [q EXCEPT !.tail = Succ(q.tail)]
QueueTake(q) == [q EXCEPT !.head = Succ(q.head)]

(***************************************************************************)
(* What the indices mean: the number of queued frames, and the slot of the *)
(* k-th queued frame counted from the head.  The code never computes them. *)
(***************************************************************************)
QueueLen(q) == IF q.tail >= q.head THEN q.tail - q.head
                                   ELSE q.tail - q.head + QCount
SlotAt(q, k) == IF q.head + k < QCount THEN q.head + k
                                       ELSE q.head + k - QCount
=============================================================================
