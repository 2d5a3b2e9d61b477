--------------------------- MODULE LockFreeQueue ---------------------------
(***************************************************************************)
(* runtime/scheduler/lockfree_queue.h: the ring buffer behind every        *)
(* from_queues[src] channel between two scheduler threads.  One producer   *)
(* and one consumer run concurrently.  Each memory access that the other   *)
(* thread can observe is a step of its own: the load of the other side's   *)
(* index, the copy of each slot, the store of one's own index.             *)
(*                                                                         *)
(* The acquire loads may return a stale index: any value the other side    *)
(* has stored since the one last returned to this thread.  phead and ctail *)
(* are those last seen values.  The release stores publish every slot      *)
(* copied before them, which is why a slot is read as it was last written. *)
(***************************************************************************)
EXTENDS Integers, Sequences

CONSTANTS QUEUE_SIZE,  \* slots of the ring
          Msg,         \* what an item holds: an actor and a message
          None,        \* the content of a slot that was never written
          MaxBatch     \* longest batch passed to the batch operations

ASSUME QueueSizeAssumption == QUEUE_SIZE \in Nat \ {0, 1}
ASSUME BatchAssumption == MaxBatch \in Nat \ {0}
ASSUME NoneAssumption == None \notin Msg

VARIABLES
    head,    \* q->head, stored by the consumer only
    tail,    \* q->tail, stored by the producer only
    items,   \* q->items
    ppc,     \* the producer is "idle" or in the "write" loop
    pbuf,    \* the messages it has still to copy into the ring
    ptail,   \* its local tail
    phead,   \* the head it last loaded
    cpc,     \* the consumer is "idle" or in the "read" loop
    cbuf,    \* the messages it has copied out in this call
    cleft,   \* how many it has still to copy
    chead,   \* its local head
    ctail,   \* the tail it last loaded
    out      \* the batch its last successful call returned

pvars == <<ppc, pbuf, ptail, phead>>
cvars == <<cpc, cbuf, cleft, chead, ctail, out>>
vars == <<head, tail, items, pvars, cvars>>

Slots == 0..(QUEUE_SIZE - 1)

\* The masking "& QUEUE_MASK" of the code: reduction modulo the ring size.
Mask(i) == i % QUEUE_SIZE

\* How many slots lie from index a up to index b.
Dist(a, b) == Mask(b - a)

\* The values an acquire load may return: those stored since the last load.
LoadHead == {Mask(phead + k) : k \in 0..Dist(phead, head)}
LoadTail == {Mask(ctail + k) : k \in 0..Dist(ctail, tail)}

Batches == UNION {[1..n -> Msg] : n \in 1..MaxBatch}
-----------------------------------------------------------------------------
queue_init ==
    /\ head = 0
    /\ tail = 0
    /\ items = [i \in Slots |-> None]
    /\ ppc = "idle" /\ pbuf = << >> /\ ptail = 0 /\ phead = 0
    /\ cpc = "idle" /\ cbuf = << >> /\ cleft = 0 /\ chead = 0 /\ ctail = 0
    /\ out = << >>

\* queue_enqueue up to its full test: it returns 0, or goes on to the copy.
queue_enqueue(m) ==
    /\ ppc = "idle"
    /\ \E h \in LoadHead :
        /\ phead' = h
        /\ IF Mask(tail + 1) = h
           THEN UNCHANGED <<ppc, pbuf, ptail>>
           ELSE ppc' = "write" /\ pbuf' = <<m>> /\ ptail' = tail
    /\ UNCHANGED <<head, tail, items, cvars>>

\* A space computation that forgets the slot kept empty.
SpaceOffByOne(b) ==
    /\ ppc = "idle"
    /\ \E h \in LoadHead :
        LET space == Mask(h - tail - 1) + 1
            to_enqueue == IF Len(b) < space THEN Len(b) ELSE space
        IN  /\ phead' = h
            /\ ppc' = "write" /\ pbuf' = SubSeq(b, 1, to_enqueue) /\ ptail' = tail
    /\ UNCHANGED <<head, tail, items, cvars>>

\* queue_enqueue_batch up to its space test: as much of b as fits is copied.
queue_enqueue_batch(b) ==
    /\ ppc = "idle"
    /\ \E h \in LoadHead :
        LET space == Mask(h - tail - 1)
            to_enqueue == IF Len(b) < space THEN Len(b) ELSE space
        IN  /\ phead' = h
            /\ IF space = 0
               THEN UNCHANGED <<ppc, pbuf, ptail>>
               ELSE ppc' = "write" /\ pbuf' = SubSeq(b, 1, to_enqueue) /\ ptail' = tail
    /\ UNCHANGED <<head, tail, items, cvars>>

\* A copy loop that advances its index without the mask.
WriteUnmasked ==
    /\ ppc = "write" /\ pbuf # << >>
    /\ items' = [items EXCEPT ![ptail] = Head(pbuf)]
    /\ pbuf' = Tail(pbuf)
    /\ ptail' = ptail + 1
    /\ UNCHANGED <<head, tail, ppc, phead, cvars>>

\* One iteration of the copy into the ring.
WriteSlot ==
    /\ ppc = "write" /\ pbuf # << >>
    /\ items' = [items EXCEPT ![ptail] = Head(pbuf)]
    /\ pbuf' = Tail(pbuf)
    /\ ptail' = Mask(ptail + 1)
    /\ UNCHANGED <<head, tail, ppc, phead, cvars>>

\* The release store of tail, after which the call returns.
PublishTail ==
    /\ ppc = "write" /\ pbuf = << >>
    /\ tail' = ptail
    /\ ppc' = "idle"
    /\ UNCHANGED <<head, items, pbuf, ptail, phead, cvars>>

\* queue_dequeue up to its empty test.
queue_dequeue ==
    /\ cpc = "idle"
    /\ \E t \in LoadTail :
        /\ ctail' = t
        /\ IF head = t
           THEN UNCHANGED <<cpc, cbuf, cleft, chead>>
           ELSE cpc' = "read" /\ cbuf' = << >> /\ cleft' = 1 /\ chead' = head
    /\ UNCHANGED <<head, tail, items, pvars, out>>

\* queue_dequeue_batch up to its empty test: at most max_count are taken.
queue_dequeue_batch(max_count) ==
    /\ cpc = "idle"
    /\ \E t \in LoadTail :
        LET available == Mask(t - head)
            count == IF available < max_count THEN available ELSE max_count
        IN  /\ ctail' = t
            /\ IF available = 0
               THEN UNCHANGED <<cpc, cbuf, cleft, chead>>
               ELSE cpc' = "read" /\ cbuf' = << >> /\ cleft' = count /\ chead' = head
    /\ UNCHANGED <<head, tail, items, pvars, out>>

\* One iteration of the copy out of the ring.
ReadSlot ==
    /\ cpc = "read" /\ cleft > 0
    /\ cbuf' = Append(cbuf, items[chead])
    /\ chead' = Mask(chead + 1)
    /\ cleft' = cleft - 1
    /\ UNCHANGED <<head, tail, items, pvars, cpc, ctail, out>>

\* A head stored before the last slot has been copied out.
PublishHeadEarly ==
    /\ cpc = "read" /\ cleft <= 1
    /\ head' = Mask(chead + cleft)
    /\ cpc' = "idle"
    /\ out' = cbuf
    /\ cbuf' = << >>
    /\ UNCHANGED <<tail, items, pvars, cleft, chead, ctail>>

\* The release store of head, after which the call returns the batch.
PublishHead ==
    /\ cpc = "read" /\ cleft = 0
    /\ head' = chead
    /\ cpc' = "idle"
    /\ out' = cbuf
    /\ cbuf' = << >>
    /\ UNCHANGED <<tail, items, pvars, cleft, chead, ctail>>

Next ==
    \/ \E m \in Msg : queue_enqueue(m)
    \/ \E b \in Batches : queue_enqueue_batch(b)
    \/ WriteSlot \/ PublishTail
    \/ queue_dequeue
    \/ \E n \in 1..MaxBatch : queue_dequeue_batch(n)
    \/ ReadSlot \/ PublishHead

Spec == queue_init /\ [][Next]_vars
-----------------------------------------------------------------------------
\* The indices of both threads stay inside the ring, and only messages that were
\* enqueued are handed out, never a slot that was not written.
TypeOK ==
    /\ head \in Slots /\ tail \in Slots
    /\ items \in [Slots -> Msg \cup {None}]
    /\ ppc \in {"idle", "write"} /\ pbuf \in Seq(Msg)
    /\ ptail \in Slots /\ phead \in Slots
    /\ cpc \in {"idle", "read"} /\ cbuf \in Seq(Msg)
    /\ cleft \in Nat /\ chead \in Slots /\ ctail \in Slots
    /\ out \in Seq(Msg)

\* The plain (non-atomic) copies of a slot never race: while the producer is
\* about to write items[ptail], the consumer is not about to read that slot,
\* whatever stale indices the two acquire loads returned.
NoSlotRace ==
    ~ (ppc = "write" /\ pbuf # << >> /\ cpc = "read" /\ cleft > 0 /\ ptail = chead)

\* What the ring holds, as the sequence of messages from head up to tail.
Contents == [k \in 1..Dist(head, tail) |-> items[Mask(head + k - 1)]]

Fifo == INSTANCE FifoChannel WITH
            chan <- Contents, out <- out,
            Msg <- Msg, Capacity <- QUEUE_SIZE - 1

\* The ring implements a bounded FIFO channel: every message accepted by
\* queue_enqueue or queue_enqueue_batch is handed out once, in order, and
\* none is overwritten before queue_dequeue(_batch) has copied it.
ImplementsFifo == Fifo!Spec
=============================================================================
