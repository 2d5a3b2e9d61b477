------------------------ MODULE LockFreeQueueProofs ------------------------
(***************************************************************************)
(* The ring of LockFreeQueue, for every size: its invariant, and that it   *)
(* implements the bounded FIFO channel.                                    *)
(*                                                                         *)
(* The argument measures every index from phead, the oldest head the       *)
(* producer may still believe in.  On that scale the indices stay in the   *)
(* order head, chead, ctail, tail, ptail, and the producer's last slot     *)
(* stays below QUEUE_SIZE: that is RingInv.                                *)
(***************************************************************************)
EXTENDS LockFreeQueue, SequenceTheorems, TLAPS

\* The masked operations on slots, without the modulus.
Gap(a, b) == IF a <= b THEN b - a ELSE b - a + QUEUE_SIZE
Wrap(i) == IF i < QUEUE_SIZE THEN i ELSE i - QUEUE_SIZE

\* The distance of an index from phead.
At(x) == Gap(phead, x)

\* The inductive invariant of the ring.
RingInv ==
    /\ TypeOK
    /\ At(head) <= At(chead)
    /\ At(chead) + cleft <= At(ctail)
    /\ At(ctail) <= At(tail)
    /\ At(tail) <= At(ptail)
    /\ At(ptail) + Len(pbuf) <= QUEUE_SIZE - 1
    /\ ppc = "idle" => ptail = tail /\ pbuf = << >>
    /\ ppc = "write" => At(ptail) + Len(pbuf) > At(tail)
    /\ cpc = "idle" => chead = head /\ cleft = 0
    /\ cpc = "read" => At(chead) + cleft > At(head)
    /\ Len(cbuf) = At(chead) - At(head)
    /\ \A i \in 1..Len(cbuf) : cbuf[i] = items[Wrap(head + i - 1)]
    /\ \A s \in Slots : At(head) <= At(s) /\ At(s) < At(ptail) => items[s] \in Msg
-----------------------------------------------------------------------------
\* What "& QUEUE_MASK" computes on the sums and differences the code forms.
LEMMA MaskFacts ==
    /\ \A a, k \in Slots : Mask(a + k) = Wrap(a + k) /\ Wrap(a + k) \in Slots
    /\ \A a \in Slots : Mask(a + 1) = Wrap(a + 1) /\ Wrap(a + 1) \in Slots
    /\ \A a, b \in Slots : Dist(a, b) = Gap(a, b) /\ Gap(a, b) \in Slots
    /\ \A a, b \in Slots : Mask(a - b) = Gap(b, a)
    /\ \A a, b \in Slots : Mask(a - b - 1) = QUEUE_SIZE - 1 - Gap(a, b)
  <1>1. \A a, k \in Slots : Mask(a + k) = Wrap(a + k) /\ Wrap(a + k) \in Slots
    BY QueueSizeAssumption, SMT DEF Slots, Mask, Wrap
  <1>2. \A a \in Slots : Mask(a + 1) = Wrap(a + 1) /\ Wrap(a + 1) \in Slots
    BY QueueSizeAssumption, SMT DEF Slots, Mask, Wrap
  <1>3. \A a, b \in Slots : Mask(a - b) = Gap(b, a) /\ Gap(b, a) \in Slots
    BY QueueSizeAssumption, SMT DEF Slots, Mask, Gap
  <1>4. \A a, b \in Slots : Mask(a - b - 1) = QUEUE_SIZE - 1 - Gap(a, b)
    BY QueueSizeAssumption, SMT DEF Slots, Mask, Gap
  <1>5. QED
    BY <1>1, <1>2, <1>3, <1>4 DEF Dist

\* A load of head returns a slot between the one last seen and the current.
LEMMA LoadHeadSlots ==
    ASSUME TypeOK, NEW h \in LoadHead
    PROVE  h \in Slots /\ At(h) <= At(head)
  <1>1. PICK k \in 0..Dist(phead, head) : h = Mask(phead + k)
    BY DEF LoadHead
  <1>2. phead \in Slots /\ head \in Slots
    BY DEF TypeOK
  <1>3. k \in 0..Gap(phead, head) /\ Gap(phead, head) \in Slots
    BY <1>1, <1>2, MaskFacts
  <1>4. k \in Slots
    BY <1>3, QueueSizeAssumption DEF Slots
  <1>5. h = Wrap(phead + k) /\ h \in Slots
    BY <1>1, <1>2, <1>4, MaskFacts
  <1>6. QED
    BY <1>2, <1>3, <1>5, QueueSizeAssumption DEF At, Gap, Wrap, Slots

\* A load of tail returns a slot between the one last seen and the current.
LEMMA LoadTailSlots ==
    ASSUME RingInv, NEW t \in LoadTail
    PROVE  t \in Slots /\ At(ctail) <= At(t) /\ At(t) <= At(tail)
  <1>1. PICK k \in 0..Dist(ctail, tail) : t = Mask(ctail + k)
    BY DEF LoadTail
  <1>2. phead \in Slots /\ ctail \in Slots /\ tail \in Slots
    BY DEF RingInv, TypeOK
  <1>3. k \in 0..Gap(ctail, tail) /\ Gap(ctail, tail) \in Slots
    BY <1>1, <1>2, MaskFacts
  <1>4. k \in Slots
    BY <1>3, QueueSizeAssumption DEF Slots
  <1>5. t = Wrap(ctail + k) /\ t \in Slots
    BY <1>1, <1>2, <1>4, MaskFacts
  <1>6. At(ctail) <= At(tail)
    BY DEF RingInv
  <1>7. QED
    BY <1>2, <1>3, <1>5, <1>6, QueueSizeAssumption DEF At, Gap, Wrap, Slots

\* The ring starts empty, with every index at 0.
LEMMA InitRing == queue_init => RingInv
  BY QueueSizeAssumption, EmptySeq DEF queue_init, RingInv, TypeOK, At, Gap, Slots

\* The full tests of queue_enqueue and queue_enqueue_batch leave room for
\* every message the call goes on to copy.
LEMMA EnqueueKeepsRing ==
    ASSUME RingInv, ppc = "idle", NEW h \in LoadHead, phead' = h,
           \/ UNCHANGED <<ppc, pbuf, ptail>>
           \/ /\ ppc' = "write" /\ ptail' = tail
              /\ pbuf' \in Seq(Msg) /\ Len(pbuf') \in 1..(QUEUE_SIZE - 1 - Gap(h, tail)),
           UNCHANGED <<head, tail, items, cvars>>
    PROVE  RingInv'
  <1>1. h \in Slots /\ At(h) <= At(head)
    BY LoadHeadSlots DEF RingInv
  <1>2. Len(pbuf) \in Nat /\ Len(pbuf') \in Nat
    BY LenProperties, SMT DEF RingInv, TypeOK
  <1>3. TypeOK'
    BY <1>1 DEF RingInv, TypeOK, cvars
  <1>4. /\ head \in Slots /\ tail \in Slots /\ chead \in Slots /\ ctail \in Slots
        /\ phead \in Slots /\ cleft \in Nat
        /\ At(head) <= At(chead) /\ At(chead) + cleft <= At(ctail) /\ At(ctail) <= At(tail)
    BY DEF RingInv, TypeOK
  <1>5. /\ Gap(h, head) <= Gap(h, chead)
        /\ Gap(h, chead) + cleft <= Gap(h, ctail)
        /\ Gap(h, ctail) <= Gap(h, tail)
        /\ Gap(h, chead) - Gap(h, head) = At(chead) - At(head)
    BY <1>1, <1>4, QueueSizeAssumption DEF At, Gap, Slots
  <1>6. ptail' = tail
    BY DEF RingInv
  <1>7. Gap(h, tail) + Len(pbuf') <= QUEUE_SIZE - 1
    BY <1>1, <1>2, <1>4, QueueSizeAssumption, EmptySeq DEF RingInv, Gap, Slots
  <1>8. ppc' = "write" => Gap(h, tail) + Len(pbuf') > Gap(h, tail)
    BY <1>1, <1>2, <1>4, QueueSizeAssumption DEF Gap, Slots
  <1>9. \A s \in Slots : Gap(h, head) <= Gap(h, s) /\ Gap(h, s) < Gap(h, tail) => items[s] \in Msg
    <2> SUFFICES ASSUME NEW s \in Slots, Gap(h, head) <= Gap(h, s), Gap(h, s) < Gap(h, tail)
                 PROVE  items[s] \in Msg
      OBVIOUS
    <2>1. At(head) <= At(s) /\ At(s) < At(tail)
      BY <1>1, <1>4, QueueSizeAssumption DEF At, Gap, Slots
    <2>2. ptail = tail
      BY DEF RingInv
    <2>3. QED
      BY <2>1, <2>2 DEF RingInv
  <1>10. /\ cpc' = "idle" => chead' = head' /\ cleft' = 0
         /\ cpc' = "read" => Gap(h, chead) + cleft > Gap(h, head)
         /\ Len(cbuf') = At(chead) - At(head)
         /\ \A i \in 1..Len(cbuf') : cbuf'[i] = items'[Wrap(head' + i - 1)]
    <2>1. cpc' = "read" => At(chead) + cleft > At(head)
      BY DEF RingInv, cvars
    <2>2. cpc' = "read" => Gap(h, chead) + cleft > Gap(h, head)
      BY <2>1, <1>1, <1>4, QueueSizeAssumption DEF At, Gap, Slots
    <2>3. QED
      BY <2>2 DEF RingInv, cvars
  <1>11. ptail' = tail' /\ (ppc' = "idle" => pbuf' = << >>) /\ items' = items /\ phead' = h
    BY <1>6 DEF RingInv
  <1>12. At(tail)' <= At(ptail)'
    BY <1>1, <1>4, <1>11, QueueSizeAssumption DEF At, Gap, Slots
  <1>13. QED
    BY <1>3, <1>5, <1>7, <1>8, <1>9, <1>10, <1>11, <1>12 DEF RingInv, At, cvars

\* The typed parts of the invariant that the arithmetic of every step uses.
RingTypes ==
    /\ head \in Slots /\ tail \in Slots /\ chead \in Slots /\ ctail \in Slots
    /\ phead \in Slots /\ ptail \in Slots
    /\ cleft \in Nat /\ Len(pbuf) \in Nat /\ Len(cbuf) \in Nat
    /\ pbuf \in Seq(Msg) /\ cbuf \in Seq(Msg)

\* The invariant types every index and every length.
LEMMA RingFacts == RingInv => RingTypes
  BY LenProperties, SMT DEF RingInv, TypeOK, RingTypes

\* The single-message form of enqueue keeps the invariant.
LEMMA QueueEnqueueKeepsRing ==
    ASSUME RingInv, NEW m \in Msg, queue_enqueue(m)
    PROVE  RingInv'
  <1>1. PICK h \in LoadHead :
            /\ phead' = h
            /\ IF Mask(tail + 1) = h
               THEN UNCHANGED <<ppc, pbuf, ptail>>
               ELSE ppc' = "write" /\ pbuf' = <<m>> /\ ptail' = tail
    BY DEF queue_enqueue
  <1>2. h \in Slots /\ tail \in Slots
    BY LoadHeadSlots DEF RingInv, TypeOK
  <1>3. Mask(tail + 1) = Wrap(tail + 1)
    BY <1>2, MaskFacts
  <1>4. Mask(tail + 1) # h => 1 \in 1..(QUEUE_SIZE - 1 - Gap(h, tail))
    BY <1>2, <1>3, QueueSizeAssumption DEF Wrap, Gap, Slots
  <1>5. <<m>> \in Seq(Msg) /\ Len(<<m>>) = 1
    OBVIOUS
  <1>6. QED
    BY <1>1, <1>4, <1>5, EnqueueKeepsRing DEF queue_enqueue

\* The batch form copies no more messages than its space computation found.
LEMMA QueueEnqueueBatchKeepsRing ==
    ASSUME RingInv, NEW b \in Batches, queue_enqueue_batch(b)
    PROVE  RingInv'
  <1> DEFINE space(h) == Mask(h - tail - 1)
             to_enqueue(h) == IF Len(b) < space(h) THEN Len(b) ELSE space(h)
  <1>1. PICK h \in LoadHead :
            /\ phead' = h
            /\ IF space(h) = 0
               THEN UNCHANGED <<ppc, pbuf, ptail>>
               ELSE ppc' = "write" /\ pbuf' = SubSeq(b, 1, to_enqueue(h)) /\ ptail' = tail
    BY DEF queue_enqueue_batch
  <1>2. h \in Slots /\ tail \in Slots
    BY LoadHeadSlots DEF RingInv, TypeOK
  <1>3. space(h) = QUEUE_SIZE - 1 - Gap(h, tail) /\ Gap(h, tail) \in Slots
    BY <1>2, MaskFacts
  <1>4. space(h) \in Nat
    BY <1>3, QueueSizeAssumption DEF Slots
  <1>5. b \in Seq(Msg) /\ Len(b) \in Nat \ {0}
    BY BatchAssumption DEF Batches
  <1>6. space(h) # 0 => to_enqueue(h) \in 1..space(h) /\ to_enqueue(h) \in 0..Len(b)
    BY <1>4, <1>5
  <1>7. space(h) # 0 => /\ SubSeq(b, 1, to_enqueue(h)) \in Seq(Msg)
                        /\ Len(SubSeq(b, 1, to_enqueue(h))) = to_enqueue(h)
    BY <1>5, <1>6, SubSeqProperties
  <1>8. \/ UNCHANGED <<ppc, pbuf, ptail>>
        \/ /\ ppc' = "write" /\ ptail' = tail
           /\ pbuf' \in Seq(Msg) /\ Len(pbuf') \in 1..(QUEUE_SIZE - 1 - Gap(h, tail))
    BY <1>1, <1>3, <1>6, <1>7
  <1>9. QED
    BY <1>1, <1>8, EnqueueKeepsRing DEF queue_enqueue_batch

\* The copy into the ring fills slots beyond tail, which the consumer does
\* not read before the release store of tail.
LEMMA WriteSlotKeepsRing ==
    ASSUME RingInv, WriteSlot
    PROVE  RingInv'
  <1>0. RingTypes
    BY RingFacts
  <1>1. /\ Head(pbuf) \in Msg /\ Tail(pbuf) \in Seq(Msg) /\ Len(pbuf') = Len(pbuf) - 1
        /\ Len(pbuf) > 0
    BY HeadTailProperties, EmptySeq, LenProperties, <1>0 DEF WriteSlot, RingTypes
  <1>2. ptail' = Wrap(ptail + 1) /\ ptail' \in Slots
    BY <1>0, MaskFacts DEF WriteSlot, RingTypes
  <1>3. items' \in [Slots -> Msg \cup {None}]
    BY <1>1 DEF RingInv, TypeOK, WriteSlot
  <1>4. TypeOK'
    BY <1>1, <1>2, <1>3 DEF RingInv, TypeOK, WriteSlot, cvars
  <1>5. At(ptail) + Len(pbuf) <= QUEUE_SIZE - 1
    BY DEF RingInv
  <1>6. /\ UNCHANGED <<head, tail, phead, ppc, cpc, cbuf, cleft, chead, ctail>>
        /\ \A s \in Slots : s # ptail => items'[s] = items[s]
        /\ items'[ptail] = Head(pbuf)
    BY DEF WriteSlot, cvars, RingInv, TypeOK
  <1>7. At(ptail)' = At(ptail) + 1
    <2>1. Gap(phead, ptail) + 1 <= QUEUE_SIZE - 1
      BY <1>0, <1>1, <1>5, QueueSizeAssumption DEF At, Gap, Slots, RingTypes
    <2>2. Gap(phead, Wrap(ptail + 1)) = Gap(phead, ptail) + 1
      BY <1>0, <2>1, QueueSizeAssumption DEF Gap, Wrap, Slots, RingTypes
    <2>3. QED
      BY <1>2, <1>6, <2>2 DEF At
  <1>8. \A i \in 1..Len(cbuf) : Wrap(head + i - 1) \in Slots /\ Wrap(head + i - 1) # ptail
    <2> SUFFICES ASSUME NEW i \in 1..Len(cbuf)
                 PROVE  Wrap(head + i - 1) \in Slots /\ Wrap(head + i - 1) # ptail
      OBVIOUS
    <2>1. /\ Len(cbuf) = At(chead) - At(head) /\ At(chead) + cleft <= At(ctail)
          /\ At(ctail) <= At(tail) /\ At(tail) <= At(ptail)
      BY DEF RingInv
    <2>2. QED
      BY <1>0, <1>1, <1>5, <2>1, QueueSizeAssumption DEF At, Gap, Wrap, Slots, RingTypes
  <1>9. \A i \in 1..Len(cbuf') : cbuf'[i] = items'[Wrap(head' + i - 1)]
    BY <1>6, <1>8 DEF RingInv
  <1>10. \A s \in Slots : At(head) <= At(s) /\ At(s) < At(ptail) + 1 => items'[s] \in Msg
    <2> SUFFICES ASSUME NEW s \in Slots, At(head) <= At(s), At(s) < At(ptail) + 1, s # ptail
                 PROVE  items'[s] \in Msg
      BY <1>1, <1>6
    <2>1. At(s) < At(ptail)
      BY <1>0, QueueSizeAssumption DEF At, Gap, Slots, RingTypes
    <2>2. QED
      BY <2>1, <1>6 DEF RingInv
  <1>11. ppc' = "write"
    BY DEF WriteSlot
  <1>12. /\ At(head)' = At(head) /\ At(chead)' = At(chead) /\ At(ctail)' = At(ctail)
         /\ At(tail)' = At(tail) /\ \A s \in Slots : At(s)' = Gap(phead', s)
    BY <1>6 DEF At
  <1>13. At(tail) <= At(ptail) /\ At(tail) \in Int /\ At(ptail) \in Int
    BY <1>0, QueueSizeAssumption DEF RingInv, At, Gap, Slots, RingTypes
  <1>14. /\ At(tail)' <= At(ptail)' /\ At(ptail)' + Len(pbuf') <= QUEUE_SIZE - 1
         /\ At(ptail)' + Len(pbuf') > At(tail)'
    BY <1>0, <1>1, <1>5, <1>7, <1>12, <1>13, QueueSizeAssumption DEF RingTypes
  <1>15. \A s \in Slots : Gap(phead', head') <= Gap(phead', s) /\ Gap(phead', s) < At(ptail)'
                            => items'[s] \in Msg
    BY <1>7, <1>6, <1>10 DEF At
  <1>16. QED
    BY <1>4, <1>6, <1>9, <1>11, <1>12, <1>14, <1>15 DEF RingInv, At

\* The release store of tail hands the filled slots to the consumer.
LEMMA PublishTailKeepsRing ==
    ASSUME RingInv, PublishTail
    PROVE  RingInv'
  <1>1. TypeOK'
    BY DEF RingInv, TypeOK, PublishTail, cvars
  <1>2. RingTypes
    BY RingFacts
  <1>3. /\ tail' = ptail /\ ppc' = "idle" /\ pbuf = << >>
        /\ UNCHANGED <<head, items, pbuf, ptail, phead, cpc, cbuf, cleft, chead, ctail>>
    BY DEF PublishTail, cvars
  <1>4. At(ctail) <= At(ptail) /\ At(ptail) <= At(ptail)
    BY <1>2, QueueSizeAssumption DEF RingInv, At, Gap, Slots, RingTypes
  <1>5. QED
    BY <1>1, <1>3, <1>4 DEF RingInv, At

\* The empty tests of queue_dequeue and queue_dequeue_batch let the call copy
\* only messages that the producer has published.
LEMMA DequeueKeepsRing ==
    ASSUME RingInv, cpc = "idle", NEW t \in LoadTail, ctail' = t,
           \/ UNCHANGED <<cpc, cbuf, cleft, chead>>
           \/ /\ cpc' = "read" /\ chead' = head /\ cbuf' = << >>
              /\ cleft' \in 1..Gap(head, t),
           UNCHANGED <<head, tail, items, pvars, out>>
    PROVE  RingInv'
  <1>1. t \in Slots /\ At(ctail) <= At(t) /\ At(t) <= At(tail)
    BY LoadTailSlots
  <1>2. RingTypes
    BY RingFacts
  <1>3. chead = head /\ cleft = 0
    BY DEF RingInv
  <1>4. Len(cbuf) = 0
    BY <1>2, <1>3, QueueSizeAssumption DEF RingInv, At, Gap, Slots, RingTypes
  <1>5. chead' = head /\ Len(cbuf') = 0 /\ cbuf' \in Seq(Msg)
    BY <1>2, <1>3, <1>4, EmptySeq DEF RingTypes
  <1>6. At(head) <= At(t)
    BY <1>1, <1>2, <1>3, QueueSizeAssumption DEF RingInv, At, Gap, Slots, RingTypes
  <1>7. Gap(head, t) = At(t) - At(head) /\ Gap(head, t) \in Nat
    BY <1>1, <1>2, <1>6, QueueSizeAssumption DEF At, Gap, Slots, RingTypes
  <1>8. cleft' \in Nat /\ At(head) + cleft' <= At(t)
    BY <1>1, <1>2, <1>3, <1>6, <1>7, QueueSizeAssumption DEF At, Gap, Slots, RingTypes
  <1>9. TypeOK'
    BY <1>1, <1>5, <1>8 DEF RingInv, TypeOK, RingTypes, pvars
  <1>10. /\ cpc' = "idle" => cleft' = 0
         /\ cpc' = "read" => At(head) + cleft' > At(head)
    BY <1>2, <1>3, QueueSizeAssumption DEF At, Gap, Slots, RingTypes
  <1>11. At(head) <= At(head) /\ Len(cbuf') = At(head) - At(head)
    BY <1>2, <1>5, QueueSizeAssumption DEF At, Gap, Slots, RingTypes
  <1>12. \A i \in 1..Len(cbuf') : cbuf'[i] = items'[Wrap(head' + i - 1)]
    BY <1>5
  <1>13. UNCHANGED <<head, tail, items, ppc, pbuf, ptail, phead>>
    BY DEF pvars
  <1>14. QED
    BY <1>1, <1>5, <1>8, <1>9, <1>10, <1>11, <1>12, <1>13 DEF RingInv, At

\* The single-message form of dequeue keeps the invariant.
LEMMA QueueDequeueKeepsRing ==
    ASSUME RingInv, queue_dequeue
    PROVE  RingInv'
  <1>1. PICK t \in LoadTail :
            /\ ctail' = t
            /\ IF head = t
               THEN UNCHANGED <<cpc, cbuf, cleft, chead>>
               ELSE cpc' = "read" /\ cbuf' = << >> /\ cleft' = 1 /\ chead' = head
    BY DEF queue_dequeue
  <1>2. t \in Slots /\ head \in Slots
    BY LoadTailSlots DEF RingInv, TypeOK
  <1>3. head # t => 1 \in 1..Gap(head, t)
    BY <1>2, QueueSizeAssumption DEF Gap, Slots
  <1>4. QED
    BY <1>1, <1>3, DequeueKeepsRing DEF queue_dequeue

\* The batch form takes no more messages than are available.
LEMMA QueueDequeueBatchKeepsRing ==
    ASSUME RingInv, NEW n \in 1..MaxBatch, queue_dequeue_batch(n)
    PROVE  RingInv'
  <1> DEFINE available(t) == Mask(t - head)
             count(t) == IF available(t) < n THEN available(t) ELSE n
  <1>1. PICK t \in LoadTail :
            /\ ctail' = t
            /\ IF available(t) = 0
               THEN UNCHANGED <<cpc, cbuf, cleft, chead>>
               ELSE cpc' = "read" /\ cbuf' = << >> /\ cleft' = count(t) /\ chead' = head
    BY DEF queue_dequeue_batch
  <1>2. t \in Slots /\ head \in Slots
    BY LoadTailSlots DEF RingInv, TypeOK
  <1>3. available(t) = Gap(head, t) /\ Gap(head, t) \in Slots
    BY <1>2, MaskFacts
  <1>4. available(t) # 0 => count(t) \in 1..Gap(head, t)
    BY <1>3, BatchAssumption, QueueSizeAssumption DEF Slots
  <1>5. QED
    BY <1>1, <1>4, DequeueKeepsRing DEF queue_dequeue_batch

\* The copy out of the ring takes the message of a published slot.
LEMMA ReadSlotKeepsRing ==
    ASSUME RingInv, ReadSlot
    PROVE  RingInv'
  <1>0. RingTypes
    BY RingFacts
  <1>1. /\ At(head) <= At(chead) /\ At(chead) + cleft <= At(ctail) /\ At(ctail) <= At(tail)
        /\ At(tail) <= At(ptail) /\ Len(cbuf) = At(chead) - At(head)
    BY DEF RingInv
  <1>2. cleft > 0 /\ cleft - 1 \in Nat
    BY <1>0 DEF ReadSlot, RingTypes
  <1>3. At(head) <= At(chead) /\ At(chead) < At(ptail)
    BY <1>0, <1>1, <1>2, QueueSizeAssumption DEF At, Gap, Slots, RingTypes
  <1>4. items[chead] \in Msg
    BY <1>0, <1>3 DEF RingInv, RingTypes
  <1>5. /\ cbuf' \in Seq(Msg) /\ Len(cbuf') = Len(cbuf) + 1
        /\ \A i \in 1..Len(cbuf) : cbuf'[i] = cbuf[i]
        /\ cbuf'[Len(cbuf) + 1] = items[chead]
    BY <1>0, <1>4, AppendProperties DEF ReadSlot, RingTypes
  <1>6. chead' = Wrap(chead + 1) /\ chead' \in Slots
    BY <1>0, MaskFacts DEF ReadSlot, RingTypes
  <1>7. UNCHANGED <<head, tail, items, ppc, pbuf, ptail, phead, cpc, ctail, out>>
    BY DEF ReadSlot, pvars
  <1>8. TypeOK'
    BY <1>2, <1>5, <1>6, <1>7 DEF RingInv, TypeOK, ReadSlot
  <1>9. Gap(phead, Wrap(chead + 1)) = At(chead) + 1
    BY <1>0, <1>3, QueueSizeAssumption DEF At, Gap, Wrap, Slots, RingTypes
  <1>10. At(chead)' = At(chead) + 1
    BY <1>6, <1>7, <1>9 DEF At
  <1>11. Wrap(head + Len(cbuf')  - 1) = chead
    BY <1>0, <1>1, <1>5, QueueSizeAssumption DEF At, Gap, Wrap, Slots, RingTypes
  <1>12. \A i \in 1..Len(cbuf') : cbuf'[i] = items[Wrap(head + i - 1)]
    <2> SUFFICES ASSUME NEW i \in 1..Len(cbuf')
                 PROVE  cbuf'[i] = items[Wrap(head + i - 1)]
      OBVIOUS
    <2>1. CASE i = Len(cbuf')
      BY <2>1, <1>0, <1>5, <1>11 DEF RingTypes
    <2>2. CASE i \in 1..Len(cbuf)
      BY <2>2, <1>5 DEF RingInv
    <2>3. QED
      BY <2>1, <2>2, <1>0, <1>5 DEF RingTypes
  <1>13. At(head) \in Int /\ At(chead) \in Int /\ At(ctail) \in Int
    BY <1>0, QueueSizeAssumption DEF At, Gap, Slots, RingTypes
  <1>14. cleft' = cleft - 1 /\ cpc' = "read"
    BY DEF ReadSlot
  <1>15. /\ At(head) <= At(chead)' /\ At(chead)' + cleft' <= At(ctail)
         /\ Len(cbuf') = At(chead)' - At(head) /\ At(chead)' + cleft' > At(head)
    BY <1>0, <1>1, <1>2, <1>5, <1>10, <1>13, <1>14 DEF RingTypes
  <1>16. /\ At(head)' = At(head) /\ At(ctail)' = At(ctail) /\ At(tail)' = At(tail)
         /\ At(ptail)' = At(ptail)
    BY <1>7 DEF At
  <1>17. \A s \in Slots : At(head)' <= Gap(phead', s) /\ Gap(phead', s) < At(ptail)'
                            => items'[s] \in Msg
    BY <1>7, <1>16 DEF RingInv, At
  <1>18. QED
    BY <1>7, <1>8, <1>12, <1>14, <1>15, <1>16, <1>17 DEF RingInv, At

\* The release store of head frees the slots that were copied out.
LEMMA PublishHeadKeepsRing ==
    ASSUME RingInv, PublishHead
    PROVE  RingInv'
  <1>0. RingTypes
    BY RingFacts
  <1>1. /\ head' = chead /\ cpc' = "idle" /\ cbuf' = << >> /\ out' = cbuf /\ cleft = 0
        /\ UNCHANGED <<tail, items, ppc, pbuf, ptail, phead, cleft, chead, ctail>>
    BY DEF PublishHead, pvars
  <1>2. cbuf' \in Seq(Msg) /\ Len(cbuf') = 0
    BY <1>1, EmptySeq
  <1>3. TypeOK'
    BY <1>0, <1>1, <1>2 DEF RingInv, TypeOK, RingTypes
  <1>4. /\ At(head) <= At(chead) /\ At(chead) <= At(chead) /\ At(chead) + cleft <= At(ctail)
        /\ 0 = At(chead) - At(chead)
    BY <1>0, <1>1, QueueSizeAssumption DEF RingInv, At, Gap, Slots, RingTypes
  <1>5. \A s \in Slots : Gap(phead, chead) <= Gap(phead, s) /\ Gap(phead, s) < At(ptail)
                            => items[s] \in Msg
    <2> SUFFICES ASSUME NEW s \in Slots, At(chead) <= At(s), At(s) < At(ptail)
                 PROVE  items[s] \in Msg
      BY DEF At
    <2>1. At(head) <= At(s)
      BY <1>0, <1>4, QueueSizeAssumption DEF At, Gap, Slots, RingTypes
    <2>2. QED
      BY <2>1 DEF RingInv
  <1>6. \A i \in 1..Len(cbuf') : cbuf'[i] = items'[Wrap(head' + i - 1)]
    BY <1>2
  <1>7. QED
    BY <1>1, <1>2, <1>3, <1>4, <1>5, <1>6 DEF RingInv, At

\* Every step of either thread keeps the invariant.
LEMMA NextKeepsRing == RingInv /\ [Next]_vars => RingInv'
  <1> SUFFICES ASSUME RingInv, [Next]_vars
               PROVE  RingInv'
    OBVIOUS
  <1>1. ASSUME NEW m \in Msg, queue_enqueue(m) PROVE RingInv'
    BY <1>1, QueueEnqueueKeepsRing
  <1>2. ASSUME NEW b \in Batches, queue_enqueue_batch(b) PROVE RingInv'
    BY <1>2, QueueEnqueueBatchKeepsRing
  <1>3. CASE WriteSlot
    BY <1>3, WriteSlotKeepsRing
  <1>4. CASE PublishTail
    BY <1>4, PublishTailKeepsRing
  <1>5. CASE queue_dequeue
    BY <1>5, QueueDequeueKeepsRing
  <1>6. ASSUME NEW n \in 1..MaxBatch, queue_dequeue_batch(n) PROVE RingInv'
    BY <1>6, QueueDequeueBatchKeepsRing
  <1>7. CASE ReadSlot
    BY <1>7, ReadSlotKeepsRing
  <1>8. CASE PublishHead
    BY <1>8, PublishHeadKeepsRing
  <1>9. CASE UNCHANGED vars
    BY <1>9 DEF RingInv, TypeOK, At, Gap, Wrap, vars, pvars, cvars
  <1>10. QED
    BY <1>1, <1>2, <1>3, <1>4, <1>5, <1>6, <1>7, <1>8, <1>9 DEF Next

\* The ring invariant holds in every reachable state, for every ring size.
THEOREM RingInvariance == Spec => []RingInv
  <1>1. QED
    BY InitRing, NextKeepsRing, PTL DEF Spec

\* The indices stay inside the ring and only messages leave it.
THEOREM TypeCorrect == Spec => []TypeOK
  <1>1. RingInv => TypeOK
    BY DEF RingInv
  <1>2. QED
    BY <1>1, RingInvariance, PTL

\* The slot about to be written is never the slot about to be read: the
\* acquire/release protocol of the two indices is enough for the plain
\* copies, with any ring size, batch size and staleness of the loads.
THEOREM RaceFree == Spec => []NoSlotRace
  <1>1. RingInv => NoSlotRace
    <2> SUFFICES ASSUME RingInv, cleft > 0, ptail = chead
                 PROVE  FALSE
      BY DEF NoSlotRace
    <2>1. RingTypes
      BY RingFacts
    <2>2. At(chead) + cleft <= At(ctail) /\ At(ctail) <= At(tail) /\ At(tail) <= At(ptail)
      BY DEF RingInv
    <2>3. QED
      BY <2>1, <2>2, QueueSizeAssumption DEF At, Gap, Slots, RingTypes
  <1>2. QED
    BY <1>1, RingInvariance, PTL
-----------------------------------------------------------------------------
\* The content of the ring from index a up to index b.
Segment(a, b) == [k \in 1..Gap(a, b) |-> items[Wrap(a + k - 1)]]

ContentsOK ==
    /\ Contents = Segment(head, tail)
    /\ Contents \in Seq(Msg)
    /\ Len(Contents) = Gap(head, tail)
    /\ \A k \in 1..Gap(head, tail) : Contents[k] = items[Wrap(head + k - 1)]

\* The ring's content is a segment: a sequence of messages.
LEMMA ContentsIsSegment == RingInv => ContentsOK
  <1> SUFFICES ASSUME RingInv
               PROVE  ContentsOK
    OBVIOUS
  <1>0. RingTypes
    BY RingFacts
  <1>1. Dist(head, tail) = Gap(head, tail) /\ Gap(head, tail) \in Slots
    BY <1>0, MaskFacts DEF RingTypes
  <1>2. \A k \in 1..Gap(head, tail) : k - 1 \in Slots
    BY <1>1, QueueSizeAssumption DEF Slots
  <1>3. \A k \in 1..Gap(head, tail) : Mask(head + k - 1) = Wrap(head + k - 1)
    <2> SUFFICES ASSUME NEW k \in 1..Gap(head, tail)
                 PROVE  Mask(head + k - 1) = Wrap(head + k - 1)
      OBVIOUS
    <2>1. Mask(head + (k - 1)) = Wrap(head + (k - 1))
      BY <1>0, <1>2, MaskFacts DEF RingTypes
    <2>2. head + (k - 1) = head + k - 1
      BY <1>0, <1>1, QueueSizeAssumption DEF RingTypes, Slots
    <2>3. QED
      BY <2>1, <2>2
  <1>4. Contents = Segment(head, tail)
    BY <1>1, <1>3 DEF Contents, Segment
  <1>5. \A k \in 1..Gap(head, tail) : items[Wrap(head + k - 1)] \in Msg
    <2> SUFFICES ASSUME NEW k \in 1..Gap(head, tail)
                 PROVE  items[Wrap(head + k - 1)] \in Msg
      OBVIOUS
    <2>1. At(head) <= At(tail) /\ At(tail) <= At(ptail)
      <3>1. /\ At(head) <= At(chead) /\ At(chead) + cleft <= At(ctail)
            /\ At(ctail) <= At(tail) /\ At(tail) <= At(ptail)
        BY DEF RingInv
      <3>2. QED
        BY <1>0, <3>1, QueueSizeAssumption DEF At, Gap, Slots, RingTypes
    <2>2. PICK x : x = Wrap(head + k - 1)
      OBVIOUS
    <2>3. x \in Slots /\ Gap(head, x) = k - 1
      BY <1>0, <1>1, <2>2, QueueSizeAssumption DEF Gap, Wrap, Slots, RingTypes
    <2>4. Gap(head, x) < Gap(head, tail)
      BY <1>0, <1>1, <2>3, QueueSizeAssumption DEF Slots, RingTypes
    <2>5. At(head) <= At(x) /\ At(x) < At(ptail)
      BY <1>0, <2>1, <2>3, <2>4, QueueSizeAssumption DEF At, Gap, Slots, RingTypes
    <2>6. QED
      BY <2>2, <2>3, <2>5 DEF RingInv
  <1>6. Segment(head, tail) \in [1..Gap(head, tail) -> Msg]
    BY <1>5 DEF Segment
  <1>7. Gap(head, tail) \in Nat
    BY <1>1, QueueSizeAssumption DEF Slots
  <1>8. Segment(head, tail) \in Seq(Msg) /\ Len(Segment(head, tail)) = Gap(head, tail)
    BY <1>6, <1>7
  <1>9. QED
    BY <1>4, <1>8 DEF Segment, ContentsOK

\* A step that leaves the indices and the published slots alone is a stutter
\* of the channel.
LEMMA StutterKeepsContents ==
    ASSUME RingInv, RingInv', UNCHANGED <<head, tail, out>>,
           \A k \in 1..Gap(head, tail) : items'[Wrap(head + k - 1)] = items[Wrap(head + k - 1)]
    PROVE  UNCHANGED <<Contents, out>>
  <1>1. ContentsOK /\ ContentsOK'
    BY ContentsIsSegment, PTL
  <1>2. Segment(head, tail)' = Segment(head, tail)
    BY DEF Segment, Gap, Wrap
  <1>3. QED
    BY <1>1, <1>2 DEF ContentsOK

\* The copy into the ring touches no published slot.
LEMMA WriteSlotStutters ==
    ASSUME RingInv, RingInv', WriteSlot
    PROVE  UNCHANGED <<Contents, out>>
  <1>0. RingTypes
    BY RingFacts
  <1>1. Gap(head, tail) \in Slots
    BY <1>0, MaskFacts DEF RingTypes
  <1>2. /\ At(head) <= At(chead) /\ At(chead) + cleft <= At(ctail)
        /\ At(ctail) <= At(tail) /\ At(tail) <= At(ptail)
    BY DEF RingInv
  <1>3. /\ UNCHANGED <<head, tail, out>>
        /\ \A s \in Slots : s # ptail => items'[s] = items[s]
    BY DEF WriteSlot, cvars, RingInv, TypeOK
  <1>4. ASSUME NEW k \in 1..Gap(head, tail)
        PROVE  items'[Wrap(head + k - 1)] = items[Wrap(head + k - 1)]
    <2>1. PICK x : x = Wrap(head + k - 1)
      OBVIOUS
    <2>2. x \in Slots /\ Gap(head, x) = k - 1
      BY <1>0, <1>1, <2>1, QueueSizeAssumption DEF Gap, Wrap, Slots, RingTypes
    <2>3. Gap(head, x) < Gap(head, tail)
      BY <1>1, <2>2, QueueSizeAssumption DEF Slots
    <2>4. x # ptail
      BY <1>0, <1>2, <2>2, <2>3, QueueSizeAssumption DEF At, Gap, Slots, RingTypes
    <2>5. QED
      BY <1>3, <2>1, <2>2, <2>4
  <1>5. QED
    BY <1>3, <1>4, StutterKeepsContents

\* The release store of tail appends the batch that was copied in.
LEMMA PublishTailPuts ==
    ASSUME RingInv, RingInv', PublishTail
    PROVE  Fifo!Next
  <1>0. RingTypes
    BY RingFacts
  <1>1. ContentsOK /\ ContentsOK'
    BY ContentsIsSegment, PTL
  <1>2. tail' = ptail /\ UNCHANGED <<head, items, ptail, phead, out>> /\ pbuf = << >>
    BY DEF PublishTail, cvars
  <1>3. /\ At(head) <= At(chead) /\ At(chead) + cleft <= At(ctail)
        /\ At(ctail) <= At(tail) /\ At(tail) < At(ptail)
    BY <1>0, QueueSizeAssumption, EmptySeq DEF RingInv, PublishTail, RingTypes, At, Gap, Slots
  <1> DEFINE n == Gap(tail, ptail)
             b == Segment(tail, ptail)
  <1>4. /\ Gap(head, ptail) = Gap(head, tail) + n /\ n \in 1..(QUEUE_SIZE - 1)
        /\ Gap(head, tail) \in Nat /\ Gap(head, ptail) <= QUEUE_SIZE - 1
    BY <1>0, <1>3, QueueSizeAssumption DEF At, Gap, Slots, RingTypes
  <1>5. \A k \in 1..n : Wrap(head + (Gap(head, tail) + k) - 1) = Wrap(tail + k - 1)
    BY <1>0, <1>4, QueueSizeAssumption DEF Gap, Wrap, Slots, RingTypes
  <1>6. /\ Len(Contents) = Gap(head, tail) /\ Contents \in Seq(Msg)
        /\ Len(Contents') = Gap(head, tail) + n /\ Contents' \in Seq(Msg)
        /\ \A k \in 1..(Gap(head, tail) + n) : Contents'[k] = items[Wrap(head + k - 1)]
        /\ \A k \in 1..Gap(head, tail) : Contents[k] = items[Wrap(head + k - 1)]
    BY <1>1, <1>2, <1>4 DEF ContentsOK, Gap, Wrap
  <1>7. \A k \in 1..n : b[k] = Contents'[Gap(head, tail) + k]
    <2> SUFFICES ASSUME NEW k \in 1..n
                 PROVE  b[k] = Contents'[Gap(head, tail) + k]
      OBVIOUS
    <2>1. Gap(head, tail) + k \in 1..(Gap(head, tail) + n)
      BY <1>4
    <2>2. Contents'[Gap(head, tail) + k] = items[Wrap(head + (Gap(head, tail) + k) - 1)]
      BY <1>6, <2>1
    <2>3. b[k] = items[Wrap(tail + k - 1)]
      BY DEF Segment
    <2>4. QED
      BY <1>5, <2>2, <2>3
  <1>8. \A k \in 1..n : b[k] \in Msg
    <2> SUFFICES ASSUME NEW k \in 1..n
                 PROVE  b[k] \in Msg
      OBVIOUS
    <2>1. Gap(head, tail) + k \in 1..Len(Contents')
      BY <1>4, <1>6
    <2>2. QED
      BY <1>6, <1>7, <2>1, ElementOfSeq
  <1>9. b \in [1..n -> Msg]
    BY <1>8 DEF Segment
  <1>10. b \in Seq(Msg) /\ Len(b) = n
    BY <1>4, <1>9
  <1>11. Contents' = Contents \o b
    <2>1. /\ Contents \o b \in Seq(Msg)
          /\ Len(Contents \o b) = Gap(head, tail) + n
          /\ \A i \in 1..(Gap(head, tail) + n) : (Contents \o b)[i] =
                 IF i <= Gap(head, tail) THEN Contents[i] ELSE b[i - Gap(head, tail)]
      BY <1>6, <1>10, ConcatProperties
    <2>2. ASSUME NEW i \in 1..(Gap(head, tail) + n)
          PROVE  Contents'[i] = (Contents \o b)[i]
      <3>1. CASE i <= Gap(head, tail)
        <4>1. i \in 1..Gap(head, tail)
          BY <1>4, <3>1
        <4>2. QED
          BY <1>6, <2>1, <3>1, <4>1
      <3>2. CASE ~ (i <= Gap(head, tail))
        <4>1. i - Gap(head, tail) \in 1..n /\ Gap(head, tail) + (i - Gap(head, tail)) = i
          BY <1>4, <3>2
        <4>2. b[i - Gap(head, tail)] = Contents'[i]
          BY <1>7, <4>1
        <4>3. QED
          BY <2>1, <3>2, <4>2
      <3>3. QED
        BY <3>1, <3>2
    <2>3. QED
      BY <1>6, <2>1, <2>2, SeqEqual
  <1>12. Fifo!Put(b)
    BY <1>2, <1>4, <1>6, <1>10, <1>11 DEF Fifo!Put
  <1>13. QED
    BY <1>4, <1>9, <1>12 DEF Fifo!Next

\* The release store of head removes, and returns, the batch copied out.
LEMMA PublishHeadGets ==
    ASSUME RingInv, RingInv', PublishHead
    PROVE  Fifo!Next
  <1>0. RingTypes
    BY RingFacts
  <1>1. ContentsOK /\ ContentsOK'
    BY ContentsIsSegment, PTL
  <1>2. /\ head' = chead /\ out' = cbuf /\ cleft = 0 /\ cpc = "read"
        /\ UNCHANGED <<tail, items>>
    BY DEF PublishHead
  <1>3. /\ At(head) < At(chead) /\ At(chead) <= At(ctail) /\ At(ctail) <= At(tail)
        /\ Len(cbuf) = At(chead) - At(head)
    <2>1. /\ At(chead) + cleft > At(head) /\ At(chead) + cleft <= At(ctail)
          /\ At(ctail) <= At(tail) /\ Len(cbuf) = At(chead) - At(head)
      BY <1>2 DEF RingInv
    <2>2. QED
      BY <1>0, <1>2, <2>1, QueueSizeAssumption DEF At, Gap, Slots, RingTypes
  <1> DEFINE n == Gap(head, chead)
             total == Gap(head, tail)
  <1>4. /\ Len(cbuf) = n /\ total = n + Gap(chead, tail) /\ n \in 1..total
        /\ total \in Nat /\ Gap(chead, tail) \in Nat /\ total <= QUEUE_SIZE - 1
    BY <1>0, <1>3, QueueSizeAssumption DEF At, Gap, Slots, RingTypes
  <1>5. \A k \in 1..Gap(chead, tail) : Wrap(head + (n + k) - 1) = Wrap(chead + k - 1)
    BY <1>0, <1>4, QueueSizeAssumption DEF Gap, Wrap, Slots, RingTypes
  <1>6. /\ Len(Contents) = total /\ Contents \in Seq(Msg)
        /\ \A k \in 1..total : Contents[k] = items[Wrap(head + k - 1)]
        /\ Len(Contents') = Gap(chead, tail) /\ Contents' \in Seq(Msg)
        /\ \A k \in 1..Gap(chead, tail) : Contents'[k] = items[Wrap(chead + k - 1)]
    BY <1>1, <1>2 DEF ContentsOK, Gap, Wrap
  <1>7. \A i \in 1..total : Contents[i] \in Msg
    BY <1>6, ElementOfSeq
  <1>8. out' = SubSeq(Contents, 1, n)
    <2>1. \A i \in 1..n : Contents[i] \in Msg
      BY <1>4, <1>7
    <2>2. n \in Int /\ 1 \in Int /\ 1 <= n /\ n - 1 + 1 = n
      BY <1>4
    <2>3. /\ SubSeq(Contents, 1, n) \in Seq(Msg)
          /\ Len(SubSeq(Contents, 1, n)) = n
          /\ \A i \in 1..n : SubSeq(Contents, 1, n)[i] = Contents[1 + i - 1]
      BY <2>1, <2>2, SubSeqProperties
    <2>4. ASSUME NEW i \in 1..n
          PROVE  cbuf[i] = SubSeq(Contents, 1, n)[i]
      <3>1. 1 + i - 1 = i /\ i \in 1..total
        BY <1>4
      <3>2. cbuf[i] = items[Wrap(head + i - 1)]
        BY <1>4 DEF RingInv
      <3>3. QED
        BY <1>6, <2>3, <3>1, <3>2
    <2>5. QED
      BY <1>0, <1>2, <1>4, <2>3, <2>4, SeqEqual DEF RingTypes
  <1>9. Contents' = SubSeq(Contents, n + 1, Len(Contents))
    <2>1. \A i \in (n + 1)..total : Contents[i] \in Msg
      BY <1>4, <1>7
    <2>2. /\ n + 1 \in Int /\ total \in Int /\ total - (n + 1) + 1 = Gap(chead, tail)
          /\ (IF n + 1 <= total THEN total - (n + 1) + 1 ELSE 0) = Gap(chead, tail)
      BY <1>4
    <2>3. /\ SubSeq(Contents, n + 1, total) \in Seq(Msg)
          /\ Len(SubSeq(Contents, n + 1, total)) = Gap(chead, tail)
          /\ \A i \in 1..Gap(chead, tail) :
                 SubSeq(Contents, n + 1, total)[i] = Contents[n + 1 + i - 1]
      BY <2>1, <2>2, SubSeqProperties
    <2>4. ASSUME NEW i \in 1..Gap(chead, tail)
          PROVE  Contents'[i] = SubSeq(Contents, n + 1, total)[i]
      <3>1. n + 1 + i - 1 = n + i /\ n + i \in 1..total
        BY <1>4
      <3>2. Contents[n + i] = items[Wrap(head + (n + i) - 1)]
        BY <1>6, <3>1
      <3>3. QED
        BY <1>5, <1>6, <2>3, <3>1, <3>2
    <2>5. QED
      BY <1>6, <2>3, <2>4, SeqEqual
  <1>10. Fifo!Get(n)
    BY <1>8, <1>9 DEF Fifo!Get
  <1>11. QED
    BY <1>4, <1>6, <1>10 DEF Fifo!Next

\* The ring implements the bounded FIFO channel, for every ring size: the
\* two index stores are the channel's steps, all the rest stutters.
THEOREM RingImplementsFifo == Spec => ImplementsFifo
  <1>1. queue_init => Fifo!Init
    <2> SUFFICES ASSUME queue_init
                 PROVE  Contents = << >> /\ out = << >>
      BY DEF Fifo!Init
    <2>1. RingInv
      BY InitRing
    <2>2. ContentsOK
      BY <2>1, ContentsIsSegment
    <2>3. Gap(head, tail) = 0
      BY DEF Gap, queue_init
    <2>4. Contents = << >>
      BY <2>2, <2>3, EmptySeq DEF ContentsOK
    <2>5. QED
      BY <2>4 DEF queue_init
  <1>2. RingInv /\ RingInv' /\ [Next]_vars => [Fifo!Next]_<<Contents, out>>
    <2> SUFFICES ASSUME RingInv, RingInv', [Next]_vars
                 PROVE  Fifo!Next \/ UNCHANGED <<Contents, out>>
      OBVIOUS
    <2>1. CASE UNCHANGED <<head, tail, items, out>>
      BY <2>1, StutterKeepsContents
    <2>2. ASSUME NEW m \in Msg, queue_enqueue(m) PROVE UNCHANGED <<head, tail, items, out>>
      BY <2>2 DEF queue_enqueue, cvars
    <2>3. ASSUME NEW b \in Batches, queue_enqueue_batch(b)
          PROVE  UNCHANGED <<head, tail, items, out>>
      BY <2>3 DEF queue_enqueue_batch, cvars
    <2>4. CASE queue_dequeue
      BY <2>1, <2>4 DEF queue_dequeue
    <2>5. ASSUME NEW n \in 1..MaxBatch, queue_dequeue_batch(n)
          PROVE  UNCHANGED <<head, tail, items, out>>
      BY <2>5 DEF queue_dequeue_batch
    <2>6. CASE ReadSlot
      BY <2>1, <2>6 DEF ReadSlot
    <2>7. CASE WriteSlot
      BY <2>7, WriteSlotStutters
    <2>8. CASE PublishTail
      BY <2>8, PublishTailPuts
    <2>9. CASE PublishHead
      BY <2>9, PublishHeadGets
    <2>10. CASE UNCHANGED vars
      BY <2>1, <2>10 DEF vars, cvars
    <2>11. QED
      BY <2>1, <2>2, <2>3, <2>4, <2>5, <2>6, <2>7, <2>8, <2>9, <2>10 DEF Next
  <1>3. QED
    BY <1>1, <1>2, RingInvariance, PTL DEF Spec, ImplementsFifo, Fifo!Spec, Fifo!vars
=============================================================================
