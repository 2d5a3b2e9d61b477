--------------------------- MODULE MailboxProofs ---------------------------
(***************************************************************************)
(* The mailbox of an actor, for every size and with producer and consumer  *)
(* on two threads: as long as a copy is not reordered after the decrement  *)
(* of count, the two never meet in a slot, and the mailbox is a bounded    *)
(* FIFO channel.                                                           *)
(*                                                                         *)
(* The argument counts the slots in use, from head to tail: those that     *)
(* count has, one more between a copy into the ring and the increment, and *)
(* one less between a copy out of it and the decrement.                    *)
(***************************************************************************)
EXTENDS Mailbox, SequenceTheorems, TLAPS

\* What is assumed of the constants.
Hypotheses == MAILBOX_SIZE \in Nat \ {0} /\ MaxBatch \in Nat /\ Ordered

Wrap(i) == IF i < MAILBOX_SIZE THEN i ELSE i - MAILBOX_SIZE
Written == IF ppc = "publish" THEN 1 ELSE 0
Copied == IF cpc = "release" THEN 1 ELSE 0
Used == count + Written - Copied

MailboxTypes ==
    /\ TypeOK
    /\ pbuf \in Seq(Msg)
    /\ ppc \in {"idle", "check", "write", "publish"}
    /\ cpc \in {"idle", "check", "read", "release"}

\* Each side may be behind with the count, but errs on the safe side, and acts only
\* when what it has seen allows it.
CountInv ==
    /\ ccount <= count /\ count <= pcount
    /\ ppc = "write" => pbuf # << >>
    /\ ppc \in {"write", "publish"} => pcount < MAILBOX_SIZE
    /\ cpc \in {"read", "release"} => 0 < ccount

\* The slots in use lie between head and tail and hold messages.
RingInv ==
    /\ tail = Wrap(head + Used)
    /\ \A k \in 0..(Used - 1) : messages[Wrap(head + k)] \in Msg

MailboxInv == MailboxTypes /\ CountInv /\ RingInv

\* What "& MAILBOX_MASK" computes on the indices the code forms.
LEMMA MaskIsWrap ==
    ASSUME Hypotheses, NEW i \in Slots, NEW k \in 0..MAILBOX_SIZE
    PROVE  Mask(i + k) = Wrap(i + k) /\ Wrap(i + k) \in Slots
  BY SMT DEF Hypotheses, Slots, Mask, Wrap

\* No more slots are in use than there are.
LEMMA UsedInRange ==
    ASSUME Hypotheses, MailboxTypes, CountInv
    PROVE  Used \in 0..MAILBOX_SIZE /\ (ppc = "write" => Used < MAILBOX_SIZE)
  BY DEF Hypotheses, MailboxTypes, TypeOK, CountInv, Used, Written, Copied

\* Initially no slot is in use.
LEMMA InitMailbox == ASSUME Hypotheses, mailbox_init PROVE MailboxInv
  BY DEF Hypotheses, mailbox_init, MailboxInv, MailboxTypes, TypeOK, CountInv, RingInv, Used, Written,
     Copied, Wrap, Slots

\* Steps that change neither the ring nor the slots in use.
LEMMA RingKept ==
    ASSUME RingInv, UNCHANGED <<messages, head, tail>>, Used' = Used
    PROVE  RingInv'
  BY DEF RingInv, Wrap

\* A call of mailbox_send or mailbox_send_batch begins.
LEMMA Keeps_Sending ==
    ASSUME Hypotheses, MailboxInv, NEW b \in Seq(Msg), Sending(b)
    PROVE  MailboxInv'
  <1>1. MailboxTypes' /\ CountInv'
    BY DEF MailboxInv, MailboxTypes, TypeOK, CountInv, Sending, cvars
  <1>2. Used' = Used
    BY DEF MailboxInv, MailboxTypes, Sending, cvars, Used, Written, Copied
  <1>3. QED
    BY <1>1, <1>2, RingKept DEF MailboxInv, Sending, cvars

\* The test for room: a count that is stale is too high.
LEMMA Keeps_SendCheck == ASSUME Hypotheses, MailboxInv, SendCheck PROVE MailboxInv'
  <1>1. MailboxTypes' /\ CountInv'
    BY DEF Hypotheses, MailboxInv, MailboxTypes, TypeOK, CountInv, SendCheck, cvars
  <1>2. Used' = Used
    BY DEF MailboxInv, MailboxTypes, SendCheck, cvars, Used, Written, Copied
  <1>3. QED
    BY <1>1, <1>2, RingKept DEF MailboxInv, SendCheck, cvars

\* A message is copied into the slot behind those in use.
LEMMA Keeps_WriteMessage == ASSUME Hypotheses, MailboxInv, WriteMessage PROVE MailboxInv'
  <1>1. Used \in 0..(MAILBOX_SIZE - 1) /\ Used' = Used + 1
    BY UsedInRange DEF Hypotheses, MailboxInv, WriteMessage, MailboxTypes, TypeOK, cvars, Used, Written, Copied
  <1>2. head \in Slots /\ tail \in Slots /\ MAILBOX_SIZE \in Nat \ {0}
    BY DEF MailboxInv, MailboxTypes, TypeOK, Hypotheses
  <1>3. Head(pbuf) \in Msg /\ Tail(pbuf) \in Seq(Msg)
    BY HeadTailProperties DEF MailboxInv, MailboxTypes, CountInv, WriteMessage
  <1>4. Mask(tail + 1) = Wrap(tail + 1) /\ Wrap(tail + 1) \in Slots
    BY <1>2, MaskIsWrap
  <1>5. MailboxTypes' /\ CountInv'
    BY <1>2, <1>3, <1>4 DEF MailboxInv, MailboxTypes, TypeOK, CountInv, WriteMessage, cvars
  <1>6. tail' = Wrap(head + (Used + 1))
    BY <1>1, <1>2, <1>4 DEF MailboxInv, RingInv, WriteMessage, Wrap, Slots
  <1>7. ASSUME NEW k \in 0..Used
        PROVE  messages'[Wrap(head + k)] \in Msg
    <2>1. messages' = [messages EXCEPT ![tail] = Head(pbuf)] /\ messages \in [Slots -> Msg \cup {None}]
      BY DEF WriteMessage, MailboxInv, MailboxTypes, TypeOK
    <2>2. Wrap(head + k) \in Slots
      BY <1>1, <1>2 DEF Wrap, Slots
    <2>3. CASE k = Used
      BY <1>2, <1>3, <2>1, <2>3 DEF MailboxInv, RingInv
    <2>4. CASE k # Used
      <3>1. k \in 0..(Used - 1)
        BY <1>1, <2>4
      <3>2. Wrap(head + k) # tail
        BY <1>1, <1>2, <3>1 DEF MailboxInv, RingInv, Wrap, Slots
      <3>3. QED
        BY <2>1, <2>2, <3>1, <3>2 DEF MailboxInv, RingInv
    <2>5. QED
      BY <2>3, <2>4
  <1>8. head' = head /\ Used' - 1 = Used
    BY <1>1 DEF WriteMessage, cvars
  <1>9. RingInv'
    BY <1>1, <1>6, <1>7, <1>8 DEF RingInv, Wrap
  <1>10. QED
    BY <1>5, <1>9 DEF MailboxInv

\* The increment counts the slot that has just been written.
LEMMA Keeps_CountUp == ASSUME Hypotheses, MailboxInv, CountUp PROVE MailboxInv'
  <1>1. MailboxTypes' /\ CountInv'
    BY DEF Hypotheses, MailboxInv, MailboxTypes, TypeOK, CountInv, CountUp, cvars
  <1>2. Used' = Used
    BY DEF MailboxInv, MailboxTypes, TypeOK, CountUp, cvars, Used, Written, Copied
  <1>3. QED
    BY <1>1, <1>2, RingKept DEF MailboxInv, CountUp, cvars

\* A call of mailbox_receive or mailbox_receive_batch begins.
LEMMA Keeps_Receiving == ASSUME Hypotheses, MailboxInv, NEW n, Receiving(n) PROVE MailboxInv'
  <1>1. MailboxTypes' /\ CountInv'
    BY DEF MailboxInv, MailboxTypes, TypeOK, CountInv, Receiving, pvars
  <1>2. Used' = Used
    BY DEF MailboxInv, MailboxTypes, Receiving, pvars, Used, Written, Copied
  <1>3. QED
    BY <1>1, <1>2, RingKept DEF MailboxInv, Receiving, pvars

\* The test for a message: a count that is stale is too low.
LEMMA Keeps_ReceiveCheck == ASSUME Hypotheses, MailboxInv, ReceiveCheck PROVE MailboxInv'
  <1>1. MailboxTypes' /\ CountInv'
    BY DEF Hypotheses, MailboxInv, MailboxTypes, TypeOK, CountInv, ReceiveCheck, pvars
  <1>2. Used' = Used
    BY DEF MailboxInv, MailboxTypes, ReceiveCheck, pvars, Used, Written, Copied
  <1>3. QED
    BY <1>1, <1>2, RingKept DEF MailboxInv, ReceiveCheck, pvars

\* A message is copied out of the first slot in use.
LEMMA Keeps_ReadMessage == ASSUME Hypotheses, MailboxInv, ReadMessage PROVE MailboxInv'
  <1>1. Used \in 1..MAILBOX_SIZE /\ Used' = Used - 1 /\ cpc = "read"
    BY UsedInRange DEF Hypotheses, MailboxInv, ReadMessage, MailboxTypes, TypeOK, CountInv, pvars, Used, Written, Copied
  <1>2. head \in Slots /\ tail \in Slots /\ MAILBOX_SIZE \in Nat \ {0}
    BY DEF MailboxInv, MailboxTypes, TypeOK, Hypotheses
  <1>3. head' = Wrap(head + 1) /\ Wrap(head + 1) \in Slots /\ messages' = messages /\ tail' = tail
    BY <1>2, MaskIsWrap DEF ReadMessage, pvars
  <1>4. MailboxTypes' /\ CountInv'
    BY <1>1, <1>3 DEF MailboxInv, MailboxTypes, TypeOK, CountInv, ReadMessage, pvars
  <1>5. \A k \in 0..(Used - 1) : Wrap(Wrap(head + 1) + k) = Wrap(head + (k + 1))
    BY <1>1, <1>2 DEF Wrap, Slots
  <1>6. tail' = Wrap(head' + (Used - 1))
    <2>1. Wrap(Wrap(head + 1) + (Used - 1)) = Wrap(head + Used)
      BY <1>1, <1>2 DEF Wrap, Slots
    <2>2. QED
      BY <1>3, <2>1 DEF MailboxInv, RingInv
  <1>7. ASSUME NEW k \in 0..(Used - 2)
        PROVE  messages'[Wrap(head' + k)] \in Msg
    <2>1. k \in 0..(Used - 1) /\ k + 1 \in 0..(Used - 1)
      BY <1>1
    <2>2. messages[Wrap(head + (k + 1))] \in Msg
      BY <2>1 DEF MailboxInv, RingInv
    <2>3. QED
      BY <1>3, <1>5, <2>1, <2>2
  <1>8. Used' - 1 = Used - 2
    BY <1>1
  <1>9. RingInv'
    BY <1>1, <1>6, <1>7, <1>8 DEF RingInv, Wrap
  <1>10. QED
    BY <1>4, <1>9 DEF MailboxInv

\* The decrement gives back the slot that has been copied, as the order of the two says.
LEMMA Keeps_CountDown == ASSUME Hypotheses, MailboxInv, CountDown PROVE MailboxInv'
  <1>0. cpc = "release"
    BY DEF Hypotheses, CountDown
  <1>1. MailboxTypes' /\ CountInv'
    BY <1>0 DEF Hypotheses, MailboxInv, MailboxTypes, TypeOK, CountInv, CountDown, pvars
  <1>2. Used' = Used
    BY <1>0 DEF MailboxInv, MailboxTypes, TypeOK, CountDown, pvars, Used, Written, Copied
  <1>3. QED
    BY <1>1, <1>2, RingKept DEF MailboxInv, CountDown, pvars

\* Every step keeps the invariant.
LEMMA NextKeeps == ASSUME Hypotheses, MailboxInv, [Next]_vars PROVE MailboxInv'
  <1>1. ASSUME NEW m \in Msg, mailbox_send(m) PROVE MailboxInv'
    <2>1. <<m>> \in Seq(Msg)
      BY <1>1
    <2>2. QED
      BY <1>1, <2>1, Keeps_Sending DEF mailbox_send
  <1>2. ASSUME NEW b \in Batches, mailbox_send_batch(b) PROVE MailboxInv'
    <2>1. b \in Seq(Msg)
      BY <1>2 DEF Batches, Hypotheses
    <2>2. QED
      BY <1>2, <2>1, Keeps_Sending DEF mailbox_send_batch
  <1>3. ASSUME NEW n \in 1..MaxBatch, mailbox_receive_batch(n) PROVE MailboxInv'
    BY <1>3, Keeps_Receiving DEF mailbox_receive_batch
  <1>4. CASE mailbox_receive
    BY <1>4, Keeps_Receiving DEF mailbox_receive
  <1>5. CASE UNCHANGED vars
    BY <1>5 DEF vars, pvars, cvars, MailboxInv, MailboxTypes, TypeOK, CountInv, RingInv, Used, Written,
       Copied, Wrap
  <1>6. QED
    BY <1>1, <1>2, <1>3, <1>4, <1>5, Keeps_SendCheck, Keeps_WriteMessage, Keeps_CountUp,
       Keeps_ReceiveCheck, Keeps_ReadMessage, Keeps_CountDown DEF Next

\* The inductive invariant of the mailbox: the counts each side acts on err on the safe
\* side, and the slots between head and tail hold the messages.
THEOREM MailboxInvariance == ASSUME Hypotheses PROVE Spec => []MailboxInv
  <1>1. mailbox_init => MailboxInv
    BY InitMailbox
  <1>2. MailboxInv /\ [Next]_vars => MailboxInv'
    BY NextKeeps
  <1>3. QED
    BY <1>1, <1>2, PTL DEF Spec

\* For every size, mailbox_send never writes the slot that mailbox_receive has still to
\* copy, whatever stale count it acted on.
THEOREM MailboxRaceFree == ASSUME Hypotheses PROVE Spec => []NoSlotRace
  <1>1. MailboxInv => NoSlotRace
    <2> SUFFICES ASSUME MailboxInv, ppc = "write", cpc = "read"
                 PROVE  tail # head
      BY DEF NoSlotRace, MailboxInv, MailboxTypes
    <2>1. Used \in 1..(MAILBOX_SIZE - 1)
      BY UsedInRange DEF Hypotheses, MailboxInv, MailboxTypes, TypeOK, CountInv, Used, Written, Copied
    <2>2. QED
      BY <2>1 DEF Hypotheses, MailboxInv, MailboxTypes, TypeOK, RingInv, Wrap, Slots
  <1>2. QED
    BY <1>1, MailboxInvariance, PTL
-----------------------------------------------------------------------------
\* The messages a receiver can still be given: counted, and not copied yet.
Remaining == count - Copied

ContentsOK ==
    /\ Remaining \in 0..MAILBOX_SIZE /\ Remaining <= Used
    /\ Contents \in Seq(Msg) /\ Len(Contents) = Remaining
    /\ \A k \in 1..Remaining : Contents[k] = messages[Wrap(head + (k - 1))]

\* The contents are the first slots in use.
LEMMA ContentsAreSlots == ASSUME Hypotheses, MailboxInv PROVE ContentsOK
  <1>1. /\ Remaining \in 0..MAILBOX_SIZE /\ Remaining <= Used /\ Used \in 0..MAILBOX_SIZE
        /\ head \in Slots /\ MAILBOX_SIZE \in Nat \ {0}
    BY UsedInRange DEF Hypotheses, MailboxInv, MailboxTypes, TypeOK, CountInv, Remaining, Used, Written, Copied
  <1>2. Contents = [k \in 1..Remaining |-> messages[Mask(head + k - 1)]]
    <2>1. (IF cpc = "release" THEN count - 1 ELSE count) = Remaining
      BY DEF Remaining, Copied, MailboxInv, MailboxTypes, TypeOK
    <2>2. QED
      BY <2>1 DEF Contents
  <1>3. ASSUME NEW k \in 1..Remaining
        PROVE  /\ messages[Mask(head + k - 1)] = messages[Wrap(head + (k - 1))]
               /\ messages[Wrap(head + (k - 1))] \in Msg
    <2>1. /\ k - 1 \in 0..MAILBOX_SIZE /\ k - 1 \in 0..(Used - 1)
          /\ head + k - 1 = head + (k - 1)
      BY <1>1 DEF Slots
    <2>2. Mask(head + (k - 1)) = Wrap(head + (k - 1))
      BY <1>1, <2>1, MaskIsWrap
    <2>3. QED
      BY <2>1, <2>2 DEF MailboxInv, RingInv
  <1>4. Contents \in [1..Remaining -> Msg]
    BY <1>2, <1>3
  <1>5. Contents \in Seq(Msg) /\ Len(Contents) = Remaining
    BY <1>1, <1>4
  <1>6. QED
    BY <1>1, <1>2, <1>3, <1>5 DEF ContentsOK

\* A step that leaves these slots and their number alone is a stutter of the channel.
LEMMA StutterKeepsContents ==
    ASSUME Hypotheses, MailboxInv, MailboxInv', UNCHANGED <<head, out>>, Remaining' = Remaining,
           \A k \in 1..Remaining : messages'[Wrap(head + (k - 1))] = messages[Wrap(head + (k - 1))]
    PROVE  UNCHANGED <<Contents, out>>
  <1>1. ContentsOK
    BY ContentsAreSlots
  <1>2. ContentsOK'
    BY ContentsAreSlots, PTL
  <1>3. Wrap(head)' = Wrap(head) /\ \A k \in 1..Remaining : Contents'[k] = Contents[k]
    BY <1>1, <1>2 DEF ContentsOK, Wrap
  <1>4. Contents' = Contents
    BY <1>1, <1>2, <1>3, SeqEqual DEF ContentsOK
  <1>5. QED
    BY <1>4

\* The copy into the ring goes to a slot behind the contents.
LEMMA WriteStutters ==
    ASSUME Hypotheses, MailboxInv, MailboxInv', WriteMessage
    PROVE  UNCHANGED <<Contents, out>>
  <1>1. ContentsOK /\ head \in Slots /\ MAILBOX_SIZE \in Nat \ {0} /\ Used \in 0..(MAILBOX_SIZE - 1)
    BY ContentsAreSlots, UsedInRange DEF MailboxInv, MailboxTypes, TypeOK, Hypotheses, WriteMessage
  <1>2. UNCHANGED <<head, out>> /\ Remaining' = Remaining
    BY DEF WriteMessage, cvars, Remaining, Copied
  <1>3. ASSUME NEW k \in 1..Remaining
        PROVE  messages'[Wrap(head + (k - 1))] = messages[Wrap(head + (k - 1))]
    <2>1. k - 1 \in 0..(Used - 1)
      BY <1>1 DEF ContentsOK
    <2>2. Wrap(head + (k - 1)) \in Slots /\ Wrap(head + (k - 1)) # tail
      BY <1>1, <2>1 DEF MailboxInv, RingInv, Wrap, Slots
    <2>3. QED
      BY <2>2 DEF WriteMessage, MailboxInv, MailboxTypes, TypeOK
  <1>4. QED
    BY <1>2, <1>3, StutterKeepsContents

\* The increment of count puts the message that was copied in at the end.
LEMMA CountUpPuts ==
    ASSUME Hypotheses, MailboxInv, MailboxInv', CountUp
    PROVE  Fifo!Next
  <1>1. ContentsOK
    BY ContentsAreSlots
  <1>2. ContentsOK'
    BY ContentsAreSlots, PTL
  <1>3. UNCHANGED <<messages, head, out>> /\ Remaining' = Remaining + 1 /\ Used = Remaining + 1
    BY DEF CountUp, cvars, Remaining, Used, Written, Copied, MailboxInv, MailboxTypes, TypeOK
  <1> DEFINE m == messages[Wrap(head + Remaining)]
             b == <<m>>
  <1>4. m \in Msg
    <2>1. Remaining \in 0..(Used - 1)
      BY <1>1, <1>3 DEF ContentsOK
    <2>2. QED
      BY <2>1 DEF MailboxInv, RingInv
  <1>5. /\ Contents' \in Seq(Msg) /\ Len(Contents') = Remaining + 1 /\ Remaining + 1 <= MAILBOX_SIZE
        /\ \A k \in 1..(Remaining + 1) : Contents'[k] = messages[Wrap(head + (k - 1))]
    BY <1>1, <1>2, <1>3 DEF ContentsOK, Wrap, Hypotheses
  <1>6. /\ Contents \in Seq(Msg) /\ Len(Contents) = Remaining /\ Remaining \in Nat
        /\ \A k \in 1..Remaining : Contents[k] = messages[Wrap(head + (k - 1))]
    BY <1>1 DEF ContentsOK, Hypotheses
  <1>7. b \in Seq(Msg) /\ Len(b) = 1 /\ b[1] = m /\ b \in [1..1 -> Msg]
    BY <1>4
  <1>8. Contents' = Contents \o b
    <2>1. /\ Contents \o b \in Seq(Msg) /\ Len(Contents \o b) = Remaining + 1
          /\ \A i \in 1..(Remaining + 1) :
                 (Contents \o b)[i] = IF i <= Remaining THEN Contents[i] ELSE b[i - Remaining]
      BY <1>6, <1>7, ConcatProperties
    <2>2. ASSUME NEW i \in 1..(Remaining + 1)
          PROVE  Contents'[i] = (Contents \o b)[i]
      <3>1. CASE i <= Remaining
        <4>1. i \in 1..Remaining
          BY <1>6, <3>1
        <4>2. QED
          BY <1>5, <1>6, <2>1, <3>1, <4>1
      <3>2. CASE ~ (i <= Remaining)
        <4>1. i - Remaining = 1 /\ i - 1 = Remaining
          BY <1>6, <3>2
        <4>2. QED
          BY <1>5, <1>7, <2>1, <3>2, <4>1
      <3>3. QED
        BY <3>1, <3>2
    <2>3. QED
      BY <1>5, <2>1, <2>2, SeqEqual
  <1>9. Fifo!Put(b)
    BY <1>3, <1>5, <1>6, <1>7, <1>8 DEF Fifo!Put
  <1>10. 1 \in 1..MAILBOX_SIZE
    BY DEF Hypotheses
  <1>11. QED
    BY <1>7, <1>9, <1>10 DEF Fifo!Next

\* The copy out of the ring takes the first message.
LEMMA ReadMessageGets ==
    ASSUME Hypotheses, MailboxInv, MailboxInv', ReadMessage
    PROVE  Fifo!Next
  <1>1. ContentsOK
    BY ContentsAreSlots
  <1>2. ContentsOK'
    BY ContentsAreSlots, PTL
  <1>3. /\ UNCHANGED messages /\ head \in Slots /\ head' = Mask(head + 1) /\ out' = <<messages[head]>>
        /\ Remaining = count /\ count >= 1 /\ Remaining' = count - 1 /\ count \in 1..MAILBOX_SIZE
    BY DEF ReadMessage, pvars, Remaining, Copied, Hypotheses, MailboxInv, MailboxTypes, TypeOK, CountInv
  <1>4. head' = Wrap(head + 1) /\ MAILBOX_SIZE \in Nat \ {0}
    BY <1>3, MaskIsWrap DEF Hypotheses
  <1>5. /\ Contents \in Seq(Msg) /\ Len(Contents) = count
        /\ \A k \in 1..count : Contents[k] = messages[Wrap(head + (k - 1))] /\ Contents[k] \in Msg
    BY <1>1, <1>3, ElementOfSeq DEF ContentsOK
  <1>6. /\ Contents' \in Seq(Msg) /\ Len(Contents') = count - 1
        /\ \A k \in 1..(count - 1) : Contents'[k] = messages[Wrap(head' + (k - 1))]
    BY <1>2, <1>3 DEF ContentsOK, Wrap
  <1>7. \A k \in 1..(count - 1) : Wrap(head' + (k - 1)) = Wrap(head + k)
    BY <1>3, <1>4 DEF Wrap, Slots
  <1>8. out' = SubSeq(Contents, 1, 1)
    <2>1. /\ SubSeq(Contents, 1, 1) \in Seq(Msg) /\ Len(SubSeq(Contents, 1, 1)) = 1
          /\ SubSeq(Contents, 1, 1)[1] = Contents[1]
      BY <1>3, <1>5, SubSeqProperties
    <2>2. Wrap(head + (1 - 1)) = head
      BY <1>3, <1>4 DEF Wrap, Slots
    <2>3. Contents[1] = messages[head] /\ messages[head] \in Msg
      BY <1>3, <1>5, <2>2
    <2>4. out' \in Seq(Msg) /\ Len(out') = 1 /\ out'[1] = messages[head]
      BY <1>3, <2>3
    <2>5. QED
      BY <2>1, <2>3, <2>4, SeqEqual
  <1>9. Contents' = SubSeq(Contents, 2, Len(Contents))
    <2>1. /\ SubSeq(Contents, 2, count) \in Seq(Msg) /\ Len(SubSeq(Contents, 2, count)) = count - 1
          /\ \A i \in 1..(count - 1) : SubSeq(Contents, 2, count)[i] = Contents[2 + i - 1]
      <3>1. \A i \in 2..count : Contents[i] \in Msg
        BY <1>3, <1>5
      <3>2. 2 \in Int /\ count \in Int /\ (IF 2 <= count THEN count - 2 + 1 ELSE 0) = count - 1
        BY <1>3
      <3>3. QED
        BY <3>1, <3>2, SubSeqProperties
    <2>2. ASSUME NEW i \in 1..(count - 1)
          PROVE  Contents'[i] = SubSeq(Contents, 2, count)[i]
      <3>1. 2 + i - 1 = i + 1 /\ i + 1 \in 1..count /\ (i + 1) - 1 = i
        BY <1>3
      <3>2. Contents[i + 1] = messages[Wrap(head + i)]
        BY <1>5, <3>1
      <3>3. QED
        BY <1>6, <1>7, <2>1, <3>1, <3>2
    <2>3. QED
      BY <1>5, <1>6, <2>1, <2>2, SeqEqual
  <1>10. Fifo!Get(1)
    BY <1>8, <1>9 DEF Fifo!Get
  <1>11. 1 \in 1..Len(Contents)
    BY <1>3, <1>5
  <1>12. QED
    BY <1>10, <1>11 DEF Fifo!Next

\* The other steps do not touch the contents.
LEMMA OthersStutter ==
    ASSUME Hypotheses, MailboxInv, MailboxInv', UNCHANGED <<messages, head, out>>, Remaining' = Remaining
    PROVE  UNCHANGED <<Contents, out>>
  BY StutterKeepsContents

\* For every size the mailbox implements the bounded FIFO channel: the increment of count
\* in mailbox_send and the copy in mailbox_receive are its steps, all the rest stutters.
THEOREM MailboxIsFifo == ASSUME Hypotheses PROVE Spec => ImplementsFifo
  <1>1. mailbox_init => Fifo!Init
    <2> SUFFICES ASSUME mailbox_init
                 PROVE  Contents = << >> /\ out = << >>
      BY DEF Fifo!Init
    <2>1. ContentsOK
      BY InitMailbox, ContentsAreSlots
    <2>2. Remaining = 0
      BY DEF mailbox_init, Remaining, Copied
    <2>3. Contents = << >>
      BY <2>1, <2>2, EmptySeq DEF ContentsOK
    <2>4. QED
      BY <2>3 DEF mailbox_init
  <1>2. MailboxInv /\ MailboxInv' /\ [Next]_vars => [Fifo!Next]_<<Contents, out>>
    <2> SUFFICES ASSUME MailboxInv, MailboxInv', [Next]_vars
                 PROVE  Fifo!Next \/ UNCHANGED <<Contents, out>>
      OBVIOUS
    <2> DEFINE Still == UNCHANGED <<messages, head, out>> /\ Remaining' = Remaining
    <2>1. ASSUME NEW b, Sending(b) PROVE Still
      BY <2>1 DEF Sending, cvars, Remaining, Copied
    <2>2. ASSUME NEW n, Receiving(n) PROVE Still
      BY <2>2 DEF Receiving, Remaining, Copied
    <2>3. CASE SendCheck
      BY <2>3, OthersStutter DEF SendCheck, cvars, Remaining, Copied
    <2>4. CASE ReceiveCheck
      BY <2>4, OthersStutter DEF ReceiveCheck, Remaining, Copied
    <2>5. ASSUME CountDown PROVE Still
      BY <2>5 DEF CountDown, Hypotheses, Remaining, Copied, MailboxInv, MailboxTypes, TypeOK
    <2>6. CASE UNCHANGED vars
      BY <2>6, OthersStutter DEF vars, cvars, Remaining, Copied
    <2>7. CASE Still
      BY <2>7, OthersStutter
    <2>8. ASSUME NEW m \in Msg, mailbox_send(m) PROVE Still
      BY <2>1, <2>8 DEF mailbox_send
    <2>9. ASSUME NEW b \in Batches, mailbox_send_batch(b) PROVE Still
      BY <2>1, <2>9 DEF mailbox_send_batch
    <2>10. ASSUME mailbox_receive PROVE Still
      BY <2>2, <2>10 DEF mailbox_receive
    <2>11. ASSUME NEW n \in 1..MaxBatch, mailbox_receive_batch(n) PROVE Still
      BY <2>2, <2>11 DEF mailbox_receive_batch
    <2> HIDE DEF Still
    <2>12. QED
      BY <2>3, <2>4, <2>5, <2>6, <2>7, <2>8, <2>9, <2>10, <2>11, WriteStutters, CountUpPuts,
         ReadMessageGets DEF Next
  <1>3. QED
    BY <1>1, <1>2, MailboxInvariance, PTL DEF Spec, ImplementsFifo, Fifo!Spec, Fifo!vars
=============================================================================
