------------------------------ MODULE Mailbox ------------------------------
(***************************************************************************)
(* runtime/actors/actor_state_machine.h: the ring buffer of an actor's     *)
(* mailbox.  Producer and consumer share one counter, count; head belongs  *)
(* to the consumer and tail to the producer.  They are usually the same    *)
(* thread, and two threads after an actor has changed cores, which is the  *)
(* case modelled.                                                          *)
(*                                                                         *)
(* A load of count may miss changes by the other side made since the value *)
(* last seen; the read-modify-writes of count see the latest one.  The     *)
(* decrement in mailbox_receive is relaxed: where the hardware or the      *)
(* compiler may reorder it, it takes effect before the copy of the message *)
(* that precedes it in the code.                                           *)
(***************************************************************************)
EXTENDS Integers, Sequences

CONSTANTS MAILBOX_SIZE,  \* slots of the ring
          Msg,           \* messages
          None,          \* the content of a slot never written
          MaxBatch,      \* longest batch passed to the batch operations
          Ordered        \* a copy is never reordered after the decrement

VARIABLES
    messages,  \* mbox->messages
    head,      \* mbox->head
    tail,      \* mbox->tail
    count,     \* mbox->count
    ppc,       \* the producer: "idle", "check", "write" or "publish"
    pbuf,      \* what it has still to send
    pcount,    \* the count it last saw
    cpc,       \* the consumer: "idle", "check", "read", "release" or "late"
    cleft,     \* how many more it may receive
    ccount,    \* the count it last saw
    out        \* the message received last, as a sequence of one

pvars == <<tail, ppc, pbuf, pcount>>
cvars == <<head, cpc, cleft, ccount, out>>
vars == <<messages, count, pvars, cvars>>

Slots == 0..(MAILBOX_SIZE - 1)
Mask(i) == i % MAILBOX_SIZE
Batches == UNION {[1..n -> Msg] : n \in 1..MaxBatch}

mailbox_init ==
    /\ messages = [i \in Slots |-> None]
    /\ head = 0 /\ tail = 0 /\ count = 0
    /\ ppc = "idle" /\ pbuf = << >> /\ pcount = 0
    /\ cpc = "idle" /\ cleft = 0 /\ ccount = 0 /\ out = << >>
-----------------------------------------------------------------------------
Sending(b) ==
    /\ ppc = "idle"
    /\ ppc' = "check" /\ pbuf' = b
    /\ UNCHANGED <<messages, count, tail, pcount, cvars>>

mailbox_send(m) == Sending(<<m>>)
mailbox_send_batch(b) == Sending(b)

\* Mutant: the last slot is taken for free once more.
FullOffByOne ==
    /\ ppc = "check"
    /\ \E n \in count..pcount :
        /\ pcount' = n
        /\ ppc' = IF pbuf # << >> /\ n <= MAILBOX_SIZE THEN "write" ELSE "idle"
    /\ UNCHANGED <<messages, count, tail, pbuf, cvars>>

\* The test for room, before each message; the call ends when there is none.
SendCheck ==
    /\ ppc = "check"
    /\ \E n \in count..pcount :
        /\ pcount' = n
        /\ ppc' = IF pbuf # << >> /\ n < MAILBOX_SIZE THEN "write" ELSE "idle"
    /\ UNCHANGED <<messages, count, tail, pbuf, cvars>>

WriteMessage ==
    /\ ppc = "write"
    /\ messages' = [messages EXCEPT ![tail] = Head(pbuf)]
    /\ tail' = Mask(tail + 1)
    /\ pbuf' = Tail(pbuf)
    /\ ppc' = "publish"
    /\ UNCHANGED <<count, pcount, cvars>>

\* The release increment of count.
CountUp ==
    /\ ppc = "publish"
    /\ count' = count + 1 /\ pcount' = count + 1
    /\ ppc' = "check"
    /\ UNCHANGED <<messages, tail, pbuf, cvars>>
-----------------------------------------------------------------------------
Receiving(n) ==
    /\ cpc = "idle"
    /\ cpc' = "check" /\ cleft' = n
    /\ UNCHANGED <<messages, count, pvars, head, ccount, out>>

mailbox_receive == Receiving(1)
mailbox_receive_batch(max_count) == Receiving(max_count)

\* The test for a message, before each one.
ReceiveCheck ==
    /\ cpc = "check"
    /\ \E n \in ccount..count :
        /\ ccount' = n
        /\ cpc' = IF cleft > 0 /\ n > 0 THEN "read" ELSE "idle"
    /\ UNCHANGED <<messages, count, pvars, head, cleft, out>>

\* Mutant: the head is not advanced past the slot copied.
ReadAgain ==
    /\ cpc \in {"read", "late"}
    /\ out' = <<messages[head]>>
    /\ cpc' = IF cpc = "read" THEN "release" ELSE "check"
    /\ UNCHANGED <<messages, count, pvars, head, cleft, ccount>>

\* The copy of the message at head.
ReadMessage ==
    /\ cpc \in {"read", "late"}
    /\ out' = <<messages[head]>>
    /\ head' = Mask(head + 1)
    /\ cpc' = IF cpc = "read" THEN "release" ELSE "check"
    /\ UNCHANGED <<messages, count, pvars, cleft, ccount>>

\* The relaxed decrement of count, after the copy or overtaking it.
CountDown ==
    /\ cpc = "release" \/ (~ Ordered /\ cpc = "read")
    /\ count' = count - 1 /\ ccount' = count - 1
    /\ cleft' = cleft - 1
    /\ cpc' = IF cpc = "release" THEN "check" ELSE "late"
    /\ UNCHANGED <<messages, pvars, head, out>>

Next ==
    \/ \E m \in Msg : mailbox_send(m)
    \/ \E b \in Batches : mailbox_send_batch(b)
    \/ SendCheck \/ WriteMessage \/ CountUp
    \/ mailbox_receive
    \/ \E n \in 1..MaxBatch : mailbox_receive_batch(n)
    \/ ReceiveCheck \/ ReadMessage \/ CountDown

Spec == mailbox_init /\ [][Next]_vars
-----------------------------------------------------------------------------
\* The counter that both sides change, and the counts each of them acts on, stay
\* within the ring.
TypeOK ==
    /\ messages \in [Slots -> Msg \cup {None}]
    /\ head \in Slots /\ tail \in Slots /\ count \in 0..MAILBOX_SIZE
    /\ pcount \in 0..MAILBOX_SIZE /\ ccount \in 0..MAILBOX_SIZE

\* mailbox_send never writes the slot that mailbox_receive has still to copy,
\* whatever stale count it acted on.
NoSlotRace == ~ (ppc = "write" /\ cpc \in {"read", "late"} /\ tail = head)

\* The messages counted and not yet copied out, oldest first.
Contents ==
    LET left == IF cpc = "release" THEN count - 1 ELSE count
    IN  [k \in 1..left |-> messages[Mask(head + k - 1)]]

Fifo == INSTANCE FifoChannel WITH
            chan <- Contents, out <- out, Capacity <- MAILBOX_SIZE

\* A mailbox implements a bounded FIFO channel: what mailbox_send accepted is
\* received once and in order, whichever thread each of the calls runs on.
ImplementsFifo == Fifo!Spec
=============================================================================
