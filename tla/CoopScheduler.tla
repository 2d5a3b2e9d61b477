--------------------------- MODULE CoopScheduler ---------------------------
(***************************************************************************)
(* The single-threaded scheduler of builds without threads                 *)
(* (runtime/scheduler/aether_scheduler_coop.c) with the sends of           *)
(* aether_send_message.c and the generated step function as that build     *)
(* compiles them.                                                          *)
(*                                                                         *)
(* Everything runs on one stack: handlers, asks, scheduler_wait and the    *)
(* polls the last two make.  A send steps its target at once, inside the   *)
(* sender; an ask and a wait poll all actors.                              *)
(***************************************************************************)
EXTENDS Integers, Sequences, FiniteSets

CONSTANTS MaxActors,         \* actors 1..MaxActors, in the order of the actor list
          MAILBOX_SIZE,
          Loads,             \* what the programs may do; see Load
          MaxMessages,       \* bound on the messages sent and asked
          MaxRounds          \* rounds of polling an ask makes (100000 in the code)

VARIABLES
    load,
    mailbox,     \* per actor, the messages [id, slot] waiting
    timeout,     \* per actor, whether a receive timeout is pending
    slot,        \* the reply each ask received: NoReply at first
    g_current_reply_slot,
    stack,       \* the frames of the thread
    nsent,       \* messages made; a message's id is its number
    handled, dropped,  \* the messages [actor, id] a handler was started for, ids that found no room
    result       \* what each finished ask returned

coop_vars == <<load, mailbox, timeout, slot, g_current_reply_slot, stack, nsent, handled,
               dropped, result>>

MainProgram == 0
NULL == 0
NoReply == -1
Actors == 1..MaxActors
\* Who sends to whom, who asks whom, who has a receive timeout.
Load == [sends : SUBSET ((Actors \cup {MainProgram}) \X Actors),
         asks : SUBSET ((Actors \cup {MainProgram}) \X Actors), timeouts : SUBSET Actors]

Top == stack[Len(stack)]
Running(a, id) == [kind |-> "run", actor |-> a, id |-> id, rounds |-> 0]
Asking(c, s) == [kind |-> "ask", actor |-> c, id |-> s, rounds |-> 0]
Waiting == [kind |-> "wait", actor |-> MainProgram, id |-> 0, rounds |-> 0]
\* A poll: the actor it is at, the steps it may make and has made there, its total.
Polling(limit) == [kind |-> "poll", actor |-> 1, limit |-> limit, n |-> 0, total |-> 0]
CanCall == stack # << >> => Top.kind = "run"
Caller == IF stack = << >> THEN MainProgram ELSE Top.actor
SetTop(f) == [stack EXCEPT ![Len(stack)] = f]
Pop == SubSeq(stack, 1, Len(stack) - 1)
\* The asks that have not returned: their reply slots are on the stack.
LiveSlots == {stack[i].id : i \in {j \in 1..Len(stack) : stack[j].kind = "ask"}}

coop_init ==
    /\ load \in Loads
    /\ mailbox = [a \in Actors |-> << >>]
    /\ timeout = [a \in Actors |-> a \in load.timeouts]
    /\ slot = [s \in 1..MaxMessages |-> NoReply] /\ g_current_reply_slot = NULL
    /\ stack = << >> /\ nsent = 0 /\ handled = << >> /\ dropped = {}
    /\ result = [s \in 1..MaxMessages |-> NULL]
-----------------------------------------------------------------------------
\* Mutant: a full mailbox keeps the newest message.
SendOverwrites(a, m) ==
    IF Len(mailbox[a]) < MAILBOX_SIZE
    THEN [boxes |-> [mailbox EXCEPT ![a] = Append(@, m)], lost |-> {}]
    ELSE [boxes |-> [mailbox EXCEPT ![a][MAILBOX_SIZE] = m], lost |-> {}]

\* mailbox_send, whose result every caller ignores.
mailbox_send(a, m) ==
    IF Len(mailbox[a]) < MAILBOX_SIZE
    THEN [boxes |-> [mailbox EXCEPT ![a] = Append(@, m)], lost |-> {}]
    ELSE [boxes |-> mailbox, lost |-> {m.id}]

\* Mutant: a message without a slot leaves the last one current.
StepKeepsSlot(a, boxes, st) ==
    \/ /\ timeout[a]
       /\ timeout' = [timeout EXCEPT ![a] = FALSE]
       /\ stack' = Append(st, Running(a, NULL))
       /\ mailbox' = boxes
       /\ UNCHANGED <<handled, g_current_reply_slot>>
    \/ /\ boxes[a] # << >>
       /\ timeout' = [timeout EXCEPT ![a] = FALSE]
       /\ stack' = Append(st, Running(a, Head(boxes[a]).id))
       /\ mailbox' = [boxes EXCEPT ![a] = Tail(@)]
       /\ handled' = Append(handled, [actor |-> a, id |-> Head(boxes[a]).id])
       /\ g_current_reply_slot' = IF Head(boxes[a]).slot = NULL THEN g_current_reply_slot
                                  ELSE Head(boxes[a]).slot
    \/ /\ boxes[a] = << >>
       /\ stack' = st /\ mailbox' = boxes
       /\ UNCHANGED <<timeout, handled, g_current_reply_slot>>

\* The generated step function of actor a, called from the stack st with the
\* mailboxes boxes: a timeout that has expired fires its handler and receives
\* nothing; a message received cancels the timeout and starts its handler.
step(a, boxes, st) ==
    \/ /\ timeout[a]
       /\ timeout' = [timeout EXCEPT ![a] = FALSE]
       /\ stack' = Append(st, Running(a, NULL))
       /\ mailbox' = boxes
       /\ UNCHANGED <<handled, g_current_reply_slot>>
    \/ /\ boxes[a] # << >>
       /\ timeout' = [timeout EXCEPT ![a] = FALSE]
       /\ stack' = Append(st, Running(a, Head(boxes[a]).id))
       /\ mailbox' = [boxes EXCEPT ![a] = Tail(@)]
       /\ handled' = Append(handled, [actor |-> a, id |-> Head(boxes[a]).id])
       /\ g_current_reply_slot' = Head(boxes[a]).slot
    \/ /\ boxes[a] = << >>
       /\ stack' = st /\ mailbox' = boxes
       /\ UNCHANGED <<timeout, handled, g_current_reply_slot>>

\* aether_send_message, which is aether_send_message_sync in this build.
aether_send_message(a) ==
    LET sent == mailbox_send(a, [id |-> nsent + 1, slot |-> NULL])
    IN  /\ CanCall /\ <<Caller, a>> \in load.sends /\ nsent < MaxMessages
        /\ nsent' = nsent + 1
        /\ dropped' = dropped \cup sent.lost
        /\ step(a, sent.boxes, stack)
        /\ UNCHANGED <<load, slot, result>>

\* A batch send only delivers.
scheduler_send_batch_add(a) ==
    LET sent == mailbox_send(a, [id |-> nsent + 1, slot |-> NULL])
    IN  /\ stack = << >> /\ <<MainProgram, a>> \in load.sends /\ nsent < MaxMessages
        /\ nsent' = nsent + 1
        /\ dropped' = dropped \cup sent.lost
        /\ mailbox' = sent.boxes
        /\ UNCHANGED <<load, timeout, slot, g_current_reply_slot, stack, handled, result>>

\* scheduler_ask_message: deliver, then poll, one message per actor, until the slot
\* on the stack is filled or the rounds are used up.
scheduler_ask_message(a) ==
    LET k == nsent + 1
        sent == mailbox_send(a, [id |-> k, slot |-> k])
    IN  /\ CanCall /\ <<Caller, a>> \in load.asks /\ nsent < MaxMessages
        /\ nsent' = k
        /\ dropped' = dropped \cup sent.lost
        /\ mailbox' = sent.boxes
        /\ stack' = Append(stack, Asking(Caller, k))
        /\ UNCHANGED <<load, timeout, slot, g_current_reply_slot, handled, result>>

AskRound ==
    /\ stack # << >> /\ Top.kind = "ask"
    /\ slot[Top.id] = NoReply /\ Top.rounds < MaxRounds
    /\ stack' = Append(SetTop([Top EXCEPT !.rounds = @ + 1]), Polling(1))
    /\ UNCHANGED <<load, mailbox, timeout, slot, g_current_reply_slot, nsent, handled, dropped,
                   result>>

AskEnds ==
    /\ stack # << >> /\ Top.kind = "ask"
    /\ slot[Top.id] # NoReply \/ Top.rounds = MaxRounds
    /\ result' = [result EXCEPT ![Top.id] = slot[Top.id]]
    /\ stack' = Pop
    /\ UNCHANGED <<load, mailbox, timeout, slot, g_current_reply_slot, nsent, handled, dropped>>

\* scheduler_reply, by the handler of a message: into whatever slot the last message
\* received carried.
scheduler_reply ==
    /\ stack # << >> /\ Top.kind = "run" /\ Top.id # NULL /\ g_current_reply_slot # NULL
    /\ slot' = [slot EXCEPT ![g_current_reply_slot] = Top.id]
    /\ UNCHANGED <<load, mailbox, timeout, g_current_reply_slot, stack, nsent, handled, dropped,
                   result>>

HandlerReturns ==
    /\ stack # << >> /\ Top.kind = "run"
    /\ stack' = Pop
    /\ UNCHANGED <<load, mailbox, timeout, slot, g_current_reply_slot, nsent, handled, dropped,
                   result>>
-----------------------------------------------------------------------------
\* aether_scheduler_poll at one actor: step it while it has messages and the limit
\* allows, or once if it has none and a timeout is pending.
PollStep ==
    LET a == Top.actor
    IN  /\ stack # << >> /\ Top.kind = "poll" /\ a \in Actors
        /\ \/ mailbox[a] # << >> /\ Top.n < Top.limit
           \/ mailbox[a] = << >> /\ Top.n = 0 /\ timeout[a]
        /\ step(a, mailbox,
                SetTop([Top EXCEPT !.n = IF mailbox[a] = << >> THEN Top.limit ELSE @ + 1,
                                   !.total = @ + 1]))
        /\ UNCHANGED <<load, slot, nsent, dropped, result>>

\* ... and go on to the next one.
PollNext ==
    LET a == Top.actor
    IN  /\ stack # << >> /\ Top.kind = "poll" /\ a \in Actors
        /\ IF mailbox[a] # << >> THEN Top.n >= Top.limit ELSE Top.n > 0 \/ ~ timeout[a]
        /\ stack' = SetTop([Top EXCEPT !.actor = a + 1, !.n = 0])
        /\ UNCHANGED <<load, mailbox, timeout, slot, g_current_reply_slot, nsent, handled,
                       dropped, result>>

\* A poll returns to the ask or the scheduler_wait that made it; the wait ends when
\* nothing was processed and no timeout is pending.
PollReturns ==
    /\ stack # << >> /\ Top.kind = "poll" /\ Top.actor \notin Actors
    /\ stack' = IF /\ stack[Len(stack) - 1].kind = "wait"
                   /\ Top.total = 0 /\ \A a \in Actors : ~ timeout[a]
                THEN SubSeq(stack, 1, Len(stack) - 2) ELSE Pop
    /\ UNCHANGED <<load, mailbox, timeout, slot, g_current_reply_slot, nsent, handled, dropped,
                   result>>

scheduler_wait ==
    /\ stack = << >> /\ nsent > 0
    /\ stack' = <<Waiting>>
    /\ UNCHANGED <<load, mailbox, timeout, slot, g_current_reply_slot, nsent, handled, dropped,
                   result>>

\* aether_scheduler_poll(0) allows 1024 steps per actor, more than there are messages.
WaitRound ==
    /\ stack # << >> /\ Top.kind = "wait"
    /\ stack' = Append(stack, Polling(MaxMessages + 1))
    /\ UNCHANGED <<load, mailbox, timeout, slot, g_current_reply_slot, nsent, handled, dropped,
                   result>>

coop_proceed ==
    \/ AskRound \/ AskEnds \/ HandlerReturns \/ PollStep \/ PollNext \/ PollReturns \/ WaitRound

coop_next ==
    \/ \E a \in Actors : \/ aether_send_message(a) \/ scheduler_send_batch_add(a)
                         \/ scheduler_ask_message(a)
    \/ scheduler_reply \/ scheduler_wait \/ coop_proceed
-----------------------------------------------------------------------------
\* The variables have their types, and no mailbox is overfull.
CoopTypeOK ==
    /\ load \in Load
    /\ \A a \in Actors : Len(mailbox[a]) <= MAILBOX_SIZE
    /\ timeout \in [Actors -> BOOLEAN]
    /\ nsent \in 0..MaxMessages /\ dropped \subseteq 1..nsent
    /\ g_current_reply_slot \in 0..nsent
    /\ \A i \in 1..Len(stack) : stack[i].kind \in {"run", "ask", "wait", "poll"}

\* scheduler_wait returns only when no actor has a message waiting and no receive
\* timeout is pending: everything that was sent and found room has been handled.
CoopWaitDone ==
    [][(stack # << >> /\ stack[1].kind = "wait" /\ stack' = << >>)
       => \A a \in Actors : mailbox[a] = << >> /\ ~ timeout[a]]_coop_vars

\* The messages of one actor are handled in the order in which they were sent, each
\* once, although sends, asks and waits nest; what is not handled is in the mailbox,
\* or found it full.
CoopInOrder ==
    LET Handled(a) == SelectSeq(handled, LAMBDA h : h.actor = a)
        Ids(s) == [i \in 1..Len(s) |-> s[i].id]
        All(a) == Ids(Handled(a)) \o Ids(mailbox[a])
    IN  /\ \A a \in Actors : \A i, j \in 1..Len(All(a)) : i < j => All(a)[i] < All(a)[j]
        /\ 1..nsent = dropped \cup UNION {{All(a)[i] : i \in 1..Len(All(a))} : a \in Actors}

\* An ask gets the reply of the handler of its own message, or none.
CoopReplyMatches == \A s \in 1..MaxMessages : result[s] \in {NULL, NoReply, s}

\* A reply is written only into the slot of an ask that is still waiting: the slot is
\* on the stack of scheduler_ask_message.
CoopNoDanglingReply ==
    [][\A s \in 1..MaxMessages : slot'[s] # slot[s] => s \in LiveSlots]_coop_vars

\* Every ask and every wait of the main program comes to an end.
CoopReturns == (stack # << >>) ~> (stack = << >>)
=============================================================================
