----------------------------- MODULE AskReply -----------------------------
(***************************************************************************)
(* Asks: scheduler_ask_message and scheduler_reply in                      *)
(* runtime/scheduler/multicore_scheduler.c.  An ask sends a message that   *)
(* carries a reply slot and waits for the slot to be filled or for a       *)
(* timeout; asker and handler share the slot by a reference count.         *)
(*                                                                         *)
(* Two thread-local variables connect the calls: g_pending_reply_slot, set *)
(* while an ask sends its message, ends up in every message sent meanwhile *)
(* on that thread, and g_current_reply_slot, set when a handler starts, is *)
(* where scheduler_reply finds the slot.  A thread is therefore a stack of *)
(* handlers and asks: a send to an idle actor of the same core runs its    *)
(* handler at once, inside the handler or the ask that sends.              *)
(*                                                                         *)
(* Mailboxes are unbounded sequences here and channels are left out;       *)
(* MulticoreScheduler has the delivery.                                    *)
(***************************************************************************)
EXTENDS Integers, Sequences, FiniteSets

CONSTANTS Cores, Main,        \* scheduler threads, and the main thread
          Actors, Home,       \* the actors and the core each starts on
          Loads,              \* what the program does: see Asking and Sending
          MaxAsks, MaxSends,  \* bounds on the asks and the plain sends made
          MAX_INLINE_DEPTH

VARIABLES
    load,       \* the program that runs, a record [asks, sends]
    slot,       \* the slots, one for each ask made
    mailbox,    \* the messages waiting for each actor
    assigned_core, migrate_to,
    g_pending_reply_slot, g_current_reply_slot,
    stack,      \* the handlers and asks in progress on each thread
    sends,      \* plain sends made
    result      \* what each ask has returned, or Open

ask_vars == <<load, slot, mailbox, assigned_core, migrate_to,
              g_pending_reply_slot, g_current_reply_slot, stack, sends, result>>

Threads == Cores \cup {Main}
NULL == 0          \* no slot
Open == -1         \* the ask has not returned
NoReply == -2      \* it has returned NULL

\* Whom the code running on thread t may ask, and whom it may send to.
Caller(t) == IF stack[t] = << >> THEN t ELSE stack[t][Len(stack[t])].actor
Asking(t) == load.asks[Caller(t)]
Sending(t) == load.sends[Caller(t)]

Top(t) == stack[t][Len(stack[t])]
Below(t) == SubSeq(stack[t], 1, Len(stack[t]) - 1)
\* The code on thread t that can make a call: a handler, or the main program.
CanCall(t) == IF stack[t] = << >> THEN t = Main ELSE Top(t).kind = "handler" /\ Top(t).pc = "run"

\* A message knows, for the record, which ask it belongs to: NULL if none.
Message(ask, s) == [ask |-> ask, _reply_slot |-> s]
Handler(a, m) == [kind |-> "handler", actor |-> a, ask |-> m.ask, slot |-> NULL, pc |-> "run"]
AskCall(t, k) == [kind |-> "ask", actor |-> Caller(t), ask |-> k, slot |-> k, pc |-> "send"]

Running(a) == \E t \in Threads : \E i \in 1..Len(stack[t]) :
                  stack[t][i].kind = "handler" /\ stack[t][i].actor = a
Active(a) == mailbox[a] # << >> \/ Running(a)
inline_depth(t) == Cardinality({i \in 2..Len(stack[t]) : stack[t][i].kind = "handler"})

ask_init ==
    /\ load \in Loads
    /\ slot = << >>
    /\ mailbox = [a \in Actors |-> << >>]
    /\ assigned_core = Home /\ migrate_to = [a \in Actors |-> Main]
    /\ g_pending_reply_slot = [t \in Threads |-> NULL]
    /\ g_current_reply_slot = [t \in Threads |-> NULL]
    /\ stack = [t \in Threads |-> << >>]
    /\ sends = 0 /\ result = << >>
-----------------------------------------------------------------------------
\* aether_send_message on thread t with the stack st: the handler runs at once if
\* the actor is idle on the same core, else the message is left in the mailbox; a
\* send from another core asks the actor to migrate.
Deliver(t, a, m, st) ==
    IF /\ assigned_core[a] = t /\ mailbox[a] = << >> /\ ~ Running(a)
       /\ inline_depth(t) < MAX_INLINE_DEPTH
    THEN /\ stack' = [stack EXCEPT ![t] = Append(st, Handler(a, m))]
         /\ g_current_reply_slot' = [g_current_reply_slot EXCEPT ![t] = m._reply_slot]
         /\ UNCHANGED <<mailbox, migrate_to>>
    ELSE /\ stack' = [stack EXCEPT ![t] = st]
         /\ mailbox' = [mailbox EXCEPT ![a] = Append(@, m)]
         /\ migrate_to' = IF t # Main /\ assigned_core[a] # t /\ Active(a)
                          THEN [migrate_to EXCEPT ![a] = t] ELSE migrate_to
         /\ UNCHANGED g_current_reply_slot

\* A plain send: the message takes along whatever slot is pending on the thread.
aether_send_message(t) ==
    /\ CanCall(t) /\ sends < MaxSends
    /\ sends' = sends + 1
    /\ \E a \in Sending(t) :
        Deliver(t, a, Message(NULL, g_pending_reply_slot[t]), stack[t])
    /\ UNCHANGED <<load, slot, assigned_core, g_pending_reply_slot, result>>

\* An ask up to the end of its send, unless a handler starts in it.
scheduler_ask_message(t) ==
    /\ CanCall(t) /\ Len(slot) < MaxAsks
    /\ LET k == Len(slot) + 1
       IN  /\ slot' = Append(slot, [refcount |-> 2, reply_ready |-> FALSE, timed_out |-> FALSE,
                                    reply_data |-> NoReply])
           /\ result' = Append(result, Open)
           /\ g_pending_reply_slot' = [g_pending_reply_slot EXCEPT ![t] = k]
           /\ \E a \in Asking(t) :
                Deliver(t, a, Message(k, k), Append(stack[t], AskCall(t, k)))
    /\ UNCHANGED <<load, assigned_core, sends>>

\* The send has returned: the slot is no longer pending.
AskSent(t) ==
    /\ stack[t] # << >> /\ Top(t).kind = "ask" /\ Top(t).pc = "send"
    /\ g_pending_reply_slot' = [g_pending_reply_slot EXCEPT ![t] = NULL]
    /\ stack' = [stack EXCEPT ![t][Len(stack[t])].pc = "wait"]
    /\ UNCHANGED <<load, slot, mailbox, assigned_core, migrate_to, g_current_reply_slot, sends, result>>

\* The wait ends, signalled or timed out, and with the mutex still held the
\* asker takes the reply or gives up.
AskWait(t) ==
    /\ stack[t] # << >> /\ Top(t).kind = "ask" /\ Top(t).pc = "wait"
    /\ LET s == Top(t).slot
       IN  /\ result' = [result EXCEPT ![Top(t).ask] = slot[s].reply_data]
           /\ slot' = [slot EXCEPT ![s].timed_out = ~ slot[s].reply_ready]
    /\ stack' = [stack EXCEPT ![t][Len(stack[t])].pc = "decref"]
    /\ UNCHANGED <<load, mailbox, assigned_core, migrate_to, g_pending_reply_slot,
                   g_current_reply_slot, sends>>

\* Mutant: an ask that has timed out drops both references.
DecrefTwiceOnTimeout(t) ==
    /\ stack[t] # << >> /\ Top(t).pc = "decref"
    /\ slot' = [slot EXCEPT ![Top(t).slot].refcount =
                    @ - (IF Top(t).kind = "ask" /\ slot[Top(t).slot].timed_out THEN 2 ELSE 1)]
    /\ stack' = [stack EXCEPT ![t] = IF Top(t).kind = "ask" THEN Below(t)
                                     ELSE Append(Below(t), [Top(t) EXCEPT !.pc = "run", !.slot = NULL])]
    /\ UNCHANGED <<load, mailbox, assigned_core, migrate_to, g_pending_reply_slot,
                   g_current_reply_slot, sends, result>>

\* The last reference frees the slot.  The ask returns, the handler goes on.
reply_slot_decref(t) ==
    /\ stack[t] # << >> /\ Top(t).pc = "decref"
    /\ slot' = [slot EXCEPT ![Top(t).slot].refcount = @ - 1]
    /\ stack' = [stack EXCEPT ![t] = IF Top(t).kind = "ask" THEN Below(t)
                                     ELSE Append(Below(t), [Top(t) EXCEPT !.pc = "run", !.slot = NULL])]
    /\ UNCHANGED <<load, mailbox, assigned_core, migrate_to, g_pending_reply_slot,
                   g_current_reply_slot, sends, result>>

\* A handler replies: under the mutex it fills the slot unless the asker has
\* given up.  The reply is an answer to the handler's own message.  Without a
\* current slot nothing happens.
scheduler_reply(t) ==
    /\ stack[t] # << >> /\ CanCall(t) /\ g_current_reply_slot[t] # NULL
    /\ LET s == g_current_reply_slot[t]
       IN  /\ slot' = IF slot[s].timed_out THEN slot
                      ELSE [slot EXCEPT ![s].reply_ready = TRUE, ![s].reply_data = Top(t).ask]
           /\ stack' = [stack EXCEPT ![t][Len(stack[t])].pc = "decref", ![t][Len(stack[t])].slot = s]
    /\ g_current_reply_slot' = [g_current_reply_slot EXCEPT ![t] = NULL]
    /\ UNCHANGED <<load, mailbox, assigned_core, migrate_to, g_pending_reply_slot, sends, result>>
-----------------------------------------------------------------------------
\* Mutant: a plain message leaves the current slot of the thread alone.
ReceiveKeepsSlot(c) ==
    /\ stack[c] = << >>
    /\ \E a \in Actors :
        /\ assigned_core[a] = c /\ mailbox[a] # << >> /\ ~ Running(a)
        /\ mailbox' = [mailbox EXCEPT ![a] = Tail(@)]
        /\ stack' = [stack EXCEPT ![c] = <<Handler(a, Head(mailbox[a]))>>]
        /\ g_current_reply_slot' = [g_current_reply_slot EXCEPT ![c] =
               IF Head(mailbox[a])._reply_slot = NULL THEN @ ELSE Head(mailbox[a])._reply_slot]
    /\ UNCHANGED <<load, slot, assigned_core, migrate_to, g_pending_reply_slot, sends, result>>

\* A scheduler thread runs an actor: step() receives the oldest message and makes
\* its slot the current one, or none.
step(c) ==
    /\ stack[c] = << >>
    /\ \E a \in Actors :
        /\ assigned_core[a] = c /\ mailbox[a] # << >> /\ ~ Running(a)
        /\ mailbox' = [mailbox EXCEPT ![a] = Tail(@)]
        /\ stack' = [stack EXCEPT ![c] = <<Handler(a, Head(mailbox[a]))>>]
        /\ g_current_reply_slot' = [g_current_reply_slot EXCEPT ![c] = Head(mailbox[a])._reply_slot]
    /\ UNCHANGED <<load, slot, assigned_core, migrate_to, g_pending_reply_slot, sends, result>>

\* The handler ends, with or without a reply.
HandlerReturns(t) ==
    /\ stack[t] # << >> /\ Top(t).kind = "handler" /\ Top(t).pc = "run"
    /\ stack' = [stack EXCEPT ![t] = Below(t)]
    /\ UNCHANGED <<load, slot, mailbox, assigned_core, migrate_to, g_pending_reply_slot,
                   g_current_reply_slot, sends, result>>

\* A requested migration, between two handlers of the actor's core.
Migrate(c) ==
    /\ stack[c] = << >>
    /\ \E a \in Actors :
        /\ assigned_core[a] = c /\ migrate_to[a] # Main
        /\ assigned_core' = [assigned_core EXCEPT ![a] = migrate_to[a]]
        /\ migrate_to' = [migrate_to EXCEPT ![a] = Main]
    /\ UNCHANGED <<load, slot, mailbox, g_pending_reply_slot, g_current_reply_slot, stack, sends, result>>

\* The end of all work.
AskIdle ==
    /\ \A t \in Threads : stack[t] = << >>
    /\ \A a \in Actors : mailbox[a] = << >>
    /\ UNCHANGED ask_vars

\* What a thread does once it has something to do.
Proceed(t) ==
    \/ AskSent(t) \/ AskWait(t) \/ reply_slot_decref(t) \/ HandlerReturns(t)
    \/ (t \in Cores /\ step(t))

ask_next ==
    \/ \E t \in Threads : \/ aether_send_message(t) \/ scheduler_ask_message(t)
                          \/ scheduler_reply(t) \/ Proceed(t)
    \/ \E c \in Cores : Migrate(c)
    \/ AskIdle

ask_fairness == \A t \in Threads : WF_ask_vars(Proceed(t))
-----------------------------------------------------------------------------
\* Counts stay in range and every thread refers to slots that exist.
AskTypeOK ==
    /\ \A k \in 1..Len(slot) : slot[k].refcount \in 0..2
    /\ \A t \in Threads : g_pending_reply_slot[t] \in 0..Len(slot)
                       /\ g_current_reply_slot[t] \in 0..Len(slot)

\* "Each message carries its own reply slot": what an ask returns is the answer of
\* the handler that was given its message, or nothing.
ReplyMatches == \A k \in 1..Len(result) : result[k] \in {Open, NoReply, k}

\* The slots the next step of thread t may lock, fill or release.
Touches(t) ==
    IF stack[t] = << >> THEN {}
    ELSE (IF CanCall(t) THEN {g_current_reply_slot[t]} ELSE {Top(t).slot}) \ {NULL}

\* reply_slot_decref frees a slot only when neither the asker nor any handler can
\* still lock it, however a timeout and a late reply interleave.
NoUseAfterFree == \A t \in Threads : \A s \in Touches(t) : slot[s].refcount > 0

\* No ask waits forever, even for an actor that can only run on the asker's own,
\* blocked thread.
AskReturns == \A k \in 1..MaxAsks : (k <= Len(result)) ~> (k <= Len(result) /\ result[k] # Open)
=============================================================================
