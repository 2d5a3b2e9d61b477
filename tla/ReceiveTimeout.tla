-------------------------- MODULE ReceiveTimeout --------------------------
(***************************************************************************)
(* Receive timeouts ("receive { ... } after N -> { ... }"): the check the  *)
(* compiler puts in front of an actor's step function (compiler/codegen/   *)
(* codegen_actor.c) and the places that call the step function, in the     *)
(* build with threads: a synchronous send and scheduler_wait in            *)
(* main-thread mode (runtime/actors/aether_send_message.c), and the loops  *)
(* of the scheduler threads otherwise (runtime/scheduler/                  *)
(* multicore_scheduler.c).                                                 *)
(*                                                                         *)
(* Time is in the unit of one round of scheduler_wait and stops at MaxTime.*)
(* Handlers send nothing here; MainThreadMode has the hand-over between    *)
(* the threads.                                                            *)
(***************************************************************************)
EXTENDS Integers, Functions

CONSTANTS MaxActors,     \* actors 1..MaxActors, each with a receive timeout
          After,           \* the timeout of each actor
          MaxTime, MaxSends,
          MaxRounds        \* rounds scheduler_wait makes (100000 in the code)

VARIABLES
    now, actor_count,
    timeout_ns, last_activity_ns,   \* per actor; 0 is none
    channel, mailbox,               \* messages on the way to, and at, each actor
    fired, received,                \* times the timeout handler ran, messages handled
    main_thread_sent, messages_processed,
    waiting, rounds                 \* Main in scheduler_wait, and the rounds it made

timeout_vars == <<now, actor_count, timeout_ns, last_activity_ns, channel, mailbox, fired,
                  received, main_thread_sent, messages_processed, waiting, rounds>>

Actors == 1..MaxActors
main_thread_mode == actor_count = 1
\* The variables a step function changes.
actor_vars == <<timeout_ns, last_activity_ns, mailbox, fired, received>>

timeout_init ==
    /\ now = 1 /\ actor_count = 0
    /\ timeout_ns = [a \in Actors |-> 0] /\ last_activity_ns = [a \in Actors |-> 0]
    /\ channel = [a \in Actors |-> 0] /\ mailbox = [a \in Actors |-> 0]
    /\ fired = [a \in Actors |-> 0] /\ received = [a \in Actors |-> 0]
    /\ main_thread_sent = 0 /\ messages_processed = 0
    /\ waiting = FALSE /\ rounds = 0

Expired(a) == /\ timeout_ns[a] > 0 /\ last_activity_ns[a] > 0
              /\ now - last_activity_ns[a] >= timeout_ns[a]

\* Mutant: a message does not cancel the timeout.
StepKeepsTimeout(a, m) ==
    IF Expired(a)
    THEN /\ timeout_ns' = [timeout_ns EXCEPT ![a] = 0]
         /\ last_activity_ns' = [last_activity_ns EXCEPT ![a] = 0]
         /\ fired' = [fired EXCEPT ![a] = @ + 1]
         /\ mailbox' = m
         /\ UNCHANGED received
    ELSE /\ mailbox' = IF m[a] > 0 THEN [m EXCEPT ![a] = @ - 1] ELSE m
         /\ received' = IF m[a] > 0 THEN [received EXCEPT ![a] = @ + 1] ELSE received
         /\ UNCHANGED <<timeout_ns, last_activity_ns, fired>>

\* The generated step function of actor a, called with the mailboxes m: an expired
\* timeout fires, and nothing else happens; otherwise a message is received, which
\* cancels the timeout; with no message the countdown starts if it has not.
step(a, m) ==
    \/ /\ Expired(a)
       /\ timeout_ns' = [timeout_ns EXCEPT ![a] = 0]
       /\ last_activity_ns' = [last_activity_ns EXCEPT ![a] = 0]
       /\ fired' = [fired EXCEPT ![a] = @ + 1]
       /\ mailbox' = m
       /\ UNCHANGED received
    \/ /\ ~ Expired(a) /\ m[a] > 0
       /\ timeout_ns' = [timeout_ns EXCEPT ![a] = 0]
       /\ last_activity_ns' = [last_activity_ns EXCEPT ![a] = 0]
       /\ mailbox' = [m EXCEPT ![a] = @ - 1]
       /\ received' = [received EXCEPT ![a] = @ + 1]
       /\ UNCHANGED fired
    \/ /\ ~ Expired(a) /\ m[a] = 0
       /\ last_activity_ns' = IF timeout_ns[a] > 0 /\ last_activity_ns[a] = 0
                              THEN [last_activity_ns EXCEPT ![a] = now] ELSE last_activity_ns
       /\ mailbox' = m
       /\ UNCHANGED <<timeout_ns, fired, received>>

Tick ==
    /\ now < MaxTime
    /\ now' = now + 1
    /\ UNCHANGED <<actor_count, actor_vars, channel, main_thread_sent, messages_processed,
                   waiting, rounds>>

\* Spawning starts the countdown; MaxTime leaves it the time to run out.
spawn ==
    LET a == actor_count + 1
    IN  /\ ~ waiting /\ a \in Actors /\ now + After[a] <= MaxTime
        /\ actor_count' = a
        /\ timeout_ns' = [timeout_ns EXCEPT ![a] = After[a]]
        /\ last_activity_ns' = [last_activity_ns EXCEPT ![a] = now]
        /\ UNCHANGED <<now, channel, mailbox, fired, received, main_thread_sent,
                       messages_processed, waiting, rounds>>

\* aether_send_message by Main: in main-thread mode the message goes into the mailbox
\* and the step function is called once; otherwise it goes to the actor's core.
aether_send_message(a) ==
    /\ ~ waiting /\ a <= actor_count /\ SumFunction(received) + SumFunction(mailbox) + SumFunction(channel) < MaxSends
    /\ IF main_thread_mode
       THEN /\ step(a, [mailbox EXCEPT ![a] = @ + 1])
            /\ UNCHANGED <<channel, main_thread_sent>>
       ELSE /\ channel' = [channel EXCEPT ![a] = @ + 1]
            /\ main_thread_sent' = main_thread_sent + 1
            /\ UNCHANGED actor_vars
    /\ UNCHANGED <<now, actor_count, messages_processed, waiting, rounds>>

\* A scheduler thread delivers a message to the mailbox, and steps an actor whose
\* mailbox is not empty; every call of the step function counts as a message.
Deliver(a) ==
    /\ channel[a] > 0
    /\ channel' = [channel EXCEPT ![a] = @ - 1]
    /\ mailbox' = [mailbox EXCEPT ![a] = @ + 1]
    /\ UNCHANGED <<now, actor_count, timeout_ns, last_activity_ns, fired, received,
                   main_thread_sent, messages_processed, waiting, rounds>>

CoreStep(a) ==
    /\ ~ main_thread_mode /\ mailbox[a] > 0
    /\ step(a, mailbox)
    /\ messages_processed' = messages_processed + 1
    /\ UNCHANGED <<now, actor_count, channel, main_thread_sent, waiting, rounds>>

\* scheduler_wait in main-thread mode calls the step function of an actor whose
\* timeout is set, once per round, and lets time pass; otherwise it waits until the
\* queues are empty and as many messages are processed as were sent.
scheduler_wait ==
    /\ ~ waiting /\ actor_count > 0
    /\ waiting' = TRUE /\ rounds' = 0
    /\ UNCHANGED <<now, actor_count, actor_vars, channel, main_thread_sent, messages_processed>>

WaitRound ==
    /\ waiting /\ main_thread_mode /\ timeout_ns[1] > 0 /\ rounds < MaxRounds
    /\ step(1, mailbox)
    /\ rounds' = rounds + 1
    /\ now' = IF now < MaxTime THEN now + 1 ELSE now
    /\ UNCHANGED <<actor_count, channel, main_thread_sent, messages_processed, waiting>>

WaitReturns ==
    /\ waiting
    /\ IF main_thread_mode THEN timeout_ns[1] = 0 \/ rounds = MaxRounds
       ELSE \A a \in Actors : channel[a] = 0 /\ main_thread_sent <= messages_processed
    /\ waiting' = FALSE
    /\ UNCHANGED <<now, actor_count, actor_vars, channel, main_thread_sent, messages_processed,
                   rounds>>

timeout_next ==
    \/ Tick \/ spawn \/ scheduler_wait \/ WaitRound \/ WaitReturns
    \/ \E a \in Actors : aether_send_message(a) \/ Deliver(a) \/ CoreStep(a)
-----------------------------------------------------------------------------
\* The variables have their types; a countdown runs only while a timeout is set.
TimeoutTypeOK ==
    /\ now \in 1..MaxTime /\ actor_count \in 0..MaxActors
    /\ \A a \in Actors : /\ timeout_ns[a] \in {0, After[a]} /\ last_activity_ns[a] \in 0..now
                         /\ last_activity_ns[a] > 0 => timeout_ns[a] > 0
                         /\ channel[a] \in 0..MaxSends /\ mailbox[a] \in 0..MaxSends
                         /\ received[a] \in 0..MaxSends /\ fired[a] \in Nat
    /\ waiting \in BOOLEAN /\ rounds \in 0..MaxRounds

\* "The timeout is one-shot: it is cancelled when any message is received": it fires
\* at most once, and not after the actor has handled a message.
OneShot ==
    [][\A a \in Actors : fired'[a] # fired[a] => fired[a] = 0 /\ received[a] = 0]_timeout_vars

\* In a program with one actor a timeout fires if scheduler_wait is entered and no
\* message comes.
AfterFiresAlone ==
    (waiting /\ main_thread_mode) ~> (fired[1] > 0 \/ received[1] > 0 \/ ~ main_thread_mode)

\* A timeout fires if the actor gets no message, however many actors there are, once
\* the program waits.
AfterFires ==
    \A a \in Actors : (waiting /\ a <= actor_count) ~> (fired[a] > 0 \/ received[a] > 0)
=============================================================================
