-------------------------- MODULE MainThreadMode --------------------------
(***************************************************************************)
(* Main-thread mode: while a program has a single actor, aether_send_      *)
(* message runs the actor's step() synchronously on the main thread; a     *)
(* second actor, or a self-send of the handler, hands the actor over to    *)
(* the scheduler threads (runtime/actors/aether_send_message.c,            *)
(* runtime/scheduler/multicore_scheduler.c and the mode switch in          *)
(* runtime/config/aether_optimization_config.h).                           *)
(*                                                                         *)
(* There is the main thread and one scheduler thread, Core, which the      *)
(* actors are all assigned to; a thread is the stack of steps it runs.     *)
(* Messages carry nothing: a mailbox and the main thread's channel are     *)
(* numbers of messages.                                                    *)
(***************************************************************************)
EXTENDS Integers, Sequences, FiniteSets

CONSTANTS Main, Core,        \* the two threads
          MaxActors,         \* bound on the actors spawned; actors are 1..MaxActors
          MaxSends,          \* bound on the messages sent
          Loads,             \* what the program does, a set of records; see Load
          MAX_INLINE_DEPTH

VARIABLES
    load,
    main_thread_mode, main_actor, actor_count,   \* g_aether_config
    g_threads_started,
    main_thread_only, step_lock,                 \* per actor
    mailbox, channel,                            \* messages waiting for each actor
    g_sync_step_actor,                           \* thread-local, used by Main only
    stack,                                       \* the steps each thread is running
    sends

mode_vars == <<load, main_thread_mode, main_actor, actor_count, g_threads_started,
               main_thread_only, step_lock, mailbox, channel, g_sync_step_actor,
               stack, sends>>

Threads == {Main, Core}
Actors == 1..MaxActors
NULL == 0

\* What a program does: who spawns (Main, or an actor's handler), who sends to
\* whom, who uses a batch of sends or has a receive timeout.
Load == [spawns : SUBSET ({Main} \cup Actors),
         sends : SUBSET (({Main} \cup Actors) \X Actors),
         batches : BOOLEAN, timeouts : BOOLEAN]

Top(t) == stack[t][Len(stack[t])]
Caller(t) == IF stack[t] = << >> THEN t ELSE Top(t).actor
CanCall(t) == IF stack[t] = << >> THEN t = Main ELSE Top(t).pc = "run"
Spawned == 1..actor_count
Frame(a, kind) == [actor |-> a, kind |-> kind, pc |-> "run"]
Push(t, f) == stack' = [stack EXCEPT ![t] = Append(@, f)]
Pop(t) == stack' = [stack EXCEPT ![t] = SubSeq(@, 1, Len(@) - 1)]

mode_init ==
    /\ load \in Loads
    /\ main_thread_mode = FALSE /\ main_actor = NULL /\ actor_count = 0
    /\ g_threads_started \in BOOLEAN       \* scheduler_start may come before the first spawn
    /\ main_thread_only = [a \in Actors |-> FALSE]
    /\ step_lock = [a \in Actors |-> FALSE]
    /\ mailbox = [a \in Actors |-> 0] /\ channel = [a \in Actors |-> 0]
    /\ g_sync_step_actor = NULL
    /\ stack = [t \in Threads |-> << >>]
    /\ sends = 0
-----------------------------------------------------------------------------
\* The first actor turns main-thread mode on, the second turns it off, and clears
\* the first one's main_thread_only unless its step is running on this thread.
scheduler_spawn_pooled(t) ==
    LET a == actor_count + 1
        deferred == t = Main /\ g_sync_step_actor = main_actor
    IN  /\ CanCall(t) /\ Caller(t) \in load.spawns /\ a \in Actors
        /\ actor_count' = a
        /\ main_thread_mode' = (a = 1)
        /\ main_actor' = IF a = 1 THEN a ELSE NULL
        /\ main_thread_only' =
             [b \in Actors |-> IF b = a THEN a = 1
                               ELSE main_thread_only[b] /\ ~ (a = 2 /\ b = main_actor /\ ~ deferred)]
        /\ g_threads_started' = (g_threads_started \/ (a = 2 /\ main_actor # NULL))
        /\ UNCHANGED <<load, step_lock, mailbox, channel, g_sync_step_actor, stack, sends>>

\* scheduler_start does nothing in main-thread mode.
scheduler_start ==
    /\ stack[Main] = << >> /\ ~ main_thread_mode /\ ~ g_threads_started
    /\ g_threads_started' = TRUE
    /\ UNCHANGED <<load, main_thread_mode, main_actor, actor_count, main_thread_only, step_lock,
                   mailbox, channel, g_sync_step_actor, stack, sends>>

\* scheduler_send_remote, from the main thread: into the core's channel.
SendRemote(a) == channel' = [channel EXCEPT ![a] = @ + 1]

\* scheduler_send_local, on the actor's core: into its mailbox, and if that was
\* empty and nobody runs the actor, run it here and now.
scheduler_send_local(a) ==
    IF /\ Len(stack[Core]) <= MAX_INLINE_DEPTH /\ mailbox[a] = 0 /\ ~ step_lock[a]
    THEN /\ step_lock' = [step_lock EXCEPT ![a] = TRUE]
         /\ Push(Core, Frame(a, "locked"))
         /\ UNCHANGED mailbox
    ELSE /\ mailbox' = [mailbox EXCEPT ![a] = @ + 1]
         /\ UNCHANGED <<step_lock, stack>>

\* aether_send_message_sync up to the call of step(): the message goes through the
\* mailbox and the step takes it out again.
SendSync(a) ==
    /\ g_sync_step_actor' = a
    /\ Push(Main, Frame(a, "sync"))
    /\ UNCHANGED <<main_thread_mode, main_actor, main_thread_only, step_lock, mailbox, channel>>

\* A self-send of a handler the main thread runs synchronously turns the mode off.
LeaveMode(t, a) ==
    /\ main_thread_mode' = FALSE /\ main_actor' = NULL
    /\ main_thread_only' = [main_thread_only EXCEPT ![a] = FALSE]
    /\ stack' = [stack EXCEPT ![t][Len(stack[t])].pc = "leave"]
    /\ UNCHANGED <<g_sync_step_actor, step_lock, mailbox, channel>>

aether_send_message(t, a) ==
    /\ CanCall(t) /\ <<Caller(t), a>> \in load.sends /\ a \in Spawned /\ sends < MaxSends
    /\ sends' = sends + 1
    /\ \/ main_thread_mode /\ g_sync_step_actor # NULL /\ LeaveMode(t, a)
       \/ main_thread_mode /\ g_sync_step_actor = NULL /\ SendSync(a)
       \/ /\ ~ main_thread_mode
          /\ \/ t = Main /\ SendRemote(a) /\ UNCHANGED <<mailbox, step_lock, stack>>
             \/ t = Core /\ scheduler_send_local(a) /\ UNCHANGED channel
          /\ UNCHANGED <<main_thread_mode, main_actor, main_thread_only, g_sync_step_actor>>
    /\ UNCHANGED <<load, actor_count, g_threads_started>>

\* Mutant: the self-send does not take step_lock.
HandOverUnlocked ==
    /\ stack[Main] # << >> /\ Top(Main).pc = "leave"
    /\ g_threads_started' = TRUE
    /\ SendRemote(Top(Main).actor)
    /\ stack' = [stack EXCEPT ![Main][Len(stack[Main])].pc = "run"]
    /\ UNCHANGED <<load, main_thread_mode, main_actor, actor_count, main_thread_only, step_lock,
                   mailbox, g_sync_step_actor, sends>>

\* The rest of that self-send: take step_lock for the step that is still on the
\* stack, start the threads if need be, and send through the channel.
HandOver ==
    /\ stack[Main] # << >> /\ Top(Main).pc = "leave"
    /\ step_lock' = [step_lock EXCEPT ![Top(Main).actor] = TRUE]
    /\ g_threads_started' = TRUE
    /\ SendRemote(Top(Main).actor)
    /\ stack' = [stack EXCEPT ![Main][Len(stack[Main])].pc = "run"]
    /\ UNCHANGED <<load, main_thread_mode, main_actor, actor_count, main_thread_only, mailbox,
                   g_sync_step_actor, sends>>

\* scheduler_send_batch_add runs the step with neither step_lock nor
\* g_sync_step_actor in main-thread mode; otherwise the flush puts the message into
\* the main thread's channel.
scheduler_send_batch_add(a) ==
    /\ load.batches /\ stack[Main] = << >> /\ <<Main, a>> \in load.sends
    /\ a \in Spawned /\ sends < MaxSends
    /\ sends' = sends + 1
    /\ IF main_thread_mode THEN Push(Main, Frame(a, "plain")) /\ UNCHANGED channel
                           ELSE SendRemote(a) /\ UNCHANGED stack
    /\ UNCHANGED <<load, main_thread_mode, main_actor, actor_count, g_threads_started,
                   main_thread_only, step_lock, mailbox, g_sync_step_actor>>

\* scheduler_wait in main-thread mode runs the step of an actor whose timeout is
\* pending; the timeout fires once.
scheduler_wait ==
    /\ load.timeouts /\ stack[Main] = << >> /\ main_thread_mode
    /\ load' = [load EXCEPT !.timeouts = FALSE]
    /\ Push(Main, Frame(main_actor, "plain"))
    /\ UNCHANGED <<main_thread_mode, main_actor, actor_count, g_threads_started,
                   main_thread_only, step_lock, mailbox, channel, g_sync_step_actor, sends>>
-----------------------------------------------------------------------------
\* A step called by aether_send_message_sync returns: outside main-thread mode the
\* lock the hand-over took is released.
SyncStepReturns ==
    /\ stack[Main] # << >> /\ Top(Main).kind = "sync" /\ Top(Main).pc = "run"
    /\ step_lock' = IF main_thread_mode THEN step_lock
                    ELSE [step_lock EXCEPT ![Top(Main).actor] = FALSE]
    /\ stack' = [stack EXCEPT ![Main][Len(stack[Main])].pc = "after"]
    /\ UNCHANGED <<load, main_thread_mode, main_actor, actor_count, g_threads_started,
                   main_thread_only, mailbox, channel, g_sync_step_actor, sends>>

\* Mutant: the deferred clearing of main_thread_only is forgotten.
KeepMainOnly ==
    /\ stack[Main] # << >> /\ Top(Main).pc = "after"
    /\ g_sync_step_actor' = NULL
    /\ Pop(Main)
    /\ UNCHANGED <<load, main_thread_mode, main_actor, actor_count, g_threads_started,
                   main_thread_only, step_lock, mailbox, channel, sends>>

\* ... and the deferred clearing of main_thread_only is made up for.
SyncReturns ==
    /\ stack[Main] # << >> /\ Top(Main).pc = "after"
    /\ g_sync_step_actor' = NULL
    /\ main_thread_only' = [main_thread_only EXCEPT ![Top(Main).actor] = @ /\ main_thread_mode]
    /\ Pop(Main)
    /\ UNCHANGED <<load, main_thread_mode, main_actor, actor_count, g_threads_started,
                   step_lock, mailbox, channel, sends>>

PlainReturns ==
    /\ stack[Main] # << >> /\ Top(Main).kind = "plain" /\ Top(Main).pc = "run"
    /\ Pop(Main)
    /\ UNCHANGED <<load, main_thread_mode, main_actor, actor_count, g_threads_started,
                   main_thread_only, step_lock, mailbox, channel, g_sync_step_actor, sends>>

\* Core runs a step under step_lock if it can take it.
TakeStep(a) ==
    /\ step_lock' = [step_lock EXCEPT ![a] = TRUE]
    /\ Push(Core, Frame(a, "locked"))

\* One message out of the channel: for an actor of the main thread into its mailbox,
\* for another one into the mailbox and processed at once if it is not locked.
Drain(a) ==
    /\ g_threads_started /\ stack[Core] = << >> /\ channel[a] > 0
    /\ channel' = [channel EXCEPT ![a] = @ - 1]
    /\ IF main_thread_only[a] \/ step_lock[a]
       THEN mailbox' = [mailbox EXCEPT ![a] = @ + 1] /\ UNCHANGED <<step_lock, stack>>
       ELSE TakeStep(a) /\ UNCHANGED mailbox
    /\ UNCHANGED <<load, main_thread_mode, main_actor, actor_count, g_threads_started,
                   main_thread_only, g_sync_step_actor, sends>>

\* The scan of the actor list, made when no message came in.
Scan(a) ==
    /\ g_threads_started /\ stack[Core] = << >> /\ \A b \in Actors : channel[b] = 0
    /\ a \in Spawned /\ ~ main_thread_only[a] /\ mailbox[a] > 0 /\ ~ step_lock[a]
    /\ mailbox' = [mailbox EXCEPT ![a] = @ - 1]
    /\ TakeStep(a)
    /\ UNCHANGED <<load, main_thread_mode, main_actor, actor_count, g_threads_started,
                   main_thread_only, channel, g_sync_step_actor, sends>>

\* A step on Core returns: the loop goes on while the mailbox has messages and the
\* channels have none, an inlined step is made only once; then the lock is released.
LockedReturns ==
    LET a == Top(Core).actor
        more == /\ Len(stack[Core]) = 1 /\ mailbox[a] > 0
                /\ \A b \in Actors : channel[b] = 0
    IN  /\ stack[Core] # << >>
        /\ \/ /\ more
              /\ mailbox' = [mailbox EXCEPT ![a] = @ - 1]
              /\ UNCHANGED <<step_lock, stack>>
           \/ /\ ~ more
              /\ step_lock' = [step_lock EXCEPT ![a] = FALSE]
              /\ Pop(Core)
              /\ UNCHANGED mailbox
        /\ UNCHANGED <<load, main_thread_mode, main_actor, actor_count, g_threads_started,
                       main_thread_only, channel, g_sync_step_actor, sends>>

mode_proceed ==
    \/ HandOver \/ SyncStepReturns \/ SyncReturns \/ PlainReturns

mode_core ==
    \/ LockedReturns
    \/ \E a \in Actors : Drain(a) \/ Scan(a)

mode_next ==
    \/ \E t \in Threads : scheduler_spawn_pooled(t)
    \/ scheduler_start \/ scheduler_wait
    \/ \E t \in Threads, a \in Actors : aether_send_message(t, a)
    \/ \E a \in Actors : scheduler_send_batch_add(a)
    \/ mode_proceed \/ mode_core
-----------------------------------------------------------------------------
\* The variables have their types; a thread's stack holds steps of spawned actors.
ModeTypeOK ==
    /\ load \in Load
    /\ {main_thread_mode, g_threads_started} \subseteq BOOLEAN
    /\ main_actor \in 0..MaxActors /\ actor_count \in 0..MaxActors
    /\ main_thread_only \in [Actors -> BOOLEAN] /\ step_lock \in [Actors -> BOOLEAN]
    /\ mailbox \in [Actors -> 0..MaxSends] /\ channel \in [Actors -> 0..MaxSends]
    /\ g_sync_step_actor \in 0..actor_count
    /\ sends \in 0..MaxSends
    /\ \A t \in Threads : \A i \in 1..Len(stack[t]) : stack[t][i].actor \in Spawned

\* The steps of actor a in progress: a synchronous one counts until it has returned.
StepsOf(a) ==
    {<<t, i>> \in Threads \X (1..(MaxSends + 1)) :
        i <= Len(stack[t]) /\ stack[t][i].actor = a /\ stack[t][i].pc # "after"}

\* At no time are two steps of one actor in progress, whether on the main thread, in
\* main-thread mode or after it, or on the scheduler thread.
HandoverOneStep == \A a \in Actors : Cardinality(StepsOf(a)) <= 1

\* Every message is processed in the end, whichever thread it was meant for: the
\* hand-over leaves no message in a mailbox that nobody looks at.
HandoverQuiet ==
    <>[](/\ \A a \in Actors : mailbox[a] = 0 /\ channel[a] = 0
         /\ \A t \in Threads : stack[t] = << >>)
=============================================================================
