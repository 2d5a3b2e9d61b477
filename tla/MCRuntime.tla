----------------------------- MODULE MCRuntime -----------------------------
(***************************************************************************)
(* The operations around the message loop for TLC: asks, the main-thread   *)
(* mode, receive timeouts, the cooperative scheduler, batched sends,       *)
(* waiting for file descriptors, the HTTP server's pool and connections,   *)
(* the timers of the JavaScript shell, and the collections of the standard *)
(* library.                                                                *)
(* They are explored one at a time: a behaviour belongs to one part and    *)
(* leaves the variables of the others at their initial values.             *)
(***************************************************************************)
EXTENDS HttpPool, TLC

CONSTANTS Parts,         \* the parts to explore
          Corner,        \* programs that use a feature in the unusual way
          a1, a2, a3,    \* the actors of the asks
          c1, c2,        \* their cores
          Main, Core     \* the threads of the main-thread mode

VARIABLES
    part,
    ask_load, ask_slot, ask_mailbox, assigned_core, migrate_to, g_pending_reply_slot,
    ask_g_current_reply_slot, ask_stack, ask_sends, ask_result,
    mode_load, main_thread_mode, main_actor, mode_actor_count, g_threads_started,
    main_thread_only, step_lock, mode_mailbox, mode_channel, g_sync_step_actor, mode_stack,
    mode_sends,
    now, timeout_actor_count, timeout_ns, last_activity_ns, timeout_channel, timeout_mailbox,
    fired, received, timeout_main_thread_sent, timeout_messages_processed, waiting, rounds,
    coop_load, coop_mailbox, timeout, coop_slot, coop_g_current_reply_slot, coop_stack,
    coop_nsent, coop_handled, dropped, coop_result,
    batch_load, loops, in_main_loop, g_batch_buffer, batch_channel, coalesce, running,
    messages_sent, batch_messages_processed, batch_main_thread_sent, pc, batch_nsent,
    batch_handled,
    io_assigned_core, io_map, io_registered_count, epoll, readable, inbox, due, lost, io_calls,
    script, policy, http_received, buf, buf_cap, read_pos, http_pc, request_total,
    requests_served, answers, msg_buf, msg_opcode, messages, pongs,
    js_timer_list, last_gc_ref, clock, shell_mode, wake, armed, timers_fired, cleared,
    hash_func, map, result, data, extracted, cell, string_refs, ref, value

ask_vars == <<ask_load, ask_slot, ask_mailbox, assigned_core, migrate_to, g_pending_reply_slot,
              ask_g_current_reply_slot, ask_stack, ask_sends, ask_result>>
mode_vars == <<mode_load, main_thread_mode, main_actor, mode_actor_count, g_threads_started,
               main_thread_only, step_lock, mode_mailbox, mode_channel, g_sync_step_actor,
               mode_stack, mode_sends>>
timeout_vars == <<now, timeout_actor_count, timeout_ns, last_activity_ns, timeout_channel,
                  timeout_mailbox, fired, received, timeout_main_thread_sent,
                  timeout_messages_processed, waiting, rounds>>
coop_vars == <<coop_load, coop_mailbox, timeout, coop_slot, coop_g_current_reply_slot, coop_stack,
               coop_nsent, coop_handled, dropped, coop_result>>
batch_vars == <<batch_load, loops, in_main_loop, g_batch_buffer, batch_channel, coalesce, running,
                messages_sent, batch_messages_processed, batch_main_thread_sent, pc, batch_nsent,
                batch_handled>>
io_vars == <<io_assigned_core, io_map, io_registered_count, epoll, readable, inbox, due, lost, io_calls>>
connection_vars == <<script, policy, http_received, buf, buf_cap, read_pos, http_pc, request_total,
                     requests_served, answers, msg_buf, msg_opcode, messages, pongs>>
timer_vars == <<js_timer_list, last_gc_ref, clock, shell_mode, wake, armed, timers_fired, cleared>>
actor_vars == <<ask_vars, mode_vars, timeout_vars, coop_vars, batch_vars>>
map_vars == <<hash_func, map, result>>
pqueue_vars == <<data, extracted>>
seq_vars == <<cell, string_refs, ref, value>>
library_vars == <<map_vars, pqueue_vars, seq_vars>>
other_vars == <<io_vars, pool_vars, connection_vars, timer_vars, library_vars>>

\* Main asks two actors, which also send to each other across cores; or an actor
\* asks one on its own core, which sends to a third before it replies.
AskActors == IF Corner THEN {a1, a2, a3} ELSE {a1, a2}
AskCores == IF Corner THEN {c1} ELSE {c1, c2}
AskHome == [a \in AskActors |-> IF Corner \/ a = a1 THEN c1 ELSE c2]
No == [a \in AskActors \cup {Main} |-> {}]
AskLoads ==
    IF Corner
    THEN {[asks |-> [No EXCEPT ![a1] = {a2}],
           sends |-> [No EXCEPT ![Main] = {a1}, ![a2] = {a3}]]}
    ELSE {[asks |-> [No EXCEPT ![Main] = {a1, a2}],
           sends |-> [No EXCEPT ![a1] = {a2}, ![a2] = {a1}]]}

\* Programs of one and of two actors; or one whose first actor spawns the second
\* and gets a message back from it.
ModeLoad(spawns, sends, more) ==
    [spawns |-> spawns, sends |-> sends, batches |-> more, timeouts |-> more]
AllSends == {Main, 1, 2} \X {1, 2}
ModeLoads ==
    IF Corner THEN {ModeLoad({Main, 1}, {<<Main, 1>>, <<1, 2>>, <<2, 1>>}, FALSE)}
    ELSE {ModeLoad({Main}, AllSends, FALSE), ModeLoad({Main, 1}, AllSends \ {<<2, 1>>}, FALSE),
          ModeLoad({Main}, {<<Main, 1>>, <<Main, 2>>, <<2, 1>>}, TRUE)}

\* Sends everywhere; or asks by the main program.
CoopLoads ==
    {[sends |-> {<<0, 1>>, <<0, 2>>, <<1, 2>>, <<2, 1>>, <<1, 1>>}, asks |-> {}, timeouts |-> {2}],
     [sends |-> {<<0, 1>>}, asks |-> {<<0, 1>>, <<0, 2>>}, timeouts |-> {1}]}

\* A loop that sends, followed by a wait, or to actors that forward; or two nested
\* loops.
BatchLoad(depth, waits, forwards) ==
    [depth |-> depth, waits |-> waits, mixed |-> FALSE, forwards |-> forwards]
BatchLoads ==
    IF Corner THEN {BatchLoad(2, "no", FALSE)}
    ELSE {BatchLoad(1, "outside", FALSE), BatchLoad(1, "no", TRUE)}

\* Requests that follow each other, with a middle one of any kind; a WebSocket with a
\* message in two frames and a ping between them; a header that does not fit.
Request(h, b, route, keep) ==
    [kind |-> "request", size |-> h + b, header |-> h, route |-> route, keep |-> keep]
Frame(opcode, fin, p) == [kind |-> "frame", size |-> 1 + p, header |-> 1, opcode |-> opcode, fin |-> fin]
First == Request(2, 0, "handler", TRUE)
HttpScripts ==
    {<<First, Request(h, b, route, keep), Request(2, 1, "handler", FALSE)>> :
         h \in {1, 3}, b \in {0, 4}, route \in {"handler", "blocked"}, keep \in BOOLEAN}
    \cup {<<First, Request(1, b, "websocket", TRUE), Frame("text", FALSE, 1), Frame("ping", TRUE, 1),
            Frame("continuation", TRUE, 1), Frame("binary", TRUE, 1), Frame("close", TRUE, 0)>> : b \in {0, 1}}
    \cup {<<First, Request(1, 1, route, TRUE), First>> : route \in {"malformed", "sse"}}
    \cup {<<First, Request(5, 0, "handler", TRUE)>>}

A == INSTANCE AskReply WITH
         Cores <- AskCores, Main <- Main, Actors <- AskActors, Home <- AskHome, Loads <- AskLoads,
         MaxAsks <- 2, MaxSends <- 2, MAX_INLINE_DEPTH <- 2,
         load <- ask_load, slot <- ask_slot, mailbox <- ask_mailbox, g_current_reply_slot <-
         ask_g_current_reply_slot, stack <- ask_stack, sends <- ask_sends, result <- ask_result

M == INSTANCE MainThreadMode WITH
         Core <- Core, MaxActors <- 2, MaxSends <- 4, Loads <- ModeLoads, MAX_INLINE_DEPTH <- 2,
         load <- mode_load, actor_count <- mode_actor_count, mailbox <- mode_mailbox, channel <-
         mode_channel, stack <- mode_stack, sends <- mode_sends

T == INSTANCE ReceiveTimeout WITH
         MaxActors <- 2, After <- <<2, 3>>, MaxTime <- 6, MaxSends <- 2, MaxRounds <- 4,
         actor_count <- timeout_actor_count, channel <- timeout_channel, mailbox <-
         timeout_mailbox, main_thread_sent <- timeout_main_thread_sent, messages_processed <-
         timeout_messages_processed

C == INSTANCE CoopScheduler WITH
         MaxActors <- 2, MAILBOX_SIZE <- 2, Loads <- CoopLoads, MaxMessages <- 3, MaxRounds <- 4,
         load <- coop_load, mailbox <- coop_mailbox, slot <- coop_slot, g_current_reply_slot <-
         coop_g_current_reply_slot, stack <- coop_stack, nsent <- coop_nsent, handled <-
         coop_handled, result <- coop_result

B == INSTANCE BatchSend WITH
         NCores <- 2, MaxSends <- 3, BATCH_SEND_SIZE <- 2, QueueRoom <- 1, Stable <- 2,
         Loads <- BatchLoads,
         load <- batch_load, channel <- batch_channel, messages_processed <-
         batch_messages_processed, main_thread_sent <- batch_main_thread_sent, nsent <-
         batch_nsent, handled <- batch_handled

\* Two descriptors, for the second of which the table has to grow, and polls that
\* return one event.
I == INSTANCE IoReadiness WITH
         Cores <- {1, 2}, Actors <- {1, 2}, NULL <- 0, Fds <- {0, 1}, AETHER_IO_MAX_FDS <- 1, MaxEvents <- 1,
         MaxAwaits <- 2, assigned_core <- io_assigned_core, calls <- io_calls

\* Headers of up to three bytes fit into the buffer.
H == INSTANCE HttpConnection WITH
         Scripts <- HttpScripts, HTTP_CONN_BUF_CAP <- 4,
         Policies <- {[enabled |-> TRUE, max |-> 0], [enabled |-> TRUE, max |-> 2], [enabled |-> FALSE, max |-> 0]},
         received <- http_received, pc <- http_pc

\* Three timers, so that one can leave the middle of the list, and sleeps shorter than
\* a delay.
S == INSTANCE ShellTimers WITH
         MAX_TIMERS <- 3, MAX_SLEEP <- 1, Delays <- {0, 2}, MaxArmed <- 3, MaxNow <- 2,
         now <- clock, mode <- shell_mode, fired <- timers_fired

\* Maps that grow once, with hashes that collide before they grow, after, or always.
\* Every key has a value of its own, and one has two.
PutsOf(keys) == {<<k, k>> : k \in keys} \cup {<<1, 5>>}
R == INSTANCE RobinHoodMap WITH
         Keys <- 1..4, Puts <- PutsOf(1..4), NULL <- 0, DEFAULT_CAPACITY <- 4,
         Hashes <- {<<0, 0, 0, 0>>, <<3, 3, 7, 0>>, <<0, 3, 7, 2>>, <<3, 7, 3, 6>>}
D == INSTANCE ChainedMap WITH
         Keys <- 1..3, Puts <- PutsOf(1..3), NULL <- 0, HASHMAP_INITIAL_CAPACITY <- 2, hash_cstr <- hash_func,
         Hashes <- {<<0, 0, 0>>, <<1, 1, 3>>, <<0, 2, 1>>, <<3, 1, 2>>}

\* A heap with three levels and two elements that compare equal.
E == INSTANCE PriorityQueue WITH
         Elements <- {[id |-> i, priority |-> <<1, 1, 2, 3, 4>>[i]] : i \in 1..5},
         NULL <- [id |-> 0, priority |-> 0], MaxSize <- 5

\* Two sequences of up to four cells between them.
Q == INSTANCE StringSeq WITH Strings <- {"a", "b"}, NCells <- 4, NRefs <- 2

Init ==
    /\ part \in Parts
    /\ A!ask_init /\ M!mode_init /\ T!timeout_init /\ C!coop_init /\ B!batch_init
    /\ I!io_init /\ pool_init /\ H!connection_init /\ S!timers_init
    /\ part # "ask" => ask_load = CHOOSE l \in AskLoads : TRUE
    /\ part # "mode" => mode_load = (CHOOSE l \in ModeLoads : TRUE) /\ ~ g_threads_started
    /\ part # "coop" => coop_load = CHOOSE l \in CoopLoads : TRUE
    /\ part # "batch" => batch_load = CHOOSE l \in BatchLoads : TRUE
    /\ part # "io" => io_assigned_core = <<1, 2>>
    /\ part # "pool" => tls_enabled = FALSE
    /\ part # "connection" => script = <<First, Request(5, 0, "handler", TRUE)>> /\ ~ policy.enabled
    /\ CASE part = "robin" -> R!robin_init
         [] part = "chained" -> D!chained_init
         [] OTHER -> hash_func = 0 /\ map = 0 /\ result = 0
    /\ IF part = "pqueue" THEN E!pqueue_init ELSE data = 0 /\ extracted = 0
    /\ Q!seq_init

AskStep == part = "ask" /\ A!ask_next /\ UNCHANGED <<mode_vars, timeout_vars, coop_vars, batch_vars, other_vars>>
ModeStep == part = "mode" /\ M!mode_next /\ UNCHANGED <<ask_vars, timeout_vars, coop_vars, batch_vars, other_vars>>
TimeoutStep == part = "timeout" /\ T!timeout_next /\ UNCHANGED <<ask_vars, mode_vars, coop_vars, batch_vars, other_vars>>
CoopStep == part = "coop" /\ C!coop_next /\ UNCHANGED <<ask_vars, mode_vars, timeout_vars, batch_vars, other_vars>>
BatchStep == part = "batch" /\ B!batch_next /\ UNCHANGED <<ask_vars, mode_vars, timeout_vars, coop_vars, other_vars>>
IoStep == part = "io" /\ I!io_next /\ UNCHANGED <<actor_vars, pool_vars, connection_vars, timer_vars, library_vars>>
PoolStep == part = "pool" /\ pool_next /\ UNCHANGED <<actor_vars, io_vars, connection_vars, timer_vars, library_vars>>
ConnectionStep == part = "connection" /\ H!connection_next /\ UNCHANGED <<actor_vars, io_vars, pool_vars, timer_vars, library_vars>>
TimersStep == part = "timers" /\ S!timers_next /\ UNCHANGED <<actor_vars, io_vars, pool_vars, connection_vars, library_vars>>

\* What the parts of the library leave alone.
program_vars == <<actor_vars, io_vars, pool_vars, connection_vars, timer_vars>>
RobinStep == part = "robin" /\ R!robin_next /\ UNCHANGED <<program_vars, pqueue_vars, seq_vars>>
ChainedStep == part = "chained" /\ D!chained_next /\ UNCHANGED <<program_vars, pqueue_vars, seq_vars>>
PQueueStep == part = "pqueue" /\ E!pqueue_next /\ UNCHANGED <<program_vars, map_vars, seq_vars>>
SeqStep == part = "seq" /\ Q!seq_next /\ UNCHANGED <<program_vars, map_vars, pqueue_vars>>

Next ==
    /\ UNCHANGED part
    /\ \/ AskStep \/ ModeStep \/ TimeoutStep \/ CoopStep \/ BatchStep
       \/ IoStep \/ PoolStep \/ ConnectionStep \/ TimersStep
       \/ RobinStep \/ ChainedStep \/ PQueueStep \/ SeqStep

\* The threads go on with what they have begun, time passes, and a receive timeout
\* that expires again and again is seen.
Fairness ==
    /\ \A t \in AskCores \cup {Main} : WF_ask_vars(part = "ask" /\ A!Proceed(t))
    /\ WF_mode_vars(part = "mode" /\ M!mode_proceed) /\ WF_mode_vars(part = "mode" /\ M!mode_core)
    /\ WF_timeout_vars(part = "timeout" /\ T!Tick)
    /\ WF_timeout_vars(part = "timeout" /\ (T!WaitRound \/ T!WaitReturns))
    /\ \A a \in 1..2 : WF_timeout_vars(part = "timeout" /\ (T!Deliver(a) \/ T!CoreStep(a)))
    /\ WF_coop_vars(part = "coop" /\ C!coop_proceed)
    /\ \A a \in 1..2 :
        SF_coop_vars(part = "coop" /\ C!PollStep /\ timeout'[a] # timeout[a])
    /\ WF_batch_vars(part = "batch" /\ B!batch_proceed)
    /\ \A c \in 1..2 : WF_batch_vars(part = "batch" /\ B!batch_core(c))
    /\ \A c \in 1..2 : WF_io_vars(part = "io" /\ I!scheduler_io_poll(c))
    /\ WF_pool_vars(part = "pool" /\ AcceptLoop) /\ WF_pool_vars(part = "pool" /\ http_server_stop)
    /\ \A w \in Worker : WF_pool_vars(part = "pool" /\ http_pool_worker(w))
    /\ WF_timer_vars(part = "timers" /\ S!Tick)
    /\ WF_timer_vars(part = "timers" /\ (S!ScriptReturns \/ S!run_timers \/ S!Wakes))

Spec ==
    /\ Init
    /\ [][Next]_<<part, actor_vars, other_vars>>
    /\ Fairness
-----------------------------------------------------------------------------
\* The type invariants of the parts: counts, indices and stacks stay within their bounds.
RuntimeTypeOK ==
    /\ part = "ask" => A!AskTypeOK
    /\ part = "mode" => M!ModeTypeOK
    /\ part = "timeout" => T!TimeoutTypeOK
    /\ part = "coop" => C!CoopTypeOK
    /\ part = "batch" => B!BatchTypeOK
    /\ part = "io" => I!IoTypeOK
    /\ part = "pool" => PoolTypeOK
    /\ part = "connection" => H!ConnectionTypeOK
    /\ part = "timers" => S!TimersTypeOK
    /\ part = "robin" => R!RobinTypeOK

\* AskReply: what an ask returns is the answer to its own message, or nothing.
ReplyMatches == A!ReplyMatches

\* The same, and for the asks of the cooperative scheduler too.
RepliesMatch == (part = "ask" => A!ReplyMatches) /\ (part = "coop" => C!CoopReplyMatches)

\* AskReply: a reply slot is freed only when nobody can lock it any more.
NoUseAfterFree == part = "ask" => A!NoUseAfterFree

\* MainThreadMode: an actor has one step in progress, on whichever thread.
HandoverOneStep == part = "mode" => M!HandoverOneStep

\* MainThreadMode: every message is processed, whichever thread it was meant for.
HandoverQuiet == M!HandoverQuiet

\* ReceiveTimeout: a timeout fires at most once and not after a message; with one
\* actor, it does fire if no message comes.
TimeoutFires == T!OneShot /\ T!AfterFiresAlone

\* ReceiveTimeout: the timeout fires if no message comes, whatever the number of actors.
AfterFires == T!AfterFires

\* CoopScheduler: messages are handled once and in order.
CoopInOrder == part = "coop" => C!CoopInOrder

\* CoopScheduler: a reply goes to an ask that still waits.
CoopNoDanglingReply == C!CoopNoDanglingReply

\* BatchSend: batching loses no message.
BatchConserved == B!BatchConserved

\* BatchSend: batching loses no message and keeps the order of those to an actor.
BatchSound == part = "batch" => B!BatchConserved /\ B!BatchInOrder

\* CoopScheduler, BatchSend: a wait ends with everything handled that was sent before.
WaitsComplete == C!CoopWaitDone /\ B!WaitsForAll

\* IoReadiness: an event is not lost, not sent twice, and finds its actor.
IoSound == part = "io" => I!IoSound

\* HttpConnection: requests and messages are taken from the stream as they were sent.
RequestsInOrder == part = "connection" => H!RequestsInOrder

\* ShellTimers: a timer is pending, fired or cleared, and its callback kept alive while
\* it is pending.
TimersSound == part = "timers" => S!TimersSound

\* RobinHoodMap, ChainedMap: every operation does to a hash map what the operation on a
\* map from keys to values does.
MapsSound == [][(part = "robin" => R!RobinMapStep) /\ (part = "chained" => D!ChainedMapStep)]_map_vars

\* PriorityQueue.ExtractStep: what is extracted is one of the smallest elements.
ExtractsMinimum == [][part = "pqueue" => E!ExtractStep]_<<data, extracted>>

\* RobinHoodMap, ChainedMap, StringSeq: lookups find the keys that are in a map and no
\* other, set operations compute the sets they should, and the cells of a sequence are
\* freed with their last reference, not before.
CollectionsSound ==
    /\ part = "robin" => R!RobinLookups
    /\ part = "chained" => D!ChainedLookups
    /\ part = "seq" => Q!SequencesSound

\* AskReply, CoopScheduler, BatchSend, IoReadiness, HttpPool, ShellTimers: no ask and no
\* wait goes on forever, an event reaches the actor that waits for it, the server
\* returns when it is told to stop, and the shell when it has no timer left.  (The cores
\* are alike, and descriptor 1 is the one for which the table has to grow.)
CallsReturn ==
    /\ A!AskReturns /\ C!CoopReturns /\ B!BatchWaitReturns
    /\ I!IoDelivered(1, 1) /\ ServerStops /\ (part = "timers" => S!ShellExits)
=============================================================================
