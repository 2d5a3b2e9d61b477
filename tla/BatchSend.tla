----------------------------- MODULE BatchSend -----------------------------
(***************************************************************************)
(* What the main program sends, batched or not, and how it waits for it to *)
(* be handled: scheduler_send_batch_start, _add and _flush,                *)
(* count_pending_messages and scheduler_wait of                            *)
(* runtime/scheduler/multicore_scheduler.c, as the compiler calls them for *)
(* the sends of a while loop of main (compiler/codegen/codegen_stmt.c and  *)
(* codegen_expr.c).                                                        *)
(*                                                                         *)
(* There is one actor per core, always on that core.  A scheduler thread   *)
(* takes what its channels hold into its coalesce buffer and runs a        *)
(* handler for each message; MulticoreScheduler has the rest.              *)
(***************************************************************************)
EXTENDS Integers, Sequences, FiniteSets, SequencesExt

CONSTANTS NCores,            \* cores 1..NCores
          MaxSends,          \* bound on the messages sent
          BATCH_SEND_SIZE, QueueRoom,   \* capacities of the buffer and of a channel
          Stable,            \* counts of zero scheduler_wait wants to see (5 in the code)
          Loads              \* what the program does; see Load

VARIABLES
    load,
    loops, in_main_loop,     \* nesting of the loops main is in; the compiler's flag there
    g_batch_buffer,          \* sequence of [core, id]
    channel,                 \* channel[c][q]: from core q, or from main if q = 0, to core c
    coalesce, running,       \* per core: the messages taken, and the one being handled
    messages_sent, messages_processed, main_thread_sent,
    pc,                      \* where main is
    nsent,                   \* messages made so far; their ids
    handled                  \* per core, the messages of main handled

batch_vars == <<load, loops, in_main_loop, g_batch_buffer, channel, coalesce, running,
                messages_sent, messages_processed, main_thread_sent, pc, nsent, handled>>

Cores == 1..NCores
FromMain == 0
\* Nested loops, where the program waits, messages with several fields (which are not
\* batched), handlers that send.
Load == [depth : 1..2, waits : {"no", "outside", "inside"}, mixed : BOOLEAN, forwards : BOOLEAN]

Idle == [op |-> "idle"]
core_vars == <<coalesce, running, messages_sent, messages_processed, handled>>

batch_init ==
    /\ load \in Loads
    /\ loops = 0 /\ in_main_loop = FALSE /\ g_batch_buffer = << >>
    /\ channel = [c \in Cores |-> [q \in 0..NCores |-> << >>]]
    /\ coalesce = [c \in Cores |-> << >>] /\ running = [c \in Cores |-> 0]
    /\ messages_sent = [c \in Cores |-> 0] /\ messages_processed = [c \in Cores |-> 0]
    /\ main_thread_sent = 0 /\ pc = Idle /\ nsent = 0
    /\ handled = [c \in Cores |-> << >>]
-----------------------------------------------------------------------------
\* The start of a while loop with sends in main: the buffer is emptied.
scheduler_send_batch_start ==
    /\ pc = Idle /\ loops < load.depth
    /\ g_batch_buffer' = << >>
    /\ loops' = loops + 1 /\ in_main_loop' = TRUE
    /\ UNCHANGED <<load, channel, core_vars, main_thread_sent, pc, nsent>>

\* A flush goes through the cores; then is what main does afterwards.
Flushing(then) == [op |-> "flush", core |-> 1, rest |-> << >>, total |-> 0, then |-> then]
NoMessage == [core |-> 0, id |-> 0]

scheduler_send_batch_add(c) ==
    LET m == [core |-> c, id |-> nsent + 1]
    IN  /\ pc = Idle /\ in_main_loop /\ nsent < MaxSends
        /\ nsent' = nsent + 1
        /\ IF Len(g_batch_buffer) >= BATCH_SEND_SIZE
           THEN pc' = Flushing(m) /\ UNCHANGED g_batch_buffer
           ELSE g_batch_buffer' = Append(g_batch_buffer, m) /\ UNCHANGED pc
        /\ UNCHANGED <<load, loops, in_main_loop, channel, core_vars, main_thread_sent>>

\* scheduler_send_remote from main, which waits for room in the channel.
scheduler_send_remote(c) ==
    /\ pc = Idle /\ (in_main_loop => load.mixed) /\ nsent < MaxSends
    /\ Len(channel[c][FromMain]) < QueueRoom
    /\ nsent' = nsent + 1
    /\ main_thread_sent' = main_thread_sent + 1
    /\ channel' = [channel EXCEPT ![c][FromMain] = Append(@, nsent + 1)]
    /\ UNCHANGED <<load, loops, in_main_loop, g_batch_buffer, core_vars, pc>>

\* The end of the loop.
LoopEnds ==
    /\ pc = Idle /\ loops > 0
    /\ loops' = loops - 1 /\ in_main_loop' = FALSE
    /\ pc' = IF g_batch_buffer = << >> THEN Idle ELSE Flushing(NoMessage)
    /\ UNCHANGED <<load, g_batch_buffer, channel, core_vars, main_thread_sent, nsent>>

\* Mutant: the messages of a core are sorted last first.
FlushReversed ==
    LET c == pc.core
        ids == [i \in 1..Len(g_batch_buffer) |->
                   IF g_batch_buffer[i].core = c THEN g_batch_buffer[i].id ELSE 0]
        mine == Reverse(SelectSeq(ids, LAMBDA id : id # 0))
        room == QueueRoom - Len(channel[c][FromMain])
        enqueued == IF Len(mine) < room THEN Len(mine) ELSE room
    IN  /\ pc.op = "flush" /\ pc.core <= NCores /\ pc.rest = << >>
        /\ channel' = [channel EXCEPT ![c][FromMain] = @ \o SubSeq(mine, 1, enqueued)]
        /\ pc' = [pc EXCEPT !.core = c + 1, !.total = @ + enqueued,
                            !.rest = SubSeq(mine, enqueued + 1, Len(mine))]
        /\ UNCHANGED <<load, loops, in_main_loop, g_batch_buffer, core_vars, main_thread_sent,
                       nsent>>

\* scheduler_send_batch_flush at one core: as much as there is room for at once.
FlushCore ==
    LET c == pc.core
        ids == [i \in 1..Len(g_batch_buffer) |->
                   IF g_batch_buffer[i].core = c THEN g_batch_buffer[i].id ELSE 0]
        mine == SelectSeq(ids, LAMBDA id : id # 0)
        room == QueueRoom - Len(channel[c][FromMain])
        enqueued == IF Len(mine) < room THEN Len(mine) ELSE room
    IN  /\ pc.op = "flush" /\ pc.core <= NCores /\ pc.rest = << >>
        /\ channel' = [channel EXCEPT ![c][FromMain] = @ \o SubSeq(mine, 1, enqueued)]
        /\ pc' = [pc EXCEPT !.core = c + 1, !.total = @ + enqueued,
                            !.rest = SubSeq(mine, enqueued + 1, Len(mine))]
        /\ UNCHANGED <<load, loops, in_main_loop, g_batch_buffer, core_vars, main_thread_sent,
                       nsent>>

\* Mutant: messages sent one by one are counted with the batch again.
FlushRestCountsTwice ==
    /\ pc.op = "flush" /\ pc.rest # << >>
    /\ Len(channel[pc.core - 1][FromMain]) < QueueRoom
    /\ channel' = [channel EXCEPT ![pc.core - 1][FromMain] = Append(@, Head(pc.rest))]
    /\ pc' = [pc EXCEPT !.rest = Tail(@), !.total = @ + 1]
    /\ main_thread_sent' = main_thread_sent + 1
    /\ UNCHANGED <<load, loops, in_main_loop, g_batch_buffer, core_vars, nsent>>

\* ... and what did not fit one by one, with scheduler_send_remote, which counts it.
FlushRest ==
    /\ pc.op = "flush" /\ pc.rest # << >>
    /\ Len(channel[pc.core - 1][FromMain]) < QueueRoom
    /\ channel' = [channel EXCEPT ![pc.core - 1][FromMain] = Append(@, Head(pc.rest))]
    /\ pc' = [pc EXCEPT !.rest = Tail(@)]
    /\ main_thread_sent' = main_thread_sent + 1
    /\ UNCHANGED <<load, loops, in_main_loop, g_batch_buffer, core_vars, nsent>>

\* The batch is counted once all of it is out.
FlushEnds ==
    /\ pc.op = "flush" /\ pc.core > NCores /\ pc.rest = << >>
    /\ main_thread_sent' = main_thread_sent + pc.total
    /\ g_batch_buffer' = IF pc.then = NoMessage THEN << >> ELSE <<pc.then>>
    /\ pc' = Idle
    /\ UNCHANGED <<load, loops, in_main_loop, channel, core_vars, nsent>>
-----------------------------------------------------------------------------
\* A scheduler thread takes what its channels hold.
Take(c) ==
    /\ coalesce[c] = << >> /\ running[c] = 0
    /\ \E q \in 0..NCores : channel[c][q] # << >>
    /\ coalesce' = [coalesce EXCEPT
                       ![c] = FlattenSeq([i \in 1..(NCores + 1) |-> channel[c][i - 1]])]
    /\ channel' = [channel EXCEPT ![c] = [q \in 0..NCores |-> << >>]]
    /\ UNCHANGED <<load, loops, in_main_loop, g_batch_buffer, running, messages_sent,
                   messages_processed, main_thread_sent, pc, nsent, handled>>

HandlerStarts(c) ==
    /\ running[c] = 0 /\ coalesce[c] # << >>
    /\ running' = [running EXCEPT ![c] = Head(coalesce[c])]
    /\ coalesce' = [coalesce EXCEPT ![c] = Tail(@)]
    /\ UNCHANGED <<load, loops, in_main_loop, g_batch_buffer, channel, messages_sent,
                   messages_processed, main_thread_sent, pc, nsent, handled>>

\* A handler sends to the actor of another core; its messages have no id of main.
HandlerSends(c, d) ==
    /\ load.forwards /\ c # d /\ running[c] # 0 /\ nsent < MaxSends
    /\ Len(channel[d][c]) < QueueRoom
    /\ messages_sent' = [messages_sent EXCEPT ![c] = @ + 1]
    /\ channel' = [channel EXCEPT ![d][c] = Append(@, MaxSends + 1)]
    /\ nsent' = nsent + 1
    /\ UNCHANGED <<load, loops, in_main_loop, g_batch_buffer, coalesce, running,
                   messages_processed, main_thread_sent, pc, handled>>

\* Only a handler that has returned counts as a message processed.
HandlerReturns(c) ==
    /\ running[c] # 0
    /\ messages_processed' = [messages_processed EXCEPT ![c] = @ + 1]
    /\ handled' = IF running[c] > MaxSends THEN handled
                  ELSE [handled EXCEPT ![c] = Append(@, running[c])]
    /\ running' = [running EXCEPT ![c] = 0]
    /\ UNCHANGED <<load, loops, in_main_loop, g_batch_buffer, channel, coalesce, messages_sent,
                   main_thread_sent, pc, nsent>>
-----------------------------------------------------------------------------
Counting(stable) == [op |-> "count", core |-> 1, read |-> "queues", total |-> 0, sent |-> 0,
                     proc |-> 0, stable |-> stable]

scheduler_wait ==
    /\ pc = Idle /\ nsent > 0 /\ load.waits # "no" /\ (loops > 0 => load.waits = "inside")
    /\ pc' = Counting(0)
    /\ UNCHANGED <<load, loops, in_main_loop, g_batch_buffer, channel, core_vars,
                   main_thread_sent, nsent>>

\* count_pending_messages reads the queues and the counters of the cores one by one,
\* while they run.
ReadCore ==
    LET c == pc.core
        queued == FoldLeft(LAMBDA n, q : n + Len(channel[c][q]), 0,
                           [i \in 1..(NCores + 1) |-> i - 1])
    IN  /\ pc.op = "count" /\ pc.core <= NCores
        /\ pc' = CASE pc.read = "queues" -> [pc EXCEPT !.total = @ + queued, !.read = "sent"]
                   [] pc.read = "sent" -> [pc EXCEPT !.sent = @ + messages_sent[c], !.read = "proc"]
                   [] pc.read = "proc" -> [pc EXCEPT !.proc = @ + messages_processed[c],
                                                     !.read = "queues", !.core = c + 1]
        /\ UNCHANGED <<load, loops, in_main_loop, g_batch_buffer, channel, core_vars,
                       main_thread_sent, nsent>>

\* Mutant: messages that were taken out of a channel are not waited for.
IgnoreMailboxes ==
    /\ pc.op = "count" /\ pc.core > NCores
    /\ pc' = IF pc.total > 0 THEN Counting(0)
             ELSE IF pc.stable + 1 < Stable THEN Counting(pc.stable + 1) ELSE Idle
    /\ UNCHANGED <<load, loops, in_main_loop, g_batch_buffer, channel, core_vars,
                   main_thread_sent, nsent>>

\* The wait ends when Stable counts in a row have found nothing queued and at least
\* as many messages processed as sent.
CountEnds ==
    LET pending == pc.total > 0 \/ pc.sent + main_thread_sent > pc.proc
    IN  /\ pc.op = "count" /\ pc.core > NCores
        /\ pc' = IF pending THEN Counting(0)
                 ELSE IF pc.stable + 1 < Stable THEN Counting(pc.stable + 1) ELSE Idle
        /\ UNCHANGED <<load, loops, in_main_loop, g_batch_buffer, channel, core_vars,
                       main_thread_sent, nsent>>

batch_proceed == FlushCore \/ FlushRest \/ FlushEnds \/ ReadCore \/ CountEnds
batch_core(c) == Take(c) \/ HandlerStarts(c) \/ HandlerReturns(c)

batch_next ==
    \/ scheduler_send_batch_start \/ LoopEnds \/ scheduler_wait \/ batch_proceed
    \/ \E c \in Cores : \/ scheduler_send_batch_add(c) \/ scheduler_send_remote(c)
                        \/ batch_core(c)
                        \/ \E d \in Cores : HandlerSends(c, d)
-----------------------------------------------------------------------------
\* The variables have their types; no buffer or channel is overfull.
BatchTypeOK ==
    /\ load \in Load /\ loops \in 0..2 /\ in_main_loop \in BOOLEAN
    /\ Len(g_batch_buffer) <= BATCH_SEND_SIZE
    /\ \A c \in Cores, q \in 0..NCores : Len(channel[c][q]) <= QueueRoom
    /\ nsent \in 0..MaxSends /\ main_thread_sent \in 0..MaxSends
    /\ \A c \in Cores : messages_sent[c] \in 0..MaxSends /\ messages_processed[c] \in 0..MaxSends

\* Everything main has sent is handled, and no handler is running.
AllHandled ==
    /\ \A c \in Cores : running[c] = 0 /\ coalesce[c] = << >>
    /\ \A c \in Cores, q \in 0..NCores : channel[c][q] = << >>
    /\ g_batch_buffer = << >>

\* When scheduler_wait returns, the messages sent before have been handled, although
\* it has read the counters of running threads one at a time.
WaitsForAll == [][(pc.op = "count" /\ pc' = Idle) => AllHandled]_batch_vars

\* Messages of main reach an actor in the order in which main sent them: sorting a
\* batch by core, and sending one by one what did not fit, keep the order.
BatchInOrder == \A c \in Cores : \A i, j \in 1..Len(handled[c]) :
                    i < j => handled[c][i] < handled[c][j]

\* No message is lost: each is buffered, on its way, being handled or handled.
BatchConserved ==
    LET Ids(s) == {s[i] : i \in 1..Len(s)}
        held == UNION {Ids(coalesce[c]) \cup {running[c]} \cup Ids(handled[c]) : c \in Cores}
                \cup UNION {Ids(channel[c][q]) : c \in Cores, q \in 0..NCores}
                \cup {g_batch_buffer[i].id : i \in 1..Len(g_batch_buffer)}
                \cup (IF pc.op = "flush" THEN Ids(pc.rest) \cup {pc.then.id} ELSE {})
    IN  load.forwards \/ 1..nsent \subseteq held

\* A wait outside of a loop comes to an end.
BatchWaitReturns == (pc.op # "idle") ~> (pc = Idle)
=============================================================================
