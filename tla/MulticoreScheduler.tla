------------------------ MODULE MulticoreScheduler ------------------------
(***************************************************************************)
(* runtime/scheduler/multicore_scheduler.c: the scheduler threads, one per *)
(* core, that route messages to actors and run their handlers, and the     *)
(* main thread that sends to actors and waits for quiescence.              *)
(*                                                                         *)
(* A scheduler thread is its position in the loop of scheduler_thread (pc) *)
(* and a call stack: a handler runs inside a processing loop, its sends    *)
(* may run another handler inline, which may flush the overflow buffers,   *)
(* which may run handlers again.  A step of a thread is a section between  *)
(* two points where another thread can change what it goes on to use: the  *)
(* read of assigned_core that routes a message, the delivery, each         *)
(* iteration of a processing loop, each send of a handler.                 *)
(*                                                                         *)
(* The channels between cores are FIFO sequences, which LockFreeQueue      *)
(* implements; a mailbox is a FIFO sequence too (see Mailbox).  Actors are *)
(* plain ones: neither auto_process nor main_thread_only.                  *)
(***************************************************************************)
EXTENDS Integers, Sequences, FiniteSets, FiniteSetsExt

CONSTANTS NumCores,          \* num_cores
          Actors,            \* the actors, all registered before the run
          Loads,             \* the programs that may run, see load
          MAILBOX_SIZE,      \* slots of a mailbox
          QUEUE_CAP,         \* messages a from_queue holds, QUEUE_SIZE - 1
          BATCH,             \* messages one iteration takes off the queues
          MAX_INLINE_DEPTH,  \* nesting of handlers run inside a send
          Limit,             \* iterations of each kind of processing loop
          FLUSH_LIMIT        \* own-core entries one flush examines

Cores == 0..(NumCores - 1)
Main == NumCores             \* the main thread's index in from_queues
Threads == 0..NumCores
NoCore == -1

ASSUME ConstantsAssumption ==
    /\ NumCores \in Nat \ {0}
    /\ \A l \in Loads : l.home \in [Actors -> Cores] /\ DOMAIN l.targets = Actors \cup {Main}
    /\ MAILBOX_SIZE \in Nat \ {0} /\ QUEUE_CAP \in Nat \ {0} /\ BATCH \in Nat \ {0}

VARIABLES
    load,                \* of this behaviour, a record:
                         \*   home       the core each actor is spawned on
                         \*   targets    whom each actor, and Main, may send to
                         \*   panics     actors whose handler may panic
                         \*   stealable  actors at positions >= 4 of their core's list
                         \*   preempt    g_aether_config.preempt_enabled
                         \*   messages   bound on the messages sent, and on a core's
                         \*              processed counter, which messages left with a
                         \*              dead actor drive up without end
    mailbox,             \* per actor: mailbox
    step_lock,           \* per actor: step_lock is set
    active,              \* per actor: active
    assigned_core,       \* per actor: assigned_core
    migrate_to,          \* per actor: migrate_to
    dead,                \* per actor: dead
    from_queues,         \* per core and sending thread: the channel
    overflow,            \* per core and target: tls_overflow
    overflow_any,        \* per core: tls_overflow_any
    overflow_total,      \* g_overflow_total
    messages_sent,       \* per core, and main_thread_sent
    messages_processed,  \* per core
    running,             \* running, the same on every core
    pc,                  \* per core: position in the loop
    stack,               \* per core: the calls in progress
    coalesce,            \* per core: what is left of coalesce_buffer
    batch,               \* per core: the actors of this coalesce_buffer
    scan,                \* per core: actors the scan has still to look at
    work_done,           \* per core: work_done
    main,                \* the main thread: what it is doing
    issued,              \* messages sent so far from one to another
    handled              \* per sender and receiver: messages handled, in order

actorVars == <<mailbox, step_lock, active, assigned_core, migrate_to, dead>>
overflowVars == <<overflow, overflow_any, overflow_total>>
counters == <<messages_sent, messages_processed>>
loopVars == <<pc, coalesce, batch, scan, work_done>>
history == <<issued, handled>>
vars == <<load, actorVars, from_queues, overflowVars, counters, running, loopVars, stack,
          main, history>>
-----------------------------------------------------------------------------
Senders == Actors \cup {Main}
Pairs == Senders \X Actors

Sum(f) == MapThenSumSet(LAMBDA x : f[x], DOMAIN f)
TotalIssued == Sum(issued)

\* The next message from s to a.
Fresh(s, a) == [from |-> s, to |-> a, n |-> issued[<<s, a>>] + 1]

Top(c) == stack[c][Len(stack[c])]
Pop(c) == SubSeq(stack[c], 1, Len(stack[c]) - 1)
Calling(c, kind) == stack[c] # << >> /\ Top(c).k = kind
InLoop(c, where) == stack[c] = << >> /\ pc[c] = where

Empty == [arr |-> << >>, count |-> 0]

scheduler_init ==
    /\ load \in Loads
    /\ mailbox = [a \in Actors |-> << >>]
    /\ step_lock = [a \in Actors |-> FALSE]
    /\ active = [a \in Actors |-> FALSE]
    /\ assigned_core = load.home
    /\ migrate_to = [a \in Actors |-> NoCore]
    /\ dead = [a \in Actors |-> FALSE]
    /\ from_queues = [c \in Cores |-> [s \in Threads |-> << >>]]
    /\ overflow = [c \in Cores |-> [t \in Cores |-> Empty]]
    /\ overflow_any = [c \in Cores |-> FALSE]
    /\ overflow_total = 0
    /\ messages_sent = [s \in Threads |-> 0]
    /\ messages_processed = [c \in Cores |-> 0]
    /\ running = TRUE
    /\ pc = [c \in Cores |-> "flush"]
    /\ stack = [c \in Cores |-> << >>]
    /\ coalesce = [c \in Cores |-> << >>]
    /\ batch = [c \in Cores |-> {}]
    /\ scan = [c \in Cores |-> {}]
    /\ work_done = [c \in Cores |-> FALSE]
    /\ main = [k |-> "go"]
    /\ issued = [p \in Pairs |-> 0]
    /\ handled = [p \in Pairs |-> << >>]
-----------------------------------------------------------------------------
\* The operations that the actions below are made of.

\* Mutant: g_overflow_total is not incremented.
AppendUncounted(c, t, m) ==
    /\ overflow' = [overflow EXCEPT ![c][t] =
           [arr |-> Append(@.arr, m), count |-> @.count + 1]]
    /\ overflow_any' = [overflow_any EXCEPT ![c] = TRUE]
    /\ UNCHANGED overflow_total

\* overflow_append: the entry goes behind the count valid ones.
overflow_append(c, t, m) ==
    /\ LET b == overflow[c][t] IN
       overflow' = [overflow EXCEPT ![c][t] =
           [arr   |-> IF b.count < Len(b.arr) THEN [b.arr EXCEPT ![b.count + 1] = m]
                                              ELSE Append(b.arr, m),
            count |-> b.count + 1]]
    /\ overflow_any' = [overflow_any EXCEPT ![c] = TRUE]
    /\ overflow_total' = overflow_total + 1

\* Mutant: a message that finds the channel full is dropped.
EnqueueOrDrop(c, t, m) ==
    /\ from_queues' = [from_queues EXCEPT ![t][c] =
           IF Len(@) < QUEUE_CAP THEN Append(@, m) ELSE @]
    /\ UNCHANGED overflowVars

\* queue_enqueue to core t's channel from thread c, or else overflow_append.
EnqueueOrDefer(c, t, m) ==
    IF Len(from_queues[t][c]) < QUEUE_CAP
    THEN /\ from_queues' = [from_queues EXCEPT ![t][c] = Append(@, m)]
         /\ UNCHANGED overflowVars
    ELSE overflow_append(c, t, m) /\ UNCHANGED from_queues

\* Mutant: off by one.
HasRoomForOneMore(a) == Len(mailbox[a]) <= MAILBOX_SIZE
\* The test of mailbox_send.
HasRoom(a) == Len(mailbox[a]) < MAILBOX_SIZE

\* mailbox_send, and when the mailbox is full the self-channel or overflow.
DeliverOrRequeue(c, m) ==
    IF HasRoom(m.to)
    THEN /\ mailbox' = [mailbox EXCEPT ![m.to] = Append(@, m)]
         /\ UNCHANGED <<from_queues, overflowVars>>
    ELSE EnqueueOrDefer(c, c, m) /\ UNCHANGED mailbox

has_pending_cross_core(c) == \E s \in Threads : from_queues[c][s] # << >>

\* Mutant: a dead actor is run again.
StepDeadToo(c, a, under) ==
    IF mailbox[a] = << >>
    THEN /\ stack' = [stack EXCEPT ![c] = under]
         /\ active' = [active EXCEPT ![a] = FALSE]
         /\ UNCHANGED <<mailbox, handled>>
    ELSE LET m == Head(mailbox[a]) IN
         /\ mailbox' = [mailbox EXCEPT ![a] = Tail(@)]
         /\ handled' = [handled EXCEPT ![<<m.from, a>>] = Append(@, m.n)]
         /\ stack' = [stack EXCEPT ![c] = Append(under, [k |-> "run", a |-> a])]
         /\ UNCHANGED active

\* aether_step_safe and the generated step() up to the handler's body, run on
\* top of the calls under: the message is received and its handler starts.
aether_step_safe(c, a, under) ==
    IF dead[a] \/ mailbox[a] = << >>
    THEN /\ stack' = [stack EXCEPT ![c] = under]
         /\ active' = [active EXCEPT ![a] = @ /\ dead[a]]
         /\ UNCHANGED <<mailbox, handled>>
    ELSE LET m == Head(mailbox[a]) IN
         /\ mailbox' = [mailbox EXCEPT ![a] = Tail(@)]
         /\ handled' = [handled EXCEPT ![<<m.from, a>>] = Append(@, m.n)]
         /\ stack' = [stack EXCEPT ![c] = Append(under, [k |-> "run", a |-> a])]
         /\ UNCHANGED active

-----------------------------------------------------------------------------
\* Sending, from inside a handler that runs on core c.

\* aether_send_message: the handler on top sends to b; assigned_core decides
\* between the local and the remote path.
aether_send_message(c) ==
    /\ Calling(c, "run") /\ TotalIssued < load.messages
    /\ \E b \in load.targets[Top(c).a] :
        LET m == Fresh(Top(c).a, b)
            path == IF assigned_core[b] = c THEN "local" ELSE "remote"
        IN  /\ issued' = [issued EXCEPT ![<<m.from, b>>] = @ + 1]
            /\ stack' = [stack EXCEPT ![c] = Append(@, [k |-> path, m |-> m])]
    /\ UNCHANGED <<actorVars, from_queues, overflowVars, counters, running, loopVars,
                   main, handled>>

InlineDepth(c) == Cardinality({i \in DOMAIN stack[c] : stack[c][i].k = "inline"})

\* Mutant: step_lock is not tried.
MayInlineLocked(c, b, mbox) ==
    InlineDepth(c) < MAX_INLINE_DEPTH /\ assigned_core[b] = c /\ Len(mbox) = 1
\* The test before an inlined call on actor b with mailbox mbox, the attempt at
\* step_lock included.
MayInline(c, b, mbox) ==
    /\ InlineDepth(c) < MAX_INLINE_DEPTH
    /\ assigned_core[b] = c
    /\ Len(mbox) = 1
    /\ ~ step_lock[b]

\* scheduler_send_local: deliver to the mailbox of an actor of this core, and
\* run the actor here if it was idle.
scheduler_send_local(c) ==
    /\ Calling(c, "local")
    /\ LET m == Top(c).m
           b == m.to
       IN  IF dead[b]
           THEN /\ stack' = [stack EXCEPT ![c] = Pop(c)]
                /\ UNCHANGED <<mailbox, step_lock, active, from_queues, overflowVars, messages_sent>>
           ELSE /\ messages_sent' = [messages_sent EXCEPT ![c] = @ + 1]
                /\ active' = [active EXCEPT ![b] = TRUE]
                /\ DeliverOrRequeue(c, m)
                /\ IF MayInline(c, b, mailbox'[b])
                   THEN /\ step_lock' = [step_lock EXCEPT ![b] = TRUE]
                        /\ stack' = [stack EXCEPT ![c] =
                               Append(Pop(c), [k |-> "inline", a |-> b, at |-> "step"])]
                   ELSE /\ stack' = [stack EXCEPT ![c] = Pop(c)]
                        /\ UNCHANGED step_lock
    /\ UNCHANGED <<assigned_core, migrate_to, dead, messages_processed, running, loopVars,
                   main, history>>

\* scheduler_send_remote up to the load of assigned_core, with the direct
\* delivery when the actor has meanwhile moved to this core.
scheduler_send_remote(c) ==
    /\ Calling(c, "remote")
    /\ LET m == Top(c).m
           target_core == assigned_core[m.to]
       IN  IF dead[m.to]
           THEN /\ stack' = [stack EXCEPT ![c] = Pop(c)]
                /\ UNCHANGED <<mailbox, active, from_queues, overflowVars, messages_sent>>
           ELSE /\ messages_sent' = [messages_sent EXCEPT ![c] = @ + 1]
                /\ IF target_core = c
                   THEN /\ DeliverOrRequeue(c, m)
                        /\ active' = [active EXCEPT ![m.to] = TRUE]
                        /\ stack' = [stack EXCEPT ![c] = Pop(c)]
                   ELSE /\ stack' = [stack EXCEPT ![c] =
                               Append(Pop(c), [k |-> "enqueue", m |-> m, t |-> target_core])]
                        /\ UNCHANGED <<mailbox, active, from_queues, overflowVars>>
    /\ UNCHANGED <<step_lock, assigned_core, migrate_to, dead, messages_processed, running,
                   loopVars, main, history>>

\* The rest of scheduler_send_remote: ask for the actor to migrate here, and
\* enqueue behind whatever already waits for the target core.
SendRemoteEnqueue(c) ==
    /\ Calling(c, "enqueue")
    /\ LET m == Top(c).m
           t == Top(c).t
       IN  /\ migrate_to' = [migrate_to EXCEPT ![m.to] = IF active[m.to] THEN c ELSE @]
           /\ IF overflow[c][t].count > 0
              THEN overflow_append(c, t, m) /\ UNCHANGED from_queues
              ELSE EnqueueOrDefer(c, t, m)
    /\ stack' = [stack EXCEPT ![c] = Pop(c)]
    /\ UNCHANGED <<mailbox, step_lock, active, assigned_core, dead, counters, running, loopVars,
                   main, history>>

\* The handler returns into the loop or the send that ran it.
HandlerReturns(c) ==
    /\ Calling(c, "run")
    /\ stack' = [stack EXCEPT ![c] = Pop(c)]
    /\ UNCHANGED <<actorVars, from_queues, overflowVars, counters, running, loopVars, main, history>>

\* aether_step_safe after an unwind: the actor dies, its mailbox is drained
\* into the processed counter, and its step_lock is cleared.
HandlerPanics(c) ==
    /\ Calling(c, "run") /\ Top(c).a \in load.panics
    /\ LET a == Top(c).a IN
        /\ dead' = [dead EXCEPT ![a] = TRUE]
        /\ active' = [active EXCEPT ![a] = FALSE]
        /\ messages_processed' = [messages_processed EXCEPT ![c] = @ + Len(mailbox[a])]
        /\ mailbox' = [mailbox EXCEPT ![a] = << >>]
        /\ step_lock' = [step_lock EXCEPT ![a] = FALSE]
    /\ stack' = [stack EXCEPT ![c] = Pop(c)]
    /\ UNCHANGED <<assigned_core, migrate_to, from_queues, overflowVars, messages_sent, running,
                   loopVars, main, history>>

\* The inlined call of scheduler_send_local: one step(), ...
InlineStep(c) ==
    /\ Calling(c, "inline") /\ Top(c).at = "step"
    /\ aether_step_safe(c, Top(c).a, Append(Pop(c), [Top(c) EXCEPT !.at = "count"]))
    /\ UNCHANGED <<step_lock, assigned_core, migrate_to, dead, from_queues, overflowVars, counters,
                   running, loopVars, main, issued>>

FlushCall == [k |-> "flush", t |-> 0, own |-> FALSE, i |-> 1, limit |-> 0, rem |-> 0,
              flushed |-> 0, direct |-> 0, any |-> FALSE]

\* ... then it is counted, the overflow it caused is flushed, ...
InlineCount(c) ==
    /\ Calling(c, "inline") /\ Top(c).at = "count"
    /\ LET a == Top(c).a
           unlock == Append(Pop(c), [Top(c) EXCEPT !.at = "unlock"])
       IN  /\ active' = [active EXCEPT ![a] = @ /\ mailbox[a] # << >>]
           /\ stack' = [stack EXCEPT ![c] = IF overflow_any[c] THEN Append(unlock, FlushCall)
                                                              ELSE unlock]
    /\ messages_processed' = [messages_processed EXCEPT ![c] = @ + 1]
    /\ UNCHANGED <<mailbox, step_lock, assigned_core, migrate_to, dead, from_queues, overflowVars,
                   messages_sent, running, loopVars, main, history>>

\* ... and only then is the actor unlocked.
InlineUnlock(c) ==
    /\ Calling(c, "inline") /\ Top(c).at = "unlock"
    /\ step_lock' = [step_lock EXCEPT ![Top(c).a] = FALSE]
    /\ stack' = [stack EXCEPT ![c] = Pop(c)]
    /\ UNCHANGED <<mailbox, active, assigned_core, migrate_to, dead, from_queues, overflowVars,
                   counters, running, loopVars, main, history>>
-----------------------------------------------------------------------------
\* The processing loops.  All of them hold step_lock while they run step();
\* they differ in their limit and in what ends them early.

ProcessCall(where, a) == [k |-> "process", site |-> where, a |-> a, n |-> 0]

\* The condition under which the loop on top calls step() once more.
KeepsProcessing(c) ==
    LET f == Top(c) IN
    /\ mailbox[f.a] # << >>
    /\ f.n < Limit[f.site]
    /\ assigned_core[f.a] = c
    /\ f.n > 0 /\ f.site \in {"fused", "scan"} => ~ has_pending_cross_core(c)

ProcessStep(c) ==
    /\ Calling(c, "process") /\ KeepsProcessing(c)
    /\ aether_step_safe(c, Top(c).a, Append(Pop(c), [Top(c) EXCEPT !.n = @ + 1]))
    /\ UNCHANGED <<step_lock, assigned_core, migrate_to, dead, from_queues, overflowVars, counters,
                   running, loopVars, main, issued>>

\* The loop ends: unlock, count what was processed, mark the actor idle.  The
\* loop of overflow_flush leaves the counting to the end of the flush.
ProcessEnd(c) ==
    /\ Calling(c, "process")
    /\ LET f == Top(c)
           idle == /\ f.site \in {"fused", "scan"} /\ f.n > 0 /\ mailbox[f.a] = << >>
                   /\ f.site = "scan" => assigned_core[f.a] = c
       IN  /\ ~ KeepsProcessing(c) \/ (load.preempt /\ f.site = "drain" /\ f.n > 0)
           /\ step_lock' = [step_lock EXCEPT ![f.a] = FALSE]
           /\ active' = [active EXCEPT ![f.a] = @ /\ ~ idle]
           /\ IF f.site = "flush"
              THEN /\ stack' = [stack EXCEPT ![c] =
                          [Pop(c) EXCEPT ![Len(Pop(c))].direct = @ + f.n]]
                   /\ UNCHANGED messages_processed
              ELSE /\ stack' = [stack EXCEPT ![c] = Pop(c)]
                   /\ messages_processed' = [messages_processed EXCEPT ![c] = @ + f.n]
    /\ UNCHANGED <<mailbox, assigned_core, migrate_to, dead, from_queues, overflowVars,
                   messages_sent, running, loopVars, main, history>>
-----------------------------------------------------------------------------
\* overflow_flush, as a call on the stack that goes through the target cores.

\* The first core from t on that has deferred sends.
NextTarget(c, t) ==
    LET pending == {u \in Cores : u >= t /\ overflow[c][u].count # 0}
    IN  IF pending = {} THEN NumCores ELSE Min(pending)

\* Deferred sends to another core: as many as fit go into its channel.
FlushQueue(c) ==
    /\ Calling(c, "flush") /\ ~ Top(c).own
    /\ LET f == Top(c)
           t == NextTarget(c, f.t)
       IN  /\ t < NumCores /\ t # c
           /\ LET b == overflow[c][t]
                  drained == Min({b.count, QUEUE_CAP - Len(from_queues[t][c])})
              IN  /\ from_queues' = [from_queues EXCEPT ![t][c] = @ \o SubSeq(b.arr, 1, drained)]
                  /\ overflow' = [overflow EXCEPT ![c][t] =
                         [arr |-> SubSeq(b.arr, drained + 1, b.count), count |-> b.count - drained]]
                  /\ stack' = [stack EXCEPT ![c] = Append(Pop(c),
                         [f EXCEPT !.t = t + 1, !.flushed = @ + drained,
                                   !.any = @ \/ b.count > drained])]
    /\ UNCHANGED <<actorVars, overflow_any, overflow_total, counters, running, loopVars, main, history>>

\* Own-core entries are delivered one by one; the loop starts ...
FlushOwnStart(c) ==
    /\ Calling(c, "flush") /\ ~ Top(c).own /\ NextTarget(c, Top(c).t) = c
    /\ stack' = [stack EXCEPT ![c] = Append(Pop(c),
           [Top(c) EXCEPT !.t = c, !.own = TRUE, !.i = 1, !.rem = 0,
                          !.limit = Min({overflow[c][c].count, FLUSH_LIMIT})])]
    /\ UNCHANGED <<actorVars, from_queues, overflowVars, counters, running, loopVars, main, history>>

\* ... examines entry i: deliver it and run its actor, or forward it to the
\* core its actor has moved to, or keep it ...
FlushOwnEntry(c) ==
    /\ Calling(c, "flush") /\ Top(c).own /\ Top(c).i <= Top(c).limit
    /\ LET f == Top(c)
           m == overflow[c][c].arr[f.i]
           a == m.to
           ac == assigned_core[a]
           sent == [f EXCEPT !.i = @ + 1, !.flushed = @ + 1]
       IN  \/ /\ ac = c /\ HasRoom(a)
              /\ mailbox' = [mailbox EXCEPT ![a] = Append(@, m)]
              /\ active' = [active EXCEPT ![a] = TRUE]
              /\ step_lock' = [step_lock EXCEPT ![a] = TRUE]
              /\ stack' = [stack EXCEPT ![c] = IF step_lock[a]
                     THEN Append(Pop(c), sent)
                     ELSE Pop(c) \o <<sent, ProcessCall("flush", a)>>]
              /\ UNCHANGED <<from_queues, overflow>>
           \/ /\ ac # c /\ Len(from_queues[ac][c]) < QUEUE_CAP
              /\ from_queues' = [from_queues EXCEPT ![ac][c] = Append(@, m)]
              /\ stack' = [stack EXCEPT ![c] = Append(Pop(c), sent)]
              /\ UNCHANGED <<mailbox, active, step_lock, overflow>>
           \/ /\ IF ac = c THEN ~ HasRoom(a) ELSE Len(from_queues[ac][c]) = QUEUE_CAP
              /\ overflow' = [overflow EXCEPT ![c][c].arr[f.rem + 1] = m]
              /\ stack' = [stack EXCEPT ![c] =
                     Append(Pop(c), [f EXCEPT !.i = @ + 1, !.rem = @ + 1])]
              /\ UNCHANGED <<mailbox, active, step_lock, from_queues>>
    /\ UNCHANGED <<assigned_core, migrate_to, dead, overflow_any, overflow_total, counters, running,
                   loopVars, main, history>>

\* ... and ends by moving what was not examined, or was appended meanwhile,
\* behind the kept entries.
FlushOwnEnd(c) ==
    /\ Calling(c, "flush") /\ Top(c).own /\ Top(c).i > Top(c).limit
    /\ LET f == Top(c)
           b == overflow[c][c]
           tail_count == b.count - f.limit
           count == f.rem + tail_count
           arr == IF tail_count <= 0 THEN b.arr
                  ELSE SubSeq(b.arr, 1, f.rem) \o SubSeq(b.arr, f.limit + 1, b.count)
                           \o SubSeq(b.arr, count + 1, Len(b.arr))
           nested == \E i \in DOMAIN Pop(c) : stack[c][i].k = "flush"
       IN  /\ overflow' = [overflow EXCEPT ![c][c] =
                  [arr |-> IF nested THEN arr ELSE SubSeq(arr, 1, count), count |-> count]]
           /\ stack' = [stack EXCEPT ![c] = Append(Pop(c),
                  [f EXCEPT !.own = FALSE, !.t = c + 1, !.any = @ \/ count # 0])]
    /\ UNCHANGED <<actorVars, from_queues, overflow_any, overflow_total, counters, running, loopVars,
                   main, history>>

FlushEnd(c) ==
    /\ Calling(c, "flush") /\ ~ Top(c).own /\ NextTarget(c, Top(c).t) = NumCores
    /\ overflow_total' = overflow_total - Top(c).flushed
    /\ messages_processed' = [messages_processed EXCEPT ![c] = @ + Top(c).direct]
    /\ overflow_any' = [overflow_any EXCEPT ![c] = Top(c).any]
    /\ stack' = [stack EXCEPT ![c] = Pop(c)]
    /\ UNCHANGED <<actorVars, from_queues, overflow, messages_sent, running, loopVars, main, history>>

overflow_flush(c) ==
    FlushQueue(c) \/ FlushOwnStart(c) \/ FlushOwnEntry(c) \/ FlushOwnEnd(c) \/ FlushEnd(c)
-----------------------------------------------------------------------------
\* The loop of scheduler_thread on core c.

\* Mutant: deferred sends are not flushed.
LoopHeadNoFlush(c) ==
    /\ InLoop(c, "flush")
    /\ pc' = [pc EXCEPT ![c] = IF running THEN "drain" ELSE "exit"]
    /\ UNCHANGED <<actorVars, from_queues, overflowVars, counters, running, coalesce, batch, scan,
                   work_done, stack, main, history>>

\* Its head: leave when told to stop, flush deferred sends either way.
LoopHead(c) ==
    /\ InLoop(c, "flush") /\ messages_processed[c] <= load.messages
    /\ pc' = [pc EXCEPT ![c] = IF running THEN "drain" ELSE "exit"]
    /\ stack' = [stack EXCEPT ![c] = IF overflow_any[c] THEN <<FlushCall>> ELSE << >>]
    /\ UNCHANGED <<actorVars, from_queues, overflowVars, counters, running, coalesce, batch, scan,
                   work_done, main, history>>

\* How much is taken from each channel: in order of the sender, BATCH in all.
Taken(c) ==
    [s \in Threads |->
        LET before == MapThenSumSet(LAMBDA r : Len(from_queues[c][r]), 0..(s - 1))
        IN  Min({Len(from_queues[c][s]), Max({BATCH - before, 0})})]

\* The messages of the first n channels' taken parts, in order.
TakenUpTo(c) ==
    LET f[n \in 0..NumCores + 1] ==
            IF n = 0 THEN << >>
            ELSE f[n - 1] \o SubSeq(from_queues[c][n - 1], 1, Taken(c)[n - 1])
    IN  f[NumCores + 1]

\* Drain the channels into the coalesce buffer.
DrainQueues(c) ==
    /\ InLoop(c, "drain")
    /\ coalesce' = [coalesce EXCEPT ![c] = TakenUpTo(c)]
    /\ from_queues' = [from_queues EXCEPT ![c] =
           [s \in Threads |-> SubSeq(@[s], Taken(c)[s] + 1, Len(@[s]))]]
    /\ batch' = [batch EXCEPT ![c] = {m.to : m \in {TakenUpTo(c)[i] : i \in DOMAIN TakenUpTo(c)}}]
    /\ IF TakenUpTo(c) = << >>
       THEN /\ pc' = [pc EXCEPT ![c] = "scan"]
            /\ scan' = [scan EXCEPT ![c] = {a \in Actors : assigned_core[a] = c}]
       ELSE /\ pc' = [pc EXCEPT ![c] = "dispatch"]
            /\ UNCHANGED scan
    /\ UNCHANGED <<actorVars, overflowVars, counters, running, stack, work_done, main, history>>

\* A coalesced message whose actor has moved goes to the core it is on now.
Forward(c, m) ==
    /\ EnqueueOrDefer(c, assigned_core[m.to], m)
    /\ coalesce' = [coalesce EXCEPT ![c] = Tail(@)]
    /\ work_done' = [work_done EXCEPT ![c] = TRUE]
    /\ pc' = [pc EXCEPT ![c] = "dispatch"]
    /\ UNCHANGED <<actorVars, stack>>

\* One coalesced message, first half: forward it, or make room for it by
\* draining a mailbox that is more than half full.
Dispatch(c) ==
    /\ InLoop(c, "dispatch") /\ coalesce[c] # << >>
    /\ LET m == Head(coalesce[c])
           drains == Len(mailbox[m.to]) > MAILBOX_SIZE \div 2 /\ ~ step_lock[m.to]
       IN  \/ assigned_core[m.to] # c /\ Forward(c, m)
           \/ /\ assigned_core[m.to] = c
              /\ step_lock' = [step_lock EXCEPT ![m.to] = @ \/ drains]
              /\ stack' = [stack EXCEPT ![c] = IF drains THEN <<ProcessCall("drain", m.to)>>
                                                          ELSE << >>]
              /\ pc' = [pc EXCEPT ![c] = "deliver"]
              /\ UNCHANGED <<mailbox, active, assigned_core, migrate_to, dead, from_queues,
                             overflowVars, coalesce, work_done>>
    /\ UNCHANGED <<counters, running, batch, scan, main, history>>

\* Second half: forward it after all, requeue it if the mailbox is full, or
\* deliver it and process the actor at once.
Deliver(c) ==
    /\ InLoop(c, "deliver")
    /\ LET m == Head(coalesce[c])
           a == m.to
       IN  \/ assigned_core[a] # c /\ Forward(c, m)
           \/ /\ assigned_core[a] = c
              /\ DeliverOrRequeue(c, m)
              /\ IF HasRoom(a)
                 THEN /\ active' = [active EXCEPT ![a] = TRUE]
                      /\ work_done' = [work_done EXCEPT ![c] = TRUE]
                      /\ step_lock' = [step_lock EXCEPT ![a] = TRUE]
                      /\ stack' = [stack EXCEPT ![c] =
                             IF step_lock[a] THEN << >> ELSE <<ProcessCall("fused", a)>>]
                 ELSE UNCHANGED <<active, work_done, step_lock, stack>>
              /\ coalesce' = [coalesce EXCEPT ![c] = Tail(@)]
              /\ pc' = [pc EXCEPT ![c] = "dispatch"]
              /\ UNCHANGED <<assigned_core, migrate_to, dead>>
    /\ UNCHANGED <<counters, running, batch, scan, main, history>>

\* Moving actor a to the core that asked for it.
Migrate(a) ==
    /\ assigned_core' = [assigned_core EXCEPT ![a] = migrate_to[a]]
    /\ migrate_to' = [migrate_to EXCEPT ![a] = NoCore]

\* After the batch: its actors migrate one by one, except where an actor_lock
\* was not free or the other list is full.
MigrateBatch(c) ==
    /\ InLoop(c, "dispatch") /\ coalesce[c] = << >>
    /\ \/ \E a \in batch[c] :
              /\ migrate_to[a] \notin {NoCore, c} /\ assigned_core[a] = c
              /\ Migrate(a)
              /\ batch' = [batch EXCEPT ![c] = @ \ {a}]
              /\ UNCHANGED pc
       \/ /\ batch' = [batch EXCEPT ![c] = {}]
          /\ pc' = [pc EXCEPT ![c] = "idle"]
          /\ UNCHANGED <<assigned_core, migrate_to>>
    /\ UNCHANGED <<mailbox, step_lock, active, dead, from_queues, overflowVars, counters, running,
                   stack, coalesce, scan, work_done, main, history>>

\* The scan of an idle core: one actor of its list is processed ...
ScanActor(c) ==
    /\ InLoop(c, "scan")
    /\ \E a \in scan[c] :
        IF mailbox[a] = << >> /\ migrate_to[a] = NoCore
        THEN /\ scan' = [scan EXCEPT ![c] = @ \ {a}]
             /\ UNCHANGED <<pc, active, work_done, step_lock, stack, batch>>
        ELSE /\ active' = [active EXCEPT ![a] = TRUE]
             /\ work_done' = [work_done EXCEPT ![c] = TRUE]
             /\ step_lock' = [step_lock EXCEPT ![a] = TRUE]
             /\ stack' = [stack EXCEPT ![c] =
                    IF step_lock[a] THEN << >> ELSE <<ProcessCall("scan", a)>>]
             /\ batch' = [batch EXCEPT ![c] = {a}]
             /\ scan' = [scan EXCEPT ![c] = @ \ {a}]
             /\ pc' = [pc EXCEPT ![c] = "scanned"]
    /\ UNCHANGED <<mailbox, assigned_core, migrate_to, dead, from_queues, overflowVars, counters,
                   running, coalesce, main, history>>

\* ... and then migrates, unless a lock was not free.  The code does not look
\* at assigned_core again here, and may look at the actor a second time, when
\* it was the last of the list and so replaces itself (see ActorList).
ScanMigrate(c) ==
    /\ InLoop(c, "scanned")
    /\ \/ \E a \in batch[c] :
              /\ migrate_to[a] \notin {NoCore, c} /\ Migrate(a)
              /\ scan' \in {scan, [scan EXCEPT ![c] = @ \cup {a}]}
       \/ UNCHANGED <<assigned_core, migrate_to, scan>>
    /\ batch' = [batch EXCEPT ![c] = {}]
    /\ pc' = [pc EXCEPT ![c] = "scan"]
    /\ UNCHANGED <<mailbox, step_lock, active, dead, from_queues, overflowVars, counters, running,
                   stack, coalesce, work_done, main, history>>

\* The end of an iteration.  An idle core may take an actor from another.
LoopEnd(c) ==
    /\ InLoop(c, "idle") \/ (InLoop(c, "scan") /\ scan[c] = {})
    /\ pc' = [pc EXCEPT ![c] = "flush"]
    /\ work_done' = [work_done EXCEPT ![c] = FALSE]
    /\ \/ UNCHANGED <<assigned_core, migrate_to>>
       \/ /\ ~ work_done[c]
          /\ \E a \in load.stealable :
              /\ assigned_core[a] # c
              /\ active[a] \/ mailbox[a] # << >>
              /\ assigned_core' = [assigned_core EXCEPT ![a] = c]
              /\ migrate_to' = [migrate_to EXCEPT ![a] = NoCore]
    /\ UNCHANGED <<mailbox, step_lock, active, dead, from_queues, overflowVars, counters, running,
                   stack, coalesce, batch, scan, main, history>>

SchedulerThread(c) ==
    \/ LoopHead(c) \/ DrainQueues(c) \/ Dispatch(c) \/ Deliver(c) \/ MigrateBatch(c)
    \/ ScanActor(c) \/ ScanMigrate(c) \/ LoopEnd(c)
    \/ ProcessStep(c) \/ ProcessEnd(c) \/ overflow_flush(c)
    \/ aether_send_message(c) \/ scheduler_send_local(c)
    \/ scheduler_send_remote(c) \/ SendRemoteEnqueue(c)
    \/ InlineStep(c) \/ InlineCount(c) \/ InlineUnlock(c)
    \/ HandlerReturns(c) \/ HandlerPanics(c)
-----------------------------------------------------------------------------
\* The main thread: current_core_id = -1, so every send is a remote one.

MainSend ==
    /\ main.k = "go" /\ TotalIssued < load.messages
    /\ \E b \in load.targets[Main] :
        /\ issued' = [issued EXCEPT ![<<Main, b>>] = @ + 1]
        /\ main' = [k |-> "remote", m |-> Fresh(Main, b)]
    /\ UNCHANGED <<actorVars, from_queues, overflowVars, counters, running, loopVars, stack, handled>>

\* scheduler_send_remote up to the load of assigned_core.
MainLoad ==
    /\ main.k = "remote"
    /\ IF dead[main.m.to]
       THEN main' = [k |-> "go"] /\ UNCHANGED messages_sent
       ELSE /\ main' = [k |-> "enqueue", m |-> main.m, t |-> assigned_core[main.m.to]]
            /\ messages_sent' = [messages_sent EXCEPT ![Main] = @ + 1]
    /\ UNCHANGED <<actorVars, from_queues, overflowVars, messages_processed, running, loopVars, stack,
                   history>>

\* Its enqueue, which the main thread retries until there is room.
MainEnqueue ==
    /\ main.k = "enqueue" /\ Len(from_queues[main.t][Main]) < QUEUE_CAP
    /\ from_queues' = [from_queues EXCEPT ![main.t][Main] = Append(@, main.m)]
    /\ main' = [k |-> "go"]
    /\ UNCHANGED <<actorVars, overflowVars, counters, running, loopVars, stack, history>>

\* Mutant: messages in mailboxes and handlers are not seen.
CountQueuedOnly ==
    MapThenSumSet(LAMBDA q : Len(from_queues[q[1]][q[2]]), Cores \X Threads) + Max({overflow_total, 0})

\* count_pending_messages, taken as one snapshot.
count_pending_messages ==
    LET queued == MapThenSumSet(LAMBDA q : Len(from_queues[q[1]][q[2]]), Cores \X Threads)
        delta == Sum(messages_sent) - Sum(messages_processed)
    IN  queued + Max({overflow_total, 0}) + Max({delta, 0})

\* scheduler_wait returns when nothing is pending, scheduler_stop clears every
\* core's running flag, and scheduler_shutdown is the one after the other.
scheduler_wait == main.k = "go" /\ count_pending_messages = 0
scheduler_stop == running' = FALSE
scheduler_shutdown ==
    /\ scheduler_wait
    /\ scheduler_stop
    /\ main' = [k |-> "stopped"]
    /\ UNCHANGED <<actorVars, from_queues, overflowVars, counters, loopVars, stack, history>>

MainThread == MainSend \/ MainLoad \/ MainEnqueue \/ scheduler_shutdown

\* Every thread has returned.
Finished ==
    /\ main.k = "stopped" /\ \A c \in Cores : InLoop(c, "exit")
    /\ UNCHANGED vars

Next ==
    /\ UNCHANGED load
    /\ MainThread \/ (\E c \in Cores : SchedulerThread(c)) \/ Finished

Init == scheduler_init
Spec == Init /\ [][Next]_vars
FairSpec ==
    /\ Spec
    /\ WF_vars(MainThread /\ UNCHANGED load)
    /\ \A c \in Cores : WF_vars(SchedulerThread(c) /\ UNCHANGED load)
-----------------------------------------------------------------------------
\* Mailboxes and channels stay within their size, the overflow count does not go
\* negative and inlined handlers nest no deeper than MAX_INLINE_DEPTH.
TypeOK ==
    /\ \A a \in Actors : Len(mailbox[a]) <= MAILBOX_SIZE
    /\ step_lock \in [Actors -> BOOLEAN] /\ active \in [Actors -> BOOLEAN]
    /\ dead \in [Actors -> BOOLEAN]
    /\ assigned_core \in [Actors -> Cores] /\ migrate_to \in [Actors -> Cores \cup {NoCore}]
    /\ \A c \in Cores, s \in Threads : Len(from_queues[c][s]) <= QUEUE_CAP
    /\ messages_sent \in [Threads -> Nat] /\ messages_processed \in [Cores -> Nat]
    /\ overflow_total \in Nat
    /\ \A c \in Cores : InlineDepth(c) <= MAX_INLINE_DEPTH

\* The calls of step() on actor a in progress, over all threads.
Running(a) ==
    UNION {{<<c, i>> : i \in {j \in DOMAIN stack[c] : stack[c][j] = [k |-> "run", a |-> a]}}
               : c \in Cores}

\* Only one thread runs an actor's handler at a time, and never inside itself:
\* step_lock holds across every processing loop, inlined send, migration and
\* steal.
OneStepAtATime == \A a \in Actors : Cardinality(Running(a)) <= 1

Times(m, seq) == Cardinality({i \in DOMAIN seq : seq[i] = m})

\* The deferred sends of core c to t.  A flush in progress has already moved
\* on from the entries before i, except the first rem that it keeps.
Deferred(c, t) ==
    LET b == overflow[c][t]
        flushing == {i \in DOMAIN stack[c] : stack[c][i].k = "flush" /\ stack[c][i].own}
        f == stack[c][Max(flushing)]
    IN  IF t # c \/ flushing = {} THEN SubSeq(b.arr, 1, b.count)
        ELSE SubSeq(b.arr, 1, f.rem) \o SubSeq(b.arr, f.i, b.count)

\* The messages a thread's calls in progress have in hand.
InHand(c) == SelectSeq(stack[c], LAMBDA f : f.k \in {"local", "remote", "enqueue"})

\* In how many places message m is, the handlers that have had it included.
Copies(m) ==
    Times(m.n, handled[<<m.from, m.to>>]) + Times(m, mailbox[m.to])
    + MapThenSumSet(LAMBDA q : Times(m, from_queues[q[1]][q[2]]), Cores \X Threads)
    + MapThenSumSet(LAMBDA q : Times(m, Deferred(q[1], q[2])), Cores \X Cores)
    + MapThenSumSet(LAMBDA c : Times(m, coalesce[c]), Cores)
    + MapThenSumSet(LAMBDA c : Times(m, [i \in DOMAIN InHand(c) |-> InHand(c)[i].m]), Cores)
    + (IF main.k \in {"remote", "enqueue"} /\ main.m = m THEN 1 ELSE 0)

\* A message sent to an actor that has not died is in exactly one place: it is
\* never lost and never delivered twice, through full mailboxes and channels,
\* deferral, forwarding, migration and stealing.
Conserved ==
    \A p \in Pairs : ~ dead[p[2]] =>
        \A n \in 1..issued[p] : Copies([from |-> p[1], to |-> p[2], n |-> n]) = 1

\* Each actor handles the messages of one sender in the order they were sent.
InOrder ==
    \A p \in Pairs : \A i, j \in DOMAIN handled[p] : i < j => handled[p][i] < handled[p][j]

\* The next step of core c calls mailbox_send on actor a.
Sending(c, a) ==
    \/ Calling(c, "local") /\ Top(c).m.to = a /\ ~ dead[a]
    \/ Calling(c, "remote") /\ Top(c).m.to = a /\ ~ dead[a] /\ assigned_core[a] = c
    \/ /\ Calling(c, "flush") /\ Top(c).own /\ Top(c).i <= Top(c).limit
       /\ overflow[c][c].arr[Top(c).i].to = a /\ assigned_core[a] = c
    \/ InLoop(c, "deliver") /\ Head(coalesce[c]).to = a /\ assigned_core[a] = c

\* A mailbox has one producer: no two threads are in mailbox_send on the same
\* actor ("SPSC assertion: detect concurrent producers").
SingleProducer == \A a \in Actors : Cardinality({c \in Cores : Sending(c, a)}) <= 1

\* overflow_flush ends its own-core loop with at least the entries it examined
\* still in the buffer: "includes unexamined + newly added".
FlushTail ==
    \A c \in Cores : Calling(c, "flush") /\ Top(c).own /\ Top(c).i > Top(c).limit =>
        overflow[c][c].count >= Top(c).limit

\* What a call in progress stands for: a message counted as sent and not yet in
\* a channel, or handled messages that are not yet counted as processed.
Uncounted(f) ==
    CASE f.k = "enqueue" -> 1
      [] f.k = "process" -> f.n
      [] f.k = "flush" -> f.direct
      [] f.k = "inline" -> IF f.at = "count" THEN 1 ELSE 0
      [] OTHER -> 0

\* What a flush in progress has taken out of overflow_total's entries.
Flushed(f) == IF f.k = "flush" THEN f.flushed ELSE 0

InCalls(Value(_)) ==
    MapThenSumSet(LAMBDA c : MapThenSumSet(LAMBDA i : Value(stack[c][i]), DOMAIN stack[c]), Cores)

AllDeferred == MapThenSumSet(LAMBDA q : Len(Deferred(q[1], q[2])), Cores \X Cores)

\* Messages counted as sent and not yet counted as processed.
Outstanding ==
    MapThenSumSet(LAMBDA a : Len(mailbox[a]), Actors)
    + MapThenSumSet(LAMBDA q : Len(from_queues[q[1]][q[2]]), Cores \X Threads)
    + AllDeferred
    + MapThenSumSet(LAMBDA c : Len(coalesce[c]), Cores)
    + InCalls(Uncounted)
    + (IF main.k = "enqueue" THEN 1 ELSE 0)

\* As long as no actor has died, the counters that scheduler_wait reads account
\* for every message: sent minus processed is what is still on its way or being
\* handled, and g_overflow_total is what the overflow buffers hold.
Accounting ==
    (\A a \in Actors : ~ dead[a]) =>
        /\ Sum(messages_sent) - Sum(messages_processed) = Outstanding
        /\ overflow_total = AllDeferred + InCalls(Flushed)

\* When count_pending_messages is 0 while the main thread waits, no handler is
\* running and every message has been handled, unless an actor has died: the
\* messages left with it are counted as processed again and again.
Quiescent ==
    main.k \in {"go", "stopped"} /\ count_pending_messages = 0 /\ (\A a \in Actors : ~ dead[a]) =>
        /\ \A a \in Actors : Running(a) = {}
        /\ \A p \in Pairs : Len(handled[p]) = issued[p]

\* Under fairness the main thread's wait ends and every scheduler thread exits.
Terminates == <>(main.k = "stopped" /\ \A c \in Cores : InLoop(c, "exit"))
=============================================================================
