---------------------------- MODULE IoReadiness ----------------------------
(***************************************************************************)
(* Waiting for file descriptors (multicore_scheduler.c,                    *)
(* aether_actor_bridge.c, aether_io_poller_epoll.c): an actor asks the     *)
(* core it runs on to tell it when a descriptor is readable.  The core     *)
(* enters the descriptor into its own epoll set, for one event, and the    *)
(* actor into its io_map; its loop polls the set and sends IoReady.        *)
(* Actors move between cores, descriptors are closed and their numbers     *)
(* used again.                                                             *)
(*                                                                         *)
(* A core's io_map and set are used by its own thread only, so a call is   *)
(* one step.  IoReady goes to the actor as every message does; inbox has   *)
(* those under way.                                                        *)
(***************************************************************************)
EXTENDS Integers, FiniteSets

CONSTANTS Cores, Actors, NULL,
          Fds,                  \* descriptors, from 0 on
          AETHER_IO_MAX_FDS,    \* entries io_map has at first
          MaxEvents,            \* events one poll returns at most, 64 in the code
          MaxAwaits             \* bound on the calls of ae_io_await

VARIABLES assigned_core,        \* the core whose thread runs an actor
          io_map,               \* per core, the actor of each entry, or NULL if it is not active
          io_registered_count,
          epoll,                \* per core and descriptor: "none", "armed" or "disabled"
          readable,             \* the descriptors with something to read
          inbox,                \* how many IoReady messages for a descriptor an actor has to handle
          due,                  \* history: how many awaits of an actor have had no answer
          lost,                 \* history: entries whose descriptor was closed, or whose
                                \* event found no memory
          calls

io_vars == <<assigned_core, io_map, io_registered_count, epoll, readable, inbox, due, lost, calls>>

io_map_capacity(c) == Cardinality(DOMAIN io_map[c])
Active(c) == {fd \in DOMAIN io_map[c] : io_map[c][fd] # NULL}
Ready(c) == {fd \in readable : epoll[c][fd] = "armed"}

----------------------------------------------------------------------------
\* The entries of core c after growing for fd: doubled until there is one for it.
scheduler_io_map_grow(c, fd) ==
    LET cap == CHOOSE n \in {io_map_capacity(c) * 2 ^ i : i \in 0..fd + 1} :
                   n > fd /\ (n = io_map_capacity(c) \/ n \div 2 <= fd)
    IN  [f \in 0..cap - 1 |-> IF f \in DOMAIN io_map[c] THEN io_map[c][f] ELSE NULL]

\* Mutant: a descriptor that is already in the set stays as it is.
AddOnly(c, fd) == [epoll EXCEPT ![c][fd] = IF @ = "none" THEN "armed" ELSE @]

\* EPOLL_CTL_ADD, or EPOLL_CTL_MOD for a descriptor that is already in the set,
\* where an event may have disabled it.
aether_io_poller_add(c, fd) == [epoll EXCEPT ![c][fd] = "armed"]

\* The actor a, in a step on its core, waits for fd.  scheduler_io_register replaces
\* the entry of another actor.
ae_io_await(a, fd) ==
    LET c == assigned_core[a]
        map == scheduler_io_map_grow(c, fd)
    IN  /\ calls < MaxAwaits /\ calls' = calls + 1
        /\ io_map' = [io_map EXCEPT ![c] = [map EXCEPT ![fd] = a]]
        /\ epoll' = aether_io_poller_add(c, fd)
        /\ io_registered_count' = [io_registered_count EXCEPT ![c] = IF map[fd] = NULL THEN @ + 1 ELSE @]
        /\ due' = [due EXCEPT ![a][fd] = @ + 1]
        /\ lost' = lost \ {<<c, fd>>}
        /\ UNCHANGED <<assigned_core, readable, inbox>>

\* The call fails if the table cannot grow, or after that if epoll refuses.
AwaitFails(a, fd) ==
    LET c == assigned_core[a]
    IN  /\ calls < MaxAwaits /\ calls' = calls + 1
        /\ \/ io_map' = [io_map EXCEPT ![c] = scheduler_io_map_grow(c, fd)]
           \/ fd >= io_map_capacity(c) /\ UNCHANGED io_map
        /\ UNCHANGED <<assigned_core, io_registered_count, epoll, readable, inbox, due, lost>>

\* scheduler_io_unregister, on the core where the actor is now.
ae_io_cancel(a, fd) ==
    LET c == assigned_core[a]
    IN  /\ fd < io_map_capacity(c)
        /\ epoll' = [epoll EXCEPT ![c][fd] = "none"]
        /\ io_map' = [io_map EXCEPT ![c][fd] = NULL]
        /\ io_registered_count' = [io_registered_count EXCEPT ![c] = IF io_map[c][fd] # NULL THEN @ - 1 ELSE @]
        /\ lost' = lost \ {<<c, fd>>}
        /\ UNCHANGED <<assigned_core, readable, inbox, due, calls>>

\* The loop of core c polls.  Each event disables its descriptor in the set; the actor
\* of the entry gets IoReady, unless there is no memory for it.
scheduler_io_poll(c) ==
    /\ io_registered_count[c] # 0
    /\ \E events \in SUBSET Ready(c) : \E sent \in SUBSET (events \cap Active(c)) :
        LET got(a, fd) == IF fd \in sent /\ io_map[c][fd] = a THEN 1 ELSE 0
        IN  /\ events # {} /\ Cardinality(events) <= MaxEvents
            /\ Cardinality(events) < MaxEvents => events = Ready(c)
            /\ epoll' = [epoll EXCEPT ![c] = [fd \in Fds |-> IF fd \in events THEN "disabled" ELSE @[fd]]]
            /\ io_map' = [io_map EXCEPT ![c] = [fd \in DOMAIN @ |-> IF fd \in sent THEN NULL ELSE @[fd]]]
            /\ io_registered_count' = [io_registered_count EXCEPT ![c] = @ - Cardinality(sent)]
            /\ inbox' = [a \in Actors |-> [fd \in Fds |-> inbox[a][fd] + got(a, fd)]]
            /\ due' = [a \in Actors |-> [fd \in Fds |-> due[a][fd] - got(a, fd)]]
            /\ lost' = lost \cup {<<c, fd>> : fd \in (events \cap Active(c)) \ sent}
    /\ UNCHANGED <<assigned_core, readable, calls>>

----------------------------------------------------------------------------
(* What goes on around it.                                                  *)

\* The handler of IoReady reads, and may leave something to read.
Handle(a, fd) ==
    /\ inbox[a][fd] > 0
    /\ inbox' = [inbox EXCEPT ![a][fd] = @ - 1]
    /\ readable' \in {readable, readable \ {fd}}
    /\ UNCHANGED <<assigned_core, io_map, io_registered_count, epoll, due, lost, calls>>

Arrives(fd) ==
    /\ fd \notin readable /\ readable' = readable \cup {fd}
    /\ UNCHANGED <<assigned_core, io_map, io_registered_count, epoll, inbox, due, lost, calls>>

\* A closed descriptor leaves the sets of all cores, but not their tables; the next
\* one that is opened may have the same number.
ae_fd_close(fd) ==
    /\ epoll' = [c \in Cores |-> [epoll[c] EXCEPT ![fd] = "none"]]
    /\ readable' = readable \ {fd}
    /\ lost' = lost \cup {<<c, fd>> : c \in {d \in Cores : fd \in Active(d)}}
    /\ UNCHANGED <<assigned_core, io_map, io_registered_count, inbox, due, calls>>

Migrate(a, c) ==
    /\ assigned_core[a] # c /\ assigned_core' = [assigned_core EXCEPT ![a] = c]
    /\ UNCHANGED <<io_map, io_registered_count, epoll, readable, inbox, due, lost, calls>>

io_init ==
    /\ assigned_core \in [Actors -> Cores]
    /\ io_map = [c \in Cores |-> [fd \in 0..AETHER_IO_MAX_FDS - 1 |-> NULL]]
    /\ io_registered_count = [c \in Cores |-> 0]
    /\ epoll = [c \in Cores |-> [fd \in Fds |-> "none"]]
    /\ readable = {}
    /\ inbox = [a \in Actors |-> [fd \in Fds |-> 0]]
    /\ due = [a \in Actors |-> [fd \in Fds |-> 0]]
    /\ lost = {} /\ calls = 0

io_next ==
    \/ \E a \in Actors, fd \in Fds : ae_io_await(a, fd) \/ AwaitFails(a, fd) \/ ae_io_cancel(a, fd) \/ Handle(a, fd)
    \/ \E c \in Cores : scheduler_io_poll(c)
    \/ \E fd \in Fds : Arrives(fd) \/ ae_fd_close(fd)
    \/ \E a \in Actors, c \in Cores : Migrate(a, c)

----------------------------------------------------------------------------
IoTypeOK ==
    /\ assigned_core \in [Actors -> Cores] /\ readable \subseteq Fds
    /\ \A c \in Cores : io_map_capacity(c) > 0 /\ \A fd \in Active(c) : io_map[c][fd] \in Actors
    /\ epoll \in [Cores -> [Fds -> {"none", "armed", "disabled"}]]

\* A core counts its active entries, on which its polling depends; the descriptors
\* armed in its set are those with an active entry, whatever was closed, cancelled or
\* used again, so that no event is dropped for want of an actor and no entry waits in
\* vain, except where memory was out or the descriptor closed; and an actor gets no
\* more IoReady messages than it has asked for (scheduler_io_register,
\* scheduler_io_unregister, scheduler_io_poll).
IoSound ==
    /\ \A c \in Cores : io_registered_count[c] = Cardinality(Active(c))
    /\ \A c \in Cores, fd \in Fds :
          /\ epoll[c][fd] = "armed" => fd \in Active(c)
          /\ fd \in Active(c) /\ <<c, fd>> \notin lost => epoll[c][fd] = "armed"
    /\ \A a \in Actors, fd \in Fds : due[a][fd] >= 0

\* An entry whose descriptor is readable does not stay: its event is delivered, or the
\* entry is withdrawn, lost for want of memory, or overtaken by another reader.
IoDelivered(c, fd) ==
    (fd \in Active(c) /\ fd \in Ready(c)) ~> (fd \notin Active(c) \/ fd \notin readable \/ <<c, fd>> \in lost)
=============================================================================
