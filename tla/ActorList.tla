----------------------------- MODULE ActorList -----------------------------
(***************************************************************************)
(* The lists of actors that the cores of multicore_scheduler.c keep: an    *)
(* array and a count per core, changed under the actor_locks of the cores  *)
(* concerned by registration, deregistration, the two kinds of migration   *)
(* and stealing.  A core scans its list without a lock, over a pointer and *)
(* a count read when the scan began.                                       *)
(*                                                                         *)
(* A section under the locks is one step; a migration or a steal that does *)
(* not get both locks does nothing.  Which actors have messages, and so    *)
(* are processed, sent to or stolen, is left open.                         *)
(***************************************************************************)
EXTENDS Integers, FiniteSets, FiniteSetsExt

CONSTANTS NumCores,   \* num_cores
          Actors,     \* the actors that may be registered
          Loads,      \* what may happen besides registration, see load
          CAPACITY,   \* initial capacity of a list
          KEEP,       \* a steal leaves the first KEEP actors of a list alone
          NoActor     \* no pointer

Cores == 0..(NumCores - 1)
NoCore == -1
Slots == 0..(CAPACITY + Cardinality(Actors))
Nothing == [at |-> "none"]

VARIABLES
    actors,         \* per core: the array
    actor_count,    \* per core: actor_count
    capacity,       \* per core: capacity
    assigned_core,  \* per actor: assigned_core
    migrate_to,     \* per actor: migrate_to
    thread,         \* per core: position in the loop, scan variables included
    local_actors,   \* per core: the array the scan walks, once it was replaced
    send,           \* per core: a scheduler_send_remote in progress
    main,           \* a scheduler_deregister_actor in progress
    gone,           \* actors deregistered
    sends,          \* number of sends to an actor of another core
    load            \* of this behaviour: whether the program frees actors, whether
                    \* cores are idle enough to steal, and the bound on sends

lists == <<actors, actor_count>>
routing == <<assigned_core, migrate_to>>
vars == <<lists, capacity, routing, thread, local_actors, send, main, gone, sends, load>>

Init ==
    /\ actors = [c \in Cores |-> [i \in Slots |-> NoActor]]
    /\ actor_count = [c \in Cores |-> 0]
    /\ capacity = [c \in Cores |-> CAPACITY]
    /\ assigned_core = [a \in Actors |-> NoCore]
    /\ migrate_to = [a \in Actors |-> NoCore]
    /\ thread = [c \in Cores |-> [at |-> "loop"]]
    /\ local_actors = [c \in Cores |-> Nothing]
    /\ send = [c \in Cores |-> Nothing]
    /\ main = Nothing
    /\ gone = {}
    /\ sends = 0
    /\ load \in Loads

\* The positions of a core's list that hold an actor.
Listed(c) == {i \in Slots : i < actor_count[c]}
Registered == {a \in Actors : assigned_core[a] # NoCore} \ gone
InLoop(c) == thread[c].at = "loop" /\ send[c] = Nothing
-----------------------------------------------------------------------------
\* scheduler_register_actor: append to the list, doubling a full array.  A scan
\* in progress keeps walking the array it began with.
scheduler_register_actor(a, c) ==
    /\ assigned_core[a] = NoCore
    /\ LET full == actor_count[c] >= capacity[c] IN
        /\ capacity' = [capacity EXCEPT ![c] = IF full THEN 2 * @ ELSE @]
        /\ local_actors' = [local_actors EXCEPT ![c] =
               IF full /\ thread[c].at # "loop" /\ @ = Nothing THEN actors[c] ELSE @]
    /\ assigned_core' = [assigned_core EXCEPT ![a] = c]
    /\ actors' = [actors EXCEPT ![c][actor_count[c]] = a]
    /\ actor_count' = [actor_count EXCEPT ![c] = @ + 1]
    /\ UNCHANGED <<migrate_to, thread, send, main, gone, sends, load>>

\* The caller of scheduler_deregister_actor is about to free the actor, so no
\* message to it is on its way and none will be sent.
Retiring(a) == a \in gone \/ (main # Nothing /\ main.a = a)
Unused(a) ==
    /\ migrate_to[a] = NoCore
    /\ \A c \in Cores : (send[c] # Nothing => send[c].a # a) /\ (thread[c].at = "move" => thread[c].a # a)

\* scheduler_deregister_actor reads assigned_core before it takes the lock, ...
DeregisterLoad(a) ==
    /\ main = Nothing /\ load.frees /\ a \in Registered /\ Unused(a)
    /\ main' = [at |-> "deregister", a |-> a, c |-> assigned_core[a]]
    /\ UNCHANGED <<lists, capacity, routing, thread, local_actors, send, gone, sends, load>>

\* Position i of core c's array becomes its last actor, which leaves the end.
RemoveAt(c, i) ==
    [actors EXCEPT ![c][i] = IF actor_count[c] > 0 THEN actors[c][actor_count[c] - 1] ELSE NoActor]

Positions(c, a) == {i \in Listed(c) : actors[c][i] = a}

\* ... and removes the actor from that core's list if it is there.
scheduler_deregister_actor ==
    /\ main.at = "deregister"
    /\ IF Positions(main.c, main.a) = {}
       THEN UNCHANGED lists
       ELSE /\ actors' = RemoveAt(main.c, Min(Positions(main.c, main.a)))
            /\ actor_count' = [actor_count EXCEPT ![main.c] = @ - 1]
    /\ gone' = gone \cup {main.a}
    /\ main' = Nothing
    /\ UNCHANGED <<capacity, routing, thread, local_actors, send, sends, load>>
-----------------------------------------------------------------------------
\* A handler on core c sends to an actor of another core: scheduler_send_remote
\* loads its core, ...
SendLoad(c) ==
    /\ send[c] = Nothing /\ thread[c].at \in {"loop", "move"} /\ sends < load.sends
    /\ \E a \in Registered :
        /\ assigned_core[a] # c /\ ~ Retiring(a)
        /\ send' = [send EXCEPT ![c] = [at |-> "remote", a |-> a]]
    /\ sends' = sends + 1
    /\ UNCHANGED <<lists, capacity, routing, thread, local_actors, main, gone, load>>

\* ... and asks for its migration to c if it is active.
SendStore(c) ==
    /\ send[c] # Nothing
    /\ migrate_to' \in {migrate_to, [migrate_to EXCEPT ![send[c].a] = c]}
    /\ send' = [send EXCEPT ![c] = Nothing]
    /\ UNCHANGED <<lists, capacity, assigned_core, thread, local_actors, main, gone, sends, load>>

\* Mutant: the actor is not taken off the list it leaves.
MoveCopies(a, c, i, d) ==
    /\ actors' = [actors EXCEPT ![d][actor_count[d]] = a]
    /\ actor_count' = [actor_count EXCEPT ![d] = @ + 1]
    /\ assigned_core' = [assigned_core EXCEPT ![a] = d]
    /\ migrate_to' = [migrate_to EXCEPT ![a] = NoCore]

\* Moving actor a from position i of core c's list to the end of core d's.
Move(a, c, i, d) ==
    /\ actors' = [RemoveAt(c, i) EXCEPT ![d][actor_count[d]] = a]
    /\ actor_count' = [actor_count EXCEPT ![c] = @ - 1, ![d] = @ + 1]
    /\ assigned_core' = [assigned_core EXCEPT ![a] = d]
    /\ migrate_to' = [migrate_to EXCEPT ![a] = NoCore]

\* Migration of an actor of the batch just processed.
MigrateBatch(c) ==
    /\ InLoop(c)
    /\ \E a \in Actors :
        LET d == migrate_to[a] IN
        /\ d \notin {NoCore, c} /\ assigned_core[a] = c
        /\ actor_count[d] < capacity[d]
        /\ Positions(c, a) # {}
        /\ Move(a, c, Min(Positions(c, a)), d)
    /\ UNCHANGED <<capacity, thread, local_actors, send, main, gone, sends, load>>

\* The scan of an idle core: the array and the count are read once.
ScanStart(c) ==
    /\ InLoop(c)
    /\ thread' = [thread EXCEPT ![c] = [at |-> "look", i |-> 0, n |-> actor_count[c]]]
    /\ UNCHANGED <<lists, capacity, routing, local_actors, send, main, gone, sends, load>>

LocalActor(c) == IF local_actors[c] = Nothing THEN actors[c][thread[c].i] ELSE local_actors[c][thread[c].i]

\* An actor without a message or a request is passed over; another one is
\* processed, which may run handlers, before its request is read.
ScanLook(c) ==
    /\ thread[c].at = "look" /\ thread[c].i < thread[c].n
    /\ LET f == thread[c]
           a == LocalActor(c)
       IN  \/ /\ a = NoActor \/ migrate_to[a] = NoCore
              /\ thread' = [thread EXCEPT ![c].i = @ + 1]
           \/ /\ a # NoActor /\ ~ Retiring(a)
              /\ thread' = [thread EXCEPT ![c] = [at |-> "move", i |-> f.i, n |-> f.n, a |-> a]]
    /\ UNCHANGED <<lists, capacity, routing, local_actors, send, main, gone, sends, load>>

\* Migration of the actor at the scan's position, whose slot is examined again.
\* A decrement of an empty list's count reads before the array: undefined.
ScanMigrate(c) ==
    /\ thread[c].at = "move" /\ send[c] = Nothing
    /\ LET f == thread[c]
           d == migrate_to[f.a]
           back == [at |-> "look", i |-> f.i, n |-> f.n]
       IN  \/ /\ d \notin {NoCore, c}
              /\ actor_count[d] < capacity[d]
              /\ Move(f.a, c, f.i, d)
              /\ local_actors' = [local_actors EXCEPT ![c] =
                     IF @ = Nothing THEN @ ELSE [@ EXCEPT ![f.i] = RemoveAt(c, f.i)[c][f.i]]]
              /\ thread' = [thread EXCEPT ![c] = back]
           \/ /\ thread' = [thread EXCEPT ![c] = [back EXCEPT !.i = @ + 1]]
              /\ UNCHANGED <<lists, routing, local_actors>>
    /\ UNCHANGED <<capacity, send, main, gone, sends, load>>

ScanEnd(c) ==
    /\ thread[c].at = "look" /\ thread[c].i >= thread[c].n
    /\ thread' = [thread EXCEPT ![c] = [at |-> "loop"]]
    /\ local_actors' = [local_actors EXCEPT ![c] = Nothing]
    /\ UNCHANGED <<lists, capacity, routing, send, main, gone, sends, load>>

\* An idle core takes an actor from the end part of another core's list.
Steal(c) ==
    /\ InLoop(c) /\ load.steals /\ actor_count[c] < capacity[c]
    /\ \E v \in Cores \ {c} :
        /\ actor_count[v] > KEEP
        /\ \E s \in Listed(v) :
            /\ s >= KEEP /\ actors[v][s] # NoActor /\ ~ Retiring(actors[v][s])
            /\ Move(actors[v][s], v, s, c)
    /\ UNCHANGED <<capacity, thread, local_actors, send, main, gone, sends, load>>

Next ==
    \/ \E a \in Actors, c \in Cores : scheduler_register_actor(a, c)
    \/ \E a \in Actors : DeregisterLoad(a)
    \/ scheduler_deregister_actor
    \/ \E c \in Cores :
        \/ SendLoad(c) \/ SendStore(c) \/ MigrateBatch(c) \/ Steal(c)
        \/ ScanStart(c) \/ ScanLook(c) \/ ScanMigrate(c) \/ ScanEnd(c)

Spec == Init /\ [][Next]_vars
-----------------------------------------------------------------------------
\* Every registered actor is in exactly one position of one list, and that list
\* belongs to the core that messages for the actor are routed to: otherwise its
\* core never scans it, or two cores scan it, through registration, array
\* growth, migration, stealing and scans over stale counts.
ListedOnce ==
    \A a \in Registered :
        \A c \in Cores : Cardinality(Positions(c, a)) = IF assigned_core[a] = c THEN 1 ELSE 0

\* A deregistered actor is in no list any more, so no later scan finds it,
\* although its core was read before the lock was taken.
Deregistered == \A a \in gone, c \in Cores : Positions(c, a) = {}
=============================================================================
