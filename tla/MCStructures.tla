---------------------------- MODULE MCStructures ----------------------------
(***************************************************************************)
(* The data structures of the scheduler and of the JavaScript engine for   *)
(* TLC: the channel between two cores, the mailbox of an actor, the lists  *)
(* of actors, the property table of an object, and the heap: with objects  *)
(* and arrays, with strings, and full in any way when it is collected.     *)
(* They have no state in common and are explored one at a time: a          *)
(* behaviour belongs to one part and leaves the variables of the others at *)
(* their initial values.                                                   *)
(***************************************************************************)
EXTENDS LockFreeQueue, FiniteSets, TLC

CONSTANTS Parts,       \* the parts to explore
          Actors, NoActor, ListLoads, KEEP,
          Digits       \* the strings that start like a number

VARIABLES
    part,
    messages, mhead, mtail, count, mppc, mpbuf, pcount, mcpc, mcleft, ccount, mout,
    actors, actor_count, capacity, assigned_core, migrate_to, thread, local_actors, send,
    main, gone, sends, load,
    table, where, global, addr,
    mem, heap_free, unique_strings_len, finalized, closed

mailbox_vars == <<messages, mhead, mtail, count, mppc, mpbuf, pcount, mcpc, mcleft, ccount, mout>>
list_vars == <<actors, actor_count, capacity, assigned_core, migrate_to, thread, local_actors, send,
               main, gone, sends, load>>

prop_vars == <<table, where, global, addr>>
heap_vars == <<mem, heap_free, unique_strings_len, finalized, closed>>

\* A mailbox of two slots, with batches longer than that.
M == INSTANCE Mailbox WITH
         MAILBOX_SIZE <- 2, Ordered <- TRUE, head <- mhead, tail <- mtail, ppc <- mppc,
         pbuf <- mpbuf, cpc <- mcpc, cleft <- mcleft, out <- mout

\* Lists for two actors that have to grow for a third.
L == INSTANCE ActorList WITH NumCores <- 2, CAPACITY <- 2, Loads <- ListLoads

\* Tables of up to four properties, one of them in read-only memory.
Write(k, x, v) == [key |-> k, accessor |-> x, value |-> v]
P == INSTANCE JSProperties WITH
         Keys <- {"r", "a", "b"}, Values <- {1, 2}, RomTables <- {<<"r">>},
         Address <- [r |-> 1, a |-> 2, b |-> 3], Prealloc <- {10}, MaxSlots <- 4,
         Writes <- {Write("r", FALSE, 2), Write("a", FALSE, 1), Write("a", TRUE, 1), Write("b", FALSE, 1), Write("b", FALSE, 2)}

\* A heap for an array of two elements and an object.
O == INSTANCE JSHeap WITH
         HeapSize <- 5, Slack <- 2, StackCells <- 2, Kinds <- {"user"}, Contents <- {}, Numeric <- {}, MaxArray <- 2

\* A heap filled by an array of two elements and two objects, referring to each
\* other in any way: the mark stack has no room for the array and an object.
C == INSTANCE JSHeap WITH
         HeapSize <- 7, Slack <- 2, StackCells <- 1, Kinds <- {"user"}, Contents <- {}, Numeric <- {}, MaxArray <- 2
FullHeap(array) ==
    LET size(i) == IF i = array THEN 3 ELSE 2
        start == <<1, 1 + size(1), 1 + size(1) + size(2)>>
        block(a) == CHOOSE i \in 1..3 : start[i] = a
        cells == {a \in 1..8 : \A i \in 1..3 : start[i] # a}
    IN  {[a \in C!Address |->
            IF a \in cells THEN (IF f[a] = 0 THEN C!Value ELSE C!Ptr(start[f[a]]))
            ELSE IF a > 8 THEN C!Value
            ELSE C!Header(IF block(a) = array THEN "array" ELSE "user", size(block(a)), block(a), 0, FALSE)] :
         f \in [cells -> 0..3]}

\* A heap in which the table of unique strings can grow to two strings.
S == INSTANCE JSHeap WITH
         HeapSize <- 9, Slack <- 2, StackCells <- 1, Kinds <- {}, Contents <- {1, 2}, Numeric <- Digits, MaxArray <- 0

Load(f, s, n) == [frees |-> f, steals |-> s, sends |-> n]

\* Freeing and stealing without migration, or one migration request.
CalmLoads == {Load(TRUE, TRUE, 0), Load(FALSE, FALSE, 1)}
\* Two requests to migrate.
TwoSends == {Load(FALSE, FALSE, 2)}

Init ==
    /\ part \in Parts
    /\ queue_init /\ M!mailbox_init /\ L!Init
    /\ part # "lists" => load = CHOOSE l \in ListLoads : TRUE
    /\ IF part = "properties" THEN P!prop_init ELSE table = 0 /\ where = 0 /\ global = 0 /\ addr = 0
    /\ CASE part = "strings" -> S!heap_init
         [] part = "collection" -> /\ \E array \in 1..3 : mem \in FullHeap(array)
                                   /\ heap_free = 8 /\ unique_strings_len = 0 /\ finalized = {} /\ closed = FALSE
         [] OTHER -> O!heap_init

QueueStep == part = "queue" /\ Next /\ UNCHANGED <<mailbox_vars, list_vars, prop_vars, heap_vars>>
MailboxStep == part = "mailbox" /\ M!Next /\ UNCHANGED <<vars, list_vars, prop_vars, heap_vars>>
ListsStep == part = "lists" /\ L!Next /\ UNCHANGED <<vars, mailbox_vars, prop_vars, heap_vars>>
PropertiesStep == part = "properties" /\ P!prop_next /\ UNCHANGED <<vars, mailbox_vars, list_vars, heap_vars>>
ObjectsStep == part = "objects" /\ O!heap_next /\ UNCHANGED <<vars, mailbox_vars, list_vars, prop_vars>>
StringsStep == part = "strings" /\ S!heap_next /\ UNCHANGED <<vars, mailbox_vars, list_vars, prop_vars>>
CollectionStep == part = "collection" /\ C!JS_GC /\ UNCHANGED <<vars, mailbox_vars, list_vars, prop_vars>>

PartsNext ==
    /\ QueueStep \/ MailboxStep \/ ListsStep \/ PropertiesStep \/ ObjectsStep \/ StringsStep \/ CollectionStep
    /\ UNCHANGED part

\* Nothing tells the actors apart, or the messages.
Symmetry == Permutations(Actors) \cup Permutations(Msg)

PartsSpec == Init /\ [][PartsNext]_<<part, vars, mailbox_vars, list_vars, prop_vars, heap_vars>>
-----------------------------------------------------------------------------
\* The type invariants of the other parts: the counter both sides of a mailbox
\* change stays within the ring, the chains of a property table are in range, and
\* blocks fill the heap with every pointer leading to the start of one.
PartsTypeOK ==
    /\ part = "mailbox" => M!TypeOK
    /\ part = "properties" => P!PropTypeOK
    /\ part = "objects" => O!HeapTypeOK
    /\ part = "strings" => S!HeapTypeOK
    /\ part = "collection" => C!HeapTypeOK

\* Mailbox.NoSlotRace: mailbox_send never writes the slot mailbox_receive still reads.
MailboxNoSlotRace == part = "mailbox" => M!NoSlotRace

\* Mailbox.ImplementsFifo: a mailbox is a bounded FIFO channel.
MailboxImplementsFifo == M!ImplementsFifo

\* ActorList.ListedOnce: a registered actor is in one position of its own core's list.
ListedOnce == part = "lists" => L!ListedOnce

\* The same, and ActorList.Deregistered: a deregistered actor is in no list.
ListsSound == part = "lists" => L!ListedOnce /\ L!Deregistered

\* JSProperties.LookupAgrees: find_own_property finds exactly the keys that have a slot.
LookupAgrees == part = "properties" => P!LookupAgrees

\* JSProperties.MapStep: a property table is an ordered map, also when memory is out.
ImplementsMap == [][part = "properties" => P!MapStep]_prop_vars

\* JSHeap.UniqueStrings: the table of unique strings is sorted and complete.
UniqueStrings == part = "strings" => S!UniqueStrings

\* JSHeap.GraphStep: no collection changes what the program can see of its memory.
ImplementsGraph ==
    [][/\ part = "objects" => O!GraphStep
       /\ part = "strings" => S!GraphStep
       /\ part = "collection" => C!GraphStep]_heap_vars

\* JSHeap.CollectsAll: a collection leaves exactly what is in reach.
CollectsAll ==
    /\ part = "objects" => O!CollectsAll
    /\ part = "strings" => S!CollectsAll
    /\ part = "collection" => C!CollectsAll

\* JSHeap.FinalizeStep: a finalizer is called once, for an object that is gone.
FinalizesOnce == [][part = "objects" => O!FinalizeStep]_heap_vars
=============================================================================
