---------------------------- MODULE RobinHoodMap ----------------------------
(***************************************************************************)
(* The generic hash map of the standard library (aether_hashmap.c) and the *)
(* sets built on it (aether_set.c): open addressing with linear probing,   *)
(* in which an entry far from its home takes the place of one that is      *)
(* nearer to its own, and deletion shifts the entries behind it back.      *)
(***************************************************************************)
EXTENDS Integers, Sequences, FiniteSets, SequencesExt

CONSTANTS Keys, NULL,
          Puts,                \* the pairs of a key and a value the program puts
          Hashes,              \* hash functions
          DEFAULT_CAPACITY

VARIABLES hash_func, map,      \* map: its entries, by index, and its size
          result

robin_vars == <<hash_func, map, result>>

Empty == [occupied |-> FALSE, key |-> NULL, value |-> NULL, psl |-> 0]
Entry(k, v, psl) == [occupied |-> TRUE, key |-> k, value |-> v, psl |-> psl]

hashmap_create(n) == [entries |-> [i \in 0..n - 1 |-> Empty], size |-> 0]

capacity(m) == Cardinality(DOMAIN m.entries)
Home(m, k) == hash_func[k] % capacity(m)
After(m, i) == (i + 1) % capacity(m)

----------------------------------------------------------------------------
\* The loop of hashmap_insert for key k and value v, with the entry e in hand at the
\* index.
RECURSIVE Place(_, _, _, _, _)
Place(m, k, v, e, index) ==
    LET current == m.entries[index] IN
    IF ~ current.occupied THEN [entries |-> [m.entries EXCEPT ![index] = e], size |-> m.size + 1]
    ELSE IF current.key = k THEN [m EXCEPT !.entries[index].value = v]
    ELSE IF e.psl > current.psl
    THEN Place([m EXCEPT !.entries[index] = e], k, v, [current EXCEPT !.psl = @ + 1], After(m, index))
    ELSE Place(m, k, v, [e EXCEPT !.psl = @ + 1], After(m, index))

Occupied(m) == SelectSeq([i \in 1..capacity(m) |-> m.entries[i - 1]], LAMBDA e : e.occupied)

\* All entries are inserted anew, in the order of their indices.
hashmap_resize(m) ==
    FoldLeft(LAMBDA n, e : Place(n, e.key, e.value, Entry(e.key, e.value, 0), Home(n, e.key)),
             hashmap_create(2 * capacity(m)), Occupied(m))

HighLoad(m) == 4 * m.size >= 3 * capacity(m)

hashmap_insert(m, k, v) ==
    LET n == IF HighLoad(m) THEN hashmap_resize(m) ELSE m
    IN  Place(n, k, v, Entry(k, v, 0), Home(n, k))

\* Without memory for a larger table the old one is used.
InsertNoMemory(m, k, v) == Place(m, k, v, Entry(k, v, 0), Home(m, k))

\* Where the search of hashmap_get and hashmap_remove ends: at the key, or where it
\* would have to be.
RECURSIVE Probe(_, _, _, _)
Probe(m, k, index, psl) ==
    LET e == m.entries[index] IN
    IF ~ e.occupied \/ psl > e.psl THEN -1
    ELSE IF e.key = k THEN index
    ELSE Probe(m, k, After(m, index), psl + 1)

Find(m, k) == Probe(m, k, Home(m, k), 0)
hashmap_get(m, k) == IF Find(m, k) = -1 THEN NULL ELSE m.entries[Find(m, k)].value
hashmap_contains(m, k) == hashmap_get(m, k) # NULL

\* Backward shift: the gap moves on until the next entry is missing or at home.
RECURSIVE Shift(_, _)
Shift(entries, current) ==
    LET next == (current + 1) % Cardinality(DOMAIN entries) IN
    IF ~ entries[next].occupied \/ entries[next].psl = 0 THEN [entries EXCEPT ![current] = Empty]
    ELSE Shift([entries EXCEPT ![current] = [entries[next] EXCEPT !.psl = @ - 1]], next)

hashmap_remove(m, k) ==
    IF Find(m, k) = -1 THEN m ELSE [entries |-> Shift(m.entries, Find(m, k)), size |-> m.size - 1]

hashmap_clear(m) == hashmap_create(capacity(m))

----------------------------------------------------------------------------
(* Sets: maps whose values do not matter.                                   *)

DUMMY == 1
Elements(m) == [i \in 1..Len(Occupied(m)) |-> Occupied(m)[i].key]
AddAll(m, elements) == FoldLeft(LAMBDA n, k : hashmap_insert(n, k, DUMMY), m, elements)
Larger(n) == IF n < DEFAULT_CAPACITY THEN DEFAULT_CAPACITY ELSE n

set_union(a, b) ==
    LET all == AddAll(hashmap_create(Larger(a.size + b.size)), Elements(a))
    IN  FoldLeft(LAMBDA n, k : IF hashmap_contains(n, k) THEN n ELSE hashmap_insert(n, k, DUMMY), all, Elements(b))
set_intersection(a, b) ==
    LET smaller == IF a.size < b.size THEN a ELSE b
        larger == IF a.size < b.size THEN b ELSE a
    IN  AddAll(hashmap_create(Larger(smaller.size)),
               SelectSeq(Elements(smaller), LAMBDA k : hashmap_contains(larger, k)))
set_difference(a, b) ==
    AddAll(hashmap_create(Larger(a.size)), SelectSeq(Elements(a), LAMBDA k : ~ hashmap_contains(b, k)))
set_is_subset(a, b) ==
    a.size <= b.size /\ \A i \in 1..Len(Elements(a)) : hashmap_contains(b, Elements(a)[i])

----------------------------------------------------------------------------
robin_init == hash_func \in Hashes /\ map = hashmap_create(DEFAULT_CAPACITY) /\ result = TRUE

\* Memory may run out as long as a free entry is left.
RobinPut(k, v) ==
    /\ \/ map' = hashmap_insert(map, k, v)
       \/ HighLoad(map) /\ map.size < capacity(map) /\ map' = InsertNoMemory(map, k, v)
    /\ result' = TRUE /\ UNCHANGED hash_func
RobinRemove(k) ==
    map' = hashmap_remove(map, k) /\ result' = (Find(map, k) # -1) /\ UNCHANGED hash_func
RobinClear == map' = hashmap_clear(map) /\ result' = TRUE /\ UNCHANGED hash_func

robin_next == (\E p \in Puts : RobinPut(p[1], p[2])) \/ (\E k \in Keys : RobinRemove(k)) \/ RobinClear
robin_spec == robin_init /\ [][robin_next]_robin_vars

----------------------------------------------------------------------------
KeysIn(m) == {m.entries[i].key : i \in {i \in DOMAIN m.entries : m.entries[i].occupied}}
Contents(m) ==
    [k \in KeysIn(m) |-> m.entries[CHOOSE i \in DOMAIN m.entries : m.entries[i].occupied /\ m.entries[i].key = k].value]

RobinTypeOK ==
    /\ map.size = Cardinality({i \in DOMAIN map.entries : map.entries[i].occupied})
    /\ \A i \in DOMAIN map.entries : map.entries[i].occupied => map.entries[i].psl \in 0..capacity(map) - 1

\* hashmap_get finds the value of every key of the map and of no other, whatever was
\* displaced, shifted or moved to a larger table; and the sets computed by set_union,
\* set_intersection, set_difference and set_is_subset are those.
RobinLookups ==
    /\ \A k \in Keys : hashmap_get(map, k) = IF k \in KeysIn(map) THEN Contents(map)[k] ELSE NULL
    /\ \A s \in SUBSET Keys :
          LET other == FoldSet(LAMBDA k, m : hashmap_insert(m, k, DUMMY), hashmap_create(DEFAULT_CAPACITY), s)
          IN  /\ KeysIn(set_union(map, other)) = KeysIn(map) \cup s
              /\ KeysIn(set_intersection(map, other)) = KeysIn(map) \cap s
              /\ KeysIn(set_difference(map, other)) = KeysIn(map) \ s
              /\ set_is_subset(map, other) = (KeysIn(map) \subseteq s)

K == INSTANCE KeyMap

\* The hash map implements a map from keys to values (hashmap_insert, hashmap_remove,
\* hashmap_clear).
RobinMapStep ==
    \E f \in {Contents(map)}, g \in {Contents(map)'} :
        /\ \A p \in Puts : RobinPut(p[1], p[2]) => K!Put(f, g, result', p[1], p[2])
        /\ \A k \in Keys : RobinRemove(k) => K!Remove(f, g, k) /\ result' = (k \in DOMAIN f)
        /\ RobinClear => K!Clear(f, g)
=============================================================================
