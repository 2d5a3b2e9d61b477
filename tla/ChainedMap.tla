----------------------------- MODULE ChainedMap -----------------------------
(***************************************************************************)
(* The map of the standard library (aether_collections.c): an array of     *)
(* buckets, each a linked list of entries with the newest first.           *)
(***************************************************************************)
EXTENDS Integers, Sequences, SequencesExt

CONSTANTS Keys, NULL,
          Puts,                      \* the pairs of a key and a value the program puts
          Hashes,                    \* hash functions
          HASHMAP_INITIAL_CAPACITY

VARIABLES hash_cstr, map,            \* map: its buckets, by index, and its size
          result                     \* what the last map_put_raw returned

chained_vars == <<hash_cstr, map, result>>

map_new(n) == [buckets |-> [i \in 0..n - 1 |-> << >>], size |-> 0]
capacity(m) == Cardinality(DOMAIN m.buckets)
Bucket(m, k) == hash_cstr[k] % capacity(m)

\* The entries of the old buckets, one after the other, are put before those that
\* are already in the new ones.
hashmap_resize(m) ==
    LET entries == FlattenSeq([i \in 1..capacity(m) |-> m.buckets[i - 1]])
        n == map_new(2 * capacity(m))
        in(i) == SelectSeq(entries, LAMBDA e : Bucket(n, e.key) = i)
    IN  [m EXCEPT !.buckets = [i \in DOMAIN n.buckets |-> Reverse(in(i))]]

HighLoad(m) == 4 * m.size > 3 * capacity(m)

\* Where a key is in its bucket, or 0.
Find(m, k) ==
    LET bucket == m.buckets[Bucket(m, k)]
        found == {i \in 1..Len(bucket) : bucket[i].key = k}
    IN  IF found = {} THEN 0 ELSE CHOOSE i \in found : \A j \in found : i <= j

map_get_raw(m, k) == IF Find(m, k) = 0 THEN NULL ELSE m.buckets[Bucket(m, k)][Find(m, k)].value

\* The entries of all buckets.
map_keys_raw(m) == FlattenSeq([i \in 1..capacity(m) |-> [j \in 1..Len(m.buckets[i - 1]) |-> m.buckets[i - 1][j].key]])

----------------------------------------------------------------------------
chained_init == hash_cstr \in Hashes /\ map = map_new(HASHMAP_INITIAL_CAPACITY) /\ result = TRUE

\* Memory may be missing for the larger array, or for the new entry.
map_put_raw(k, v) ==
    /\ \E m \in {map} \cup (IF HighLoad(map) THEN {hashmap_resize(map)} ELSE {}) :
        \/ /\ Find(m, k) # 0
           /\ map' = [m EXCEPT !.buckets[Bucket(m, k)][Find(m, k)].value = v] /\ result' = TRUE
        \/ /\ Find(m, k) = 0
           /\ map' = [buckets |-> [m.buckets EXCEPT ![Bucket(m, k)] = <<[key |-> k, value |-> v]>> \o @],
                      size |-> m.size + 1] /\ result' = TRUE
        \/ /\ Find(m, k) = 0
           /\ map' = m /\ result' = FALSE
    /\ UNCHANGED hash_cstr

\* Mutant: the first entry of the bucket goes, not the one that was found.
RemoveHead(k) ==
    /\ map' = IF Find(map, k) = 0 THEN map
              ELSE [buckets |-> [map.buckets EXCEPT ![Bucket(map, k)] = Tail(@)], size |-> map.size - 1]
    /\ UNCHANGED <<hash_cstr, result>>

map_remove(k) ==
    /\ map' = IF Find(map, k) = 0 THEN map
              ELSE [buckets |-> [map.buckets EXCEPT ![Bucket(map, k)] = RemoveAt(@, Find(map, k))],
                    size |-> map.size - 1]
    /\ UNCHANGED <<hash_cstr, result>>

map_clear == map' = map_new(capacity(map)) /\ UNCHANGED <<hash_cstr, result>>

chained_next == (\E p \in Puts : map_put_raw(p[1], p[2])) \/ (\E k \in Keys : map_remove(k)) \/ map_clear
chained_spec == chained_init /\ [][chained_next]_chained_vars

----------------------------------------------------------------------------
KeysIn(m) == Range(map_keys_raw(m))
Contents(m) ==
    [k \in KeysIn(m) |->
        LET i == CHOOSE i \in DOMAIN m.buckets : \E j \in 1..Len(m.buckets[i]) : m.buckets[i][j].key = k
        IN  m.buckets[i][CHOOSE j \in 1..Len(m.buckets[i]) : m.buckets[i][j].key = k].value]

\* map_get_raw finds the value of every key of the map and of no other, and
\* map_keys_raw lists each once, as many as the array it allocates has room for.
ChainedLookups ==
    /\ \A k \in Keys : map_get_raw(map, k) = IF k \in KeysIn(map) THEN Contents(map)[k] ELSE NULL
    /\ Len(map_keys_raw(map)) = map.size /\ IsInjective(map_keys_raw(map))

K == INSTANCE KeyMap

\* The chained map implements a map from keys to values (map_put_raw, map_remove,
\* map_clear).
ChainedMapStep ==
    \E f \in {Contents(map)}, g \in {Contents(map)'} :
        /\ \A p \in Puts : map_put_raw(p[1], p[2]) => K!Put(f, g, result', p[1], p[2])
        /\ \A k \in Keys : map_remove(k) => K!Remove(f, g, k)
        /\ map_clear => K!Clear(f, g)
=============================================================================
