--------------------------- MODULE JSProperties ---------------------------
(***************************************************************************)
(* The property table of a JavaScript object (mquickjs.c): one array that  *)
(* holds a count, a hash mask, the heads of the hash chains and three-word *)
(* property slots in the order of creation.  Deleted slots stay behind as  *)
(* holes; the index of the first free slot is kept in the last slot while  *)
(* that one is free.  A key is hashed by its address, which the compacting *)
(* collector changes, so a collection rehashes the table.                  *)
(*                                                                         *)
(* A table is a record; its slots are numbered from 1 and 0 ends a chain.  *)
(* Every allocation may fail and may collect garbage: it then moves the    *)
(* keys down without changing their order.                                 *)
(***************************************************************************)
EXTENDS Integers, Sequences, FiniteSets, SequencesExt

CONSTANTS Keys, Values,
          RomTables,    \* keys of the tables in read-only memory an object may start with
          Address,      \* where the keys are when the object is created
          Prealloc,     \* numbers of properties JS_NewObjectPrealloc is called with
          Writes,       \* the properties the program writes, [key, accessor, value]
          MaxSlots      \* bound on the slots of a table

VARIABLES table,        \* the array props points to
          where,        \* "empty" (ctx->empty_props), "rom" or "ram"
          global,       \* the object is ctx->global_obj
          addr          \* the address of each key

prop_vars == <<table, where, global, addr>>

JS_UNINITIALIZED == "uninitialized"
JS_UNDEFINED == "undefined"
Types == {"normal", "getset", "varref", "special"}
Slot(k, t, v, n) == [key |-> k, type |-> t, value |-> v, next |-> n]
Undefined == CHOOSE v \in Values : TRUE
Unused(k) == Slot(k, "normal", Undefined, 0)

\* Words of the array: count, mask, the hash heads and the slots.
Size(t) == 2 + (t.mask + 1) + 3 * Len(t.slots)
Live(t) == {i \in DOMAIN t.slots : t.slots[i].key \in Keys}
hash_prop(a, k, mask) == a[k] % (mask + 1)

empty_props == [count |-> 0, mask |-> 0, hash |-> [h \in {0} |-> 0], slots |-> << >>]

\* 0 if the key is not in its chain.
find_own_property(t, a, k) ==
    LET walk[n \in 0..Len(t.slots), i \in 0..Len(t.slots)] ==
            IF i = 0 \/ n = 0 THEN 0
            ELSE IF t.slots[i].key = k THEN i
            ELSE walk[n - 1, t.slots[i].next]
    IN  walk[Len(t.slots), t.hash[hash_prop(a, k, t.mask)]]

Log2(n) == CHOOSE l \in 0..n : 2 ^ l <= n /\ n < 2 ^ (l + 1)
get_prop_hash_size_log2(n) == IF n <= 1 THEN 0 ELSE Log2(n - 1)

js_alloc_props(n) ==
    LET mask == 2 ^ get_prop_hash_size_log2(n) - 1
    IN  [count |-> 0, mask |-> mask, hash |-> [h \in 0..mask |-> 0],
         slots |-> [i \in 1..n |-> [Unused(JS_UNINITIALIZED) EXCEPT !.next = IF i = n THEN 1 ELSE 0]]]

\* The slots up to the one where count keys have been seen.
Seen(t, n) == Cardinality({i \in 1..n : t.slots[i].key # JS_UNINITIALIZED})
Used(t) == CHOOSE n \in 0..Len(t.slots) : Seen(t, n) = t.count /\ (n > 0 => Seen(t, n - 1) < t.count)
UsedSlots(t) == SelectSeq([i \in 1..Used(t) |-> i], LAMBDA i : t.slots[i].key # JS_UNINITIALIZED)

\* Builds the chains anew.  A collection leaves a table with one chain alone.
js_rehash_props(t, a, gc_rehash) ==
    LET enter(u, i) == LET h == hash_prop(a, t.slots[i].key, t.mask)
                       IN  [u EXCEPT !.slots[i].next = u.hash[h], !.hash[h] = i]
    IN  IF t.mask = 0 /\ gc_rehash THEN t
        ELSE FoldLeft(enter, [t EXCEPT !.hash = [h \in 0..t.mask |-> 0]], UsedSlots(t))

\* Mutant: the slots change their order when the holes are removed.
CompactBackwards(t, a) ==
    LET mask == LET m == 2 ^ get_prop_hash_size_log2(t.count) - 1 IN IF m < t.mask THEN m ELSE t.mask
        u == [t EXCEPT !.mask = mask,
                       !.slots = [j \in 1..t.count |-> t.slots[UsedSlots(t)[t.count + 1 - j]]]]
    IN  IF t.count = 0 THEN empty_props
        ELSE IF Size(u) >= Size(t) THEN t
        ELSE js_rehash_props(u, a, FALSE)

\* Removes the holes, and the free slots after them, without an allocation.
js_compact_props(t, a) ==
    LET mask == LET m == 2 ^ get_prop_hash_size_log2(t.count) - 1 IN IF m < t.mask THEN m ELSE t.mask
        u == [t EXCEPT !.mask = mask,
                       !.slots = [j \in 1..t.count |-> t.slots[UsedSlots(t)[j]]]]
    IN  IF t.count = 0 THEN empty_props
        ELSE IF Size(u) >= Size(t) THEN t
        ELSE js_rehash_props(u, a, FALSE)

get_first_free(t) ==
    LET n == Len(t.slots) IN IF t.slots[n].key = JS_UNINITIALIZED THEN t.slots[n].next ELSE n + 1

\* The number of slots after growing an array of old words to at least new
\* words: by a half, rounded up to whole slots after prop_base words.
js_resize_value_array2(old, new, prop_base) ==
    LET half == old + old \div 2
        align == (half - prop_base) % 3
        size == IF half > new THEN (IF align # 0 THEN half + 3 - align ELSE half) ELSE new
    IN  (size - prop_base) \div 3

\* Mutant: the chains are not rebuilt for the wider hash table.
GrownNoRehash(t, a) ==
    LET wide == t.count + 1 > 2 * (t.mask + 1)
        mask == IF wide THEN 2 * (t.mask + 1) - 1 ELSE t.mask
        n == js_resize_value_array2(Size(t), Size(t) + 3 + mask - t.mask, 2 + mask + 1)
        u == [t EXCEPT !.mask = mask, !.slots = @ \o [i \in 1..(n - Len(@)) |-> Unused(JS_UNDEFINED)],
                       !.hash = [h \in 0..mask |-> IF h \in DOMAIN @ THEN @[h] ELSE 0]]
    IN  [u EXCEPT !.slots[n].key = JS_UNINITIALIZED]

\* A table with room for one more slot, its last slot free.  a: the addresses
\* after the allocation.
Grown(t, a) ==
    LET wide == t.count + 1 > 2 * (t.mask + 1)
        mask == IF wide THEN 2 * (t.mask + 1) - 1 ELSE t.mask
        n == js_resize_value_array2(Size(t), Size(t) + 3 + mask - t.mask, 2 + mask + 1)
        u == [t EXCEPT !.mask = mask, !.slots = @ \o [i \in 1..(n - Len(@)) |-> Unused(JS_UNDEFINED)]]
    IN  [(IF wide THEN js_rehash_props(u, a, FALSE) ELSE u) EXCEPT !.slots[n].key = JS_UNINITIALIZED]

Full(t) == t.slots # << >> => t.slots[Len(t.slots)].key # JS_UNINITIALIZED

\* Adds key k, which is not in the table, to the table t; a: the addresses
\* after the allocation, if there is one.
js_create_property(t, a, k, type, value) ==
    LET n == IF ~ Full(t) THEN get_first_free(t) ELSE IF t = empty_props THEN 1 ELSE Len(t.slots) + 1
        u == IF ~ Full(t) THEN t ELSE IF t = empty_props THEN js_alloc_props(1) ELSE Grown(t, a)
        h == hash_prop(a, k, u.mask)
        v == [u EXCEPT !.slots[n] = Slot(k, type, value, u.hash[h]), !.hash[h] = n, !.count = t.count + 1]
    IN  IF n < Len(u.slots) THEN [v EXCEPT !.slots[Len(u.slots)].next = n + 1] ELSE v

\* Copies a table out of read-only memory; special properties get their value.
js_update_props(t) ==
    [t EXCEPT !.slots = [i \in DOMAIN @ |-> [@[i] EXCEPT !.type = IF @ = "special" THEN "normal" ELSE @]]]

\* Mutant: the first free slot is not moved down over the holes before it.
UnlinkedKeepsFirstFree(t, a, k) ==
    LET i == find_own_property(t, a, k)
        prev == {j \in Live(t) : t.slots[j].next = i}
        h == hash_prop(a, k, t.mask)
    IN  [t EXCEPT !.slots = [j \in DOMAIN @ |-> IF j = i THEN Unused(JS_UNINITIALIZED)
                                                ELSE IF j \in prev THEN [@[j] EXCEPT !.next = t.slots[i].next]
                                                ELSE @[j]],
                  !.hash[h] = IF @ = i THEN t.slots[i].next ELSE @,
                  !.count = @ - 1]

\* Removes the slot i of key k; prev is the slot before it in its chain, or 0.
Unlinked(t, a, k) ==
    LET i == find_own_property(t, a, k)
        prev == {j \in Live(t) : t.slots[j].next = i}
        h == hash_prop(a, k, t.mask)
        first_free == get_first_free(t)
        u == [t EXCEPT !.slots = [j \in DOMAIN @ |-> IF j = i THEN Unused(JS_UNINITIALIZED)
                                                     ELSE IF j \in prev THEN [@[j] EXCEPT !.next = t.slots[i].next]
                                                     ELSE @[j]],
                       !.hash[h] = IF @ = i THEN t.slots[i].next ELSE @,
                       !.count = @ - 1]
        free == {f \in 1..first_free : \A j \in f..(first_free - 1) : u.slots[j].key = JS_UNINITIALIZED}
        new == CHOOSE f \in free : \A g \in free : f <= g
    IN  IF new <= Len(t.slots) THEN [u EXCEPT !.slots[Len(t.slots)].next = new] ELSE u

\* What an allocation can do to a table and to the addresses: nothing, or a
\* collection, which moves the keys in RAM and rehashes the tables in RAM.
RomKeys == UNION {Range(r) : r \in RomTables}
RamKeys == Keys \ RomKeys
Addresses == 0..Max(Range(Address))
Moved(a) == {b \in [Keys -> Addresses] :
                /\ \A k \in RomKeys : b[k] = a[k]
                /\ \A k \in RamKeys : b[k] <= a[k] /\ \A l \in RamKeys : a[k] < a[l] => b[k] < b[l]}
Allocated(t, w, a) ==
    {[table |-> t, addr |-> a]}
        \cup {[table |-> IF w = "ram" THEN js_rehash_props(t, b, TRUE) ELSE t, addr |-> b] : b \in Moved(a)}

\* Adds property k after the table has been moved to RAM, if necessary.  Each
\* allocation may fail: that of the copy, of the variable of a global or the
\* pair of an accessor, and of a larger table.
AddProperty(k, accessor, v) ==
    LET type == IF accessor THEN "getset" ELSE IF global THEN "varref" ELSE "normal"
        boxed == type # "normal"
    IN  /\ Full(table) => Len(table.slots) < MaxSlots
        /\ \E r \in IF where = "rom" THEN Allocated(table, where, addr) ELSE {[table |-> table, addr |-> addr]} :
             \/ where = "rom" /\ table' = r.table /\ where' = where /\ addr' = r.addr
             \/ LET t == IF where = "rom" THEN js_update_props(r.table) ELSE r.table
                    w == IF where = "rom" THEN "ram" ELSE where
                IN  \E s \in IF boxed \/ Full(t) THEN Allocated(t, w, r.addr) ELSE {r} :
                      \/ (boxed \/ Full(t)) /\ table' = s.table /\ where' = w /\ addr' = s.addr
                      \/ /\ table' = js_create_property(s.table, s.addr, k, type, v)
                         /\ where' = "ram" /\ addr' = s.addr
        /\ UNCHANGED global

\* obj[k] = v.  An accessor's setter is called instead, which leaves the table
\* alone; a table in read-only memory is moved to RAM and looked at again.
JS_SetPropertyInternal(k, v) ==
    LET i == find_own_property(table, addr, k)
    IN  \/ i = 0 /\ AddProperty(k, FALSE, v)
        \/ /\ i # 0 /\ where = "ram" /\ table.slots[i].type \in {"normal", "varref"}
           /\ table' = [table EXCEPT !.slots[i].value = v]
           /\ UNCHANGED <<where, global, addr>>
        \/ /\ i # 0 /\ where = "rom" /\ table.slots[i].type # "getset"
           /\ \E r \in Allocated(table, where, addr) :
                 /\ addr' = r.addr
                 /\ \/ UNCHANGED <<table, where>>
                    \/ /\ table' = [js_update_props(table) EXCEPT !.slots[i].value = v]
                       /\ where' = "ram"
           /\ UNCHANGED global

\* Object.defineProperty: the table moves to RAM even if the kind of the
\* property does not fit and an error is thrown.
JS_DefinePropertyInternal(k, accessor, v) ==
    LET i == find_own_property(table, addr, k)
        fits == accessor = (table.slots[i].type = "getset")
    IN  \/ i = 0 /\ AddProperty(k, accessor, v)
        \/ /\ i # 0
           /\ \E r \in IF where = "rom" THEN Allocated(table, where, addr) ELSE {[table |-> table, addr |-> addr]} :
                 /\ addr' = r.addr
                 /\ \/ where = "rom" /\ UNCHANGED <<table, where>>
                    \/ /\ table' = LET t == IF where = "rom" THEN js_update_props(table) ELSE table
                                   IN  IF fits THEN [t EXCEPT !.slots[i].value = v] ELSE t
                       /\ where' = "ram"
           /\ UNCHANGED global

\* delete obj[k]: moves to RAM only if the key is there, compacts when more
\* than half of the array would be free.
JS_DeleteProperty(k) ==
    /\ find_own_property(table, addr, k) # 0
    /\ \E r \in IF where = "rom" THEN Allocated(table, where, addr) ELSE {[table |-> table, addr |-> addr]} :
          /\ addr' = r.addr
          /\ \/ where = "rom" /\ UNCHANGED <<table, where>>
             \/ LET t == IF where = "rom" THEN js_update_props(table) ELSE table
                    u == Unlinked(t, r.addr, k)
                    small == 2 + (t.mask + 1) + 3 * t.count < Size(t) \div 2
                    c == IF small THEN js_compact_props(u, r.addr) ELSE u
                IN  table' = c /\ where' = IF c = empty_props THEN "empty" ELSE "ram"
    /\ UNCHANGED global

\* A collection while the object is not being worked on.
JS_GC ==
    /\ \E b \in Moved(addr) :
          /\ addr' = b
          /\ table' = IF where = "ram" THEN js_rehash_props(table, b, TRUE) ELSE table
    /\ UNCHANGED <<where, global>>

\* A table as the build tool lays it out: every slot used, the first special.
RomTable(keys, a) ==
    LET mask == 2 ^ get_prop_hash_size_log2(Len(keys)) - 1
    IN  js_rehash_props([count |-> Len(keys), mask |-> mask, hash |-> [h \in 0..mask |-> 0],
                         slots |-> [i \in DOMAIN keys |->
                                      Slot(keys[i], IF i = 1 THEN "special" ELSE "normal", Undefined, 0)]], a, FALSE)

\* A new object: empty, with room for n properties, or from read-only memory.
prop_init ==
    /\ addr = Address
    /\ \/ table = empty_props /\ where = "empty" /\ global \in BOOLEAN
       \/ \E n \in Prealloc : table = js_alloc_props(n) /\ where = "ram" /\ global = FALSE
       \/ \E r \in RomTables : table = RomTable(r, addr) /\ where = "rom" /\ global = FALSE

prop_next ==
    \/ \E p \in Writes : ~ p.accessor /\ JS_SetPropertyInternal(p.key, p.value)
    \/ \E p \in Writes : JS_DefinePropertyInternal(p.key, p.accessor, p.value)
    \/ \E k \in Keys : JS_DeleteProperty(k)
    \/ JS_GC

----------------------------------------------------------------------------
\* The count is that of the keys, links stay inside the table, and an object
\* without properties has the shared empty table (js_create_property,
\* JS_DeleteProperty).
PropTypeOK ==
    /\ where \in {"empty", "rom", "ram"} /\ (where = "empty" <=> table = empty_props)
    /\ table.count = Cardinality(Live(table))
    /\ \A i \in DOMAIN table.slots : table.slots[i].next \in 0..(Len(table.slots) + 1)
    /\ DOMAIN table.hash = 0..table.mask

\* find_own_property finds exactly the keys that have a slot, and no key has two,
\* also after collections have moved the keys (js_rehash_props).
LookupAgrees ==
    \A k \in Keys : LET at == {i \in Live(table) : table.slots[i].key = k}
                        i == find_own_property(table, addr, k)
                    IN  at = IF i = 0 THEN {} ELSE {i}

\* The properties in the order of their slots.
Enumerated ==
    LET live == SelectSeq(table.slots, LAMBDA s : s.key \in Keys)
    IN  << >> \o [i \in DOMAIN live |-> [key |-> live[i].key, accessor |-> live[i].type = "getset", value |-> live[i].value]]

Map == INSTANCE PropertyMap WITH map <- Enumerated

\* Every operation does to the enumeration what it should do to an ordered map,
\* or, when an allocation fails and for collections, nothing.
MapStep == \E f \in {Enumerated}, g \in {Enumerated'} : f = g \/ Map!Step(f, g)

prop_spec == prop_init /\ [][prop_next]_prop_vars
=============================================================================
