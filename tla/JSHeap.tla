------------------------------ MODULE JSHeap ------------------------------
(***************************************************************************)
(* The memory of the JavaScript engine (mquickjs.c): blocks one after the  *)
(* other in a fixed buffer, allocated at its end, and a collector that     *)
(* marks what is in reach with a mark stack of limited size and compacts   *)
(* the rest away by threading pointers (Jonkers' algorithm).               *)
(*                                                                         *)
(* The buffer is modelled word by word: a block is a header and the words  *)
(* after it.  Addresses above the buffer are the values outside it that    *)
(* refer to blocks: the stack, temporary references (JS_PUSH_VALUE), the   *)
(* table of unique strings and an entry of the string position cache.      *)
(* A header carries two things the code has no use for: a name, which the  *)
(* block keeps when it moves, and the contents of a string as one value.   *)
(***************************************************************************)
EXTENDS Integers, Sequences, FiniteSets, SequencesExt, FiniteSetsExt

CONSTANTS HeapSize,       \* words of the buffer
          Slack,          \* words of the mark stack when the buffer is full, at least two
          StackCells,     \* number of values on the program's stack
          Kinds,          \* the kinds of objects the program makes, of "object" and "user"
          Contents,       \* contents of strings, integers in their order
          Numeric,        \* the contents that start like a number
          MaxArray        \* bound on the length of an array

VARIABLES mem, heap_free, unique_strings_len,
          finalized,      \* the names of the user objects finalized in the last step
          closed          \* JS_FreeContext has been called

heap_vars == <<mem, heap_free, unique_strings_len, finalized, closed>>

heap_base == 1
Stack == HeapSize + 1 .. HeapSize + StackCells
top_gc_ref == <<HeapSize + StackCells + 1, HeapSize + StackCells + 2>>
unique_strings == HeapSize + StackCells + 3
string_pos_cache == HeapSize + StackCells + 4
Address == heap_base..string_pos_cache
Names == 1..(HeapSize \div 2 + 1)

Value == [word |-> "value"]
Ptr(p) == [word |-> "pointer", to |-> p]
IsPtr(w) == w.word = "pointer"
Header(tag, size, name, data, unique) ==
    [word |-> "header", tag |-> tag, size |-> size, name |-> name, data |-> data, unique |-> unique]
FreeBlock(size) == Header("free", size, 0, 0, FALSE)

mtag_has_references(tag) == tag \in {"object", "user", "array"}
Fields(m, p) == IF mtag_has_references(m[p].tag) THEN p + 1 .. p + m[p].size - 1 ELSE {}

\* Words written one after the other from address a on.
Write(m, a, words) == SubSeq(m, 1, a - 1) \o words \o SubSeq(m, a + Len(words), Len(m))
Repeat(w, n) == [i \in 1..n |-> w]

\* The addresses of the blocks between p and end, in order.
Blocks(m, p, end) ==
    LET from[q \in p..end] == IF q = end THEN << >> ELSE <<q>> \o from[q + m[q].size]
    IN  from[p]

\* The blocks that pointers lead to from the cells.
Targets(m, cells) == {m[a].to : a \in {b \in cells : IsPtr(m[b])}}
RECURSIVE Closure(_, _)
Closure(m, near) ==
    LET more == near \cup Targets(m, UNION {Fields(m, p) : p \in near})
    IN  IF more = near THEN near ELSE Closure(m, more)
Reach(m, cells) == Closure(m, Targets(m, cells))

----------------------------------------------------------------------------
(* Marking.  The state s of the mark pass is [marked, stack, overflow], the *)
(* stack with its top first; of an array, the position is pushed too.       *)

\* A block is marked, and pushed if it has references and there is room.
gc_mark(m, room, s, w) ==
    IF IsPtr(w) => w.to \in s.marked THEN s
    ELSE LET p == w.to
             entry == IF m[p].tag = "array" THEN <<p, 0>> ELSE <<p>>
             t == [s EXCEPT !.marked = @ \cup {p}]
         IN  IF ~ mtag_has_references(m[p].tag) THEN t
             ELSE IF room - Len(s.stack) < Len(entry) THEN [t EXCEPT !.overflow = TRUE]
             ELSE [t EXCEPT !.stack = entry \o @]

RECURSIVE gc_mark_flush(_, _, _)
gc_mark_flush(m, room, s) ==
    IF s.stack = << >> THEN s
    ELSE LET p == s.stack[1]
             mark(t, a) == gc_mark(m, room, t, m[a])
         IN  IF m[p].tag = "array"
             THEN LET pos == s.stack[2]
                      rest == [s EXCEPT !.stack = SubSeq(@, 3, Len(@))]
                      ahead == {i \in pos..(m[p].size - 2) : IsPtr(m[p + 1 + i])}
                      i == Min(ahead)
                      again == IF i + 1 < m[p].size - 1 THEN [rest EXCEPT !.stack = <<p, i + 1>> \o @] ELSE rest
                  IN  gc_mark_flush(m, room, IF ahead = {} THEN rest ELSE mark(again, p + 1 + i))
             ELSE gc_mark_flush(m, room,
                      FoldLeft(mark, [s EXCEPT !.stack = Tail(@)], SetToSortSeq(Fields(m, p), <)))

\* After an overflow every marked block is looked at again, until none is left out.
RECURSIVE Rescan(_, _, _, _)
Rescan(m, end, room, s) ==
    LET look(t, p) == IF p \in t.marked /\ mtag_has_references(m[p].tag)
                      THEN gc_mark_flush(m, room, [t EXCEPT !.stack = IF m[p].tag = "array" THEN <<p, 0>> ELSE <<p>>])
                      ELSE t
    IN  IF ~ s.overflow THEN s
        ELSE Rescan(m, end, room, FoldLeft(look, [s EXCEPT !.overflow = FALSE], Blocks(m, heap_base, end)))

\* The blocks in reach of the stack and the temporary references.
Marked(m, end) ==
    LET room == Slack + HeapSize + 1 - end
        root(s, c) == gc_mark_flush(m, room, gc_mark(m, room, s, m[c]))
        s == FoldLeft(root, [marked |-> {}, stack |-> << >>, overflow |-> FALSE],
                      SetToSortSeq(Stack, <) \o top_gc_ref)
    IN  Rescan(m, end, room, s).marked

\* Mutant: the table keeps its strings alive.
KeepUniqueStrings(m, marked, len) ==
    LET table == Reach(m, {unique_strings}) IN [mem |-> m, marked |-> marked \cup table, len |-> len]

\* The table of unique strings loses the strings that are not marked, and itself
\* goes when none is left: [mem, marked, len].
UpdateUniqueStrings(m, marked, len) ==
    IF ~ IsPtr(m[unique_strings]) THEN [mem |-> m, marked |-> marked, len |-> len]
    ELSE LET p == m[unique_strings].to
             n == m[p].size - 1
             keep == SelectSeq([i \in 1..n |-> m[p + i]], LAMBDA w : IsPtr(w) /\ w.to \in marked)
             j == Len(keep)
         IN  IF j = 0
             THEN [mem |-> [m EXCEPT ![unique_strings] = Value], marked |-> marked \ {p}, len |-> 0]
             ELSE [mem |-> Write(m, p, <<[m[p] EXCEPT !.size = j + 1]>> \o keep
                                       \o IF j < n THEN <<FreeBlock(n - j)>> ELSE << >>),
                   marked |-> marked \cup {p}, len |-> j]

\* Mutant: every user object is finalized, marked or not.
SweepFinalizesAll(m, marked, end) ==
    LET blocks == Blocks(m, heap_base, end)
        dead == {i \in DOMAIN blocks : blocks[i] \notin marked}
        first == {i \in dead : i - 1 \notin dead}
        next(i) == LET after == {j \in DOMAIN blocks : j > i /\ j \notin dead}
                   IN  IF after = {} THEN end ELSE blocks[Min(after)]
        free(u, i) == [u EXCEPT ![blocks[i]] = FreeBlock(next(i) - blocks[i])]
    IN  [mem |-> FoldLeft(free, m, SetToSeq(first)),
         finalized |-> {m[p].name : p \in {q \in ToSet(blocks) : m[q].tag = "user"}}]

\* Unmarked blocks that follow each other become one free block; only the first
\* of them is finalized.
Sweep(m, marked, end) ==
    LET blocks == Blocks(m, heap_base, end)
        dead == {i \in DOMAIN blocks : blocks[i] \notin marked}
        first == {i \in dead : i - 1 \notin dead}
        next(i) == LET after == {j \in DOMAIN blocks : j > i /\ j \notin dead}
                   IN  IF after = {} THEN end ELSE blocks[Min(after)]
        free(u, i) == [u EXCEPT ![blocks[i]] = FreeBlock(next(i) - blocks[i])]
    IN  [mem |-> FoldLeft(free, m, SetToSeq(first)),
         finalized |-> {m[p].name : p \in {q \in {blocks[i] : i \in first} : m[q].tag = "user"}}]

----------------------------------------------------------------------------
(* Compaction.                                                              *)

\* The value at address a joins the list of pointers to its block, which starts
\* in the block's header and ends with what the header was.
gc_thread_pointer(m, a) ==
    IF IsPtr(m[a]) THEN [m EXCEPT ![a] = m[m[a].to], ![m[a].to] = Ptr(a)] ELSE m

RECURSIVE Unthread(_, _, _, _)
Unthread(m, p, w, new) ==
    IF IsPtr(w) THEN Unthread([m EXCEPT ![w.to] = Ptr(new)], p, m[w.to], new)
    ELSE [m EXCEPT ![p] = w]

\* All pointers listed at p get the block's new address.
gc_update_threaded_pointers(m, p, new) == Unthread(m, p, m[p], new)

\* The pointers in a block join the lists.
gc_thread_block(m, p) == FoldLeft(gc_thread_pointer, m, SetToSortSeq(Fields(m, p), <))

\* Pointers from lower blocks are updated, those of the block itself threaded.
RECURSIVE Pass1(_, _, _, _)
Pass1(m, p, new, end) ==
    IF p = end THEN m
    ELSE LET u == gc_update_threaded_pointers(m, p, new)
             size == u[p].size
         IN  IF u[p].tag = "free" THEN Pass1(u, p + size, new, end)
             ELSE Pass1(gc_thread_block(u, p), p + size, new + size, end)

\* The remaining pointers are updated and the blocks moved: [mem, free].
RECURSIVE Pass2(_, _, _, _)
Pass2(m, p, new, end) ==
    IF p = end THEN [mem |-> m, free |-> new]
    ELSE LET u == gc_update_threaded_pointers(m, p, new)
             size == u[p].size
             moved == Write(u, new, SubSeq(u, p, p + size - 1))
         IN  IF u[p].tag = "free" THEN Pass2(u, p + size, new, end)
             ELSE Pass2(moved, p + size, new + size, end)

\* Words behind heap_free are never read.
Clear(m, free) == Write(m, free, Repeat(Value, HeapSize + 1 - free))

gc_compact_heap(m, end) ==
    LET cells == <<unique_strings, string_pos_cache>> \o SetToSortSeq(Stack, <) \o top_gc_ref
        threaded == FoldLeft(gc_thread_pointer, m, cells)
    IN  Pass2(Pass1(threaded, heap_base, heap_base, end), heap_base, heap_base, end)

\* The steps of a collection after marking; h is [mem, free, len, finalized] and
\* u [mem, marked, len].
DropPosition(u) ==
    IF IsPtr(u.mem[string_pos_cache]) /\ u.mem[string_pos_cache].to \notin u.marked
    THEN [u EXCEPT !.mem[string_pos_cache] = Value] ELSE u
Swept(h, u) ==
    LET s == Sweep(u.mem, u.marked, h.free)
    IN  [mem |-> s.mem, free |-> h.free, len |-> u.len, finalized |-> h.finalized \cup s.finalized]
Compacted(h) ==
    LET relocated(c) == [h EXCEPT !.mem = Clear(c.mem, c.free), !.free = c.free]
    IN  relocated(gc_compact_heap(h.mem, h.free))

JS_GC2(h) == Compacted(Swept(h, DropPosition(UpdateUniqueStrings(h.mem, Marked(h.mem, h.free), h.len))))

----------------------------------------------------------------------------
(* Allocation.                                                              *)

Fits(h, size) == HeapSize + 1 - h.free >= size

\* Collects if there is not enough memory; the caller looks whether it helped.
check_free_mem(h, size) == IF Fits(h, size) THEN h ELSE JS_GC2(h)

\* A block with the given header and words at the end of the heap.
js_malloc(h, header, words) ==
    [h EXCEPT !.mem = Write(@, h.free, <<header>> \o words), !.free = @ + header.size]

\* Only the last block is really freed.
js_free(h, p) ==
    IF p + h.mem[p].size = h.free THEN [h EXCEPT !.mem = Clear(@, p), !.free = p] ELSE h

js_shrink(m, p, size) ==
    IF size = m[p].size THEN m
    ELSE [m EXCEPT ![p].size = size, ![p + size] = FreeBlock(m[p].size - size)]

\* The temporary reference number i protects a value.
JS_PUSH_VALUE(h, i, w) == [h EXCEPT !.mem[top_gc_ref[i]] = w]
JS_POP_VALUE(h, i) == [h EXCEPT !.mem[top_gc_ref[i]] = Value]

\* What a block that nothing leads to holds is never read again, except by the
\* finalizer of a user object.
Forget(m, end) ==
    LET lost == ToSet(Blocks(m, heap_base, end)) \ Reach(m, Stack \cup {unique_strings, string_pos_cache})
        forget(u, p) == Write(u, p, <<Header(m[p].tag, m[p].size, IF m[p].tag = "user" THEN m[p].name ELSE 0, 0, FALSE)>>
                                    \o Repeat(Value, m[p].size - 1))
    IN  FoldLeft(forget, m, SetToSeq(lost))

Heap == [mem |-> mem, free |-> heap_free, len |-> unique_strings_len, finalized |-> {}]
Become(h) ==
    /\ mem' = Forget(h.mem, h.free) /\ heap_free' = h.free /\ unique_strings_len' = h.len
    /\ finalized' = h.finalized /\ UNCHANGED closed

NamesIn(m, end) == {m[p].name : p \in Range(Blocks(m, heap_base, end))}
NewName == Min(Names \ NamesIn(mem, heap_free))

\* An array of new elements, the first old of them from the array protected by
\* the second temporary reference: <<h, array>>, or <<h, Value>> if memory is out.
CopyArray(g, old, new) ==
    LET slots == g.mem[top_gc_ref[2]]
        words == [i \in 1..old |-> g.mem[slots.to + i]] \o Repeat(Value, new - old)
    IN  IF ~ Fits(g, new + 1) THEN <<JS_POP_VALUE(g, 2), Value>>
        ELSE <<JS_POP_VALUE(js_malloc(g, Header("array", new + 1, NewName, 0, FALSE), words), 2), Ptr(g.free)>>

\* An array of at least n elements with the elements of the array w.
js_resize_value_array(h, w, n) ==
    LET old == IF IsPtr(w) THEN h.mem[w.to].size - 1 ELSE 0
        new == Max({n, old + old \div 2})
    IN  IF n <= old THEN <<h, w>> ELSE CopyArray(check_free_mem(JS_PUSH_VALUE(h, 2, w), new + 1), old, new)

\* A buffer is allocated to convert a string that starts like a number, and freed again.
js_is_numeric_string(h) ==
    LET convert(g) == IF ~ Fits(g, 2) THEN g
                      ELSE js_free(js_malloc(g, Header("bytes", 2, NewName, 0, FALSE), <<Value>>), g.free)
    IN  convert(check_free_mem(h, 2))

\* <<found, position>> in the sorted table of unique strings.
find_atom(m, len, x) ==
    LET content(i) == m[m[m[unique_strings].to + 1 + i].to].data
        search[a \in 0..len, b \in -1..(len - 1)] ==
            IF a > b THEN <<FALSE, a>>
            ELSE LET mid == (a + b) \div 2
                 IN  IF x = content(mid) THEN <<TRUE, mid>>
                     ELSE IF x < content(mid) THEN search[a, mid - 1] ELSE search[mid + 1, b]
    IN  search[0, len - 1]

\* Mutant: a string is added at the end of the table.
InsertLast(h, tab, a, v) ==
    [h EXCEPT !.mem = [Write(@, tab + 1 + h.len, <<v>>) EXCEPT ![v.to].unique = TRUE, ![unique_strings] = Ptr(tab)],
              !.len = @ + 1]

\* The string v becomes element number a of the array tab.
Insert(h, tab, a, v) ==
    LET m == Write(h.mem, tab + 1 + a, <<v>> \o SubSeq(h.mem, tab + 1 + a, tab + h.len))
    IN  [h EXCEPT !.mem = [m EXCEPT ![v.to].unique = TRUE, ![unique_strings] = Ptr(tab)], !.len = @ + 1]

----------------------------------------------------------------------------
(* What the engine does on behalf of a program.                             *)

Tag(c) == IF IsPtr(mem[c]) THEN mem[mem[c].to].tag ELSE "none"

\* Cell c gets a new block of two words, if there is memory for it.
NewBlock(g, c, header, w) ==
    IF Fits(g, 2) THEN [js_malloc(g, header, <<w>>) EXCEPT !.mem[c] = Ptr(g.free)] ELSE g

\* A new object with the value of cell d as its prototype.
JS_NewObjectProtoClass1(c, d, tag) ==
    LET new(g) == NewBlock(g, c, Header(tag, 2, NewName, 0, FALSE), g.mem[top_gc_ref[1]])
    IN  ~ closed /\ Become(JS_POP_VALUE(new(check_free_mem(JS_PUSH_VALUE(Heap, 1, mem[d]), 2)), 1))

NewString(c, x) ==
    ~ closed /\ Become(NewBlock(check_free_mem(Heap, 2), c, Header("string", 2, NewName, x, FALSE), Value))

\* Mutant: the elements are copied from where the array was before the allocation.
ResizeStale(c, n) ==
    LET old == IF IsPtr(mem[c]) THEN mem[mem[c].to].size - 1 ELSE 0
        set(r) == IF r[2] = Value THEN r[1]
                  ELSE [r[1] EXCEPT !.mem[c] = r[2],
                                    !.mem = Write(@, r[2].to + 1, [i \in 1..old |-> r[1].mem[mem[c].to + i]])]
    IN  /\ ~ closed /\ Tag(c) \in {"none", "array"}
        /\ Tag(c) = "array" => n > old
        /\ Become(set(js_resize_value_array(Heap, mem[c], n)))

\* The array in cell c, or a new one, gets room for n elements.
Resize(c, n) ==
    LET set(r) == IF r[2] = Value THEN r[1] ELSE [r[1] EXCEPT !.mem[c] = r[2]]
    IN  /\ ~ closed /\ Tag(c) \in {"none", "array"}
        /\ Tag(c) = "array" => n > mem[mem[c].to].size - 1
        /\ Become(set(js_resize_value_array(Heap, mem[c], n)))

js_shrink_value_array(c, n) ==
    /\ ~ closed /\ Tag(c) = "array" /\ n < mem[mem[c].to].size - 1
    /\ Become([Heap EXCEPT !.mem = js_shrink(@, mem[c].to, n + 1)])

Store(c, d, i) ==
    /\ ~ closed /\ mtag_has_references(Tag(c)) /\ i < mem[mem[c].to].size
    /\ Become([Heap EXCEPT !.mem[mem[c].to + i] = mem[d]])

Load(c, d, i) ==
    /\ ~ closed /\ mtag_has_references(Tag(c)) /\ i < mem[mem[c].to].size
    /\ Become([Heap EXCEPT !.mem[d] = mem[mem[c].to + i]])

Drop(c) == ~ closed /\ IsPtr(mem[c]) /\ Become([Heap EXCEPT !.mem[c] = Value])

\* The string in cell c is replaced by the one of its contents in the table, or
\* enters the table.  Its place is found first; if its contents start like a
\* number, a buffer is allocated to find out, and freed again.
JS_MakeUniqueString(c) ==
    LET x == mem[mem[c].to].data
        at == find_atom(mem, unique_strings_len, x)
        f == JS_PUSH_VALUE(Heap, 1, mem[c])
        enter(r) == IF r[2] = Value THEN r[1] ELSE Insert(r[1], r[2].to, at[2], r[1].mem[top_gc_ref[1]])
        add(g) == IF x \in Numeric /\ ~ Fits(g, 2) THEN g
                  ELSE enter(js_resize_value_array(g, g.mem[unique_strings], g.len + 1))
    IN  /\ ~ closed /\ Tag(c) = "string" /\ ~ mem[mem[c].to].unique
        /\ Become(IF at[1] THEN [Heap EXCEPT !.mem[c] = mem[mem[unique_strings].to + 1 + at[2]]]
                  ELSE JS_POP_VALUE(add(IF x \in Numeric THEN js_is_numeric_string(f) ELSE f), 1))

\* A position in the string of cell c is remembered.
CachePosition(c) ==
    /\ ~ closed /\ Tag(c) = "string"
    /\ Become([Heap EXCEPT !.mem[string_pos_cache] = mem[c]])

JS_GC == ~ closed /\ Become(JS_GC2(Heap))

JS_FreeContext ==
    /\ ~ closed /\ closed' = TRUE
    /\ finalized' = {mem[p].name : p \in {q \in Range(Blocks(mem, heap_base, heap_free)) : mem[q].tag = "user"}}
    /\ UNCHANGED <<mem, heap_free, unique_strings_len>>

heap_init ==
    /\ mem = [a \in Address |-> Value]
    /\ heap_free = heap_base /\ unique_strings_len = 0
    /\ finalized = {} /\ closed = FALSE

heap_next ==
    \/ \E c, d \in Stack : \E tag \in Kinds : JS_NewObjectProtoClass1(c, d, tag)
    \/ \E c \in Stack, x \in Contents : NewString(c, x)
    \/ \E c \in Stack, n \in 1..MaxArray : Resize(c, n) \/ js_shrink_value_array(c, n)
    \/ \E c, d \in Stack, i \in 1..Max({1, MaxArray}) : Store(c, d, i) \/ Load(c, d, i)
    \/ \E c \in Stack : Drop(c) \/ JS_MakeUniqueString(c) \/ CachePosition(c)
    \/ JS_GC \/ JS_FreeContext
    \/ closed /\ UNCHANGED heap_vars

----------------------------------------------------------------------------
InHeap == Range(Blocks(mem, heap_base, heap_free))
Live == {p \in InHeap : mem[p].tag # "free"}
NameOf(w) == IF IsPtr(w) THEN mem[w.to].name ELSE 0

\* The blocks fill the heap, every pointer leads to the start of a block, and
\* no two blocks have the same name (js_malloc, gc_compact_heap).
HeapTypeOK ==
    /\ heap_free \in heap_base..(HeapSize + 1)
    /\ \A p \in InHeap : mem[p].word = "header"
    /\ \A p \in Live : \A a \in Fields(mem, p) : IsPtr(mem[a]) => mem[a].to \in Live
    /\ \A c \in HeapSize + 1 .. string_pos_cache : IsPtr(mem[c]) => mem[c].to \in Live
    /\ \A p, q \in Live : p # q => mem[p].name # mem[q].name \/ mem[p].name = 0

\* What the program can see: the names its stack leads to.
Graph ==
    LET node(p) == [kind |-> mem[p].tag, data |-> mem[p].data,
                    refs |-> << >> \o [i \in 1..Cardinality(Fields(mem, p)) |-> NameOf(mem[p + i])]]
        add(p, nodes) == (mem[p].name :> node(p)) @@ nodes
    IN  [roots |-> << >> \o [i \in 1..StackCells |-> NameOf(mem[HeapSize + i])],
         nodes |-> FoldSet(add, << >>, Reach(mem, Stack))]

Program == INSTANCE ObjectGraph WITH graph <- Graph, Cells <- 1..StackCells, NoNode <- 0

\* The program never notices that blocks move and disappear: a step is one the
\* program makes in a memory without addresses (check_free_mem, JS_GC2).
GraphStep == \E g \in {Graph}, h \in {Graph'} : g = h \/ Program!Step(g, h)

\* A collection, whenever it comes, leaves what can be reached and nothing else
\* (gc_mark_all, gc_compact_heap), the table of unique strings aside.
CollectsAll ==
    LET table(h) == {h.mem[c].to : c \in {d \in {unique_strings} : IsPtr(h.mem[d])}}
        left(h) == {h.mem[p].name : p \in Range(Blocks(h.mem, heap_base, h.free)) \ table(h)}
    IN  left(JS_GC2(Heap)) = {mem[p].name : p \in Reach(mem, Stack)}

\* The table of unique strings is sorted, refers to unique strings, and has all
\* of those in reach, although collections remove strings from it
\* (JS_MakeUniqueString, gc_mark_all).
UniqueStrings ==
    LET p == mem[unique_strings].to
        entry(i) == mem[mem[p + i].to]
    IN  /\ unique_strings_len > 0 <=> IsPtr(mem[unique_strings])
        /\ IsPtr(mem[unique_strings]) =>
              /\ unique_strings_len < mem[p].size
              /\ \A i \in 1..unique_strings_len : IsPtr(mem[p + i]) /\ entry(i).tag = "string" /\ entry(i).unique
              /\ \A i, j \in 1..unique_strings_len : i < j => entry(i).data < entry(j).data
        /\ \A q \in Live : mem[q].unique /\ mem[q].name \in DOMAIN Graph.nodes =>
              \E i \in 1..unique_strings_len : mem[p + i] = Ptr(q)

\* A finalizer runs for a user object that was there and is gone after the step, so
\* never twice for the same object; JS_FreeContext alone finalizes what is in reach.
Users == {mem[p].name : p \in {q \in Live : mem[q].tag = "user"}}
FinalizeStep == finalized' \subseteq Users /\ (closed' \/ finalized' \cap Users' = {})

heap_spec == heap_init /\ [][heap_next]_heap_vars
=============================================================================
