----------------------------- MODULE StringSeq -----------------------------
(***************************************************************************)
(* The immutable sequences of the standard library (aether_stringseq.c):   *)
(* linked cells with reference counts, shared between sequences.  A        *)
(* program holds a few references, makes new sequences from them and frees *)
(* them in any order, and memory may run out at any allocation.            *)
(***************************************************************************)
EXTENDS Integers, Sequences, FiniteSets, SequencesExt, FiniteSetsExt

CONSTANTS Strings,
          NCells,              \* the cells that memory has room for
          NRefs                \* how many references the program can hold

NULL == 0
Cells == 1..NCells
Refs == 1..NRefs
Free == [ref_count |-> 0]

VARIABLES cell,                \* the memory
          string_refs,         \* the reference counts of the strings
          ref,                 \* the program's references
          value                \* history: the sequences they should stand for

seq_vars == <<cell, string_refs, ref, value>>

\* Operations take and return memory, with the allocations that will still succeed,
\* and the cell they return.
Heap(n) == [cell |-> cell, strings |-> string_refs, left |-> n, ptr |-> NULL]
Return(h, c) == [h EXCEPT !.ptr = c]

----------------------------------------------------------------------------
string_seq_retain(h, c) ==
    Return(IF c = NULL THEN h ELSE [h EXCEPT !.cell[c].ref_count = @ + 1], c)

\* Mutant: the new cell shares its tail without counting.
ConsNoRetain(h, s, tail) ==
    LET free == {c \in Cells : h.cell[c] = Free}
        c == CHOOSE c \in free : \A d \in free : c <= d
        new == [ref_count |-> 1, length |-> (IF tail = NULL THEN 0 ELSE h.cell[tail].length) + 1, head |-> s, tail |-> tail]
    IN  IF h.left = 0 \/ free = {} THEN Return(h, NULL)
        ELSE [h EXCEPT !.cell[c] = new, !.strings[s] = @ + 1, !.left = @ - 1, !.ptr = c]

string_seq_cons(h, s, tail) ==
    LET free == {c \in Cells : h.cell[c] = Free}
        c == CHOOSE c \in free : \A d \in free : c <= d
        new == [ref_count |-> 1, length |-> (IF tail = NULL THEN 0 ELSE h.cell[tail].length) + 1, head |-> s, tail |-> tail]
    IN  IF h.left = 0 \/ free = {} THEN Return(h, NULL)
        ELSE Return(string_seq_retain([h EXCEPT !.cell[c] = new, !.strings[s] = @ + 1, !.left = @ - 1], tail), c)

\* Frees cells along the spine up to one that has another reference.
RECURSIVE string_seq_free(_, _)
string_seq_free(h, c) ==
    IF c = NULL THEN h
    ELSE IF h.cell[c].ref_count > 1 THEN [h EXCEPT !.cell[c].ref_count = @ - 1]
    ELSE string_seq_free([h EXCEPT !.cell[c] = Free, !.strings[h.cell[c].head] = @ - 1], h.cell[c].tail)

\* The step of every loop: a new cell before the result, which then is its only
\* owner; the result is freed if there is no cell.
Prepend(h, s, result) ==
    LET n == string_seq_cons(h, s, result) IN Return(string_seq_free(n, result), n.ptr)

\* Prepends up to n elements from the cell cur on to the result.
RECURSIVE PrependAll(_, _, _, _)
PrependAll(h, cur, n, result) ==
    IF cur = NULL \/ n = 0 THEN Return(h, result)
    ELSE LET p == Prepend(h, h.cell[cur].head, result)
         IN  IF p.ptr = NULL THEN p ELSE PrependAll(p, h.cell[cur].tail, n - 1, p.ptr)

string_seq_reverse(h, s) == PrependAll(h, s, NCells, NULL)

string_seq_concat(h, a, b) ==
    IF a = NULL THEN string_seq_retain(h, b)
    ELSE LET r == string_seq_reverse(h, a)
             p == PrependAll(string_seq_retain(r, b), r.ptr, NCells, b)
         IN  IF r.ptr = NULL THEN r ELSE Return(string_seq_free(p, r.ptr), p.ptr)

string_seq_take(h, s, n) ==
    IF n <= 0 \/ s = NULL THEN Return(h, NULL)
    ELSE LET prefix == PrependAll(h, s, n, NULL)
             r == string_seq_reverse(prefix, prefix.ptr)
         IN  IF prefix.ptr = NULL THEN prefix ELSE Return(string_seq_free(r, prefix.ptr), r.ptr)

RECURSIVE Nth(_, _, _)
Nth(h, c, n) == IF c = NULL \/ n = 0 THEN c ELSE Nth(h, h.cell[c].tail, n - 1)
string_seq_drop(h, s, n) == string_seq_retain(h, Nth(h, s, n))

\* From the last element to the first.
RECURSIVE FromArray(_, _, _)
FromArray(h, array, head) ==
    IF array = << >> THEN Return(h, head)
    ELSE LET p == Prepend(h, array[Len(array)], head)
         IN  IF p.ptr = NULL THEN p ELSE FromArray(p, Front(array), p.ptr)
string_seq_from_array(h, array) == FromArray(h, array, NULL)

\* The elements along the spine, as many as the first cell says.
string_seq_to_array(h, c) ==
    [i \in 1..(IF c = NULL THEN 0 ELSE h.cell[c].length) |-> h.cell[Nth(h, c, i - 1)].head]

----------------------------------------------------------------------------
seq_init ==
    /\ cell = [c \in Cells |-> Free] /\ string_refs = [s \in Strings |-> 1]
    /\ ref = [r \in Refs |-> NULL] /\ value = [r \in Refs |-> << >>]

\* The operation gives the program a reference r to h.ptr, which stands for v unless
\* memory ran out.
Gives(r, h, v) ==
    /\ cell' = h.cell /\ string_refs' = h.strings
    /\ ref' = [ref EXCEPT ![r] = h.ptr]
    /\ value' = [value EXCEPT ![r] = IF h.ptr = NULL THEN << >> ELSE v]

\* The next reference of the program that is not in use.
New == CHOOSE r \in Refs : ref[r] = NULL /\ \A q \in Refs : ref[q] = NULL => r <= q

NewCons(n, s, a) == Gives(New, string_seq_cons(Heap(n), s, ref[a]), <<s>> \o value[a])
Retain(a) == Gives(New, string_seq_retain(Heap(0), ref[a]), value[a])
ReverseOf(n, a) == Gives(New, string_seq_reverse(Heap(n), ref[a]), Reverse(value[a]))
Concat(n, a, b) == Gives(New, string_seq_concat(Heap(n), ref[a], ref[b]), value[a] \o value[b])
Take(n, a, k) == Gives(New, string_seq_take(Heap(n), ref[a], k), SubSeq(value[a], 1, Min({k, Len(value[a])})))
DropFirst(a, k) == Gives(New, string_seq_drop(Heap(0), ref[a], k), SubSeq(value[a], k + 1, Len(value[a])))
FromPair(n, s, t) == Gives(New, string_seq_from_array(Heap(n), <<s, t>>), <<s, t>>)

Drop(r) ==
    /\ ref[r] # NULL
    /\ LET h == string_seq_free(Heap(0), ref[r])
       IN  cell' = h.cell /\ string_refs' = h.strings
    /\ ref' = [ref EXCEPT ![r] = NULL] /\ value' = [value EXCEPT ![r] = << >>]

seq_next ==
    \/ /\ \E r \in Refs : ref[r] = NULL
       /\ \E a \in Refs :
            \/ Retain(a)
            \/ \E k \in 1..2 : DropFirst(a, k)
            \/ \E n \in 0..NCells :
                 \/ \E s \in Strings : NewCons(n, s, a)
                 \/ ReverseOf(n, a)
                 \/ \E b \in Refs : Concat(n, a, b)
                 \/ \E k \in 0..2 : Take(n, a, k)
    \/ /\ \E r \in Refs : ref[r] = NULL
       /\ \E n \in 0..2, s, t \in Strings : FromPair(n, s, t)
    \/ \E r \in Refs : Drop(r)
seq_spec == seq_init /\ [][seq_next]_seq_vars

----------------------------------------------------------------------------
Live == {c \in Cells : cell[c] # Free}

\* Every count is the number of references there are, so that no cell is freed that
\* is still in use and none is left when the last reference is gone, also after an
\* operation that failed half-way; and every reference stands for the sequence that
\* was asked for.
SequencesSound ==
    /\ \A c \in Cells :
          cell[c].ref_count = Cardinality({r \in Refs : ref[r] = c}) + Cardinality({d \in Live : cell[d].tail = c})
    /\ \A s \in Strings : string_refs[s] = 1 + Cardinality({c \in Live : cell[c].head = s})
    /\ \A r \in Refs : string_seq_to_array(Heap(0), ref[r]) = value[r]
=============================================================================
