--------------------------- MODULE PriorityQueue ---------------------------
(***************************************************************************)
(* The priority queue of the standard library (aether_pqueue.c): a binary  *)
(* heap in an array.  Indices start at 0 as in the code; the element with  *)
(* index i is data[i + 1].                                                 *)
(***************************************************************************)
EXTENDS Integers, Sequences, SequencesExt

CONSTANTS Elements,            \* records with an id and a priority
          NULL, MaxSize

VARIABLES data, extracted      \* the heap, and what the last extraction returned

pqueue_vars == <<data, extracted>>

PARENT(i) == (i - 1) \div 2
LEFT_CHILD(i) == 2 * i + 1
RIGHT_CHILD(i) == 2 * i + 2

Less(d, i, j) == d[i + 1].priority < d[j + 1].priority
Swap(d, i, j) == [d EXCEPT ![i + 1] = d[j + 1], ![j + 1] = d[i + 1]]

RECURSIVE heapify_up(_, _)
heapify_up(d, index) ==
    IF index > 0 /\ Less(d, index, PARENT(index)) THEN heapify_up(Swap(d, index, PARENT(index)), PARENT(index)) ELSE d

\* Mutant: the right child is compared with the parent only.
RECURSIVE DownRightFirst(_, _)
DownRightFirst(d, index) ==
    LET right == RIGHT_CHILD(index)
        left == LEFT_CHILD(index)
        smallest == IF right < Len(d) /\ Less(d, right, index) THEN right
                    ELSE IF left < Len(d) /\ Less(d, left, index) THEN left ELSE index
    IN  IF smallest = index THEN d ELSE DownRightFirst(Swap(d, index, smallest), smallest)

RECURSIVE heapify_down(_, _)
heapify_down(d, index) ==
    LET left == LEFT_CHILD(index)
        right == RIGHT_CHILD(index)
        first == IF left < Len(d) /\ Less(d, left, index) THEN left ELSE index
        smallest == IF right < Len(d) /\ Less(d, right, first) THEN right ELSE first
    IN  IF smallest = index THEN d ELSE heapify_down(Swap(d, index, smallest), smallest)

----------------------------------------------------------------------------
InQueue == Range(data)

aether_pqueue_insert(e) ==
    /\ e \notin InQueue /\ Len(data) < MaxSize
    /\ data' = heapify_up(Append(data, e), Len(data))
    /\ extracted' = NULL

aether_pqueue_extract ==
    /\ data # << >>
    /\ extracted' = data[1]
    /\ data' = LET rest == SubSeq([data EXCEPT ![1] = data[Len(data)]], 1, Len(data) - 1)
               IN  IF rest = << >> THEN rest ELSE heapify_down(rest, 0)

aether_pqueue_clear == data' = << >> /\ extracted' = NULL

\* Floyd's algorithm, from the last parent to the root.
aether_pqueue_from_array(elements) ==
    FoldLeft(heapify_down, elements, [i \in 1..Len(elements) \div 2 |-> Len(elements) \div 2 - i])

pqueue_init == \E n \in 0..MaxSize : \E s \in [1..n -> Elements] :
                   IsInjective(s) /\ data = aether_pqueue_from_array(s) /\ extracted = NULL
pqueue_next == (\E e \in Elements : aether_pqueue_insert(e)) \/ aether_pqueue_extract \/ aether_pqueue_clear
pqueue_spec == pqueue_init /\ [][pqueue_next]_pqueue_vars

----------------------------------------------------------------------------
\* An insertion adds the element; an extraction takes out the element it returns,
\* which is one of the smallest; no other element comes or goes (aether_pqueue_insert,
\* aether_pqueue_extract, aether_pqueue_from_array).
ExtractStep ==
    \/ extracted' = NULL /\ (InQueue' = {} \/ \E e \in Elements \ InQueue : InQueue' = InQueue \cup {e})
    \/ /\ extracted' \in InQueue /\ InQueue' = InQueue \ {extracted'}
       /\ \A e \in InQueue : extracted'.priority <= e.priority
=============================================================================
