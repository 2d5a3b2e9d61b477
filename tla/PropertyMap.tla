---------------------------- MODULE PropertyMap ----------------------------
(***************************************************************************)
(* What the property table of a JavaScript object promises: a finite map   *)
(* from keys to properties that remembers the order in which the keys were *)
(* added.  A property is a value or an accessor, and never changes from    *)
(* one to the other.                                                       *)
(***************************************************************************)
EXTENDS Integers, Sequences

CONSTANTS Keys, Values
VARIABLE map       \* a sequence of [key, accessor, value]

Property == [key : Keys, accessor : BOOLEAN, value : Values]

\* From f, a new key is added at the end;
Add(f, g) ==
    \E p \in {g[Len(g)]} : p \in Property /\ (\A i \in DOMAIN f : f[i].key # p.key) /\ g = Append(f, p)

\* a property gets a value and keeps its place;
Put(f, g) ==
    \E i \in DOMAIN f : \E v \in Values : g = [f EXCEPT ![i].value = v]

\* or a property goes, and those after it move up.
Delete(f, g) ==
    \E i \in DOMAIN f : g = SubSeq(f, 1, i - 1) \o SubSeq(f, i + 1, Len(f))

Step(f, g) == Put(f, g) \/ Delete(f, g) \/ (Len(g) > Len(f) /\ Add(f, g))

Init == map \in Seq(Property)
Next == Step(map, map')
Spec == Init /\ [][Next]_map
=============================================================================
