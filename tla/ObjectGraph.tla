---------------------------- MODULE ObjectGraph ----------------------------
(***************************************************************************)
(* What the memory of the JavaScript engine looks like to a program: nodes *)
(* that its variables and other nodes refer to.  There are no addresses,   *)
(* and nothing happens to a node in reach unless the program does it.      *)
(* An action relates the graph g before it to the graph h after it.        *)
(***************************************************************************)
EXTENDS Integers, Sequences, FiniteSets

CONSTANTS Cells,      \* the program's variables
          NoNode      \* a value that is not a reference
VARIABLE graph        \* [roots : [Cells -> names], nodes : [kind, data, refs] of the names in reach]

Refs(node) == {node.refs[i] : i \in DOMAIN node.refs}
Roots(g) == {g.roots[c] : c \in Cells}

RECURSIVE Closure(_, _)
Closure(nodes, near) ==
    LET more == near \cup (UNION {Refs(nodes[x]) : x \in near} \ {NoNode})
    IN  IF more = near THEN near ELSE Closure(nodes, more)
Reached(roots, nodes) == Closure(nodes, {roots[c] : c \in Cells} \ {NoNode})

\* Nodes that get out of reach are forgotten.
Trim(roots, nodes) == [roots |-> roots, nodes |-> [x \in Reached(roots, nodes) |-> nodes[x]]]

\* A variable is set to nothing or to what a node refers to.
Load(g, h, c) ==
    LET v == h.roots[c]
    IN  /\ v \in {NoNode} \cup UNION {Refs(g.nodes[x]) : x \in Roots(g) \ {NoNode}}
        /\ h = Trim([g.roots EXCEPT ![c] = v], g.nodes)

\* Through a variable, one reference of a node is set to what a variable
\* refers to, or the last references of an array go.
Change(g, h, c) ==
    LET x == g.roots[c]
        old == g.nodes[x]
        new == h.nodes[x]
    IN  /\ x # NoNode /\ x = h.roots[c]
        /\ \/ \E i \in DOMAIN old.refs, v \in Roots(g) : new = [old EXCEPT !.refs[i] = v]
           \/ old.kind = "array" /\ \E n \in 1..Len(old.refs) : new = [old EXCEPT !.refs = SubSeq(@, 1, n)]
        /\ h = Trim(g.roots, [g.nodes EXCEPT ![x] = new])

\* A variable is set to a new node;
New(g, h, c, node) ==
    LET x == h.roots[c]
    IN  /\ x # NoNode /\ x \notin DOMAIN g.nodes
        /\ h = Trim([g.roots EXCEPT ![c] = x],
                    [y \in DOMAIN g.nodes \cup {x} |-> IF y = x THEN node ELSE g.nodes[y]])

\* one that refers to what variables refer to, an array to nothing.
Create(g, h, c) ==
    LET node == h.nodes[h.roots[c]]
    IN  /\ h.roots[c] # NoNode
        /\ node.kind = "array" => g.roots[c] = NoNode /\ Refs(node) = {NoNode}
        /\ Refs(node) \subseteq Roots(g) \cup {NoNode}
        /\ New(g, h, c, node)

\* An array is replaced by a longer one with the same elements at its start.
Extend(g, h, c) ==
    LET old == g.nodes[g.roots[c]]
        n == Len(h.nodes[h.roots[c]].refs)
    IN  /\ g.roots[c] # NoNode /\ h.roots[c] # NoNode /\ old.kind = "array" /\ n > Len(old.refs)
        /\ New(g, h, c, [old EXCEPT !.refs = [i \in 1..n |-> IF i <= Len(old.refs) THEN old.refs[i] ELSE NoNode]])

\* A string is replaced by an equal one.
Intern(g, h, c) ==
    LET x == h.roots[c]
        old == g.nodes[g.roots[c]]
    IN  /\ g.roots[c] # NoNode /\ x # NoNode /\ old.kind = "string"
        /\ IF x \in DOMAIN g.nodes THEN g.nodes[x] = old /\ h = Trim([g.roots EXCEPT ![c] = x], g.nodes)
           ELSE New(g, h, c, old)

Step(g, h) == \E c \in Cells : Load(g, h, c) \/ Change(g, h, c) \/ Create(g, h, c) \/ Extend(g, h, c) \/ Intern(g, h, c)

Init == graph = [roots |-> [c \in Cells |-> NoNode], nodes |-> [x \in {} |-> NoNode]]

Next == Step(graph, graph')

Spec == Init /\ [][Next]_graph
=============================================================================
