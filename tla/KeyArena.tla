------------------------------ MODULE KeyArena ------------------------------
(***************************************************************************)
(* The intrusive lists of the replacement policies. An arena holds nodes    *)
(* with a key and two links, and the numbers of the free ones; a list is    *)
(* its two ends, its length and the bytes charged to it. Several lists      *)
(* share one arena, and a node is in one list or free.                      *)
(***************************************************************************)
EXTENDS Integers, Sequences, FiniteSets, SequencesExt

CONSTANT NoKey

Nil == 0    \* KEY_LIST_NIL; the nodes of an arena are numbered from one

NewArena == [nodes |-> <<>>, free |-> <<>>]
NewList == [head |-> Nil, tail |-> Nil, used |-> 0, len |-> 0]

Unlinked(k) == [key |-> k, prev |-> Nil, next |-> Nil]

\* The node alloc hands out: the last one freed, or a new one.
NodeOf(a) == IF a.free # <<>> THEN Last(a.free) ELSE Len(a.nodes) + 1

Alloc(a, k) ==
    IF a.free # <<>>
    THEN [nodes |-> [a.nodes EXCEPT ![NodeOf(a)] = Unlinked(k)], free |-> Front(a.free)]
    ELSE [a EXCEPT !.nodes = Append(@, Unlinked(k))]

Release(a, n) == [nodes |-> [a.nodes EXCEPT ![n] = Unlinked(NoKey)], free |-> Append(a.free, n)]

\* The arena and the list after the node has become the first one.
LinkFront(a, l, n) ==
    LET linked == [a.nodes EXCEPT ![n].prev = Nil, ![n].next = l.head]
    IN [arena |-> [a EXCEPT !.nodes = IF l.head = Nil THEN linked
                                      ELSE [linked EXCEPT ![l.head].prev = n]],
        list |-> [l EXCEPT !.head = n, !.tail = IF l.head = Nil THEN n ELSE @, !.len = @ + 1]]

LinkBack(a, l, n) ==
    LET linked == [a.nodes EXCEPT ![n].next = Nil, ![n].prev = l.tail]
    IN [arena |-> [a EXCEPT !.nodes = IF l.tail = Nil THEN linked
                                      ELSE [linked EXCEPT ![l.tail].next = n]],
        list |-> [l EXCEPT !.tail = n, !.head = IF l.tail = Nil THEN n ELSE @, !.len = @ + 1]]

\* A link of a node that exists.
WithNext(ns, n, x) == IF n = Nil THEN ns ELSE [ns EXCEPT ![n].next = x]
WithPrev(ns, n, p) == IF n = Nil THEN ns ELSE [ns EXCEPT ![n].prev = p]

Shortened(l, p, x) == [l EXCEPT !.head = IF p = Nil THEN x ELSE @,
                                !.tail = IF x = Nil THEN p ELSE @, !.len = @ - 1]

\* Fault: the node behind keeps pointing at the one that left.
UnlinkOneWay(a, l, n) ==
    LET p == a.nodes[n].prev
        x == a.nodes[n].next
    IN [arena |-> [a EXCEPT !.nodes = WithNext([@ EXCEPT ![n] = Unlinked(@.key)], p, x)],
        list |-> Shortened(l, p, x)]

Unlink(a, l, n) ==
    LET p == a.nodes[n].prev
        x == a.nodes[n].next
    IN [arena |-> [a EXCEPT !.nodes = WithPrev(WithNext([@ EXCEPT ![n] = Unlinked(@.key)], p, x), x, p)],
        list |-> Shortened(l, p, x)]

\* s is what a walk over the list meets, from either end.
Chained(a, l, s) ==
    /\ l.len = Len(s)
    /\ IF s = <<>> THEN l.head = Nil /\ l.tail = Nil
       ELSE /\ l.head = s[1] /\ l.tail = Last(s)
            /\ a.nodes[s[1]].prev = Nil /\ a.nodes[Last(s)].next = Nil
            /\ \A i \in 1..Len(s) - 1 : /\ a.nodes[s[i]].next = s[i + 1]
                                        /\ a.nodes[s[i + 1]].prev = s[i]

\* The list holds exactly the given nodes.
ListOf(a, l, ns) == \E s \in SetToSeqs(ns) : Chained(a, l, s)
=============================================================================
