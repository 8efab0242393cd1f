---------------------------- MODULE CacheKeyOrder ----------------------------
(***************************************************************************)
(* The order of a tier's keys: one arena of nodes threaded by two chains,   *)
(* by insertion and by access, least recent first, and a map from key to    *)
(* node. The two link pairs of a node are two arenas here, numbered alike.  *)
(* With an insertion spec a new key enters the access chain at an insertion *)
(* point, kept by hand: its node, the number of nodes in front of it and a  *)
(* bit for each of them.                                                    *)
(*                                                                         *)
(* The tiers add, touch, remove and compact; the LRU facades push and pop,  *)
(* and leave the spec at zero. byInsertion and byAccess are history: the    *)
(* two orders as the calls ask for them.                                    *)
(***************************************************************************)
EXTENDS KeyArena

CONSTANTS Keys, Specs

VARIABLES o, tier, byInsertion, byAccess

vars == <<o, tier, byInsertion, byAccess>>
history == <<byInsertion, byAccess>>

Empty(spec) == [ins |-> NewArena, insList |-> NewList, acc |-> NewArena, accList |-> NewList,
                index |-> <<>>, insert |-> Nil, cold |-> 0, bits |-> {}, spec |-> spec]

Init == /\ o = Empty(0) /\ tier \in BOOLEAN
        /\ byInsertion = <<>> /\ byAccess = <<>>

Cached == DOMAIN o.index

InsLinked(x, r) == [x EXCEPT !.ins = r.arena, !.insList = r.list]
AccLinked(x, r) == [x EXCEPT !.acc = r.arena, !.accList = r.list]

LinkInsBack(x, n) == InsLinked(x, LinkBack(x.ins, x.insList, n))
LinkInsFront(x, n) == InsLinked(x, LinkFront(x.ins, x.insList, n))
UnlinkIns(x, n) == InsLinked(x, Unlink(x.ins, x.insList, n))
LinkAccessBack(x, n) == AccLinked(x, LinkBack(x.acc, x.accList, n))
LinkAccessFront(x, n) == AccLinked(x, LinkFront(x.acc, x.accList, n))

\* A new node for k, in no chain yet.
Allocated(x, k) ==
    LET n == NodeOf(x.ins)
    IN [x EXCEPT !.ins = Alloc(@, k), !.acc = Alloc(@, k), !.bits = @ \ {n}]

Indexed(x, k, n) == [x EXCEPT !.index = [j \in DOMAIN @ \cup {k} |-> IF j = k THEN n ELSE @[j]]]

Monus(a) == IF a > 0 THEN a - 1 ELSE 0

\* Fault: the count forgets on which side the leaving node was.
PointKept(x, n) == x

\* The insertion point steps off a node that leaves, towards the hot end if it can.
PointOff(x, n) ==
    IF x.spec = 0 \/ x.insert = Nil THEN x
    ELSE IF n = x.insert
    THEN LET next == x.acc.nodes[n].next
             prev == x.acc.nodes[n].prev
         IN IF next # Nil THEN [x EXCEPT !.insert = next, !.bits = @ \ {next}]
            ELSE [x EXCEPT !.insert = prev, !.bits = @ \ {prev},
                           !.cold = IF prev = Nil THEN 0 ELSE Monus(@)]
    ELSE IF n \in x.bits THEN [x EXCEPT !.cold = Monus(@)] ELSE x

UnlinkAccess(x, n) ==
    LET y == PointOff(x, n)
    IN AccLinked([y EXCEPT !.bits = @ \ {n}], Unlink(y.acc, y.accList, n))

Target(x) == Cardinality(DOMAIN x.index) \div 2^x.spec

\* rebalance_insertion_point: one node at a time, up or down.
RECURSIVE Walk(_)
Walk(x) ==
    LET next == x.acc.nodes[x.insert].next
        prev == x.acc.nodes[x.insert].prev
    IN CASE x.cold < Target(x) /\ next # Nil ->
              Walk([x EXCEPT !.bits = @ \cup {x.insert}, !.insert = next, !.cold = @ + 1])
         [] x.cold > Target(x) /\ prev # Nil ->
              Walk([x EXCEPT !.bits = @ \ {prev}, !.insert = prev, !.cold = @ - 1])
         [] OTHER -> [x EXCEPT !.bits = @ \ {x.insert}]

\* With a zero spec the point goes; the bits stay as they are.
Rebalanced(x) ==
    IF x.spec = 0 \/ x.accList.head = Nil THEN [x EXCEPT !.insert = Nil, !.cold = 0]
    ELSE Walk(IF x.insert = Nil THEN [x EXCEPT !.insert = x.accList.head, !.cold = 0] ELSE x)

\* In front of the insertion point; that makes the node a cold one.
LinkAccessInsert(x, n) ==
    IF x.spec = 0 \/ x.insert = Nil THEN Rebalanced(LinkAccessBack(x, n))
    ELSE LET at == x.insert
             before == x.acc.nodes[at].prev
             linked == [x.acc.nodes EXCEPT ![n].prev = before, ![n].next = at, ![at].prev = n]
         IN Rebalanced([x EXCEPT !.acc.nodes = WithNext(linked, before, n),
                                 !.accList.head = IF before = Nil THEN n ELSE @,
                                 !.accList.len = @ + 1,
                                 !.bits = @ \cup {n}, !.cold = @ + 1])

Dropped(x, k) ==
    LET n == x.index[k]
        y == UnlinkAccess(UnlinkIns(x, n), n)
    IN [y EXCEPT !.index = [j \in DOMAIN @ \ {k} |-> @[j]],
                 !.ins = Release(@, n), !.acc = Release(@, n)]

PositionOf(s, k) == CHOOSE i \in DOMAIN s : s[i] = k

-----------------------------------------------------------------------------
\* push_back_if_absent, also with a shared key: the index first, then the point.
PushBackIfAbsent(k) ==
    /\ k \notin Cached
    /\ LET n == NodeOf(o.ins)
           x == Indexed(LinkInsBack(Allocated(o, k), n), k, n)
           at == IF o.spec = 0 \/ o.insert = Nil THEN Len(byAccess) + 1
                 ELSE PositionOf(byAccess, o.acc.nodes[o.insert].key)
       IN /\ o' = LinkAccessInsert(x, n)
          /\ byAccess' = InsertAt(byAccess, at, k)
    /\ byInsertion' = Append(byInsertion, k)
    /\ UNCHANGED tier

\* A hit: the access chain moves, the insertion chain does not.
TouchAccess(k) ==
    /\ k \in Cached
    /\ LET n == o.index[k]
       IN o' = IF n = o.accList.tail THEN o ELSE LinkAccessBack(UnlinkAccess(o, n), n)
    /\ byAccess' = Append(Remove(byAccess, k), k)
    /\ UNCHANGED <<tier, byInsertion>>

\* remove, and each step of retain.
RemoveKey(k) ==
    /\ k \in Cached
    /\ o' = Dropped(o, k)
    /\ byInsertion' = Remove(byInsertion, k) /\ byAccess' = Remove(byAccess, k)
    /\ UNCHANGED tier

Clear ==
    /\ o' = Empty(o.spec)
    /\ byInsertion' = <<>> /\ byAccess' = <<>>
    /\ UNCHANGED tier

SetInsertionSpec(spec) ==
    /\ tier
    /\ o' = Rebalanced([o EXCEPT !.spec = spec])
    /\ UNCHANGED <<tier, history>>

\* Fault: the nodes move and the bits keep their numbers.
BitsUnmoved(bits, new) == bits

BitsMoved(bits, new) == {new[n] : n \in bits \cap DOMAIN new}

\* compact_if_sparse: nodes renumbered in insertion order, no free ones left. When
\* the arena is sparse enough depends on capacities that are not modelled.
Compact ==
    /\ o.ins.free # <<>>
    /\ LET live == [i \in DOMAIN byInsertion |-> o.index[byInsertion[i]]]
           new == [n \in ToSet(live) |-> PositionOf(live, n)]
           To(n) == IF n = Nil THEN Nil ELSE new[n]
           Moved(a) == [nodes |-> [i \in DOMAIN live |->
                            [key |-> a.nodes[live[i]].key, prev |-> To(a.nodes[live[i]].prev),
                             next |-> To(a.nodes[live[i]].next)]],
                        free |-> <<>>]
           Ends(l) == [l EXCEPT !.head = To(@), !.tail = To(@)]
       IN o' = [o EXCEPT !.ins = Moved(@), !.acc = Moved(@), !.insList = Ends(@), !.accList = Ends(@),
                         !.index = [k \in DOMAIN @ |-> new[@[k]]],
                         !.insert = To(@), !.bits = BitsMoved(@, new)]
    /\ UNCHANGED <<tier, history>>

\* The facades: both chains at once, for a key that is there or not.
PushBack(k) ==
    /\ ~tier
    /\ o' = IF k \in Cached
            THEN LET n == o.index[k]
                 IN LinkAccessBack(UnlinkAccess(LinkInsBack(UnlinkIns(o, n), n), n), n)
            ELSE LET n == NodeOf(o.ins)
                 IN Indexed(LinkAccessBack(LinkInsBack(Allocated(o, k), n), n), k, n)
    /\ byInsertion' = Append(Remove(byInsertion, k), k)
    /\ byAccess' = Append(Remove(byAccess, k), k)
    /\ UNCHANGED tier

PushFront(k) ==
    /\ ~tier
    /\ o' = IF k \in Cached
            THEN LET n == o.index[k]
                 IN LinkAccessFront(UnlinkAccess(LinkInsFront(UnlinkIns(o, n), n), n), n)
            ELSE LET n == NodeOf(o.ins)
                 IN Indexed(LinkAccessFront(LinkInsFront(Allocated(o, k), n), n), k, n)
    /\ byInsertion' = <<k>> \o Remove(byInsertion, k)
    /\ byAccess' = <<k>> \o Remove(byAccess, k)
    /\ UNCHANGED tier

MoveToBack(k) ==
    /\ ~tier /\ k \in Cached
    /\ LET n == o.index[k]
       IN o' = IF n = o.insList.tail THEN o ELSE LinkInsBack(UnlinkIns(o, n), n)
    /\ byInsertion' = Append(Remove(byInsertion, k), k)
    /\ UNCHANGED <<tier, byAccess>>

PopFront ==
    /\ ~tier /\ byInsertion # <<>>
    /\ o' = Dropped(o, o.ins.nodes[o.insList.head].key)
    /\ byAccess' = Remove(byAccess, Head(byInsertion)) /\ byInsertion' = Tail(byInsertion)
    /\ UNCHANGED tier

Next == \/ \E k \in Keys : \/ PushBackIfAbsent(k) \/ TouchAccess(k) \/ RemoveKey(k)
                           \/ PushBack(k) \/ PushFront(k) \/ MoveToBack(k)
        \/ \E s \in Specs : SetInsertionSpec(s)
        \/ Clear \/ Compact \/ PopFront

Spec == Init /\ [][Next]_vars

-----------------------------------------------------------------------------
NodesIn(s) == [i \in DOMAIN s |-> o.index[s[i]]]

\* Both chains hold, in both directions, exactly the order the calls asked for, the
\* index finds every key's node, and every other node is free once.
OrdersAreRight ==
    /\ Chained(o.ins, o.insList, NodesIn(byInsertion))
    /\ Chained(o.acc, o.accList, NodesIn(byAccess))
    /\ \A k \in Cached : o.ins.nodes[o.index[k]].key = k
    /\ IsInjective(o.ins.free)
    /\ ToSet(o.ins.free) = DOMAIN o.ins.nodes \ {o.index[k] : k \in Cached}

\* check_access_invariants: "the insertion point is a member of the list and
\* access_cold is exactly its distance from the eviction end".
AccessInvariants ==
    o.spec # 0 /\ byAccess # <<>> =>
        o.cold + 1 \in DOMAIN byAccess /\ o.index[byAccess[o.cold + 1]] = o.insert

\* The same, and the bits are set for the nodes in front of it and no others.
InsertionPointKnown ==
    /\ AccessInvariants
    /\ o.spec # 0 => o.bits = {o.index[byAccess[j]] : j \in 1..o.cold}
=============================================================================
