----------------------------- MODULE ClusterRing -----------------------------
(***************************************************************************)
(* CacheClusterTopology: which node of a cluster owns a key. Every node has *)
(* points on a ring of hashes, in number its weight; a hash belongs to the *)
(* live node whose point comes first at or after it. The ring is kept      *)
(* sorted as members come and go, a prefix index finds the place of a hash *)
(* in it, and handoffs_to says which ranges change owner between two        *)
(* topologies.                                                             *)
(*                                                                         *)
(* Names are numbers, in the order of the map that holds them. A failure   *)
(* domain is the zone's name, or the node's own where it has none; the      *)
(* code numbers them. "Fault:" marks a broken variant of the definition     *)
(* after it.                                                               *)
(***************************************************************************)
EXTENDS Integers, Sequences, SequencesExt, FiniteSets

CONSTANTS Names, Zones, None,
          Weights,
          Bits,        \* hashes are 0 .. 2^Bits - 1
          PointHash,   \* PointHash[n][i]: the hash of point i of node n
          PerSlot,     \* CACHE_RING_INDEX_POINTS_PER_SLOT
          MinBits, MaxBits \* bounds of the prefix index

VARIABLE topo  \* [nodes, members, ring, index, bits], as in the code

Space == 2 ^ Bits
Hashes == 0 .. Space - 1

\* (hash, node) order of the ring's points.
Before(p, q) == p.hash < q.hash \/ (p.hash = q.hash /\ p.node < q.node)

Live(t, i) == t.nodes[t.members[i]].state = "live"
LiveCount(t) == Cardinality({i \in DOMAIN t.members : Live(t, i)})
Domain(t, i) ==
    LET n == t.members[i]
    IN IF t.nodes[n].zone = None THEN <<"node", n>> ELSE <<"zone", t.nodes[n].zone>>
DomainCount(t) == Cardinality({Domain(t, i) : i \in {j \in DOMAIN t.members : Live(t, j)}})

-----------------------------------------------------------------------------
(* Keeping the ring.                                                       *)

MembersOf(nodes) == SetToSortSeq({n \in Names : nodes[n] # None}, <)

\* The points of node n, which is member i.
PointsOf(nodes, n, i) ==
    SortSeq([j \in 1 .. nodes[n].weight |-> [hash |-> PointHash[n][j], node |-> i]], Before)

\* cache_ring_index_bits
IndexBits(points) ==
    LET wanted == IF points = 0 THEN 1 ELSE (points + PerSlot - 1) \div PerSlot
        length == CHOOSE b \in 1 .. wanted : 2 ^ (b - 1) <= wanted /\ wanted < 2 ^ b
    IN IF length < MinBits THEN MinBits ELSE IF length > MaxBits THEN MaxBits ELSE length

\* rebuild_prefix_index: for each slot of the hash space, the number of points
\* before its start; one more entry ends the last.
PrefixIndex(ring, bits) ==
    [s \in 0 .. 2 ^ bits |->
        IF s = 2 ^ bits THEN Len(ring)
        ELSE Cardinality({p \in DOMAIN ring : ring[p].hash < s * 2 ^ (Bits - bits)})]

Indexed(nodes, ring) ==
    LET bits == IndexBits(Len(ring))
    IN [nodes |-> nodes, members |-> MembersOf(nodes), ring |-> ring, bits |-> bits,
        index |-> PrefixIndex(ring, bits)]

\* rebuild_ring
Rebuilt(nodes) ==
    LET members == MembersOf(nodes)
        points == [i \in DOMAIN members |-> PointsOf(nodes, members[i], i)]
    IN Indexed(nodes, SortSeq(FlattenSeq(points), Before))

\* The merge of admit_one_member: a point goes after every point not behind it.
MergedIn(ring, p) ==
    LET later == {i \in DOMAIN ring : Before(p, ring[i])}
        at == IF later = {} THEN Len(ring) + 1 ELSE CHOOSE i \in later : \A j \in later : i <= j
    IN InsertAt(ring, at, p)

\* admit_one_member, given the nodes with the new one among them: members
\* behind it move up one, and its points are merged in.
Admitted(nodes, ring, n) ==
    LET at == CHOOSE i \in DOMAIN MembersOf(nodes) : MembersOf(nodes)[i] = n
        shifted == [p \in DOMAIN ring |->
                      IF ring[p].node >= at THEN [ring[p] EXCEPT !.node = @ + 1] ELSE ring[p]]
    IN Indexed(nodes, FoldLeft(MergedIn, shifted, PointsOf(nodes, n, at)))

\* retire_one_member
Retired(nodes, ring, at) ==
    LET kept == SelectSeq(ring, LAMBDA p : p.node # at)
    IN Indexed(nodes, [p \in DOMAIN kept |->
                         IF kept[p].node > at THEN [kept[p] EXCEPT !.node = @ - 1] ELSE kept[p]])

-----------------------------------------------------------------------------
(* The calls that change a topology.                                       *)

Init == topo = Rebuilt([n \in Names |-> None])

NewNode(weight, zone) == [weight |-> weight, state |-> "live", zone |-> zone]

\* add_node and add_node_in_zone, past check_new_node.
AddNode(n, weight, zone) ==
    /\ topo.nodes[n] = None
    /\ topo' = Admitted([topo.nodes EXCEPT ![n] = NewNode(weight, zone)], topo.ring, n)

\* add_nodes and add_nodes_in_zones: all or none, and the ring is rebuilt.
AddNodes(ns, weight, zone) ==
    /\ \A n \in ns : topo.nodes[n] = None
    /\ topo' = Rebuilt([n \in Names |-> IF n \in ns THEN NewNode(weight, zone) ELSE topo.nodes[n]])

\* remove_node
RemoveNode(n) ==
    /\ topo.nodes[n] # None
    /\ topo' = Retired([topo.nodes EXCEPT ![n] = None], topo.ring,
                       CHOOSE i \in DOMAIN topo.members : topo.members[i] = n)

\* set_node_state: the ring stays, only who is skipped changes.
SetNodeState(n, state) ==
    /\ topo.nodes[n] # None /\ topo.nodes[n].state # state
    /\ topo' = [topo EXCEPT !.nodes[n].state = state]

Next ==
    \/ \E n \in Names, w \in Weights, z \in Zones \cup {None} : AddNode(n, w, z)
    \/ \E ns \in SUBSET Names, w \in Weights, z \in Zones \cup {None} :
         Cardinality(ns) > 1 /\ AddNodes(ns, w, z)
    \/ \E n \in Names : RemoveNode(n)
    \/ \E n \in Names, state \in {"live", "down"} : SetNodeState(n, state)

Spec == Init /\ [][Next]_topo

-----------------------------------------------------------------------------
(* Routing.                                                                *)

\* Fault: a point at the hash itself is passed over.
FirstPointAfter(t, h) ==
    LET slot == h \div 2 ^ (Bits - t.bits)
        found == {p \in t.index[slot] + 1 .. t.index[slot + 1] : t.ring[p].hash > h}
        point == IF found = {} THEN t.index[slot + 1] + 1 ELSE CHOOSE p \in found : \A q \in found : p <= q
    IN IF point = Len(t.ring) + 1 THEN 1 ELSE point

\* first_point_at_or_after: within the slot of the hash, wrapping at the end.
FirstPointAtOrAfter(t, h) ==
    LET slot == h \div 2 ^ (Bits - t.bits)
        found == {p \in t.index[slot] + 1 .. t.index[slot + 1] : t.ring[p].hash >= h}
        point == IF found = {} THEN t.index[slot + 1] + 1 ELSE CHOOSE p \in found : \A q \in found : p <= q
    IN IF point = Len(t.ring) + 1 THEN 1 ELSE point

\* The ring's points in the order a walk from point p meets them.
Walk(t, p) == [s \in DOMAIN t.ring |-> t.ring[((p + s - 2) % Len(t.ring)) + 1]]

\* first_live_point_from, as the member it belongs to.
FirstLiveFrom(t, p) ==
    LET live == SelectSeq(Walk(t, p), LAMBDA q : Live(t, q.node))
    IN IF live = <<>> THEN None ELSE t.members[live[1].node]

\* owner_of_route_hash
Owner(t, h) == IF t.ring = <<>> THEN None ELSE FirstLiveFrom(t, FirstPointAtOrAfter(t, h))

\* One point of the walk of owners_of_hash. Nodes of a domain that is already
\* used wait in `crowded`; `done` is the walk's break.
OwnersStep(t, wanted, acc, p) ==
    IF acc.done \/ ~ Live(t, p.node) \/ p.node \in Range(acc.owners) \cup Range(acc.crowded) THEN acc
    ELSE LET fresh == Domain(t, p.node) \notin acc.used
             owners == IF fresh THEN Append(acc.owners, p.node) ELSE acc.owners
             crowded == IF fresh THEN acc.crowded ELSE Append(acc.crowded, p.node)
             used == acc.used \cup {Domain(t, p.node)}
         IN [owners |-> owners, crowded |-> crowded, used |-> used,
             done |-> \/ Len(owners) = wanted
                      \/ Len(owners) + Len(crowded) >= wanted /\ Cardinality(used) = DomainCount(t)]

\* owners_of_hash
Owners(t, h, copies) ==
    LET wanted == IF copies < LiveCount(t) THEN copies ELSE LiveCount(t)
        start == [owners |-> <<>>, crowded |-> <<>>, used |-> {}, done |-> FALSE]
        step(acc, p) == OwnersStep(t, wanted, acc, p)
        end == FoldLeft(step, start, Walk(t, FirstPointAtOrAfter(t, h)))
        all == end.owners \o end.crowded
    IN IF wanted = 0 THEN <<>> ELSE [i \in 1 .. wanted |-> t.members[all[i]]]

-----------------------------------------------------------------------------
(* Handing over.                                                           *)

Wrap(h) == h % Space

\* CacheHashRange::contains: a range that ends before it starts goes round.
InRange(range, h) ==
    IF range.start <= range.end THEN h >= range.start /\ h <= range.end
    ELSE h >= range.start \/ h <= range.end

\* The hashes at which a range of equal owners may end, merged from both rings.
Bounds(t, u) == SetToSortSeq({t.ring[p].hash : p \in DOMAIN t.ring}
                             \cup {u.ring[p].hash : p \in DOMAIN u.ring}, <)

\* Fault: the range includes the bound before it.
RangeFromBound(bounds, i) ==
    [start |-> IF i = 1 THEN Last(bounds) ELSE bounds[i - 1], end |-> bounds[i]]

\* The range that ends at bound i; the first reaches back over the last.
RangeTo(bounds, i) ==
    [start |-> Wrap(1 + IF i = 1 THEN Last(bounds) ELSE bounds[i - 1]), end |-> bounds[i]]

\* The first point not before `end`, as the two cursors find it.
Cursor(t, end) ==
    LET at == Cardinality({p \in DOMAIN t.ring : t.ring[p].hash < end}) + 1
    IN IF at = Len(t.ring) + 1 THEN 1 ELSE at

\* The ranges whose owner differs.
Moved(t, u) ==
    LET bounds == Bounds(t, u)
        all == [i \in DOMAIN bounds |->
                  [range |-> RangeTo(bounds, i),
                   from |-> FirstLiveFrom(t, Cursor(t, bounds[i])),
                   to |-> FirstLiveFrom(u, Cursor(u, bounds[i]))]]
    IN SelectSeq(all, LAMBDA m : m.from # None /\ m.to # None /\ m.from # m.to)

Adjoins(m, n) == m.from = n.from /\ m.to = n.to /\ Wrap(m.range.end + 1) = n.range.start

\* Neighbours are joined, then the last with the first.
Joined(moved) ==
    LET join(acc, m) ==
          IF acc # <<>> /\ Adjoins(Last(acc), m)
          THEN [acc EXCEPT ![Len(acc)].range.end = m.range.end] ELSE Append(acc, m)
        joined == FoldLeft(join, <<>>, moved)
    IN IF Len(joined) > 1 /\ Adjoins(Last(joined), joined[1])
       THEN Front([joined EXCEPT ![1].range.start = Last(joined).range.start])
       ELSE joined

\* handoffs_to: each joined range with the node that gives it and the one that
\* takes it. The code groups them by that pair.
HandoffsTo(t, u) == IF t.ring = <<>> \/ u.ring = <<>> THEN <<>> ELSE Joined(Moved(t, u))

-----------------------------------------------------------------------------
(* What is claimed of it.                                                  *)

LiveNames == {n \in Names : topo.nodes[n] # None /\ topo.nodes[n].state = "live"}

\* The distance from a hash forward to the nearest point of a node.
Distance(h, n) ==
    LET d == {Wrap(PointHash[n][i] + Space - h) : i \in 1 .. topo.nodes[n].weight}
    IN CHOOSE x \in d : \A y \in d : x <= y

\* After any sequence of joins, departures and failures, a key is routed by the
\* members as they are now and by nothing else: the live node with the nearest
\* point, ties to the first name. Copies go to distinct live nodes, the owner
\* first, over as many failure domains as there are (owners_of_hash,
\* admit_one_member, retire_one_member, rebuild_prefix_index).
OwnersAreRight ==
    \A h \in Hashes :
        /\ IF LiveNames = {} THEN Owner(topo, h) = None
           ELSE LET o == Owner(topo, h)
                IN /\ o \in LiveNames
                   /\ \A n \in LiveNames \ {o} :
                        \/ Distance(h, o) < Distance(h, n)
                        \/ Distance(h, o) = Distance(h, n) /\ o < n
        /\ \A copies \in 1 .. Cardinality(Names) :
             LET owners == Owners(topo, h, copies)
                 zone(n) == IF topo.nodes[n].zone = None THEN <<"node", n>>
                            ELSE <<"zone", topo.nodes[n].zone>>
                 reached == {zone(owners[i]) : i \in DOMAIN owners}
                 there == {zone(n) : n \in LiveNames}
             IN /\ Len(owners) = IF copies < Cardinality(LiveNames) THEN copies ELSE Cardinality(LiveNames)
                /\ IsInjective(owners) /\ Range(owners) \subseteq LiveNames
                /\ owners # <<>> => owners[1] = Owner(topo, h)
                /\ \/ Cardinality(reached) = Len(owners) \/ reached = there

\* The handoffs between the topology before a change and the one after it name
\* every hash whose owner changed, once, with the right two nodes, and no other
\* (handoffs_to over wrapping ranges).
HandoffsMatch ==
    LET handoffs == HandoffsTo(topo, topo')
    IN \A h \in Hashes :
         LET mine == {i \in DOMAIN handoffs : InRange(handoffs[i].range, h)}
             from == Owner(topo, h)
             to == Owner(topo', h)
         IN IF from = None \/ to = None \/ from = to THEN mine = {}
            ELSE /\ Cardinality(mine) = 1
                 /\ \A i \in mine : handoffs[i].from = from /\ handoffs[i].to = to

HandoffsAreExact == [][HandoffsMatch]_topo
=============================================================================
