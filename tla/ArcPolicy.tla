----------------------------- MODULE ArcPolicy -----------------------------
(***************************************************************************)
(* ReplacementArc: two ghost LRU lists, fetch for keys seen once and active *)
(* for keys seen again, each with its data and its ghosts, most recent      *)
(* first. The capacity of fetch is what a ghost hit adapts. A BaseLruList   *)
(* (an arena, a list and an index) is its sequence of keys here.            *)
(***************************************************************************)
EXTENDS Integers, Sequences, FiniteSets, SequencesExt

CONSTANTS Items,          \* the keys
          ItemCapacities

VARIABLES arc, shrunk     \* shrunk: the capacity was lowered

arcVars == <<arc, shrunk>>

\* An empty ArcList; the two capacities start at the halves.
NewArc(c) == [fetch |-> <<>>, fetchGhost |-> <<>>, active |-> <<>>, activeGhost |-> <<>>,
              fetchCapacity |-> c \div 2, capacity |-> c]

ArcInit == arc \in {NewArc(c) : c \in ItemCapacities} /\ shrunk = FALSE

Lists == {"fetch", "fetchGhost", "active", "activeGhost"}

\* BaseLruList: put moves to the front, delete and evict_one take out.
Refreshed(s, k) == <<k>> \o Remove(s, k)
DropLast(s) == IF s = <<>> THEN s ELSE Front(s)

\* GhostLruList.downgrade: the last data key becomes the first ghost.
Downgraded(a, data, ghost) ==
    IF a[data] = <<>> THEN a
    ELSE [a EXCEPT ![ghost] = Refreshed(@, Last(a[data])), ![data] = Front(@)]

Size(a) == Len(a.fetch) + Len(a.active)
FetchTotal(a) == Len(a.fetch) + Len(a.fetchGhost)
TotalSize(a) == FetchTotal(a) + Len(a.active) + Len(a.activeGhost)

Larger(x, y) == IF x > y THEN x ELSE y
Lesser(x, y) == IF x < y THEN x ELSE y

\* Fault: always the active list.
ReplaceActive(a, inActiveGhost) == Downgraded(a, "active", "activeGhost")

Replace(a, inActiveGhost) ==
    IF a.fetch # <<>> /\ (\/ Len(a.fetch) > a.fetchCapacity
                          \/ inActiveGhost /\ Len(a.fetch) = a.fetchCapacity)
    THEN Downgraded(a, "fetch", "fetchGhost")
    ELSE Downgraded(a, "active", "activeGhost")

\* access when no list has the key.
Missed(a, k) ==
    LET room == IF FetchTotal(a) >= a.capacity
                THEN IF Len(a.fetch) < a.capacity
                     THEN Replace([a EXCEPT !.fetchGhost = DropLast(@)], FALSE)
                     ELSE [a EXCEPT !.fetch = DropLast(@)]
                ELSE IF TotalSize(a) >= a.capacity
                THEN Replace(IF TotalSize(a) >= 2 * a.capacity
                             THEN [a EXCEPT !.activeGhost = DropLast(@)] ELSE a, FALSE)
                ELSE a
    IN [room EXCEPT !.fetch = Refreshed(@, k)]

\* A ghost of the active list shrinks fetch, a ghost of fetch grows it; a is without
\* the key already, which counts as one ghost more on its own side.
ActiveGhostHit(a, k) ==
    LET step == Larger(1, Len(a.fetchGhost) \div (Len(a.activeGhost) + 1))
        p == Larger(0, a.fetchCapacity - step)
    IN [Replace([a EXCEPT !.fetchCapacity = p], TRUE) EXCEPT !.active = Refreshed(@, k)]

FetchGhostHit(a, k) ==
    LET step == Larger(1, Len(a.activeGhost) \div (Len(a.fetchGhost) + 1))
        p == Lesser(a.fetchCapacity + step, a.capacity)
    IN [Replace([a EXCEPT !.fetchCapacity = p], FALSE) EXCEPT !.active = Refreshed(@, k)]

\* pop takes the key from the first list that has it.
Popped(a, k) == [q \in DOMAIN a |-> IF q \in Lists THEN Remove(a[q], k) ELSE a[q]]

Accessed(a, k) ==
    LET b == Popped(a, k)
    IN CASE Contains(a.fetch, k) \/ Contains(a.active, k) -> [b EXCEPT !.active = Refreshed(@, k)]
         [] Contains(a.fetchGhost, k) -> FetchGhostHit(b, k)
         [] Contains(a.activeGhost, k) -> ActiveGhostHit(b, k)
         [] OTHER -> Missed(b, k)

\* put and get are the same access.
Access(k) == arc' = Accessed(arc, k) /\ UNCHANGED shrunk

Delete(k) == /\ \E q \in Lists : Contains(arc[q], k)
             /\ arc' = Popped(arc, k)
             /\ UNCHANGED shrunk

\* Only the total changes: neither half is clamped, and nothing is evicted.
SetItemCapacity(c) ==
    /\ c # arc.capacity
    /\ arc' = [arc EXCEPT !.capacity = c]
    /\ shrunk' = (shrunk \/ c < arc.capacity)

\* Lists are emptied; the adapted capacity stays.
Reset == /\ TotalSize(arc) > 0
         /\ arc' = [arc EXCEPT !.fetch = <<>>, !.fetchGhost = <<>>,
                               !.active = <<>>, !.activeGhost = <<>>]
         /\ UNCHANGED shrunk

ArcNext == \/ \E k \in Items : Access(k) \/ Delete(k)
           \/ \E c \in ItemCapacities : SetItemCapacity(c)
           \/ Reset

ArcSpec == ArcInit /\ [][ArcNext]_arcVars

\* A key is in one list at most, the data never outgrows the capacity, and neither
\* the fetch side nor the whole outgrows what ARC allows it (once and twice the
\* capacity), whatever the hits adapted, unless the capacity was lowered.
ArcBounds ==
    /\ IsInjective(arc.fetch \o arc.fetchGhost \o arc.active \o arc.activeGhost)
    /\ ~shrunk => /\ Size(arc) <= arc.capacity
                  /\ FetchTotal(arc) <= arc.capacity
                  /\ TotalSize(arc) <= 2 * arc.capacity
                  /\ arc.fetchCapacity \in 0..arc.capacity
=============================================================================
