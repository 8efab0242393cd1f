------------------------------ MODULE L2Policy ------------------------------
(***************************************************************************)
(* L2CachePolicy: accesses of the caches above are queued and replayed into *)
(* an ARC; the tails of its two lists, in turn, name the entries pulled     *)
(* from L1 into a queue of buffers, which the write pass puts into L2. Both *)
(* queues are bounded. A buffer is named by its key: values do not matter   *)
(* here. Every call has the policy to itself (&mut self).                   *)
(***************************************************************************)
EXTENDS Integers, Sequences, FiniteSets, SequencesExt

CONSTANTS Items, ItemCapacities,     \* as in ArcPolicy
          AccessCapacity, WriteCapacity, TailBatch,
          MaxAccesses   \* bound on the accesses accepted

VARIABLES p,          \* the policy
          l2,         \* keys held by the cache below
          seen,       \* the ARC that every accepted record would give if applied at once
          overtaken,  \* an access was applied before older queued ones
          promised,   \* keys whose buffer was accepted, and which L2 did not refuse or drop,
                      \* nor a caller fetch
          accesses

vars == <<p, l2, seen, overtaken, promised, accesses>>

Arc == INSTANCE ArcPolicy WITH arc <- p.arc, shrunk <- FALSE

\* A put and a get are replayed alike.
Kinds == {"PutOrGet", "Delete"}

Init == \E c \in ItemCapacities :
    /\ p = [arc |-> Arc!NewArc(c), records |-> <<>>, buffers |-> <<>>, fromFetch |-> TRUE,
            stopped |-> TRUE, paused |-> FALSE, async |-> TRUE]
    /\ l2 = {} /\ seen = p.arc
    /\ overtaken = FALSE /\ promised = {} /\ accesses = 0

\* A get of a key that the ARC does not know is an access of it too.
DoAccess(a, record) == IF record.kind = "Delete" THEN Arc!Popped(a, record.key)
                       ELSE Arc!Accessed(a, record.key)

Replayed(a, records) == FoldLeft(DoAccess, a, records)

\* Fault: the newest record is replayed first.
QueuedInFront(q, record) == <<record>> \o q
Queued(q, record) == Append(q, record)

\* on_access: ignored when stopped, applied at once when not asynchronous, dropped
\* and counted when the queue is full.
OnAccess(kind, key) ==
    LET record == [kind |-> kind, key |-> key]
        full == AccessCapacity # 0 /\ Len(p.records) >= AccessCapacity
    IN \/ (p.stopped \/ (p.async /\ full)) /\ UNCHANGED vars
       \/ /\ ~p.stopped /\ ~(p.async /\ full)
          /\ accesses < MaxAccesses /\ accesses' = accesses + 1
          /\ seen' = DoAccess(seen, record)
          /\ IF p.async THEN /\ p' = [p EXCEPT !.records = Queued(@, record)]
                            /\ UNCHANGED overtaken
             ELSE /\ p' = [p EXCEPT !.arc = DoAccess(@, record)]
                  /\ overtaken' = (overtaken \/ p.records # <<>>)
          /\ UNCHANGED <<l2, promised>>

\* put_queue: a full queue refuses the buffer (and hands it to the registered remover).
PutQueue(q, key) == IF WriteCapacity # 0 /\ Len(q) >= WriteCapacity THEN q ELSE Append(q, key)

\* on_evict, while the eviction handler is in use (a setting; it is ignored otherwise).
OnEvict(key) ==
    /\ ~p.stopped
    /\ p' = [p EXCEPT !.buffers = PutQueue(@, key)]
    /\ promised' = promised \cup ToSet(p'.buffers)
    /\ UNCHANGED <<l2, seen, overtaken, accesses>>

\* access_task_internal: the whole queue, also when stopped.
AccessPass(q) == IF q.paused THEN q
                 ELSE [q EXCEPT !.arc = Replayed(@, q.records), !.records = <<>>]

\* The last keys of a list, from its end.
TailOf(list) == LET n == Len(list) IN [i \in 1..(IF n < TailBatch THEN n ELSE TailBatch) |-> list[n + 1 - i]]

\* What a tail pass looks for in L1: the tails of the two lists in turn.
NextTail(q) == TailOf(IF q.fromFetch THEN q.arc.fetch ELSE q.arc.active)

\* tail_task_internal: a key that L1 (its DRAM, then its PMEM) no longer has is only
\* counted.
TailPass(q, l1) ==
    IF q.stopped \/ q.paused THEN q
    ELSE LET pulled == SelectSeq(NextTail(q), LAMBDA k : k \in l1)
         IN [q EXCEPT !.fromFetch = ~@, !.buffers = FoldLeft(PutQueue, @, pulled)]

\* write_task_internal: do_one_write for every buffer. A key that L2 has is left as it
\* is there; a put that L2 refuses is counted and the pass goes on.
WritePass(q, refused) ==
    IF q.stopped \/ q.paused THEN [policy |-> q, written |-> {}, failed |-> {}]
    ELSE [policy |-> [q EXCEPT !.buffers = <<>>],
          written |-> ToSet(q.buffers) \ refused,
          failed |-> (ToSet(q.buffers) \cap refused) \ l2]

\* Whichever of the three passes run, they run in this order.
Passes(doAccess, doTail, doWrite, l1, refused) ==
    LET q1 == IF doAccess THEN AccessPass(p) ELSE p
        q2 == IF doTail THEN TailPass(q1, l1) ELSE q1
        w == IF doWrite THEN WritePass(q2, refused)
             ELSE [policy |-> q2, written |-> {}, failed |-> {}]
    IN /\ p' = w.policy
       /\ l2' = l2 \cup w.written
       /\ promised' = (promised \cup ToSet(q2.buffers)) \ w.failed
       /\ UNCHANGED <<seen, overtaken, accesses>>

\* What L1 holds matters to a pass that pulls, and what L2 refuses to one that writes;
\* neither does when the passes return at once.
Runs(pass) == pass /\ ~p.stopped /\ ~p.paused
HeldByL1(doAccess, doTail) ==
    IF Runs(doTail) THEN SUBSET ToSet(NextTail(IF doAccess THEN AccessPass(p) ELSE p)) ELSE {{}}
RefusedByL2(doWrite, l1) == IF Runs(doWrite) THEN SUBSET (l1 \cup ToSet(p.buffers)) ELSE {{}}

\* poll runs the passes that are due, none when stopped or paused.
Poll == /\ ~p.stopped /\ ~p.paused
        /\ \E a, t, w \in BOOLEAN :
              /\ a \/ t \/ w
              /\ \E l1 \in HeldByL1(a, t) :
                    \E refused \in RefusedByL2(w, l1) : Passes(a, t, w, l1, refused)

\* flush_once runs the three whatever the state, and leaves the guards to them.
FlushOnce == \E l1 \in HeldByL1(TRUE, TRUE) :
                \E refused \in RefusedByL2(TRUE, l1) : Passes(TRUE, TRUE, TRUE, l1, refused)

\* fetch_queue: a caller takes the oldest buffer, and what it promised, on itself.
FetchQueue ==
    /\ p.buffers # <<>>
    /\ p' = [p EXCEPT !.buffers = Tail(@)]
    /\ promised' = promised \ {Head(p.buffers)}
    /\ UNCHANGED <<l2, seen, overtaken, accesses>>

Set(field, value) == /\ p[field] # value
                     /\ p' = [p EXCEPT ![field] = value]
                     /\ UNCHANGED <<l2, seen, overtaken, promised, accesses>>

Start == Set("stopped", FALSE)
Stop == Set("stopped", TRUE)
Pause == Set("paused", TRUE)
Continue == Set("paused", FALSE)
SetAsyncOnAccess == \E b \in BOOLEAN : Set("async", b)

\* L2 evicts of its own accord. (So does L1: what it holds is chosen at every pull.)
L2Drops(k) == /\ k \in l2
              /\ l2' = l2 \ {k} /\ promised' = promised \ {k}
              /\ UNCHANGED <<p, seen, overtaken, accesses>>

Next == \/ \E kind \in Kinds, k \in Items : OnAccess(kind, k)
        \/ \E k \in Items : OnEvict(k) \/ L2Drops(k)
        \/ Poll \/ FlushOnce \/ Start \/ Stop \/ Pause \/ Continue
        \/ SetAsyncOnAccess \/ FetchQueue

Spec == Init /\ [][Next]_vars

\* Queuing loses and reorders nothing: what is queued, replayed into the ARC, gives the
\* ARC that applying every accepted access at once would have given, across pauses and
\* stops (unless synchronous accesses overtook queued ones); and a buffer that was
\* accepted is in its queue or in L2 until L2 refuses or drops it or a caller fetches it.
PolicyMissesNothing ==
    /\ ~overtaken => Replayed(p.arc, p.records) = seen
    /\ promised \subseteq l2 \cup ToSet(p.buffers)
=============================================================================
