--------------------------- MODULE WritebackProofs ---------------------------
(***************************************************************************)
(* Writeback for every number of keys, workers, queue places and calls: the *)
(* queue's positions find their jobs, and the last call about a key wins    *)
(* unless it overtook an older job of the key or a batch was lost.          *)
(*                                                                         *)
(* Neither is inductive alone. What is (Ordered) adds the shapes of the     *)
(* state, that a drain that is not writing holds nothing, that a batch has  *)
(* one job per key, and where the latest value of a key is while it has     *)
(* not reached the cache: in the queue, or with the only drain that has it. *)
(***************************************************************************)
EXTENDS Writeback, TLAPS

Writing == {"write", "lastWrite", "flush"}

\* The variables have the shapes the calls give them.
WellShaped ==
    /\ started \in BOOLEAN
    /\ queue \in Seq(Job) /\ Len(queue) <= Limit
    /\ positions \in [Keys -> Nat \cup {None}] /\ head \in Nat
    /\ cached \in [Keys -> Nat]
    /\ pc \in [Drainers -> {"off", "loop", "next", "last"} \cup Writing]
    /\ batch \in [Drainers -> Seq(Job)]
    /\ through \in Job \cup {None}
    /\ clock \in 0..MaxWrites
    /\ latest \in [Keys -> Nat]
    /\ raced \in [Keys -> BOOLEAN] /\ lost \in [Keys -> BOOLEAN]

\* A drain holds jobs only between its pop and its write, and one for a key.
OneJobPerKey ==
    \A d \in Drainers :
        /\ pc[d] \notin Writing => batch[d] = <<>>
        /\ \A i, j \in DOMAIN batch[d] : batch[d][i].key = batch[d][j].key => i = j

\* The jobs of q for k carry the latest call's value.
CarriesLatest(q, k) == \A i \in DOMAIN q : q[i].key = k => q[i].value = latest[k]

\* Where the latest value of k is.
LatestIsSomewhere(k) ==
    /\ Queued(k) => CarriesLatest(queue, k)
    /\ ~Queued(k) /\ InFlight(k) = {} => cached[k] = latest[k]
    /\ ~Queued(k) => \A d \in Drainers : InFlight(k) = {d} => CarriesLatest(batch[d], k)

NothingForgotten == \A k \in Keys : ~raced[k] /\ ~lost[k] => LatestIsSomewhere(k)

Ordered == WellShaped /\ PositionsFindTheirJobs /\ OneJobPerKey /\ NothingForgotten

-----------------------------------------------------------------------------
(* The sequences the queue and the batches are made of.                    *)

\* A drain takes the first m jobs and leaves the others in their order.
LEMMA SplitQueue ==
    ASSUME NEW q \in Seq(Job), NEW m \in 0..Len(q)
    PROVE  /\ SubSeq(q, 1, m) \in Seq(Job) /\ Len(SubSeq(q, 1, m)) = m
           /\ \A i \in 1..m : SubSeq(q, 1, m)[i] = q[i]
           /\ SubSeq(q, m + 1, Len(q)) \in Seq(Job)
           /\ Len(SubSeq(q, m + 1, Len(q))) = Len(q) - m
           /\ \A i \in 1..(Len(q) - m) : SubSeq(q, m + 1, Len(q))[i] = q[i + m]
  OBVIOUS

\* A job that is coalesced stays where it is; only its value changes.
LEMMA CoalesceInPlace ==
    ASSUME NEW q \in Seq(Job), NEW i \in DOMAIN q, NEW v \in 1..MaxWrites
    PROVE  /\ Coalesce(q, i, v) \in Seq(Job) /\ Len(Coalesce(q, i, v)) = Len(q)
           /\ \A j \in DOMAIN q : /\ Coalesce(q, i, v)[j].key = q[j].key
                                  /\ Coalesce(q, i, v)[j].value = IF j = i THEN v ELSE q[j].value
                                  /\ j # i => Coalesce(q, i, v)[j] = q[j]
  <1>1. q[i] \in Job
    OBVIOUS
  <1>2. [q[i] EXCEPT !.value = v] = [key |-> q[i].key, value |-> v]
    BY <1>1 DEF Job
  <1>3. [q[i] EXCEPT !.value = v] \in Job
    BY <1>1, <1>2 DEF Job
  <1> QED
    BY <1>1, <1>2, <1>3 DEF Coalesce, Job

-----------------------------------------------------------------------------
(* What the operations do to the queue and the batches.                    *)

\* enqueue_async_writeback_batch: k has one job, with the value v; the jobs of
\* other keys are the ones that were there.
LEMMA EnqueueKeeps ==
    ASSUME WellShaped, PositionsFindTheirJobs, NEW k \in Keys, NEW v \in 1..MaxWrites,
           Enqueue(k, v), head' = head
    PROVE  /\ queue' \in Seq(Job) /\ Len(queue') <= Limit
           /\ positions' \in [Keys -> Nat \cup {None}]
           /\ PositionsFindTheirJobs'
           /\ Queued(k)'
           /\ \A i \in DOMAIN queue' : queue'[i].key = k => queue'[i].value = v
           /\ \A x \in Keys \ {k} :
                 /\ Queued(x)' <=> Queued(x)
                 /\ \A i \in DOMAIN queue' :
                       queue'[i].key = x => i \in DOMAIN queue /\ queue'[i] = queue[i]
  <1> USE WritebackAssumption
  <1>1. CASE positions[k] # None
    <2> DEFINE p == positions[k] - head + 1
    <2>1. p \in DOMAIN queue /\ \A i \in DOMAIN queue : queue[i].key = k <=> i = p
      BY <1>1 DEF PositionsFindTheirJobs
    <2>2. queue' = Coalesce(queue, p, v) /\ positions' = positions
      BY <1>1 DEF Enqueue
    <2> HIDE DEF p
    <2>3. /\ queue' \in Seq(Job) /\ Len(queue') = Len(queue)
          /\ \A j \in DOMAIN queue : /\ queue'[j].key = queue[j].key
                                     /\ queue'[j].value = IF j = p THEN v ELSE queue[j].value
                                     /\ j # p => queue'[j] = queue[j]
      BY <2>1, <2>2, CoalesceInPlace DEF WellShaped
    <2>4. DOMAIN queue' = DOMAIN queue
      BY <2>3 DEF WellShaped
    <2>6. PositionsFindTheirJobs'
      BY <2>2, <2>3, <2>4 DEF PositionsFindTheirJobs, Queued
    <2>7. Queued(k)' /\ \A i \in DOMAIN queue' : queue'[i].key = k => queue'[i].value = v
      BY <2>1, <2>3, <2>4 DEF Queued
    <2>8. ASSUME NEW x \in Keys \ {k}
          PROVE  /\ Queued(x)' <=> Queued(x)
                 /\ \A i \in DOMAIN queue' :
                       queue'[i].key = x => i \in DOMAIN queue /\ queue'[i] = queue[i]
      BY <2>1, <2>3, <2>4 DEF Queued
    <2>9. Len(queue') <= Limit /\ positions' \in [Keys -> Nat \cup {None}]
      BY <2>2, <2>3 DEF WellShaped
    <2> QED
      BY <2>3, <2>6, <2>7, <2>8, <2>9
  <1>2. CASE positions[k] = None
    <2> DEFINE job == [key |-> k, value |-> v]
    <2>1. job \in Job /\ job.key = k /\ job.value = v
      BY DEF Job
    <2>2. /\ Len(queue) < Limit /\ queue' = Append(queue, job)
          /\ positions' = [positions EXCEPT ![k] = head + Len(queue)]
      BY <1>2 DEF Enqueue
    <2>3. ~Queued(k)
      BY <1>2 DEF PositionsFindTheirJobs
    <2> HIDE DEF job
    <2>4. /\ queue' \in Seq(Job) /\ Len(queue') = Len(queue) + 1
          /\ DOMAIN queue' = 1..(Len(queue) + 1) /\ DOMAIN queue = 1..Len(queue)
          /\ queue'[Len(queue) + 1] = job
          /\ \A i \in 1..Len(queue) : queue'[i] = queue[i]
      BY <2>1, <2>2 DEF WellShaped
    <2>5. positions' \in [Keys -> Nat \cup {None}]
      BY <2>2 DEF WellShaped
    <2>6. ASSUME NEW x \in Keys
          PROVE  IF positions'[x] = None THEN ~Queued(x)'
                 ELSE /\ positions'[x] - head' + 1 \in DOMAIN queue'
                      /\ \A i \in DOMAIN queue' : queue'[i].key = x <=> i = positions'[x] - head' + 1
      <3>1. CASE x = k
        BY <3>1, <2>1, <2>2, <2>3, <2>4 DEF WellShaped, Queued
      <3>2. CASE x # k /\ positions[x] = None
        BY <3>2, <2>1, <2>2, <2>4 DEF WellShaped, Queued, PositionsFindTheirJobs
      <3>3. CASE x # k /\ positions[x] # None
        <4>1. positions'[x] = positions[x] /\ positions[x] \in Nat
          BY <3>3, <2>2 DEF WellShaped
        <4>2. /\ positions[x] - head + 1 \in DOMAIN queue
              /\ \A i \in DOMAIN queue : queue[i].key = x <=> i = positions[x] - head + 1
          BY <3>3 DEF PositionsFindTheirJobs
        <4> DEFINE p == positions[x] - head + 1
        <4>3. positions'[x] - head' + 1 = p /\ p \in 1..Len(queue)
          BY <4>1, <4>2, <2>4
        <4> HIDE DEF p
        <4>4. \A i \in DOMAIN queue : queue'[i].key = x <=> i = p
          BY <4>2, <2>4 DEF p
        <4>5. p # Len(queue) + 1 /\ queue'[Len(queue) + 1].key # x
          BY <4>3, <3>3, <2>1, <2>4 DEF WellShaped
        <4>6. \A i \in DOMAIN queue' : i \in DOMAIN queue \/ i = Len(queue) + 1
          BY <2>4 DEF WellShaped
        <4>7. p \in DOMAIN queue' /\ positions'[x] # None
          BY <4>1, <4>3, <2>4 DEF WellShaped
        <4> QED
          BY <4>3, <4>4, <4>5, <4>6, <4>7
      <3> QED
        BY <3>1, <3>2, <3>3
    <2>7. PositionsFindTheirJobs'
      BY <2>6 DEF PositionsFindTheirJobs
    <2>8. Queued(k)' /\ \A i \in DOMAIN queue' : queue'[i].key = k => queue'[i].value = v
      <3>1. \A i \in DOMAIN queue' : i \in DOMAIN queue \/ i = Len(queue) + 1
        BY <2>4 DEF WellShaped
      <3>2. \A i \in DOMAIN queue : queue'[i].key # k
        BY <2>3, <2>4 DEF Queued
      <3>3. Len(queue) + 1 \in DOMAIN queue'
        BY <2>4 DEF WellShaped
      <3> QED
        BY <3>1, <3>2, <3>3, <2>1, <2>4 DEF Queued
    <2>9. ASSUME NEW x \in Keys \ {k}
          PROVE  /\ Queued(x)' <=> Queued(x)
                 /\ \A i \in DOMAIN queue' :
                       queue'[i].key = x => i \in DOMAIN queue /\ queue'[i] = queue[i]
      <3>1. \A i \in DOMAIN queue' : i \in DOMAIN queue \/ i = Len(queue) + 1
        BY <2>4 DEF WellShaped
      <3>2. DOMAIN queue \subseteq DOMAIN queue'
        BY <2>4 DEF WellShaped
      <3>3. queue'[Len(queue) + 1].key # x
        BY <2>1, <2>4
      <3> QED
        BY <3>1, <3>2, <3>3, <2>4 DEF Queued
    <2>10. Len(queue') <= Limit
      BY <2>2, <2>4 DEF WellShaped
    <2> QED
      BY <2>4, <2>5, <2>7, <2>8, <2>9, <2>10
  <1> QED
    BY <1>1, <1>2

\* drain_async_writeback: what d takes leaves the queue, and d holds it alone.
LEMMA PopKeeps ==
    ASSUME WellShaped, PositionsFindTheirJobs, NEW d \in Drainers, NEW n \in Nat, Pop(d, n)
    PROVE  /\ queue' \in Seq(Job) /\ Len(queue') <= Limit
           /\ positions' \in [Keys -> Nat \cup {None}] /\ head' \in Nat
           /\ batch' \in [Drainers -> Seq(Job)]
           /\ \A e \in Drainers \ {d} : batch'[e] = batch[e]
           /\ PositionsFindTheirJobs'
           /\ \A i, j \in DOMAIN batch'[d] : batch'[d][i].key = batch'[d][j].key => i = j
           /\ \A i \in DOMAIN batch'[d] : i \in DOMAIN queue /\ batch'[d][i] = queue[i]
           /\ \A i \in DOMAIN queue' : \E j \in DOMAIN queue : queue'[i] = queue[j]
           /\ \A x \in Keys :
                 Queued(x) <=> Queued(x)' \/ \E i \in DOMAIN batch'[d] : batch'[d][i].key = x
           /\ \A x \in Keys :
                 Queued(x)' => \A i \in DOMAIN batch'[d] : batch'[d][i].key # x
  <1> USE WritebackAssumption
  <1> DEFINE m == IF n < Len(queue) THEN n ELSE Len(queue)
  <1>1. m \in 0..Len(queue)
    BY DEF WellShaped
  <1>2. /\ batch' = [batch EXCEPT ![d] = SubSeq(queue, 1, m)]
        /\ positions' = PositionsAfter(m)
        /\ queue' = SubSeq(queue, m + 1, Len(queue))
        /\ head' = head + m
    BY DEF Pop
  <1> HIDE DEF m
  <1>3. queue \in Seq(Job) /\ DOMAIN queue = 1..Len(queue) /\ Len(queue) \in Nat
    BY DEF WellShaped
  <1>4. /\ batch' \in [Drainers -> Seq(Job)]
        /\ \A e \in Drainers \ {d} : batch'[e] = batch[e]
        /\ DOMAIN batch'[d] = 1..m
        /\ \A i \in 1..m : batch'[d][i] = queue[i]
    BY <1>1, <1>2, <1>3, SplitQueue DEF WellShaped
  <1>5. /\ queue' \in Seq(Job) /\ Len(queue') = Len(queue) - m
        /\ DOMAIN queue' = 1..(Len(queue) - m)
        /\ \A i \in 1..(Len(queue) - m) : queue'[i] = queue[i + m]
    <2>1. /\ queue' \in Seq(Job) /\ Len(queue') = Len(queue) - m
          /\ \A i \in 1..(Len(queue) - m) : queue'[i] = queue[i + m]
      BY <1>1, <1>2, <1>3, SplitQueue
    <2>2. DOMAIN queue' = 1..Len(queue')
      BY <2>1
    <2> QED
      BY <2>1, <2>2
  <1>6. positions' = [k \in Keys |-> IF k \in Popped(m) THEN None ELSE positions[k]]
    BY <1>2 DEF PositionsAfter
  <1>7. positions' \in [Keys -> Nat \cup {None}] /\ head' \in Nat /\ Len(queue') <= Limit
    <2>1. positions' \in [Keys -> Nat \cup {None}]
      BY <1>6 DEF WellShaped
    <2>2. m \in Nat /\ m <= Len(queue)
      BY <1>1, <1>3
    <2>3. head' \in Nat
      BY <1>2, <2>2 DEF WellShaped
    <2>4. Len(queue) <= Limit
      BY DEF WellShaped
    <2> QED
      BY <2>1, <2>2, <2>3, <2>4, <1>3, <1>5
  <1>8. \A i, j \in DOMAIN queue : queue[i].key = queue[j].key => i = j
    <2> SUFFICES ASSUME NEW i \in DOMAIN queue, NEW j \in DOMAIN queue, queue[i].key = queue[j].key
                 PROVE  i = j
      OBVIOUS
    <2>0. queue[i] \in Job
      BY <1>3
    <2>1. queue[i].key \in Keys
      BY <2>0 DEF Job
    <2> QED
      BY <2>1 DEF PositionsFindTheirJobs, Queued
  <1>9. ASSUME NEW x \in Keys
        PROVE  IF positions'[x] = None THEN ~Queued(x)'
               ELSE /\ positions'[x] - head' + 1 \in DOMAIN queue'
                    /\ \A i \in DOMAIN queue' : queue'[i].key = x <=> i = positions'[x] - head' + 1
    <2>1. CASE x \in Popped(m)
      <3>1. PICK i \in 1..m : queue[i].key = x
        BY <2>1 DEF Popped
      <3>2. i \in DOMAIN queue /\ \A j \in DOMAIN queue' : j + m \in DOMAIN queue /\ j + m # i
        BY <3>1, <1>1, <1>3, <1>5
      <3>3. \A j \in DOMAIN queue' : queue'[j].key # x
        BY <3>1, <3>2, <1>5, <1>8
      <3> QED
        BY <3>3, <2>1, <1>6 DEF Queued
    <2>2. CASE x \notin Popped(m) /\ positions[x] = None
      <3>1. \A j \in DOMAIN queue : queue[j].key # x
        BY <2>2 DEF PositionsFindTheirJobs, Queued
      <3>2. \A j \in DOMAIN queue' : j + m \in DOMAIN queue /\ queue'[j] = queue[j + m]
        BY <1>1, <1>3, <1>5
      <3>3. \A j \in DOMAIN queue' : queue'[j].key # x
        BY <3>1, <3>2
      <3>4. positions'[x] = None
        BY <2>2, <1>6
      <3> QED
        BY <3>3, <3>4 DEF Queued
    <2>3. CASE x \notin Popped(m) /\ positions[x] # None
      <3> DEFINE p == positions[x] - head + 1
      <3>1. p \in DOMAIN queue /\ \A i \in DOMAIN queue : queue[i].key = x <=> i = p
        BY <2>3 DEF PositionsFindTheirJobs
      <3>2. positions'[x] = positions[x] /\ positions[x] \in Nat /\ head \in Nat
        BY <2>3, <1>6 DEF WellShaped
      <3>3. positions'[x] - head' + 1 = p - m
        BY <3>2, <1>1, <1>2, <1>3
      <3> HIDE DEF p
      <3>4. p \notin 1..m
        BY <3>1, <2>3 DEF Popped
      <3>5. positions'[x] # None
        BY <3>2
      <3>6. p - m \in DOMAIN queue'
        BY <3>1, <3>4, <1>1, <1>3, <1>5
      <3>7. \A i \in DOMAIN queue' : queue'[i].key = x <=> i = p - m
        <4>1. \A i \in DOMAIN queue' : i + m \in DOMAIN queue /\ queue'[i] = queue[i + m]
          BY <1>1, <1>3, <1>5
        <4>2. \A i \in DOMAIN queue' : i + m = p <=> i = p - m
          BY <3>1, <1>1, <1>3, <1>5
        <4> QED
          BY <4>1, <4>2, <3>1
      <3> QED
        BY <3>3, <3>5, <3>6, <3>7
    <2> QED
      BY <2>1, <2>2, <2>3
  <1>10. PositionsFindTheirJobs'
    BY <1>9 DEF PositionsFindTheirJobs
  <1>11. /\ \A i, j \in DOMAIN batch'[d] : batch'[d][i].key = batch'[d][j].key => i = j
         /\ \A i \in DOMAIN batch'[d] : i \in DOMAIN queue /\ batch'[d][i] = queue[i]
    BY <1>1, <1>3, <1>4, <1>8
  <1>12. \A i \in DOMAIN queue' : i + m \in DOMAIN queue /\ queue'[i] = queue[i + m]
    BY <1>1, <1>3, <1>5
  <1>13. ASSUME NEW x \in Keys
         PROVE  /\ Queued(x) <=> Queued(x)' \/ \E i \in DOMAIN batch'[d] : batch'[d][i].key = x
                /\ Queued(x)' => \A i \in DOMAIN batch'[d] : batch'[d][i].key # x
    <2>1. ASSUME Queued(x)
          PROVE  Queued(x)' \/ \E i \in DOMAIN batch'[d] : batch'[d][i].key = x
      <3>1. PICK i \in DOMAIN queue : queue[i].key = x
        BY <2>1 DEF Queued
      <3>2. CASE i <= m
        BY <3>1, <3>2, <1>1, <1>3, <1>4
      <3>3. CASE i > m
        <4>1. i - m \in DOMAIN queue' /\ queue'[i - m] = queue[i]
          BY <3>1, <3>3, <1>1, <1>3, <1>5
        <4> QED
          BY <4>1, <3>1 DEF Queued
      <3> QED
        BY <3>2, <3>3, <1>1, <1>3
    <2>2. Queued(x)' \/ (\E i \in DOMAIN batch'[d] : batch'[d][i].key = x) => Queued(x)
      BY <1>11, <1>12 DEF Queued
    <2>3. ASSUME Queued(x)' PROVE \A i \in DOMAIN batch'[d] : batch'[d][i].key # x
      <3>1. PICK i \in DOMAIN queue' : queue'[i].key = x
        BY <2>3 DEF Queued
      <3>2. \A j \in 1..m : j # i + m
        BY <1>1, <1>3, <1>5
      <3> QED
        BY <3>1, <3>2, <1>4, <1>8, <1>11, <1>12
    <2> QED
      BY <2>1, <2>2, <2>3
  <1>14. \A i \in DOMAIN queue' : \E j \in DOMAIN queue : queue'[i] = queue[j]
    BY <1>12
  <1> QED
    BY <1>4, <1>5, <1>7, <1>10, <1>11, <1>13, <1>14
-----------------------------------------------------------------------------
(* Every step keeps Ordered.                                               *)

\* A new call's number is one of the values a job may have.
LEMMA TickCounts ==
    ASSUME WellShaped, Tick
    PROVE  clock' \in 1..MaxWrites /\ clock' \in 0..MaxWrites /\ clock' \in Nat /\ clock' = clock + 1
  BY WritebackAssumption DEF WellShaped, Tick

\* Who holds jobs of a key depends on the batches alone.
LEMMA SameBatches ==
    ASSUME batch' = batch, NEW k
    PROVE  InFlight(k)' = InFlight(k)
  BY DEF InFlight

\* A submit puts the new value into the queue, whatever the drains hold.
LEMMA SubmitKeeps ==
    ASSUME Ordered, NEW k \in Keys, Submit(k)
    PROVE  Ordered'
  <1>0. WellShaped /\ PositionsFindTheirJobs /\ OneJobPerKey /\ NothingForgotten
    BY DEF Ordered
  <1>1. clock' \in 1..MaxWrites /\ clock' \in 0..MaxWrites /\ clock' \in Nat
    BY <1>0, TickCounts DEF Submit
  <1>2. Enqueue(k, clock') /\ head' = head /\ latest' = [latest EXCEPT ![k] = clock']
    BY DEF Submit
  <1>3. UNCHANGED <<started, head, cached, pc, batch, through, raced, lost>>
    BY DEF Submit, threads
  <1>4. /\ queue' \in Seq(Job) /\ Len(queue') <= Limit
        /\ positions' \in [Keys -> Nat \cup {None}]
        /\ PositionsFindTheirJobs'
        /\ Queued(k)'
        /\ \A i \in DOMAIN queue' : queue'[i].key = k => queue'[i].value = clock'
        /\ \A x \in Keys \ {k} :
              /\ Queued(x)' <=> Queued(x)
              /\ \A i \in DOMAIN queue' :
                    queue'[i].key = x => i \in DOMAIN queue /\ queue'[i] = queue[i]
    BY <1>0, <1>1, <1>2, EnqueueKeeps
  <1>5. WellShaped'
    BY <1>0, <1>1, <1>2, <1>3, <1>4 DEF WellShaped
  <1>6. OneJobPerKey'
    BY <1>0, <1>3 DEF OneJobPerKey
  <1>7. ASSUME NEW x \in Keys, ~raced[x], ~lost[x] PROVE LatestIsSomewhere(x)'
    <2>1. CASE x = k
      <3>1. latest'[k] = clock'
        BY <1>0, <1>2 DEF WellShaped
      <3> QED
        BY <2>1, <3>1, <1>4 DEF LatestIsSomewhere, CarriesLatest
    <2>2. CASE x # k
      <3>1. latest'[x] = latest[x]
        BY <2>2, <1>0, <1>2 DEF WellShaped
      <3>2. InFlight(x)' = InFlight(x)
        BY <1>3, SameBatches
      <3>3. LatestIsSomewhere(x)
        BY <1>0, <1>7 DEF NothingForgotten
      <3> QED
        BY <2>2, <3>1, <3>2, <3>3, <1>3, <1>4 DEF LatestIsSomewhere, CarriesLatest
    <2> QED
      BY <2>1, <2>2
  <1>8. NothingForgotten'
    BY <1>3, <1>7 DEF NothingForgotten
  <1> QED
    BY <1>4, <1>5, <1>6, <1>8 DEF Ordered

\* A write beside the queue (put, invalidate, a rejected job) wins at once, or it
\* is counted among the calls that overtook an older job.
LEMMA DirectWriteKeeps ==
    ASSUME Ordered, NEW k \in Keys, NEW v \in Nat, NEW last \in Nat,
           cached' = [cached EXCEPT ![k] = v],
           latest' = [latest EXCEPT ![k] = last],
           raced' \in [Keys -> BOOLEAN],
           \A x \in Keys \ {k} : raced'[x] = raced[x],
           ~raced'[k] => ~Overtakes(k, None) /\ v = last,
           UNCHANGED <<queue, positions, head, pc, batch, lost>>,
           started' \in BOOLEAN, clock' \in 0..MaxWrites, through' \in Job \cup {None}
    PROVE  Ordered'
  <1>0. WellShaped /\ PositionsFindTheirJobs /\ OneJobPerKey /\ NothingForgotten
    BY DEF Ordered
  <1>1. WellShaped'
    BY <1>0 DEF WellShaped
  <1>2. PositionsFindTheirJobs' /\ OneJobPerKey'
    BY <1>0 DEF PositionsFindTheirJobs, OneJobPerKey, Queued
  <1>3. ASSUME NEW x \in Keys, ~raced'[x], ~lost[x] PROVE LatestIsSomewhere(x)'
    <2>1. InFlight(x)' = InFlight(x) /\ Queued(x)' = Queued(x)
      BY SameBatches DEF Queued
    <2>2. CASE x = k
      <3>1. ~Queued(k) /\ InFlight(k) = {}
        BY <2>2, <1>3, WritebackAssumption DEF Overtakes, InFlight, Drainers
      <3>2. cached'[k] = v /\ latest'[k] = last /\ v = last
        BY <2>2, <1>0, <1>3 DEF WellShaped
      <3> QED
        BY <2>1, <2>2, <3>1, <3>2 DEF LatestIsSomewhere
    <2>3. CASE x # k
      <3>1. cached'[x] = cached[x] /\ latest'[x] = latest[x]
        BY <2>3, <1>0 DEF WellShaped
      <3>2. LatestIsSomewhere(x)
        BY <2>3, <1>0, <1>3 DEF NothingForgotten
      <3> QED
        BY <2>1, <3>1, <3>2 DEF LatestIsSomewhere, CarriesLatest
    <2> QED
      BY <2>2, <2>3
  <1>4. NothingForgotten'
    BY <1>3 DEF NothingForgotten
  <1> QED
    BY <1>1, <1>2, <1>4 DEF Ordered

\* put and invalidate.
LEMMA PutKeeps ==
    ASSUME Ordered, NEW k \in Keys, Put(k)
    PROVE  Ordered'
  <1>0. WellShaped
    BY DEF Ordered
  <1>1. clock' \in 0..MaxWrites /\ clock' \in Nat
    BY <1>0, TickCounts DEF Put
  <1>2. /\ cached' = [cached EXCEPT ![k] = clock'] /\ latest' = [latest EXCEPT ![k] = clock']
        /\ raced' = [raced EXCEPT ![k] = @ \/ Overtakes(k, None)]
        /\ UNCHANGED <<started, queue, positions, head, pc, batch, through, lost>>
    BY DEF Put, threads
  <1>3. /\ raced' \in [Keys -> BOOLEAN]
        /\ \A x \in Keys \ {k} : raced'[x] = raced[x]
        /\ ~raced'[k] => ~Overtakes(k, None)
    <2>1. Overtakes(k, None) \in BOOLEAN
      BY DEF Overtakes, Queued
    <2>2. (raced[k] \/ Overtakes(k, None)) \in BOOLEAN /\ raced \in [Keys -> BOOLEAN]
      BY <1>0, <2>1 DEF WellShaped
    <2> HIDE DEF Overtakes
    <2> QED
      BY <2>2, <1>2
  <1>4. started' \in BOOLEAN /\ through' \in Job \cup {None}
    BY <1>0, <1>2 DEF WellShaped
  <1> QED
    BY <1>1, <1>2, <1>3, <1>4, DirectWriteKeeps

\* A rejected job, written by its own caller.
LEMMA WriteThroughKeeps ==
    ASSUME Ordered, WriteThrough
    PROVE  Ordered'
  <1>0. WellShaped /\ PositionsFindTheirJobs /\ OneJobPerKey /\ NothingForgotten
    BY DEF Ordered
  <1>1. /\ through # None /\ through' = None
        /\ UNCHANGED <<started, queue, positions, head, pc, batch, clock, lost>>
    BY DEF WriteThrough, threads, bounds
  <1>2. CASE started
    <2> DEFINE k == through.key  v == through.value
               last == IF latest[k] > v THEN latest[k] ELSE v
    <2>1. through \in Job
      BY <1>0, <1>1 DEF WellShaped
    <2>2. k \in Keys /\ v \in Nat
      BY <2>1, WritebackAssumption DEF Job
    <2>3. /\ cached' = [cached EXCEPT ![k] = v]
          /\ latest' = [latest EXCEPT ![k] = last]
          /\ raced' = [raced EXCEPT ![k] = @ \/ Overtakes(k, None) \/ latest[k] > v]
      BY <1>2 DEF WriteThrough
    <2>4. last \in Nat /\ latest[k] \in Nat
      BY <2>2, <1>0 DEF WellShaped
    <2>5. (raced[k] \/ Overtakes(k, None) \/ latest[k] > v) \in BOOLEAN /\ raced \in [Keys -> BOOLEAN]
      BY <2>2, <1>0 DEF WellShaped, Overtakes, Queued
    <2> HIDE DEF k, v
    <2>6. /\ raced' \in [Keys -> BOOLEAN]
          /\ \A x \in Keys \ {k} : raced'[x] = raced[x]
          /\ ~raced'[k] => ~Overtakes(k, None) /\ ~(latest[k] > v)
      BY <2>2, <2>3, <2>5
    <2>7. ~raced'[k] => v = last
      BY <2>6
    <2>8. started' \in BOOLEAN /\ clock' \in 0..MaxWrites /\ through' \in Job \cup {None}
      BY <1>0, <1>1 DEF WellShaped
    <2> HIDE DEF last
    <2> QED
      BY <1>1, <2>2, <2>3, <2>4, <2>6, <2>7, <2>8, DirectWriteKeeps
  <1>3. CASE ~started
    <2>1. UNCHANGED <<cached, latest, raced>>
      BY <1>3 DEF WriteThrough
    <2>2. WellShaped'
      BY <1>0, <1>1, <2>1 DEF WellShaped
    <2>3. PositionsFindTheirJobs' /\ OneJobPerKey'
      BY <1>0, <1>1 DEF PositionsFindTheirJobs, OneJobPerKey, Queued
    <2>4. NothingForgotten'
      BY <1>0, <1>1, <2>1 DEF NothingForgotten, LatestIsSomewhere, CarriesLatest, Queued, InFlight
    <2> QED
      BY <2>2, <2>3, <2>4 DEF Ordered
  <1> QED
    BY <1>2, <1>3
\* clear: the queue is empty, and no drain may hold a job of a key that is not
\* counted among the overtaken.
LEMMA ClearKeeps ==
    ASSUME Ordered, Clear
    PROVE  Ordered'
  <1>0. WellShaped /\ OneJobPerKey
    BY DEF Ordered
  <1>1. clock' \in 0..MaxWrites /\ clock' \in Nat
    BY <1>0, TickCounts DEF Clear
  <1>2. /\ queue' = <<>> /\ positions' = [k \in Keys |-> None] /\ head' = 0
        /\ cached' = [k \in Keys |-> clock'] /\ latest' = [k \in Keys |-> clock']
        /\ raced' = [k \in Keys |-> raced[k] \/ InFlight(k) # {}]
        /\ UNCHANGED <<started, pc, batch, through, lost>>
    BY DEF Clear, threads
  <1>3. raced' \in [Keys -> BOOLEAN]
    <2>1. \A k \in Keys : (raced[k] \/ InFlight(k) # {}) \in BOOLEAN
      BY <1>0 DEF WellShaped
    <2> QED
      BY <2>1, <1>2
  <1>4. WellShaped'
    <2>1. queue' \in Seq(Job) /\ Len(queue') <= Limit
      BY <1>2, WritebackAssumption
    <2> QED
      BY <2>1, <1>0, <1>1, <1>2, <1>3 DEF WellShaped
  <1>5. PositionsFindTheirJobs' /\ \A k \in Keys : ~Queued(k)'
    <2>1. DOMAIN queue' = {}
      BY <1>2
    <2> QED
      BY <2>1, <1>2 DEF PositionsFindTheirJobs, Queued
  <1>6. OneJobPerKey'
    BY <1>0, <1>2 DEF OneJobPerKey
  <1>7. ASSUME NEW k \in Keys, ~raced'[k] PROVE LatestIsSomewhere(k)'
    <2>1. InFlight(k)' = {}
      BY <1>2, <1>7, SameBatches
    <2> QED
      BY <2>1, <1>2, <1>5 DEF LatestIsSomewhere
  <1>8. NothingForgotten'
    BY <1>7 DEF NothingForgotten
  <1> QED
    BY <1>4, <1>5, <1>6, <1>8 DEF Ordered

\* Steps that move threads and flags only.
LEMMA QuietKeeps ==
    ASSUME Ordered, UNCHANGED <<queue, positions, head, cached, batch, latest, raced, lost>>,
           started' \in BOOLEAN, clock' \in 0..MaxWrites, through' \in Job \cup {None},
           pc' \in [Drainers -> {"off", "loop", "next", "last"} \cup Writing],
           \A d \in Drainers : pc'[d] \in Writing \/ pc[d] \notin Writing \/ batch[d] = <<>>
    PROVE  Ordered'
  <1>0. WellShaped /\ PositionsFindTheirJobs /\ OneJobPerKey /\ NothingForgotten
    BY DEF Ordered
  <1>1. WellShaped'
    BY <1>0 DEF WellShaped
  <1>2. PositionsFindTheirJobs'
    BY <1>0 DEF PositionsFindTheirJobs, Queued
  <1>3. OneJobPerKey'
    BY <1>0 DEF OneJobPerKey
  <1>4. NothingForgotten'
    BY <1>0 DEF NothingForgotten, LatestIsSomewhere, CarriesLatest, Queued, InFlight
  <1> QED
    BY <1>1, <1>2, <1>3, <1>4 DEF Ordered

\* A drain that was not writing takes jobs: the latest value of a key goes with
\* the only job of the key, and a key another drain holds too has no single holder.
LEMMA DrainKeeps ==
    ASSUME Ordered, NEW d \in Drainers, NEW n \in Nat, Pop(d, n), pc[d] \notin Writing,
           UNCHANGED <<started, cached, through, clock, latest, raced, lost>>,
           NEW p \in Writing, pc' = [pc EXCEPT ![d] = p]
    PROVE  Ordered'
  <1>0. WellShaped /\ PositionsFindTheirJobs /\ OneJobPerKey /\ NothingForgotten
    BY DEF Ordered
  <1>1. /\ queue' \in Seq(Job) /\ Len(queue') <= Limit
        /\ positions' \in [Keys -> Nat \cup {None}] /\ head' \in Nat
        /\ batch' \in [Drainers -> Seq(Job)]
        /\ PositionsFindTheirJobs'
    BY <1>0, PopKeeps
  <1>2. \A e \in Drainers \ {d} : batch'[e] = batch[e]
    BY <1>0, PopKeeps
  <1>3. /\ \A i, j \in DOMAIN batch'[d] : batch'[d][i].key = batch'[d][j].key => i = j
        /\ \A i \in DOMAIN batch'[d] : i \in DOMAIN queue /\ batch'[d][i] = queue[i]
    BY <1>0, PopKeeps
  <1>4. /\ \A i \in DOMAIN queue' : \E j \in DOMAIN queue : queue'[i] = queue[j]
        /\ \A x \in Keys :
              /\ Queued(x) <=> Queued(x)' \/ \E i \in DOMAIN batch'[d] : batch'[d][i].key = x
              /\ Queued(x)' => \A i \in DOMAIN batch'[d] : batch'[d][i].key # x
    BY <1>0, PopKeeps
  <1>5. WellShaped'
    BY <1>0, <1>1 DEF WellShaped
  <1>6. OneJobPerKey'
    BY <1>0, <1>2, <1>3 DEF OneJobPerKey, WellShaped
  <1>7. ASSUME NEW x \in Keys, ~raced[x], ~lost[x] PROVE LatestIsSomewhere(x)'
    <2>1. LatestIsSomewhere(x)
      BY <1>0, <1>7 DEF NothingForgotten
    <2>2. d \notin InFlight(x)
      BY <1>0 DEF OneJobPerKey, InFlight
    <2>3. CASE \E i \in DOMAIN batch'[d] : batch'[d][i].key = x
      <3>1. Queued(x) /\ ~Queued(x)'
        BY <2>3, <1>4
      <3>2. CarriesLatest(queue, x)
        BY <3>1, <2>1 DEF LatestIsSomewhere
      <3>3. d \in InFlight(x)'
        BY <2>3 DEF InFlight
      <3>4. CarriesLatest(batch[d], x)'
        BY <3>2, <1>3 DEF CarriesLatest
      <3> QED
        BY <3>1, <3>3, <3>4 DEF LatestIsSomewhere
    <2>4. CASE ~\E i \in DOMAIN batch'[d] : batch'[d][i].key = x
      <3>1. Queued(x)' <=> Queued(x)
        BY <2>4, <1>4
      <3>2. InFlight(x)' = InFlight(x)
        BY <2>2, <2>4, <1>2 DEF InFlight
      <3>3. CarriesLatest(queue, x) => CarriesLatest(queue, x)'
        BY <1>4 DEF CarriesLatest
      <3>4. \A e \in Drainers : InFlight(x)' = {e} => batch'[e] = batch[e]
        BY <2>2, <3>2, <1>2
      <3> QED
        BY <2>1, <3>1, <3>2, <3>3, <3>4 DEF LatestIsSomewhere, CarriesLatest
    <2> QED
      BY <2>3, <2>4
  <1>8. NothingForgotten'
    BY <1>7 DEF NothingForgotten
  <1> QED
    BY <1>1, <1>5, <1>6, <1>8 DEF Ordered

\* What DrainWrite and DrainFails share: the batch is gone and the thread goes on.
LEMMA BatchGone ==
    ASSUME WellShaped, OneJobPerKey, NEW d \in Drainers,
           batch' = [batch EXCEPT ![d] = <<>>], AfterWrite(d)
    PROVE  /\ pc' \in [Drainers -> {"off", "loop", "next", "last"} \cup Writing]
           /\ batch' \in [Drainers -> Seq(Job)] /\ OneJobPerKey'
           /\ \A e \in Drainers \ {d} : batch'[e] = batch[e]
           /\ \A x : InFlight(x)' = InFlight(x) \ {d}
  <1>1. batch' \in [Drainers -> Seq(Job)] /\ batch'[d] = <<>> /\ DOMAIN batch'[d] = {}
    BY DEF WellShaped
  <1>2. \A e \in Drainers \ {d} : batch'[e] = batch[e] /\ pc'[e] = pc[e]
    BY DEF WellShaped, AfterWrite
  <1>3. pc' \in [Drainers -> {"off", "loop", "next", "last"} \cup Writing]
    BY DEF WellShaped, AfterWrite
  <1>4. OneJobPerKey'
    BY <1>1, <1>2 DEF OneJobPerKey
  <1>5. \A x : InFlight(x)' = InFlight(x) \ {d}
    BY <1>1, <1>2 DEF InFlight
  <1> QED
    BY <1>1, <1>2, <1>3, <1>4, <1>5

\* A drain writes what it took: alone with a key it brings the latest value, or a
\* newer one is still queued; beside another drain it is a race that is counted.
LEMMA DrainWriteKeeps ==
    ASSUME Ordered, NEW d \in Drainers, DrainWrite(d)
    PROVE  Ordered'
  <1>0. WellShaped /\ PositionsFindTheirJobs /\ OneJobPerKey /\ NothingForgotten
    BY DEF Ordered
  <1>1. /\ batch' = [batch EXCEPT ![d] = <<>>] /\ AfterWrite(d)
        /\ UNCHANGED <<started, queue, positions, head, through, clock, latest, lost>>
    BY DEF DrainWrite, bounds
  <1>2. raced' = [k \in Keys |-> raced[k] \/ (d \in InFlight(k) /\ InFlight(k) # {d})]
    BY DEF DrainWrite
  <1> DEFINE Written(k) == CHOOSE i \in Job : i.key = k /\ \E j \in DOMAIN batch[d] : batch[d][j] = i
  <1>3. cached' = [k \in Keys |-> IF d \in InFlight(k) THEN Written(k).value ELSE cached[k]]
    BY DEF DrainWrite
  <1>4. ASSUME NEW k \in Keys, d \in InFlight(k)
        PROVE  \E j \in DOMAIN batch[d] : batch[d][j] = Written(k) /\ Written(k) \in Job /\ Written(k).key = k
    <2>1. PICK j \in DOMAIN batch[d] : batch[d][j].key = k
      BY <1>4 DEF InFlight
    <2>2. batch[d][j] \in Job
      BY <1>0 DEF WellShaped
    <2>3. \E i \in Job : i.key = k /\ \E h \in DOMAIN batch[d] : batch[d][h] = i
      BY <2>1, <2>2
    <2> QED
      BY <2>3
  <1> HIDE DEF Written
  <1>5. /\ pc' \in [Drainers -> {"off", "loop", "next", "last"} \cup Writing]
        /\ batch' \in [Drainers -> Seq(Job)] /\ OneJobPerKey'
        /\ \A e \in Drainers \ {d} : batch'[e] = batch[e]
        /\ \A x : InFlight(x)' = InFlight(x) \ {d}
    BY <1>0, <1>1, BatchGone
  <1>6. cached' \in [Keys -> Nat]
    <2>1. \A k \in Keys : d \in InFlight(k) => Written(k).value \in Nat
      BY <1>4, WritebackAssumption DEF Job
    <2> QED
      BY <2>1, <1>0, <1>3 DEF WellShaped
  <1>7. raced' \in [Keys -> BOOLEAN]
    <2>1. \A k \in Keys : (raced[k] \/ (d \in InFlight(k) /\ InFlight(k) # {d})) \in BOOLEAN
      BY <1>0 DEF WellShaped
    <2> QED
      BY <2>1, <1>2
  <1>8. WellShaped'
    BY <1>0, <1>1, <1>5, <1>6, <1>7 DEF WellShaped
  <1>9. PositionsFindTheirJobs'
    BY <1>0, <1>1 DEF PositionsFindTheirJobs, Queued
  <1>10. ASSUME NEW x \in Keys, ~raced'[x], ~lost[x] PROVE LatestIsSomewhere(x)'
    <2>1. ~raced[x] /\ (d \in InFlight(x) => InFlight(x) = {d})
      BY <1>2, <1>10
    <2>2. LatestIsSomewhere(x)
      BY <2>1, <1>0, <1>10 DEF NothingForgotten
    <2>3. Queued(x)' = Queued(x) /\ CarriesLatest(queue, x)' = CarriesLatest(queue, x)
      BY <1>1 DEF Queued, CarriesLatest
    <2>4. CASE d \in InFlight(x)
      <3>1. InFlight(x)' = {} /\ InFlight(x) = {d}
        BY <2>1, <2>4, <1>5
      <3>2. ~Queued(x) => Written(x).value = latest[x]
        BY <2>2, <2>4, <3>1, <1>4 DEF LatestIsSomewhere, CarriesLatest
      <3>3. cached'[x] = Written(x).value
        BY <2>4, <1>3
      <3> QED
        BY <2>2, <2>3, <3>1, <3>2, <3>3, <1>1 DEF LatestIsSomewhere
    <2>5. CASE d \notin InFlight(x)
      <3>1. InFlight(x)' = InFlight(x) /\ cached'[x] = cached[x]
        BY <2>5, <1>3, <1>5
      <3>2. \A e \in Drainers : InFlight(x)' = {e} => batch'[e] = batch[e]
        BY <2>5, <3>1, <1>5
      <3> QED
        BY <2>2, <2>3, <3>1, <3>2, <1>1 DEF LatestIsSomewhere, CarriesLatest
    <2> QED
      BY <2>4, <2>5
  <1>11. NothingForgotten'
    BY <1>1, <1>10 DEF NothingForgotten
  <1> QED
    BY <1>5, <1>8, <1>9, <1>11 DEF Ordered

\* A batch that is not written is lost, and the keys it had are counted.
LEMMA DrainFailsKeeps ==
    ASSUME Ordered, NEW d \in Drainers, DrainFails(d)
    PROVE  Ordered'
  <1>0. WellShaped /\ PositionsFindTheirJobs /\ OneJobPerKey /\ NothingForgotten
    BY DEF Ordered
  <1>1. /\ batch' = [batch EXCEPT ![d] = <<>>] /\ AfterWrite(d)
        /\ UNCHANGED <<started, queue, positions, head, cached, through, clock, latest, raced>>
        /\ lost' = [k \in Keys |-> lost[k] \/ d \in InFlight(k)]
    BY DEF DrainFails, shared
  <1>2. /\ pc' \in [Drainers -> {"off", "loop", "next", "last"} \cup Writing]
        /\ batch' \in [Drainers -> Seq(Job)] /\ OneJobPerKey'
        /\ \A e \in Drainers \ {d} : batch'[e] = batch[e]
        /\ \A x : InFlight(x)' = InFlight(x) \ {d}
    BY <1>0, <1>1, BatchGone
  <1>3. lost' \in [Keys -> BOOLEAN]
    <2>1. \A k \in Keys : (lost[k] \/ d \in InFlight(k)) \in BOOLEAN
      BY <1>0 DEF WellShaped
    <2> QED
      BY <2>1, <1>1
  <1>4. WellShaped'
    BY <1>0, <1>1, <1>2, <1>3 DEF WellShaped
  <1>5. PositionsFindTheirJobs'
    BY <1>0, <1>1 DEF PositionsFindTheirJobs, Queued
  <1>6. ASSUME NEW x \in Keys, ~raced[x], ~lost'[x] PROVE LatestIsSomewhere(x)'
    <2>1. ~lost[x] /\ d \notin InFlight(x)
      BY <1>1, <1>6
    <2>2. LatestIsSomewhere(x)
      BY <2>1, <1>0, <1>6 DEF NothingForgotten
    <2>3. InFlight(x)' = InFlight(x)
      BY <2>1, <1>2
    <2>4. \A e \in Drainers : InFlight(x)' = {e} => batch'[e] = batch[e]
      BY <2>1, <2>3, <1>2
    <2> QED
      BY <2>2, <2>3, <2>4, <1>1 DEF LatestIsSomewhere, CarriesLatest, Queued
  <1>7. NothingForgotten'
    BY <1>1, <1>6 DEF NothingForgotten
  <1> QED
    BY <1>2, <1>4, <1>5, <1>7 DEF Ordered
\* Every step of every thread and caller keeps the invariant.
LEMMA OrderedStep ==
    ASSUME Ordered, [Next]_vars
    PROVE  Ordered'
  <1>0. WellShaped
    BY DEF Ordered
  <1>1. ASSUME NEW k \in Keys, SubmitRejected(k) PROVE Ordered'
    <2>1. clock' \in 1..MaxWrites /\ clock' \in 0..MaxWrites
      BY <1>0, <1>1, TickCounts DEF SubmitRejected
    <2>2. through' \in Job
      BY <1>1, <2>1 DEF SubmitRejected, Job
    <2>3. UNCHANGED <<started, queue, positions, head, cached, pc, batch, latest, raced, lost>>
      BY <1>1 DEF SubmitRejected, shared, threads, history
    <2> QED
      BY <1>0, <2>1, <2>2, <2>3, QuietKeeps DEF WellShaped
  <1>2. ASSUME FlushStart PROVE Ordered'
    <2>1. /\ pc' = [pc EXCEPT ![Flusher] = "flush"] /\ pc[Flusher] = "off" /\ Pop(Flusher, Len(queue))
          /\ UNCHANGED <<started, cached, through, clock, latest, raced, lost>>
      BY <1>2 DEF FlushStart, history
    <2>2. Flusher \in Drainers /\ Len(queue) \in Nat /\ "flush" \in Writing /\ "off" \notin Writing
      BY <1>0 DEF Drainers, WellShaped, Writing
    <2> QED
      BY <2>1, <2>2, DrainKeeps
  <1>3. ASSUME NEW w \in Workers, WorkerLoop(w) PROVE Ordered'
    <2>1. w \in Drainers
      BY DEF Drainers
    <2>2. /\ pc' = [pc EXCEPT ![w] = IF stop[w] THEN "last" ELSE "next"] /\ pc[w] = "loop"
          /\ UNCHANGED <<started, queue, positions, head, cached, batch, through, clock, latest, raced, lost>>
      BY <1>3 DEF WorkerLoop, shared, bounds, history
    <2>3. pc' \in [Drainers -> {"off", "loop", "next", "last"} \cup Writing]
      BY <1>0, <2>1, <2>2 DEF WellShaped
    <2>4. \A d \in Drainers : pc'[d] \in Writing \/ pc[d] \notin Writing
      BY <1>0, <2>1, <2>2 DEF WellShaped, Writing
    <2> QED
      BY <1>0, <2>2, <2>3, <2>4, QuietKeeps DEF WellShaped
  <1>4. ASSUME NEW w \in Workers, WorkerDrain(w) PROVE Ordered'
    <2>1. w \in Drainers /\ pc[w] \in {"next", "last"} /\ pc[w] \notin Writing
      BY <1>4 DEF Drainers, WorkerDrain, Writing
    <2>2. UNCHANGED <<started, cached, through, clock, latest, raced, lost>>
      BY <1>4 DEF WorkerDrain, bounds, history
    <2>3. CASE started
      <3> DEFINE p == IF pc[w] = "next" THEN "write" ELSE "lastWrite"
      <3>1. Pop(w, Round) /\ pc' = [pc EXCEPT ![w] = p] /\ p \in Writing
        BY <1>4, <2>3 DEF WorkerDrain, Writing
      <3> HIDE DEF p
      <3> QED
        BY <2>1, <2>2, <3>1, DrainKeeps, WritebackAssumption
    <2>4. CASE ~started
      <3>1. /\ pc' = [pc EXCEPT ![w] = IF @ = "next" THEN "loop" ELSE "off"]
            /\ UNCHANGED <<queue, positions, head, batch>>
        BY <1>4, <2>4 DEF WorkerDrain
      <3>2. pc' \in [Drainers -> {"off", "loop", "next", "last"} \cup Writing]
        BY <1>0, <2>1, <3>1 DEF WellShaped
      <3>3. \A d \in Drainers : pc'[d] \in Writing \/ pc[d] \notin Writing
        BY <1>0, <2>1, <3>1 DEF WellShaped, Writing
      <3> QED
        BY <1>0, <2>2, <3>1, <3>2, <3>3, QuietKeeps DEF WellShaped
    <2> QED
      BY <2>3, <2>4, <1>0 DEF WellShaped
  <1>5. ASSUME NEW w \in Workers, StartWorker(w) PROVE Ordered'
    <2>1. w \in Drainers
      BY DEF Drainers
    <2>2. /\ pc' = [pc EXCEPT ![w] = "loop"] /\ pc[w] = "off"
          /\ UNCHANGED <<started, queue, positions, head, cached, batch, through, clock, latest, raced, lost>>
      BY <1>5 DEF StartWorker, shared, history
    <2>3. pc' \in [Drainers -> {"off", "loop", "next", "last"} \cup Writing]
      BY <1>0, <2>1, <2>2 DEF WellShaped
    <2>4. \A d \in Drainers : pc'[d] \in Writing \/ pc[d] \notin Writing
      BY <1>0, <2>1, <2>2 DEF WellShaped, Writing
    <2> QED
      BY <1>0, <2>2, <2>3, <2>4, QuietKeeps DEF WellShaped
  <1>6. ASSUME \/ StopWorker(FALSE) \/ StopWorker(TRUE) \/ StopWorkerJoined
               \/ StopCache \/ StartCache \/ UNCHANGED vars
        PROVE  Ordered'
    <2>1. UNCHANGED <<queue, positions, head, cached, pc, batch, through, clock, latest, raced, lost>>
      BY <1>6 DEF StopWorker, StopWorkerJoined, StopCache, StartCache, vars, shared, threads, bounds, history
    <2>2. started' \in BOOLEAN
      BY <1>0, <1>6 DEF StopWorker, StopWorkerJoined, StopCache, StartCache, vars, shared, WellShaped
    <2> QED
      BY <1>0, <2>1, <2>2, QuietKeeps DEF WellShaped
  <1>7. \A w \in Workers : w \in Drainers
    BY DEF Drainers
  <1>8. Flusher \in Drainers
    BY DEF Drainers
  <1> QED
    BY <1>1, <1>2, <1>3, <1>4, <1>5, <1>6, <1>7, <1>8, SubmitKeeps, PutKeeps, WriteThroughKeeps,
       ClearKeeps, DrainWriteKeeps, DrainFailsKeeps DEF Next, WorkerStep

\* An empty queue, and nothing written or taken yet.
LEMMA OrderedInit == ASSUME Init PROVE Ordered
  <1>1. queue = <<>> /\ DOMAIN queue = {} /\ \A d \in Drainers : batch[d] = <<>> /\ DOMAIN batch[d] = {}
    BY DEF Init
  <1>2. WellShaped
    <2>1. queue \in Seq(Job) /\ Len(queue) <= Limit /\ batch \in [Drainers -> Seq(Job)]
      BY WritebackAssumption DEF Init
    <2> QED
      BY <2>1, WritebackAssumption DEF Init, WellShaped
  <1>3. \A k \in Keys : ~Queued(k) /\ InFlight(k) = {} /\ cached[k] = latest[k]
    BY <1>1 DEF Queued, InFlight, Init
  <1>4. PositionsFindTheirJobs
    BY <1>3 DEF PositionsFindTheirJobs, Init
  <1>5. OneJobPerKey
    BY <1>1 DEF OneJobPerKey
  <1>6. NothingForgotten
    BY <1>3 DEF NothingForgotten, LatestIsSomewhere
  <1> QED
    BY <1>2, <1>4, <1>5, <1>6 DEF Ordered

\* The inductive invariant of the writeback queue holds in every behaviour.
THEOREM WritebackIsOrdered == Spec => []Ordered
  <1>1. Init => Ordered
    BY OrderedInit
  <1>2. Ordered /\ [Next]_vars => Ordered'
    BY OrderedStep
  <1> QED
    BY <1>1, <1>2, PTL DEF Spec

\* The queue stays within max_async_writeback_queue and holds jobs, as the batches do.
THEOREM WritebackTypeCorrect == Spec => []TypeOK
  <1>1. Ordered => TypeOK
    BY DEF Ordered, WellShaped, TypeOK
  <1> QED
    BY <1>1, WritebackIsOrdered, PTL

\* positions[k] - head is where the only queued job of k is, after any number of
\* drains, clears and coalesced submits.
THEOREM PositionsAreRight == Spec => []PositionsFindTheirJobs
  <1>1. Ordered => PositionsFindTheirJobs
    BY DEF Ordered
  <1> QED
    BY <1>1, WritebackIsOrdered, PTL

\* With nothing pending for a key, reads see its last call, unless that call
\* overtook an older job of the key or a batch with it was lost.
THEOREM LastCallIsSeen == Spec => []LastCallWins
  <1>1. Ordered => LastCallWins
    BY DEF Ordered, NothingForgotten, LatestIsSomewhere, LastCallWins
  <1> QED
    BY <1>1, WritebackIsOrdered, PTL
=============================================================================
