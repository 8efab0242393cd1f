------------------------------ MODULE Writeback ------------------------------
(***************************************************************************)
(* Asynchronous writeback: a bounded queue of jobs under the cache's lock,  *)
(* at most one registered worker thread, and callers that submit, flush,    *)
(* put, invalidate, clear, stop and start. A drain takes its jobs under the *)
(* lock, releases it, and writes them in a put_batch of its own, so several *)
(* drains (a stopped worker finishing, its successor, a flush) overlap.     *)
(*                                                                         *)
(* A write is its number: cached[k] is the number of the call whose effect  *)
(* is visible, latest[k] that of the last call about k that was accepted.   *)
(***************************************************************************)
EXTENDS Integers, Sequences, FiniteSets, SequencesExt

CONSTANTS Keys, Workers, Flusher, None,
          Limit,        \* max_async_writeback_queue
          Round,        \* max_jobs_per_round
          MaxWrites, MaxStarts, MaxFailures   \* bounds

ASSUME WritebackAssumption ==
    /\ None \notin Nat /\ None \notin Workers \cup {Flusher} /\ Flusher \notin Workers
    /\ Limit \in Nat /\ Round \in Nat
    /\ MaxWrites \in Nat /\ MaxStarts \in Nat /\ MaxFailures \in Nat

VARIABLES started, queue, positions, head, cached,
          slot,         \* async_writeback_worker: the registered worker
          stop,         \* stop[w]: the flag the worker polls
          pc, batch,    \* pc[d], batch[d]: where a drainer is, the jobs it took
          joining,      \* the worker a stop is joining
          closing,      \* the stop is that of the whole cache
          through,      \* a rejected job its caller is about to write itself
          clock, starts, failures, latest, raced, lost

Drainers == Workers \cup {Flusher}
shared == <<started, queue, positions, head, cached>>
threads == <<slot, stop, pc, batch, joining, closing>>
history == <<latest, raced, lost>>
bounds == <<clock, starts, failures>>
vars == <<shared, threads, through, bounds, history>>

Job == [key: Keys, value: 1..MaxWrites]

Init == /\ started = TRUE
        /\ queue = <<>> /\ positions = [k \in Keys |-> None] /\ head = 0
        /\ cached = [k \in Keys |-> 0]
        /\ slot = None /\ stop = [w \in Workers |-> FALSE]
        /\ pc = [d \in Drainers |-> "off"] /\ batch = [d \in Drainers |-> <<>>]
        /\ joining = None /\ closing = FALSE /\ through = None
        /\ clock = 0 /\ starts = 0 /\ failures = 0
        /\ latest = [k \in Keys |-> 0]
        /\ raced = [k \in Keys |-> FALSE] /\ lost = [k \in Keys |-> FALSE]

InFlight(k) == {d \in Drainers : \E i \in DOMAIN batch[d] : batch[d][i].key = k}
Queued(k) == \E i \in DOMAIN queue : queue[i].key = k

\* Fault: the value that was queued first stays.
KeepQueued(q, i, v) == q

Coalesce(q, i, v) == [q EXCEPT ![i].value = v]

\* One entry of enqueue_async_writeback_batch.
Enqueue(k, v) ==
    IF positions[k] # None
    THEN /\ queue' = Coalesce(queue, positions[k] - head + 1, v)
         /\ UNCHANGED positions
    ELSE /\ Len(queue) < Limit
         /\ positions' = [positions EXCEPT ![k] = head + Len(queue)]
         /\ queue' = Append(queue, [key |-> k, value |-> v])

\* The number of a new call.
Tick == clock < MaxWrites /\ clock' = clock + 1

\* submit_async_writeback_or_write_through, the part under the lock.
Submit(k) ==
    /\ started /\ through = None /\ Tick
    /\ Enqueue(k, clock')
    /\ latest' = [latest EXCEPT ![k] = clock']
    /\ UNCHANGED <<started, head, cached, threads, through, starts, failures, raced, lost>>

\* Backpressure: the caller gets the job back and writes it itself, later.
SubmitRejected(k) ==
    /\ started /\ through = None /\ Tick
    /\ positions[k] = None /\ Len(queue) >= Limit
    /\ through' = [key |-> k, value |-> clock']
    /\ UNCHANGED <<shared, threads, starts, failures, history>>

\* A write overtakes when an older job of its key is queued or in another drain.
Overtakes(k, d) == InFlight(k) \ {d} # {} \/ Queued(k)

WriteThrough ==
    /\ through # None
    /\ IF started
       THEN /\ cached' = [cached EXCEPT ![through.key] = through.value]
            /\ latest' = [latest EXCEPT ![through.key] = IF @ > through.value THEN @ ELSE through.value]
            /\ raced' = [raced EXCEPT ![through.key] = @ \/ Overtakes(through.key, None)
                                                          \/ latest[through.key] > through.value]
       ELSE UNCHANGED <<cached, latest, raced>>
    /\ through' = None
    /\ UNCHANGED <<started, queue, positions, head, threads, bounds, lost>>

\* put and invalidate write at once; they do not look at the queue.
Put(k) ==
    /\ started /\ Tick
    /\ cached' = [cached EXCEPT ![k] = clock']
    /\ latest' = [latest EXCEPT ![k] = clock']
    /\ raced' = [raced EXCEPT ![k] = @ \/ Overtakes(k, None)]
    /\ UNCHANGED <<started, queue, positions, head, threads, through, starts, failures, lost>>

\* clear_all_locked also empties the queue; jobs a drain has taken are not in it.
Clear ==
    /\ started /\ Tick
    /\ queue' = <<>> /\ positions' = [k \in Keys |-> None] /\ head' = 0
    /\ cached' = [k \in Keys |-> clock']
    /\ latest' = [k \in Keys |-> clock']
    /\ raced' = [k \in Keys |-> raced[k] \/ InFlight(k) # {}]
    /\ UNCHANGED <<started, threads, through, starts, failures, lost>>

-----------------------------------------------------------------------------
Popped(n) == {queue[i].key : i \in 1..n}

\* Fault: the keys that were taken still have a place in the queue.
PositionsKept(n) == positions

PositionsAfter(n) == [k \in Keys |-> IF k \in Popped(n) THEN None ELSE positions[k]]

\* drain_async_writeback under the lock: at most n jobs.
Pop(d, n) ==
    LET m == IF n < Len(queue) THEN n ELSE Len(queue)
    IN /\ batch' = [batch EXCEPT ![d] = SubSeq(queue, 1, m)]
       /\ positions' = PositionsAfter(m)
       /\ queue' = SubSeq(queue, m + 1, Len(queue))
       /\ head' = head + m

\* Fault: the flag is not read.
LoopIgnoringStop(w) ==
    /\ pc[w] = "loop"
    /\ pc' = [pc EXCEPT ![w] = "next"]
    /\ UNCHANGED <<shared, slot, stop, batch, joining, closing, through, bounds, history>>

\* The worker reads its flag; the last drain comes after the flag is up.
WorkerLoop(w) ==
    /\ pc[w] = "loop"
    /\ pc' = [pc EXCEPT ![w] = IF stop[w] THEN "last" ELSE "next"]
    /\ UNCHANGED <<shared, slot, stop, batch, joining, closing, through, bounds, history>>

WorkerDrain(w) ==
    /\ pc[w] \in {"next", "last"}
    /\ IF started
       THEN /\ Pop(w, Round)
            /\ pc' = [pc EXCEPT ![w] = IF @ = "next" THEN "write" ELSE "lastWrite"]
       ELSE /\ pc' = [pc EXCEPT ![w] = IF @ = "next" THEN "loop" ELSE "off"]
            /\ UNCHANGED <<queue, positions, head, batch>>
    /\ UNCHANGED <<started, cached, slot, stop, joining, closing, through, bounds, history>>

\* flush_async_writeback reads the length, then drains that many.
FlushStart ==
    /\ started /\ pc[Flusher] = "off" /\ starts < MaxStarts
    /\ starts' = starts + 1
    /\ pc' = [pc EXCEPT ![Flusher] = "flush"]
    /\ Pop(Flusher, Len(queue))
    /\ UNCHANGED <<started, cached, slot, stop, joining, closing, through, clock, failures, history>>

\* Fault: the worker ends with its first round.
EndsAfterWrite(d) == pc' = [pc EXCEPT ![d] = "off"]

AfterWrite(d) == pc' = [pc EXCEPT ![d] = IF @ = "write" THEN "loop" ELSE "off"]

\* put_batch_sized of what the drain took, one call under the lock.
DrainWrite(d) ==
    /\ pc[d] \in {"write", "lastWrite", "flush"}
    /\ started \/ batch[d] = <<>>
    /\ cached' = [k \in Keys |->
           IF d \in InFlight(k) THEN (CHOOSE i \in Job : i.key = k /\ \E j \in DOMAIN batch[d] : batch[d][j] = i).value
           ELSE cached[k]]
    /\ raced' = [k \in Keys |-> raced[k] \/ (d \in InFlight(k) /\ InFlight(k) # {d})]
    /\ batch' = [batch EXCEPT ![d] = <<>>]
    /\ AfterWrite(d)
    /\ UNCHANGED <<started, queue, positions, head, slot, stop, joining, closing, through, bounds, latest, lost>>

\* The put fails, or the cache was stopped meanwhile: the jobs are gone.
DrainFails(d) ==
    /\ pc[d] \in {"write", "lastWrite", "flush"} /\ batch[d] # <<>>
    /\ IF started THEN failures < MaxFailures /\ failures' = failures + 1 ELSE UNCHANGED failures
    /\ lost' = [k \in Keys |-> lost[k] \/ d \in InFlight(k)]
    /\ batch' = [batch EXCEPT ![d] = <<>>]
    /\ AfterWrite(d)
    /\ UNCHANGED <<shared, slot, stop, joining, closing, through, clock, starts, latest, raced>>

-----------------------------------------------------------------------------
StartWorker(w) ==
    /\ slot = None /\ pc[w] = "off" /\ joining # w /\ starts < MaxStarts
    /\ starts' = starts + 1
    /\ slot' = w
    /\ stop' = [stop EXCEPT ![w] = FALSE]
    /\ pc' = [pc EXCEPT ![w] = "loop"]
    /\ UNCHANGED <<shared, batch, joining, closing, through, clock, failures, history>>

\* The slot is empty from here on: a new worker may start before the old one ends.
\* stop() of the cache begins with this, registered worker or not.
StopWorker(close) ==
    /\ joining = None /\ ~closing /\ (slot # None \/ (close /\ started))
    /\ stop' = [w \in Workers |-> stop[w] \/ w = slot]
    /\ joining' = slot
    /\ slot' = None
    /\ closing' = close
    /\ UNCHANGED <<shared, pc, batch, through, bounds, history>>

StopWorkerJoined ==
    /\ joining # None /\ pc[joining] = "off"
    /\ joining' = None
    /\ UNCHANGED <<shared, slot, stop, pc, batch, closing, through, bounds, history>>

\* The rest of stop(); a worker started in between keeps running.
StopCache ==
    /\ closing /\ joining = None
    /\ started' = FALSE
    /\ closing' = FALSE
    /\ UNCHANGED <<queue, positions, head, cached, slot, stop, pc, batch, joining, through, bounds, history>>

StartCache ==
    /\ ~started /\ starts < MaxStarts
    /\ starts' = starts + 1
    /\ started' = TRUE
    /\ UNCHANGED <<queue, positions, head, cached, threads, through, clock, failures, history>>

WorkerStep(w) == WorkerLoop(w) \/ WorkerDrain(w) \/ DrainWrite(w) \/ DrainFails(w)

Next ==
    \/ \E k \in Keys : Submit(k) \/ SubmitRejected(k) \/ Put(k)
    \/ WriteThrough \/ Clear
    \/ FlushStart \/ DrainWrite(Flusher) \/ DrainFails(Flusher)
    \/ \E w \in Workers : WorkerStep(w) \/ StartWorker(w)
    \/ StopWorker(FALSE) \/ StopWorker(TRUE) \/ StopWorkerJoined \/ StopCache \/ StartCache

\* The threads run; callers need not do anything.
Fairness == /\ \A w \in Workers : WF_vars(WorkerStep(w))
            /\ WF_vars(StopWorkerJoined) /\ WF_vars(StopCache)

Spec == Init /\ [][Next]_vars /\ Fairness

TypeOK == /\ queue \in Seq(Job) /\ Len(queue) <= Limit
          /\ \A d \in Drainers : batch[d] \in Seq(Job)

\* The sequence numbers find their jobs, whatever was popped, cleared or coalesced
\* since: positions[k] - head is where k's only job is, and None when it has none.
PositionsFindTheirJobs ==
    \A k \in Keys :
        IF positions[k] = None THEN ~Queued(k)
        ELSE /\ positions[k] - head + 1 \in DOMAIN queue
             /\ \A i \in DOMAIN queue : queue[i].key = k <=> i = positions[k] - head + 1

\* With nothing pending the last call about a key is the one its reads see, unless
\* it overtook an older job of the key (two drains of one key, a write-through or
\* a put beside the queue) or a batch failed.
LastCallWins ==
    \A k \in Keys :
        ~Queued(k) /\ InFlight(k) = {} /\ through = None /\ ~raced[k] /\ ~lost[k]
            => cached[k] = latest[k]

\* A worker that is registered takes every queued job unless it or the cache is
\* stopped first.
QueuedJobsAreTaken ==
    \A k \in Keys : Queued(k) /\ slot # None ~> ~Queued(k) \/ slot = None \/ ~started

\* A stop of the worker returns: the last drain is a single round.
StopReturns == joining # None \/ closing ~> joining = None /\ ~closing
=============================================================================
