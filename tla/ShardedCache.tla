---------------------------- MODULE ShardedCache ----------------------------
(***************************************************************************)
(* ShardedMultiLayerCache: independent caches, a key always in the one its  *)
(* hash names. A batch is split into items. Below the fan-out threshold the *)
(* caller works through them in order and an error ends the batch; above it *)
(* every shard has a thread, all of them finish, and the first error is the *)
(* answer. There is no lock over the shards, so other calls run in between. *)
(* What one shard does is one step here: TieredCache, PinTable and          *)
(* Writeback open it up.                                                    *)
(*                                                                         *)
(* possible, owned, leaked, dropped and asked are history: what a running   *)
(* call may answer, the pins callers hold, those of failed batches nobody   *)
(* can give back, keys whose pin entry went while they were held, and the   *)
(* last capacity and budget set while no other call was setting one.        *)
(***************************************************************************)
EXTENDS Integers, Sequences, FiniteSets, FiniteSetsExt, SequencesExt, TLC

CONSTANTS Keys, Values, None, Callers,
          ShardCount, HashOf,       \* HashOf[k]: the key's hash
          Batches,                  \* batches of keys callers pass
          FanoutThreshold, ReadFanoutThreshold, QueueLimit,
          Groups,                   \* keys of a shard id, slot or segment
          Totals,                   \* capacities and budgets callers set
          MaxCalls                  \* bound on the calls made

VARIABLES store, up, pins, queue, capacity, budget, call,
          calls, possible, owned, leaked, dropped, asked

shardState == <<store, up, pins, queue, capacity, budget>>
history == <<calls, possible, owned, leaked, dropped, asked>>
vars == <<shardState, call, history>>

Monus(a, b) == IF a > b THEN a - b ELSE 0

Shards == 0..(ShardCount - 1)
ShardIndex(k) == HashOf[k] % ShardCount

\* Fault: the remainder of the division is given to nobody.
SplitEvenly(total, s) == total \div ShardCount

SplitCapacity(total, s) == total \div ShardCount + (IF s < total % ShardCount THEN 1 ELSE 0)

Unlimited == 0
NoAdmission == -1

\* Fault: a zero share is set as it is.
PlainShare(total, s) == SplitCapacity(total, s)

\* A zero share of a budget closes the shard: zero itself would mean no limit.
BudgetShare(total, s) ==
    IF total # 0 /\ SplitCapacity(total, s) = 0 THEN NoAdmission ELSE SplitCapacity(total, s)

NoCall == [op |-> "none", keys |-> <<>>, arg |-> None, fan |-> FALSE, todo |-> <<>>, got |-> <<>>, ok |-> TRUE]

Init ==
    /\ store = [s \in Shards |-> [k \in Keys |-> None]]
    /\ up = [s \in Shards |-> TRUE]
    /\ pins = [s \in Shards |-> [k \in Keys |-> 0]]
    /\ queue = [s \in Shards |-> [k \in Keys |-> None]]
    /\ \E total \in Totals : capacity = [s \in Shards |-> SplitCapacity(total, s)] /\ asked = [capacity |-> total, budget |-> Unlimited]
    /\ budget = [s \in Shards |-> Unlimited]
    /\ call = [c \in Callers |-> NoCall]
    /\ calls = 0 /\ possible = [c \in Callers |-> [k \in Keys |-> {}]]
    /\ owned = [k \in Keys |-> 0] /\ leaked = [k \in Keys |-> 0] /\ dropped = {}

-----------------------------------------------------------------------------
\* The batch as items, each one call of one shard.
PositionsOf(keys, s) == {i \in DOMAIN keys : ShardIndex(keys[i]) = s}
Item(s, at) == [shard |-> s, at |-> at]
GroupsByShard(keys) ==
    SelectSeq([i \in 1..ShardCount |-> Item(i - 1, PositionsOf(keys, i - 1))], LAMBDA it : it.at # {})
OneByOne(keys) ==
    LET Ones(s) == [j \in 1..Cardinality(PositionsOf(keys, s)) |->
                       Item(s, {SetToSortSeq(PositionsOf(keys, s), <)[j]})]
    IN FlattenSeq([i \in 1..ShardCount |-> Ones(i - 1)])
\* Fault: only the first position of a key is remembered.
ByFirst(keys) ==
    LET firsts == {i \in DOMAIN keys : \A j \in 1..(i - 1) : keys[j] # keys[i]}
    IN [n \in 1..Cardinality(firsts) |-> LET i == SetToSortSeq(firsts, <)[n] IN Item(ShardIndex(keys[i]), {i})]

\* coalesce_batch_positions_borrowed: one item per distinct key, in order.
ByKey(keys) ==
    LET firsts == {i \in DOMAIN keys : \A j \in 1..(i - 1) : keys[j] # keys[i]}
    IN [n \in 1..Cardinality(firsts) |->
          LET i == SetToSortSeq(firsts, <)[n]
          IN Item(ShardIndex(keys[i]), {j \in DOMAIN keys : keys[j] = keys[i]})]
SingleShard(keys) == \A i \in DOMAIN keys : ShardIndex(keys[i]) = ShardIndex(keys[1])
AllShards == [i \in 1..ShardCount |-> Item(i - 1, {})]

Reads == {"get", "acquire"}
PerEntry == {"pin", "unpin", "insertPinned"}
FansOut(op, keys) == Len(keys) >= (IF op \in Reads THEN ReadFanoutThreshold ELSE FanoutThreshold)
ItemsOf(op, keys) ==
    CASE op \in PerEntry                                        -> OneByOne(keys)
      [] op = "submit"                                          -> [i \in DOMAIN keys |-> Item(ShardIndex(keys[i]), {i})]
      [] op = "acquire" /\ ~SingleShard(keys) /\ ~FansOut(op, keys) -> ByKey(keys)
      [] OTHER                                                  -> GroupsByShard(keys)

CountIn(keys, k) == Cardinality({i \in DOMAIN keys : keys[i] = k})
GivesBack == {"release", "unpin"}
Pinning == {"acquire", "pin", "insertPinned"}

Setting == \E c \in Callers : call[c].op \in {"setCapacity", "setBudget"}

\* A call over keys. Handles to give back move from their owner to the call.
Begin(c, op, keys, v) ==
    /\ call[c] = NoCall /\ calls < MaxCalls /\ calls' = calls + 1
    /\ op \in GivesBack => \A k \in Keys : CountIn(keys, k) <= owned[k]
    /\ owned' = IF op \in GivesBack THEN [k \in Keys |-> owned[k] - CountIn(keys, k)] ELSE owned
    /\ call' = [call EXCEPT ![c] =
                  [op |-> op, keys |-> keys, arg |-> v, ok |-> TRUE,
                   fan |-> op # "submit" /\ ~SingleShard(keys) /\ FansOut(op, keys),
                   todo |-> ItemsOf(op, keys),
                   got |-> [i \in DOMAIN keys |-> IF op \in GivesBack THEN v ELSE None]]]
    /\ possible' = [possible EXCEPT ![c] = [k \in Keys |-> {store[ShardIndex(k)][k]}]]
    /\ UNCHANGED <<shardState, leaked, dropped, asked>>

\* A call over the whole cache: start, stop, set_budget in order, the others on
\* a thread per shard.
BeginAll(c, op, total) ==
    /\ call[c] = NoCall /\ calls < MaxCalls /\ calls' = calls + 1
    /\ call' = [call EXCEPT ![c] = [NoCall EXCEPT !.op = op, !.arg = total, !.todo = AllShards,
                                      !.fan = op \notin {"start", "stop", "setBudget"}]]
    /\ asked' = CASE Setting                -> [asked EXCEPT !.capacity = None, !.budget = None]
                  [] op = "setCapacity"     -> [asked EXCEPT !.capacity = total]
                  [] op = "setBudget"       -> [asked EXCEPT !.budget = total]
                  [] OTHER                  -> asked
    /\ UNCHANGED <<shardState, possible, owned, leaked, dropped>>

-----------------------------------------------------------------------------
\* Which item comes next: the first, or with threads the first of some shard.
MayRun(c, n) ==
    LET todo == call[c].todo
    IN n = 1 \/ (call[c].fan /\ \A j \in 1..(n - 1) : todo[j].shard # todo[n].shard)

\* A failed item ends a batch in order; with threads it ends its shard's part.
After(c, n, fine) ==
    LET todo == call[c].todo
    IN CASE fine -> RemoveAt(todo, n)
         [] ~fine /\ call[c].fan -> SelectSeq(todo, LAMBDA it : it.shard # todo[n].shard)
         [] OTHER -> <<>>

Noticed(s, new) == [c \in Callers |-> [k \in Keys |->
                      IF ShardIndex(k) = s THEN possible[c][k] \cup {new[k]} ELSE possible[c][k]]]
Stored(s, new) == store' = [store EXCEPT ![s] = new] /\ possible' = Noticed(s, new)

\* Fault: the copies of a handle for the other positions take no pin.
PinnedOnce(keys, at, k) == IF \E i \in at : keys[i] = k THEN 1 ELSE 0

PinsTaken(keys, at, k) == Cardinality({i \in at : keys[i] = k})

\* The keys a shard's queue takes: those it has, and new ones while there is room.
Enqueued(s, asks) ==
    LET old  == {k \in asks : queue[s][k] # None}
        room == Monus(QueueLimit, Cardinality({k \in Keys : queue[s][k] # None}))
        most == IF room < Cardinality(asks \ old) THEN room ELSE Cardinality(asks \ old)
    IN IF up[s] THEN {old \cup new : new \in kSubset(most, asks \ old)} ELSE {{}}

\* Keys whose pins go while somebody holds them.
Dropping(s, ks) == dropped' = dropped \cup {k \in ks : pins[s][k] > 0}

\* One item of call c: its shard, the keys it asks for, and how the call goes on.
S(c, n) == call[c].todo[n].shard
At(c, n) == call[c].todo[n].at
Asks(c, n) == {call[c].keys[i] : i \in At(c, n)}
Runs(c, n, op) == call[c].op = op /\ MayRun(c, n)
Proceed(c, n, got, fine) ==
    call' = [call EXCEPT ![c].todo = After(c, n, fine), ![c].got = got, ![c].ok = @ /\ fine]
Got(c, n, f) == [i \in DOMAIN call[c].keys |-> IF i \in At(c, n) THEN f[call[c].keys[i]] ELSE call[c].got[i]]
All(x) == [k \in Keys |-> x]
With(s, ks, v) == [k \in Keys |-> IF k \in ks THEN v ELSE store[s][k]]
Taken(c, n) == [k \in Keys |-> PinsTaken(call[c].keys, At(c, n), k)]
NoPins(s, ks) == pins' = [pins EXCEPT ![s] = [k \in Keys |-> IF k \in ks THEN 0 ELSE @[k]]]
settings == <<up, capacity, budget, calls, owned, leaked, asked>>

Refused(c, n) ==
    /\ call[c].op \in {"put", "get", "acquire", "insertPinned", "remove", "submit"}
    /\ MayRun(c, n) /\ ~up[S(c, n)]
    /\ Proceed(c, n, call[c].got, FALSE)
    /\ UNCHANGED <<settings, store, pins, queue, possible, dropped>>

PutBatch(c, n) ==
    /\ Runs(c, n, "put") /\ up[S(c, n)]
    /\ Stored(S(c, n), With(S(c, n), Asks(c, n), call[c].arg))
    /\ Proceed(c, n, call[c].got, TRUE)
    /\ UNCHANGED <<settings, pins, queue, dropped>>

\* A pin entry goes with a key that is not cached.
RemoveBatch(c, n) ==
    LET s == S(c, n)
        gone == {k \in Asks(c, n) : store[s][k] = None}
    IN /\ Runs(c, n, "remove") /\ up[s]
       /\ Stored(s, With(s, Asks(c, n), None))
       /\ Dropping(s, gone) /\ NoPins(s, gone)
       /\ Proceed(c, n, call[c].got, TRUE)
       /\ UNCHANGED <<settings, queue>>

GetBatch(c, n) ==
    /\ Runs(c, n, "get") /\ up[S(c, n)]
    /\ Proceed(c, n, Got(c, n, store[S(c, n)]), TRUE)
    /\ UNCHANGED <<settings, store, pins, queue, possible, dropped>>

AcquireBatch(c, n) ==
    LET s == S(c, n)
    IN /\ Runs(c, n, "acquire") /\ up[s]
       /\ pins' = [pins EXCEPT ![s] = [k \in Keys |->
                      IF store[s][k] # None THEN @[k] + Taken(c, n)[k] ELSE @[k]]]
       /\ Proceed(c, n, Got(c, n, store[s]), TRUE)
       /\ UNCHANGED <<settings, store, queue, possible, dropped>>

InsertPinnedBatch(c, n) ==
    LET s == S(c, n)
    IN /\ Runs(c, n, "insertPinned") /\ up[s]
       /\ Stored(s, With(s, Asks(c, n), call[c].arg))
       /\ pins' = [pins EXCEPT ![s] = [k \in Keys |-> @[k] + Taken(c, n)[k]]]
       /\ Proceed(c, n, Got(c, n, All(call[c].arg)), TRUE)
       /\ UNCHANGED <<settings, queue, dropped>>

\* A stopped shard takes no pin, and does not say so.
PinBatch(c, n) ==
    LET s == S(c, n)
    IN /\ Runs(c, n, "pin")
       /\ IF up[s] THEN /\ pins' = [pins EXCEPT ![s] = [k \in Keys |-> @[k] + Taken(c, n)[k]]]
                        /\ Proceed(c, n, Got(c, n, All(call[c].arg)), TRUE)
                   ELSE Proceed(c, n, call[c].got, TRUE) /\ UNCHANGED pins
       /\ UNCHANGED <<settings, store, queue, possible, dropped>>

GiveBack(c, n) ==
    /\ pins' = [pins EXCEPT ![S(c, n)] = [k \in Keys |-> Monus(@[k], Taken(c, n)[k])]]
    /\ Proceed(c, n, Got(c, n, All(None)), TRUE)
    /\ UNCHANGED <<settings, store, queue, possible, dropped>>

UnpinBatch(c, n) == Runs(c, n, "unpin") /\ GiveBack(c, n)
ReleaseBatch(c, n) == Runs(c, n, "release") /\ GiveBack(c, n)

Queue(c, n, taken) ==
    queue' = [queue EXCEPT ![S(c, n)] = [k \in Keys |-> IF k \in taken THEN call[c].arg ELSE @[k]]]

\* What was rejected is the answer; the other shards are asked all the same.
EnqueueBatch(c, n) ==
    /\ Runs(c, n, "enqueue")
    /\ \E taken \in Enqueued(S(c, n), Asks(c, n)) :
         /\ Queue(c, n, taken)
         /\ call' = [call EXCEPT ![c].todo = After(c, n, TRUE), ![c].ok = @ /\ taken = Asks(c, n)]
    /\ UNCHANGED <<settings, store, pins, possible, dropped>>

\* What a full queue refuses is written through.
SubmitBatch(c, n) ==
    LET s == S(c, n)
    IN /\ Runs(c, n, "submit") /\ up[s]
       /\ \E taken \in Enqueued(s, Asks(c, n)) :
            /\ Queue(c, n, taken)
            /\ Stored(s, With(s, Asks(c, n) \ taken, call[c].arg))
       /\ Proceed(c, n, call[c].got, TRUE)
       /\ UNCHANGED <<settings, pins, dropped>>

-----------------------------------------------------------------------------
\* A shard that does not start ends the call; those before it stay up.
Start(c, n) ==
    /\ Runs(c, n, "start")
    /\ \E fine \in BOOLEAN : Proceed(c, n, <<>>, fine) /\ up' = [up EXCEPT ![S(c, n)] = @ \/ fine]
    /\ UNCHANGED <<store, pins, queue, capacity, budget, history>>

Stop(c, n) ==
    /\ Runs(c, n, "stop")
    /\ up' = [up EXCEPT ![S(c, n)] = FALSE] /\ Proceed(c, n, <<>>, TRUE)
    /\ UNCHANGED <<store, pins, queue, capacity, budget, history>>

\* remove_all and reset.
RemoveAll(c, n) ==
    LET s == S(c, n)
    IN /\ Runs(c, n, "removeAll")
       /\ Stored(s, All(None)) /\ Dropping(s, Keys) /\ NoPins(s, Keys)
       /\ queue' = [queue EXCEPT ![s] = All(None)]
       /\ Proceed(c, n, <<>>, TRUE)
       /\ UNCHANGED settings

\* invalidate_shard, invalidate_slot, invalidate_page_segment: every shard
\* removes the keys of the group it holds, pinned or not.
InvalidateGroup(c, n) ==
    LET s == S(c, n)
        gone == {k \in call[c].arg : store[s][k] # None}
    IN /\ Runs(c, n, "invalidate")
       /\ Stored(s, With(s, gone, None)) /\ Dropping(s, gone) /\ NoPins(s, gone)
       /\ Proceed(c, n, <<>>, TRUE)
       /\ UNCHANGED <<settings, queue>>

\* drain_async_writeback and flush_async_writeback.
Drain(c, n) ==
    LET s == S(c, n)
    IN /\ Runs(c, n, "drain")
       /\ IF up[s] THEN /\ Stored(s, [k \in Keys |-> IF queue[s][k] # None THEN queue[s][k] ELSE store[s][k]])
                        /\ queue' = [queue EXCEPT ![s] = All(None)]
                   ELSE UNCHANGED <<store, possible, queue>>
       /\ Proceed(c, n, <<>>, up[s])
       /\ UNCHANGED <<settings, pins, dropped>>

SetCapacity(c, n) ==
    /\ Runs(c, n, "setCapacity")
    /\ capacity' = [capacity EXCEPT ![S(c, n)] = SplitCapacity(call[c].arg, S(c, n))]
    /\ Proceed(c, n, <<>>, TRUE)
    /\ UNCHANGED <<store, up, pins, queue, budget, history>>

SetBudget(c, n) ==
    /\ Runs(c, n, "setBudget")
    /\ budget' = [budget EXCEPT ![S(c, n)] = BudgetShare(call[c].arg, S(c, n))]
    /\ Proceed(c, n, <<>>, TRUE)
    /\ UNCHANGED <<store, up, pins, queue, capacity, history>>

ShardStep(c, n) ==
    \/ Refused(c, n) \/ PutBatch(c, n) \/ RemoveBatch(c, n) \/ GetBatch(c, n) \/ AcquireBatch(c, n)
    \/ InsertPinnedBatch(c, n) \/ PinBatch(c, n) \/ UnpinBatch(c, n) \/ ReleaseBatch(c, n)
    \/ EnqueueBatch(c, n) \/ SubmitBatch(c, n)
    \/ Start(c, n) \/ Stop(c, n) \/ RemoveAll(c, n) \/ InvalidateGroup(c, n) \/ Drain(c, n)
    \/ SetCapacity(c, n) \/ SetBudget(c, n)

\* The answer: handles of a batch that succeeded go to the caller. Those of a
\* batch that failed are dropped, and nothing gives their pins back.
HandlesIn(c, k) ==
    IF call[c].op \in Pinning \cup GivesBack
    THEN Cardinality({i \in DOMAIN call[c].got : call[c].keys[i] = k /\ call[c].got[i] # None}) ELSE 0

Return(c) ==
    /\ call[c] # NoCall /\ call[c].todo = <<>>
    /\ IF call[c].ok THEN owned' = [k \in Keys |-> owned[k] + HandlesIn(c, k)] /\ UNCHANGED leaked
                     ELSE leaked' = [k \in Keys |-> leaked[k] + HandlesIn(c, k)] /\ UNCHANGED owned
    /\ call' = [call EXCEPT ![c] = NoCall]
    /\ possible' = [possible EXCEPT ![c] = [k \in Keys |-> {}]]
    /\ UNCHANGED <<shardState, calls, dropped, asked>>

\* A shard evicts what nobody pins.
Evict(k) ==
    LET s == ShardIndex(k)
    IN /\ store[s][k] # None /\ pins[s][k] = 0
       /\ Stored(s, [store[s] EXCEPT ![k] = None])
       /\ UNCHANGED <<up, pins, queue, capacity, budget, call, calls, owned, leaked, dropped, asked>>

KeyedOps == {"put", "get", "acquire", "insertPinned", "remove", "pin", "unpin", "release", "enqueue", "submit"}

Next ==
    \/ \E c \in Callers : Return(c)
    \/ \E c \in Callers, op \in KeyedOps, keys \in Batches, v \in Values : Begin(c, op, keys, v)
    \/ \E c \in Callers, op \in {"start", "stop", "removeAll", "drain"} : BeginAll(c, op, None)
    \/ \E c \in Callers, op \in {"setCapacity", "setBudget"}, total \in Totals : BeginAll(c, op, total)
    \/ \E c \in Callers, ks \in Groups : BeginAll(c, "invalidate", ks)
    \/ \E c \in Callers : \E n \in DOMAIN call[c].todo : ShardStep(c, n)
    \/ \E k \in Keys : Evict(k)

Spec == Init /\ [][Next]_vars
-----------------------------------------------------------------------------
\* What a batch read answers at a position is a value that key had during the
\* call, and positions that ask for one key get one answer.
BatchAnswersAreCurrent ==
    \A c \in Callers :
        call[c].op \in Reads /\ call[c].todo = <<>> /\ call[c].ok =>
            \A i, j \in DOMAIN call[c].keys :
                /\ call[c].got[i] \in possible[c][call[c].keys[i]]
                /\ call[c].keys[i] = call[c].keys[j] => call[c].got[i] = call[c].got[j]

\* Every pin of a key is some caller's, some running batch's, or one a failed
\* batch lost: each position of a batch has its own.
PinsHaveOwners ==
    \A k \in Keys \ dropped :
        pins[ShardIndex(k)][k] =
            owned[k] + leaked[k] + MapThenSumSet(LAMBDA c : HandlesIn(c, k), Callers)

\* Between calls that set them, shares add up to the total that was asked for,
\* and no shard is without a limit when one was asked for.
SharesAddUp ==
    ~Setting =>
        /\ asked.capacity # None => MapThenSumSet(LAMBDA s : capacity[s], Shards) = asked.capacity
        /\ asked.budget # None =>
             /\ MapThenSumSet(LAMBDA s : IF budget[s] = NoAdmission THEN 0 ELSE budget[s], Shards) = asked.budget
             /\ asked.budget # 0 => \A s \in Shards : budget[s] # Unlimited
=============================================================================
