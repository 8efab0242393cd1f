------------------------------ MODULE MultiSsd ------------------------------
(***************************************************************************)
(* StorageEngineMultiSsd: a file store per device, the device of a key      *)
(* chosen by hash among those attached, devices added and removed while it  *)
(* runs, and a process that may end inside any call. The engine is called   *)
(* under the cache's lock, so calls do not overlap. A put_batch writes its  *)
(* entries one by one; every other call is one step. A call that fails      *)
(* keeps its effect on the map of the device it stopped at, and leaves in   *)
(* that device's file all of it, nothing or (with TornWrites) a part. stop  *)
(* is called on an engine that runs; start and add_device change nothing    *)
(* when they answer false.                                                  *)
(*                                                                         *)
(* acked, unsure and past are history: what the last successful call left,  *)
(* what the unsuccessful ones since may have left, everything written.      *)
(***************************************************************************)
EXTENDS FileStore

CONSTANTS Devices,
          Hash,         \* Hash[k]: mur_mur_hash2 of the key
          TornWrites,   \* a write may stop half way
          MaxTrouble    \* bound on failures, crashes and changes of devices

\* There is a device to begin with, and keys hash to unsigned integers.
ASSUME DevicesAssumption == Devices # {} /\ Hash \in [Keys -> Nat] /\ MaxTrouble \in Nat

VARIABLES paths,        \* attached devices, in order
          initialized, store, trouble,
          batch,        \* batch[k]: what a running put_batch has yet to write
          acked, unsure, past

history == <<acked, unsure, past>>
vars == <<paths, initialized, store, trouble, batch, history>>

Init == /\ paths = <<CHOOSE d \in Devices : TRUE>>
        /\ initialized = FALSE
        /\ store = [d \in Devices |-> NewStore]
        /\ trouble = 0
        /\ batch = NoRecords
        /\ acked = NoRecords
        /\ unsure = [k \in Keys |-> {}]
        /\ past = [k \in Keys |-> {None}]

StorageIndex(k) == 1 + (Hash[k] % Len(paths))
DeviceOf(k) == paths[StorageIndex(k)]
KeysOn(ks, d) == {k \in ks : DeviceOf(k) = d}

Attached == ToSet(paths)
AllDown(st) == [d \in Devices |-> Down(st[d])]

\* Calls are answered: started, and a device is left.
Up == initialized /\ paths # <<>>

\* No put_batch is under way.
Idle == batch = NoRecords

\* What a read of k finds, or would find after a start.
Found(k) ==
    IF paths = <<>> THEN None
    ELSE IF initialized THEN store[DeviceOf(k)].records[k]
    ELSE (CHOOSE c \in Loads(store[DeviceOf(k)]) : TRUE)[k]

Acknowledge(new) ==
    /\ acked' = [k \in Keys |-> IF k \in DOMAIN new THEN new[k] ELSE acked[k]]
    /\ unsure' = [k \in Keys |-> IF k \in DOMAIN new THEN {} ELSE unsure[k]]
    /\ past' = [k \in Keys |-> IF k \in DOMAIN new THEN past[k] \cup {new[k]} ELSE past[k]]
    /\ UNCHANGED trouble

\* The call failed or never returned.
Unacknowledged(new) ==
    /\ trouble < MaxTrouble
    /\ trouble' = trouble + 1
    /\ unsure' = [k \in Keys |-> IF k \in DOMAIN new
                                 THEN unsure[k] \cup {Found(k), new[k]} ELSE unsure[k]]
    /\ past' = [k \in Keys |-> IF k \in DOMAIN new THEN past[k] \cup {new[k]} ELSE past[k]]
    /\ UNCHANGED acked

Start ==
    /\ ~initialized /\ paths # <<>>
    /\ \E c \in [Attached -> UNION {Loads(store[d]) : d \in Attached}] :
         /\ \A d \in Attached : c[d] \in Loads(store[d])
         /\ store' = [d \in Devices |-> IF d \in Attached THEN Started(store[d], c[d]) ELSE store[d]]
    /\ initialized' = TRUE
    /\ UNCHANGED <<paths, trouble, batch, history>>

\* Each device persists, or fails to and keeps its journal.
Stop ==
    /\ initialized /\ Idle
    /\ \E failing \in SUBSET Attached :
         store' = [d \in Devices |->
             IF d \in Attached \ failing THEN Down(Persisted(store[d])) ELSE Down(store[d])]
    /\ initialized' = FALSE
    /\ UNCHANGED <<paths, trouble, batch, history>>

Crash ==
    /\ initialized
    /\ trouble < MaxTrouble
    /\ trouble' = trouble + 1
    /\ store' = AllDown(store)
    /\ initialized' = FALSE
    /\ batch' = NoRecords
    /\ UNCHANGED <<paths, history>>

\* A call over the devices that stopped at the at-th: those before it are done.
StoppedAt(at, done, left) ==
    [d \in Devices |-> IF d = paths[at] THEN left
                       ELSE IF \E i \in 1 .. at - 1 : paths[i] = d THEN done[d]
                       ELSE store[d]]

CrashInStop ==
    /\ Up /\ Idle
    /\ trouble < MaxTrouble
    /\ trouble' = trouble + 1
    /\ \E at \in DOMAIN paths : \E left \in {store[paths[at]], Renamed(store[paths[at]])} :
         store' = AllDown(StoppedAt(at, [d \in Devices |-> Persisted(store[d])], left))
    /\ initialized' = FALSE
    /\ UNCHANGED <<paths, batch, history>>

\* A put_batch has its entries routed to their devices.
BeginBatch(new) ==
    /\ Up /\ Idle
    /\ batch' = new
    /\ UNCHANGED <<paths, initialized, store, trouble, history>>

\* A put (of a value), a delete (None; of nothing it is an error that changes
\* nothing), or the next entry of a batch: the devices take theirs in path order.
Called(k, v) ==
    /\ Up
    /\ \/ Idle /\ (v = None => Found(k) # None)
       \/ /\ v = batch[k] /\ v # None
          /\ \A j \in Keys : batch[j] # None => StorageIndex(k) <= StorageIndex(j)

\* An entry of a batch lasts as a put does, though its call has yet to return.
Put(k, v) ==
    /\ Called(k, v)
    /\ store' = [store EXCEPT ![DeviceOf(k)] = Change(@, k, v)]
    /\ batch' = [batch EXCEPT ![k] = None]
    /\ Acknowledge([x \in {k} |-> v])
    /\ UNCHANGED <<paths, initialized>>

\* A failure ends the batch.
PutFails(k, v) ==
    /\ Called(k, v)
    /\ \E left \in FailedChange(Inserted(store[DeviceOf(k)], k, v), PutEntry(k, v), TornWrites) :
         store' = [store EXCEPT ![DeviceOf(k)] = left]
    /\ batch' = NoRecords
    /\ Unacknowledged([x \in {k} |-> v])
    /\ UNCHANGED <<paths, initialized>>

CrashInPut(k, v) ==
    /\ Called(k, v)
    /\ \E left \in InterruptedChange(Inserted(store[DeviceOf(k)], k, v), PutEntry(k, v), TornWrites) :
         store' = AllDown([store EXCEPT ![DeviceOf(k)] = left])
    /\ batch' = NoRecords
    /\ Unacknowledged([x \in {k} |-> v])
    /\ initialized' = FALSE
    /\ UNCHANGED paths

\* A key that was not found is not journalled, also when an earlier delete of it
\* failed after it left the map: only the found keys are sure to be gone.
Deleted(ks) == [k \in {k \in ks : Found(k) # None} |-> None]

Shrunk(ks, d) == DeleteAll(store[d], KeysOn(ks, d))
Deletions(ks, d) == DeleteEntries(store[d], KeysOn(ks, d))
Deleting(ks) == [d \in Devices |-> DeleteBatch(store[d], KeysOn(ks, d))]

DeleteKeys(ks) ==
    /\ Up /\ Idle
    /\ store' = [d \in Devices |-> IF d \in Attached THEN Deleting(ks)[d] ELSE store[d]]
    /\ Acknowledge(Deleted(ks))
    /\ UNCHANGED <<paths, initialized, batch>>

DeleteKeysFails(ks) ==
    /\ Up /\ Idle
    /\ \E at \in DOMAIN paths :
       \E left \in FailedChange(Shrunk(ks, paths[at]), Deletions(ks, paths[at]), TornWrites) :
         store' = StoppedAt(at, Deleting(ks), left)
    /\ Unacknowledged(Deleted(ks))
    /\ UNCHANGED <<paths, initialized, batch>>

CrashInDelete(ks) ==
    /\ Up /\ Idle
    /\ \E at \in DOMAIN paths :
       \E left \in InterruptedChange(Shrunk(ks, paths[at]), Deletions(ks, paths[at]), TornWrites) :
         store' = AllDown(StoppedAt(at, Deleting(ks), left))
    /\ Unacknowledged(Deleted(ks))
    /\ initialized' = FALSE
    /\ UNCHANGED <<paths, batch>>

Emptied(d) == DeleteAll(store[d], Keys)
Resetting == [d \in Devices |-> Persisted(Emptied(d))]

Reset ==
    /\ Up /\ Idle
    /\ store' = [d \in Devices |-> IF d \in Attached THEN Resetting[d] ELSE store[d]]
    /\ Acknowledge(NoRecords)
    /\ UNCHANGED <<paths, initialized, batch>>

\* A device could not replace its snapshot.
ResetFails ==
    /\ Up /\ Idle
    /\ \E at \in DOMAIN paths : store' = StoppedAt(at, Resetting, Emptied(paths[at]))
    /\ Unacknowledged(NoRecords)
    /\ UNCHANGED <<paths, initialized, batch>>

\* The process ends inside reset: the device it stopped at may have its new
\* snapshot and still its journal.
CrashInReset ==
    /\ Up /\ Idle
    /\ \E at \in DOMAIN paths : \E left \in {Emptied(paths[at]), Renamed(Emptied(paths[at]))} :
         store' = AllDown(StoppedAt(at, Resetting, left))
    /\ Unacknowledged(NoRecords)
    /\ initialized' = FALSE
    /\ UNCHANGED <<paths, batch>>

\* A changed set of devices: what a key shows may be any of its past.
Reshaped ==
    /\ Idle
    /\ trouble < MaxTrouble
    /\ trouble' = trouble + 1
    /\ unsure' = past
    /\ UNCHANGED <<batch, acked, past>>

AddDevice(d) ==
    /\ d \notin Attached
    /\ IF initialized
       THEN \E c \in Loads(store[d]) : store' = [store EXCEPT ![d] = Started(@, c)]
       ELSE UNCHANGED store
    /\ paths' = Append(paths, d)
    /\ Reshaped
    /\ UNCHANGED initialized

\* The engine of a removed device is dropped, not stopped; its files stay. The
\* last device goes like any other.
RemoveDevice(at) ==
    /\ store' = [store EXCEPT ![paths[at]] = Down(@)]
    /\ paths' = RemoveAt(paths, at)
    /\ Reshaped
    /\ UNCHANGED initialized

Next ==
    \/ Start \/ Stop \/ Crash \/ CrashInStop \/ Reset \/ ResetFails \/ CrashInReset
    \/ \E k \in Keys, v \in Values \cup {None} : Put(k, v) \/ PutFails(k, v) \/ CrashInPut(k, v)
    \/ \E new \in [Keys -> Values \cup {None}] : BeginBatch(new)
    \/ \E ks \in SUBSET Keys : DeleteKeys(ks) \/ DeleteKeysFails(ks) \/ CrashInDelete(ks)
    \/ \E d \in Devices : AddDevice(d)
    \/ \E at \in DOMAIN paths : RemoveDevice(at)

Spec == Init /\ [][Next]_vars

TypeOK == /\ store \in [Devices -> Store]
          /\ paths \in Seq(Devices)
          /\ trouble \in 0..MaxTrouble

\* What StorageEngineMultiSsd promises: a call that returned Ok is in effect after
\* any crash, stop or start. persist_records replaces the snapshot and drops the
\* journal in an order in which every state in between reads back to the same
\* contents, and a change is in the map before its journal entry can start it.
Durable == INSTANCE DurableStore WITH
    content <- [k \in Keys |-> Found(k)], Contents <- Values \cup {None}, Nothing <- None
ImplementsDurableStore == Durable!Spec

\* replay_journal gives back every change made before and after a torn entry:
\* "a torn tail is a write that was interrupted, and the records before it are
\* still the ones that were made".
NothingAcknowledgedIsLost ==
    initialized => \A k \in Keys : Found(k) \in {acked[k]} \cup unsure[k]
=============================================================================
