--------------------------- MODULE LastWriteProofs ---------------------------
(***************************************************************************)
(* LastWriteWins and ReadSawACurrentValue, for every set of keys, values    *)
(* and readers.                                                            *)
(*                                                                         *)
(* A value is around when a tier holds it or the lock holder carries it     *)
(* from one tier to another. No step makes up a value: what is around after *)
(* it was around before, or is what the put in progress writes (Origin).    *)
(* On that rest                                                            *)
(*                                                                         *)
(*   - Undisturbed: of a key nobody is putting only allowed values are      *)
(*     around, unless it has expired;                                      *)
(*   - Fresh: what a put has dealt with so far is rid of the old value;     *)
(*   - Followed: what is around of a key that is being read was allowed at *)
(*     some moment of the read.                                            *)
(*                                                                         *)
(* Settled, Ageless, Listed, Absent and Probed say what these rely on.     *)
(***************************************************************************)
EXTENDS TieredCacheProofs

\* No capacity refuses a value, or the tier is not there at all.
Roomy(capacities) ==
    \/ capacities \subseteq {0}
    \/ \A n \in capacities : n > 0 /\ \A v \in Values : Size[v] <= n

\* When the last write wins. The conjuncts exclude behaviours of the code in
\* which a copy outlives the write that should have replaced it:
\*   - a PMEM put, an SSD write or an SSD delete that fails;
\*   - a put that a tier refuses although it holds an older copy, because of
\*     the admission filter or of the value's length;
\*   - a stopped store, which refuses the deletes of evictions, sweeps and clears;
\*   - an expired copy whose life a rewrite of another tier restarts;
\*   - put_memory_only on a cache whose puts look at the SSD alone.
\* PMEM deletes that fail beside lifetimes are excluded by the argument, not by
\* a behaviour: a put that ends in an error may leave an expired copy.
Dependable ==
    /\ Faults \subseteq {"pmemDelete", "pmemClear", "manifest"}
    /\ ~ FilterOn /\ Roomy(MemoryCapacities) /\ Roomy(PmemCapacities)
    /\ "stop" \in Calls => Calls \cap {"clear", "capacity", "pin", "ttl"} = {}
    /\ "ttl" \in Calls => "memoryOnly" \notin Calls /\ "pmemDelete" \notin Faults
    /\ "ssdOnly" \in Calls => "memoryOnly" \notin Calls

\* What the lock holder has in hand for k.
Carried(k) == {x.val : x \in {y \in OnStack(todo) : y.step \in Carrying /\ y.key = k}}
Around(k) == Copies(k) \cup Carried(k)

Putting(k) == req.active /\ req.key = k
Pending(step) == \E x \in OnStack(todo) : x.step = step

\* The settings are as configured, and who holds the lock finds a started cache.
Settled ==
    /\ cache.started \/ ("stop" \in Calls /\ todo = <<>>)
    /\ "pin" \notin Calls => reclaims = 0
    /\ "ssdOnly" \notin Calls => ~ cache.ssd_only
    /\ cache.memory_capacity \in MemoryCapacities /\ cache.pmem_capacity \in PmemCapacities

\* Without lifetimes nothing ever expires.
Ageless ==
    "ttl" \notin Calls =>
        /\ ~ cache.default_ttl /\ \A k \in Keys : cache.expiry[k] = "none"
        /\ req.active => req.life = "default"

\* The index lists every block the store would return.
Listed == \A k \in Keys : cache.block[k] # None => Indexed(cache, k)

\* A tier that is not there, or not used, holds nothing.
Absent ==
    /\ MemoryCapacities \subseteq {0} => \A k \in Keys : cache.memory[k] = None
    /\ PmemCapacities \subseteq {0} => \A k \in Keys : cache.pmem[k] = None
    /\ cache.ssd_only =>
          /\ \A k \in Keys : cache.memory[k] = None /\ cache.pmem[k] = None
          /\ \A x \in OnStack(todo) : x.step \notin Carrying
          /\ req.active => ~ req.memory /\ ~ req.pmem /\ ~ req.fallback

\* A probe the journal still vouches for is of the block that is there.
Probed ==
    \A r \in Readers :
        reader[r].at = "refill" /\ reader[r].key \notin cache.changed[r] =>
            cache.block[reader[r].key] = reader[r].val

\* k has expired, and at most a demotion that will notice has it in hand.
Lapsed(k) ==
    /\ Expired(cache, k)
    /\ \A x \in OnStack(todo) : x.step \in Carrying /\ x.key = k => x.step = "DemoteMemory"

Undisturbed == \A k \in Keys : ~ Putting(k) => Lapsed(k) \/ Around(k) \subseteq allowed[k]

\* What the lock holder has in hand of the key being put, for one of `steps`, is
\* the value being put.
InHand(steps) ==
    \A x \in OnStack(todo) : x.step \in steps /\ x.key = req.key => x.val = req.val

\* What the put in progress has made sure of when its memory part is done.
MemoryPart ==
    IF Pending("PutMemory") THEN ~ req.fallback
    ELSE /\ cache.memory[req.key] \in {None, req.val}
         /\ InHand({"DemoteMemory", "PutPmem"})
         /\ req.fallback => cache.pmem[req.key] \in {None, req.val}

\* When its PMEM part is done, or has failed.
PmemPart ==
    ~ Pending("PutPmemPart") =>
        /\ InHand({"SsdBypass", "WriteBypass"})
        /\ \/ cache.pmem[req.key] \in {None, req.val}
           \/ \E x \in OnStack(todo) : x.step = "PutPmem" /\ x.key = req.key
           \/ req.outcome = "err" /\ "ttl" \notin Calls

\* When its SSD part is done. Nothing is evicted between there and its end.
SsdPart ==
    /\ req.outcome = "none" => Pending("PutSsd") \/ Pending("WriteSsd")
    /\ req.outcome = "yes" => cache.block[req.key] = req.val
    /\ req.outcome = "err" => cache.block[req.key] = req.val \/ "ttl" \notin Calls
    /\ req.outcome \in {"yes", "err"} => \A x \in OnStack(todo) : x.step \in {"PutSsd", "PutFinish"}
    /\ req.outcome = "yes" => ~ Pending("PutSsd")

Fresh ==
    req.active =>
        /\ "ttl" \notin Calls => Around(req.key) \subseteq allowed[req.key] \cup {req.val}
        /\ \A x \in OnStack(todo) : x.step = "PutPmem" /\ x.fallback => x.key = req.key
        /\ MemoryPart /\ PmemPart /\ SsdPart

\* Where a value that is around k after a step may come from.
Sources(k) == Around(k) \cup (IF Putting(k) THEN {req.val} ELSE {})

\* What is around of a key that is being read was allowed during the read, or is
\* being put.
Follows(r, k) == Around(k) \subseteq seen[r] \cup (IF Putting(k) THEN {req.val} ELSE {})
Followed ==
    \A r \in Readers :
        /\ \A k \in Keys :
              reader[r].at \in {"ssd", "refill", "promote"} /\ reader[r].key = k => Follows(r, k)
        /\ reader[r].at \in {"refill", "promote"} => reader[r].val \in seen[r]

Steady == Settled /\ Ageless /\ Listed /\ Absent
Current == Steady /\ Probed /\ Undisturbed /\ Fresh /\ Followed

-----------------------------------------------------------------------------
(* What a step of the lock holder leaves alone, and where what it leaves    *)
(* around comes from.                                                      *)

\* A step that touches one key notes every block it changes.
LEMMA TouchNotes ==
    ASSUME NEW k \in Keys, cache' = cache \/ Touches(cache, cache', k)
    PROVE  NotesBlocks(cache, cache') /\ SameSettings(cache, cache')
  BY DEF Touches, NotesBlocks, SameSettings

\* What a step of the lock holder leaves as it was.
Frame ==
    /\ NotesBlocks(cache, cache') /\ SameSettings(cache, cache')
    /\ UNCHANGED <<pins, reclaims, reader>>
    /\ \/ PutFinish
       \/ /\ UNCHANGED <<allowed, seen>> /\ req'.active = req.active
          /\ req.active => SameCall(req')
          /\ req.active /\ ~ PutPmem => req'.fallback = req.fallback
          /\ req.active /\ ~ (PutPmemPart \/ PutSsd \/ MakeRoom \/ WriteSsd) =>
                req'.outcome = req.outcome

\* Which is a good deal.
LEMMA HolderFrame ==
    ASSUME Shape, LockHolder
    PROVE  Frame
  <1>0. req \in Request BY DEF Shape
  <1> USE DEF Still
  <1>a. NotesBlocks(cache, cache) /\ SameSettings(cache, cache) /\ (req' = req => SameCall(req'))
    BY DEF NotesBlocks, SameSettings, SameCall
  <1>1. CASE EvictMemory
    BY <1>1, <1>a, EvictMemoryEffect, TouchNotes DEF Frame
  <1>2. CASE DemoteMemory
    BY <1>2, <1>a, DemoteMemoryEffect DEF Frame
  <1>3. CASE PutPmem
    BY <1>3, <1>a, PutPmemEffect, TouchNotes DEF Frame
  <1>4. CASE EvictPmem
    BY <1>4, <1>a, EvictPmemEffect, TouchNotes DEF Frame
  <1>5. CASE Forget
    BY <1>5, <1>a, ForgetEffect, TouchNotes DEF Frame
  <1>6. CASE SsdBypass
    BY <1>6, <1>a, SsdBypassEffect DEF Frame
  <1>7. CASE EvictSsd
    BY <1>7, <1>a, EvictSsdEffect, TouchNotes DEF Frame
  <1>8. CASE WriteBypass
    BY <1>8, <1>a, WriteBypassEffect, TouchNotes DEF Frame
  <1>9. CASE Sweep \/ Purge
    BY <1>9, <1>a, SweepEffect, TouchNotes DEF Frame, Removed
  <1>10. CASE PutMemory
    BY <1>10, <1>a, PutMemoryEffect, TouchNotes DEF Frame
  <1>11. CASE PutPmemPart
    BY <1>11, <1>a, PutPmemPartEffect, TouchNotes DEF Frame
  <1>12. CASE PutSsd
    BY <1>12, <1>a, PutSsdEffect DEF Frame
  <1>13. CASE MakeRoom
    BY <1>13, <1>a, MakeRoomEffect DEF Frame
  <1>14. CASE WriteSsd
    BY <1>14, <1>a, WriteSsdEffect, TouchNotes DEF Frame
  <1>15. CASE PutFinish
    BY <1>15, <1>a, PutFinishEffect, TouchNotes DEF Frame
  <1> QED
    BY <1>1, <1>2, <1>3, <1>4, <1>5, <1>6, <1>7, <1>8, <1>9, <1>10, <1>11, <1>12, <1>13, <1>14,
       <1>15 DEF LockHolder

\* A step that touches z does no more to a tier's map than it does at z.
LEMMA TouchMaps ==
    ASSUME NEW z \in Keys, Touches(cache, cache', z), NEW k \in Keys
    PROVE  /\ k = z \/ cache'.memory[k] = cache.memory[k]
           /\ k = z \/ cache'.pmem[k] = cache.pmem[k]
           /\ k = z \/ cache'.block[k] = cache.block[k]
  BY DEF Touches, SameEntry

\* Only the memory part of a put brings something into memory.
LEMMA MemoryGrowth ==
    ASSUME Shape, LockHolder, NEW k \in Keys
    PROVE  \/ cache'.memory[k] \in {cache.memory[k], None}
           \/ /\ PutMemory /\ req.memory /\ cache.memory_capacity > 0
              /\ k = req.key /\ cache'.memory[k] = req.val
  <1> USE DEF SameMemory
  <1>1. CASE EvictMemory BY <1>1, TouchMaps, EvictMemoryEffect
  <1>2. CASE DemoteMemory BY <1>2, DemoteMemoryEffect
  <1>3. CASE PutPmem BY <1>3, PutPmemEffect
  <1>4. CASE EvictPmem BY <1>4, EvictPmemEffect
  <1>5. CASE Forget BY <1>5, ForgetEffect
  <1>6. CASE SsdBypass BY <1>6, SsdBypassEffect
  <1>7. CASE EvictSsd BY <1>7, EvictSsdEffect
  <1>8. CASE WriteBypass BY <1>8, WriteBypassEffect
  <1>9. CASE Sweep \/ Purge BY <1>9, TouchMaps, SweepEffect DEF Removed
  <1>10. CASE PutMemory BY <1>10, TouchMaps, PutMemoryEffect
  <1>11. CASE PutPmemPart BY <1>11, PutPmemPartEffect
  <1>12. CASE PutSsd BY <1>12, PutSsdEffect
  <1>13. CASE MakeRoom BY <1>13, MakeRoomEffect
  <1>14. CASE WriteSsd BY <1>14, WriteSsdEffect
  <1>15. CASE PutFinish BY <1>15, PutFinishEffect
  <1> QED
    BY <1>1, <1>2, <1>3, <1>4, <1>5, <1>6, <1>7, <1>8, <1>9, <1>10, <1>11, <1>12, <1>13, <1>14,
       <1>15 DEF LockHolder

\* Only put_pmem_shared_with_persistence brings something into PMEM.
LEMMA PmemGrowth ==
    ASSUME Shape, LockHolder, NEW k \in Keys
    PROVE  \/ cache'.pmem[k] \in {cache.pmem[k], None}
           \/ /\ PutPmem /\ cache.pmem_capacity > 0
              /\ k = todo[1].key /\ cache'.pmem[k] = todo[1].val
  <1> USE DEF SamePmem
  <1>1. CASE EvictMemory BY <1>1, EvictMemoryEffect
  <1>2. CASE DemoteMemory BY <1>2, DemoteMemoryEffect
  <1>3. CASE PutPmem BY <1>3, TouchMaps, PutPmemEffect
  <1>4. CASE EvictPmem BY <1>4, TouchMaps, EvictPmemEffect
  <1>5. CASE Forget BY <1>5, ForgetEffect
  <1>6. CASE SsdBypass BY <1>6, SsdBypassEffect
  <1>7. CASE EvictSsd BY <1>7, EvictSsdEffect
  <1>8. CASE WriteBypass BY <1>8, WriteBypassEffect
  <1>9. CASE Sweep \/ Purge BY <1>9, TouchMaps, SweepEffect DEF Removed
  <1>10. CASE PutMemory BY <1>10, PutMemoryEffect
  <1>11. CASE PutPmemPart BY <1>11, TouchMaps, PutPmemPartEffect
  <1>12. CASE PutSsd BY <1>12, PutSsdEffect
  <1>13. CASE MakeRoom BY <1>13, MakeRoomEffect
  <1>14. CASE WriteSsd BY <1>14, WriteSsdEffect
  <1>15. CASE PutFinish BY <1>15, PutFinishEffect
  <1> QED
    BY <1>1, <1>2, <1>3, <1>4, <1>5, <1>6, <1>7, <1>8, <1>9, <1>10, <1>11, <1>12, <1>13, <1>14,
       <1>15 DEF LockHolder

\* Only a demotion and the SSD part of a put bring something to the SSD.
LEMMA BlockGrowth ==
    ASSUME Shape, LockHolder, NEW k \in Keys
    PROVE  \/ cache'.block[k] \in {cache.block[k], None}
           \/ WriteBypass /\ k = todo[1].key /\ cache'.block[k] = todo[1].val
           \/ WriteSsd /\ k = req.key /\ cache'.block[k] = req.val
  <1> USE DEF SameSsd
  <1>1. CASE EvictMemory BY <1>1, EvictMemoryEffect
  <1>2. CASE DemoteMemory BY <1>2, DemoteMemoryEffect
  <1>3. CASE PutPmem BY <1>3, PutPmemEffect
  <1>4. CASE EvictPmem BY <1>4, EvictPmemEffect
  <1>5. CASE Forget BY <1>5, ForgetEffect
  <1>6. CASE SsdBypass BY <1>6, SsdBypassEffect
  <1>7. CASE EvictSsd BY <1>7, TouchMaps, EvictSsdEffect
  <1>8. CASE WriteBypass
    <2> DEFINE z == todo[1].key
    <2>1. \/ cache' = cache
          \/ /\ Touches(cache, cache', z) /\ z \in Keys
             /\ cache'.block[z] \in {None, todo[1].val, cache.block[z]}
      BY <1>8, WriteBypassEffect DEF Leftovers
    <2> QED BY <2>1, <1>8, TouchMaps
  <1>9. CASE Sweep \/ Purge BY <1>9, TouchMaps, SweepEffect DEF Removed
  <1>10. CASE PutMemory BY <1>10, PutMemoryEffect
  <1>11. CASE PutPmemPart BY <1>11, PutPmemPartEffect
  <1>12. CASE PutSsd BY <1>12, PutSsdEffect
  <1>13. CASE MakeRoom BY <1>13, MakeRoomEffect
  <1>14. CASE WriteSsd BY <1>14, TouchMaps, WriteSsdEffect DEF Leftovers
  <1>15. CASE PutFinish BY <1>15, TouchMaps, PutFinishEffect
  <1> QED
    BY <1>1, <1>2, <1>3, <1>4, <1>5, <1>6, <1>7, <1>8, <1>9, <1>10, <1>11, <1>12, <1>13, <1>14,
       <1>15 DEF LockHolder

\* What the lock holder picks up it has from a volatile tier, from its own hand
\* or from the put. The steps it adds are none of the parts of a put but its
\* SSD write.
LEMMA CarryGrowth ==
    ASSUME Shape, LockHolder, NEW x \in OnStack(todo')
    PROVE  \/ x \in OnStack(todo)
           \/ /\ x.step = "DemoteMemory" /\ EvictMemory /\ x.key \in Keys
              /\ x.val = cache.memory[x.key] /\ x.val \in Values
           \/ /\ x.step = "PutPmem" /\ DemoteMemory /\ ~ x.fallback
              /\ x.key = todo[1].key /\ x.val = todo[1].val /\ ~ Expired(cache, x.key)
           \/ /\ x.step = "SsdBypass" /\ DemoteMemory
              /\ x.key = todo[1].key /\ x.val = todo[1].val /\ ~ Expired(cache, x.key)
           \/ /\ x.step = "SsdBypass" /\ EvictPmem /\ x.key \in Keys
              /\ x.val = cache.pmem[x.key] /\ x.val \in Values /\ ~ Expired(cache, x.key)
           \/ /\ x.step = "WriteBypass" /\ SsdBypass
              /\ x.key = todo[1].key /\ x.val = todo[1].val
           \/ /\ x.step = "PutPmem" /\ PutMemory /\ req.memory
              /\ x.key = req.key /\ x.val = req.val
           \/ /\ x.step = "PutPmem" /\ PutPmemPart /\ req.pmem /\ ~ x.fallback
              /\ x.key = req.key /\ x.val = req.val
           \/ x.step = "WriteSsd" /\ PutSsd
           \/ x.step \in {"EvictMemory", "EvictPmem", "EvictSsd", "Forget", "MakeRoom"}
  <1>a. OnStack(Tail(todo)) \subseteq OnStack(todo) /\ todo[1] \in OnStack(todo) BY StackKept
  <1>b. ASSUME NEW new, Becomes(new), x \notin OnStack(todo) PROVE x \in new
    BY <1>a, <1>b DEF Becomes
  <1>c. todo' # todo \/ x \in OnStack(todo) OBVIOUS
  <1>1. CASE EvictMemory
    <2>1. CASE Becomes({}) \/ todo' = todo BY <2>1, <1>b, <1>c
    <2>2. CASE ~ (Becomes({}) \/ todo' = todo)
      <3>1. PICK z \in Keys :
              /\ cache.memory[z] \in Values
              /\ \E again \in {{}, {todo[1]}} :
                   Becomes({[step |-> "DemoteMemory", key |-> z, val |-> cache.memory[z]],
                            [step |-> "Forget", key |-> z]} \cup again)
        BY <1>1, <2>2, EvictMemoryEffect
      <3>2. \/ x \in OnStack(todo)
            \/ x = [step |-> "DemoteMemory", key |-> z, val |-> cache.memory[z]]
            \/ x = [step |-> "Forget", key |-> z]
        BY <3>1, <1>a, <1>b
      <3> QED BY <3>1, <3>2, <1>1
    <2> QED BY <2>1, <2>2
  <1>2. CASE DemoteMemory
    <2> DEFINE t == todo[1]
               p == [step |-> "PutPmem", key |-> t.key, val |-> t.val, fallback |-> FALSE]
               s == [step |-> "SsdBypass", key |-> t.key, val |-> t.val]
    <2>1. \/ Becomes({})
          \/ ~ Expired(cache, t.key) /\ Becomes({p})
          \/ ~ Expired(cache, t.key) /\ Becomes({s})
      BY <1>2, DemoteMemoryEffect
    <2>2. /\ p.step = "PutPmem" /\ p.key = t.key /\ p.val = t.val /\ p.fallback = FALSE
          /\ s.step = "SsdBypass" /\ s.key = t.key /\ s.val = t.val
      OBVIOUS
    <2> HIDE DEF p, s
    <2>3. \/ x \in OnStack(todo)
          \/ ~ Expired(cache, t.key) /\ x = p
          \/ ~ Expired(cache, t.key) /\ x = s
      BY <2>1, <1>b
    <2> QED BY <2>2, <2>3, <1>2
  <1>3. CASE PutPmem
    <2>1. Becomes({}) \/ Becomes({[step |-> "EvictPmem"]}) BY <1>3, PutPmemEffect
    <2>2. x \in OnStack(todo) \/ x = [step |-> "EvictPmem"] BY <2>1, <1>b
    <2> QED BY <2>2
  <1>4. CASE EvictPmem
    <2>1. CASE Becomes({}) \/ todo' = todo BY <2>1, <1>b, <1>c
    <2>2. CASE ~ (Becomes({}) \/ todo' = todo)
      <3>1. PICK z \in Keys :
              /\ cache.pmem[z] \in Values
              /\ \E down \in {{}, {[step |-> "SsdBypass", key |-> z, val |-> cache.pmem[z]]}},
                    again \in {{}, {todo[1]}} :
                   /\ Becomes(down \cup {[step |-> "Forget", key |-> z]} \cup again)
                   /\ down # {} => ~ Expired(cache, z)
        BY <1>4, <2>2, EvictPmemEffect
      <3> DEFINE s == [step |-> "SsdBypass", key |-> z, val |-> cache.pmem[z]]
                 f == [step |-> "Forget", key |-> z]
      <3>2. s.step = "SsdBypass" /\ s.key = z /\ s.val = cache.pmem[z] /\ f.step = "Forget" OBVIOUS
      <3>3. PICK down \in {{}, {s}}, again \in {{}, {todo[1]}} :
              Becomes(down \cup {f} \cup again) /\ (down # {} => ~ Expired(cache, z))
        BY <3>1
      <3> HIDE DEF s, f
      <3>4. x \in OnStack(todo) \/ (~ Expired(cache, z) /\ x = s) \/ x = f
        BY <3>3, <1>a, <1>b
      <3> QED BY <3>1, <3>2, <3>4, <1>4
    <2> QED BY <2>1, <2>2
  <1>5. CASE Forget BY <1>5, <1>b, ForgetEffect
  <1>6. CASE SsdBypass
    <2> DEFINE t == todo[1]
               e == [step |-> "EvictSsd", need |-> BlockLen[t.val]]
               w == [step |-> "WriteBypass", key |-> t.key, val |-> t.val]
    <2>1. Becomes({}) \/ Becomes({e, w}) BY <1>6, SsdBypassEffect
    <2>2. e.step = "EvictSsd" /\ w.step = "WriteBypass" /\ w.key = t.key /\ w.val = t.val OBVIOUS
    <2> HIDE DEF e, w
    <2>3. x \in OnStack(todo) \/ x = e \/ x = w BY <2>1, <1>b
    <2> QED BY <2>2, <2>3, <1>6
  <1>7. CASE EvictSsd BY <1>7, <1>b, <1>c, EvictSsdEffect
  <1>8. CASE WriteBypass BY <1>8, <1>b, WriteBypassEffect
  <1>9. CASE Sweep \/ Purge BY <1>9, <1>b, <1>c, SweepEffect
  <1>10. CASE PutMemory
    <2> DEFINE e == [step |-> "EvictMemory"]
               p == [step |-> "PutPmem", key |-> req.key, val |-> req.val, fallback |-> TRUE]
    <2>1. Becomes({}) \/ Becomes({e}) \/ (req.memory /\ Becomes({p})) BY <1>10, PutMemoryEffect
    <2>2. e.step = "EvictMemory" /\ p.step = "PutPmem" /\ p.key = req.key /\ p.val = req.val OBVIOUS
    <2> HIDE DEF e, p
    <2>3. x \in OnStack(todo) \/ x = e \/ (req.memory /\ x = p) BY <2>1, <1>b
    <2> QED BY <2>2, <2>3, <1>10
  <1>11. CASE PutPmemPart
    <2> DEFINE p == [step |-> "PutPmem", key |-> req.key, val |-> req.val, fallback |-> FALSE]
    <2>1. Becomes({}) \/ (req.pmem /\ Becomes({p})) BY <1>11, PutPmemPartEffect
    <2>2. p.step = "PutPmem" /\ p.key = req.key /\ p.val = req.val /\ p.fallback = FALSE OBVIOUS
    <2> HIDE DEF p
    <2>3. x \in OnStack(todo) \/ (req.pmem /\ x = p) BY <2>1, <1>b
    <2> QED BY <2>2, <2>3, <1>11
  <1>12. CASE PutSsd
    <2> DEFINE m == [step |-> "MakeRoom", before |-> None]
               w == [step |-> "WriteSsd"]
    <2>1. Becomes({}) \/ Becomes({m, w}) BY <1>12, PutSsdEffect
    <2>2. m.step = "MakeRoom" /\ w.step = "WriteSsd" OBVIOUS
    <2> HIDE DEF m, w
    <2>3. x \in OnStack(todo) \/ x = m \/ x = w BY <2>1, <1>b
    <2> QED BY <2>2, <2>3, <1>12
  <1>13. CASE MakeRoom
    <2>1. CASE Becomes({}) BY <2>1, <1>b
    <2>2. CASE ~ Becomes({})
      <3>1. PICK n \in Nat, b \in Nat :
              Becomes({[step |-> "EvictSsd", need |-> n], [step |-> "MakeRoom", before |-> b]})
        BY <1>13, <2>2, MakeRoomEffect
      <3>2. \/ x \in OnStack(todo) \/ x = [step |-> "EvictSsd", need |-> n]
            \/ x = [step |-> "MakeRoom", before |-> b]
        BY <3>1, <1>b
      <3> QED BY <3>2
    <2> QED BY <2>1, <2>2
  <1>14. CASE WriteSsd BY <1>14, <1>b, WriteSsdEffect
  <1>15. CASE PutFinish BY <1>15, PutFinishEffect, EmptyStack
  <1> QED
    BY <1>1, <1>2, <1>3, <1>4, <1>5, <1>6, <1>7, <1>8, <1>9, <1>10, <1>11, <1>12, <1>13, <1>14,
       <1>15 DEF LockHolder

\* What a tier holds, the lock holder carries or a put brings is a source.
LEMMA SourcesHave ==
    ASSUME NEW k \in Keys
    PROVE  /\ {cache.memory[k], cache.pmem[k], cache.block[k]} \subseteq {None} \cup Sources(k)
           /\ \A x \in OnStack(todo) : x.step \in Carrying /\ x.key = k => x.val \in Sources(k)
           /\ Putting(k) => req.val \in Sources(k)
  BY DEF Sources, Around, Copies, Carried

\* No step of the lock holder makes up a value.
LEMMA Origin ==
    ASSUME Shape, LockHolder, NEW k \in Keys
    PROVE  Around(k)' \subseteq Sources(k)
  <1> DEFINE S == Sources(k)
             t == todo[1]
  <1>1. /\ {cache.memory[k], cache.pmem[k], cache.block[k]} \subseteq {None} \cup S
        /\ \A x \in OnStack(todo) : x.step \in Carrying /\ x.key = k => x.val \in S
        /\ Putting(k) => req.val \in S
    BY SourcesHave
  <1>2. t \in OnStack(todo) BY StackKept
  <1>3. /\ PutPmem => t.step = "PutPmem"
        /\ WriteBypass => t.step = "WriteBypass"
        /\ DemoteMemory => t.step = "DemoteMemory"
        /\ SsdBypass => t.step = "SsdBypass"
        /\ PutMemory \/ PutPmemPart \/ WriteSsd => req.active
    BY PutPmemEffect, WriteBypassEffect, DemoteMemoryEffect, SsdBypassEffect, PutMemoryEffect,
       PutPmemPartEffect, WriteSsdEffect
  <1>4. t.step \in Carrying /\ t.key = k => t.val \in S BY <1>1, <1>2
  <1> HIDE DEF S, t
  <1>5. cache'.memory[k] \in {None} \cup S BY <1>1, <1>3, MemoryGrowth DEF Putting
  <1>6. cache'.pmem[k] \in {None} \cup S BY <1>1, <1>3, <1>4, PmemGrowth DEF Carrying, t
  <1>7. cache'.block[k] \in {None} \cup S
    BY <1>1, <1>3, <1>4, BlockGrowth DEF Carrying, Putting, t
  <1>8. ASSUME NEW x \in OnStack(todo'), x.step \in Carrying, x.key = k PROVE x.val \in S
    <2>1. None \notin Values BY InnerAssumption
    <2>2. CASE x \in OnStack(todo) BY <2>2, <1>1, <1>8
    <2>3. CASE x \notin OnStack(todo)
      BY <2>1, <2>3, <1>1, <1>3, <1>4, <1>8, CarryGrowth DEF Carrying, Putting, t
    <2> QED BY <2>2, <2>3
  <1>9. ASSUME NEW v \in Carried(k)' PROVE v \in S
    <2>1. PICK x \in OnStack(todo') : x.step \in Carrying /\ x.key = k /\ v = x.val
      BY <1>9 DEF Carried
    <2> QED BY <2>1, <1>8
  <1> QED BY <1>5, <1>6, <1>7, <1>9 DEF Around, Copies, S

-----------------------------------------------------------------------------
(* The settings and what follows from them.                                *)

\* A started store does what it is asked.
LEMMA Reliable ==
    ASSUME Dependable, cache.started
    PROVE  Ok("ssdDelete") = {TRUE} /\ Ok("ssdWrite") = {TRUE}
  BY Answers DEF Dependable

\* Who holds the lock finds the cache started, and leaves it so.
LEMMA SettledHolder ==
    ASSUME Shape, Settled, LockHolder
    PROVE  cache.started /\ Settled'
  <1>1. todo # <<>> /\ UNCHANGED reclaims BY StackKept
  <1>2. SameSettings(cache, cache') BY HolderFrame DEF Frame
  <1> QED BY <1>1, <1>2 DEF Settled, SameSettings

\* A step that touches z alone starts no life if it starts none at z.
LEMMA AgelessTouch ==
    ASSUME Ageless, "ttl" \notin Calls, NEW z \in Keys, Touches(cache, cache', z),
           cache'.expiry[z] \in {"none", cache.expiry[z]}
    PROVE  \A k \in Keys : cache'.expiry[k] = "none"
  <1>1. ASSUME NEW k \in Keys \ {z} PROVE cache'.expiry[k] = "none"
    BY <1>1 DEF Touches, SameEntry, Ageless
  <1> QED BY <1>1 DEF Ageless

\* Without lifetimes no step of the lock holder gives one.
LEMMA AgelessHolder ==
    ASSUME Shape, Ageless, LockHolder
    PROVE  Ageless'
  <1> SUFFICES ASSUME "ttl" \notin Calls PROVE Ageless' BY DEF Ageless
  <1>a. ~ cache.default_ttl /\ (\A k \in Keys : cache.expiry[k] = "none")
        /\ (req.active => req.life = "default")
    BY DEF Ageless
  <1>b. ~ cache'.default_ttl BY <1>a, HolderFrame DEF Frame, SameSettings
  <1>c. req'.active => req'.life = "default"
    <2>1. PutFinish => ~ req'.active BY PutFinishEffect DEF NoReq
    <2> QED BY <2>1, <1>a, HolderFrame DEF Frame, SameCall
  <1> DEFINE Mortal(c) == \A k \in Keys : c.expiry[k] = "none"
  <1>d. ASSUME NEW z \in Keys, Touches(cache, cache', z), cache'.expiry[z] \in {"none", cache.expiry[z]}
        PROVE  Mortal(cache')
    BY <1>d, AgelessTouch
  <1>e. ASSUME NEW z \in Keys, Restarted(z) PROVE cache'.expiry[z] \in {"none", cache.expiry[z]}
    BY <1>a, <1>e DEF Restarted
  <1>f. Mortal(cache) BY <1>a
  <1>g. SUFFICES Mortal(cache') BY <1>b, <1>c, <1>g DEF Ageless
  <1> HIDE DEF Mortal
  <1>1. CASE EvictMemory BY <1>1, <1>d, <1>f, EvictMemoryEffect
  <1>2. CASE DemoteMemory BY <1>2, <1>f, DemoteMemoryEffect
  <1>3. CASE PutPmem BY <1>3, <1>d, PutPmemEffect
  <1>4. CASE EvictPmem BY <1>4, <1>d, <1>f, EvictPmemEffect
  <1>5. CASE Forget BY <1>5, <1>d, <1>f, ForgetEffect
  <1>6. CASE SsdBypass BY <1>6, <1>f, SsdBypassEffect
  <1>7. CASE EvictSsd BY <1>7, <1>d, <1>f, EvictSsdEffect DEF SameMetadata
  <1>8. CASE WriteBypass BY <1>8, <1>d, <1>f, WriteBypassEffect DEF SameMetadata
  <1>9. CASE Sweep \/ Purge BY <1>9, <1>d, <1>f, SweepEffect DEF Removed
  <1>10. CASE PutMemory BY <1>10, <1>d, <1>e, <1>f, PutMemoryEffect
  <1>11. CASE PutPmemPart BY <1>11, <1>d, <1>e, <1>f, PutPmemPartEffect
  <1>12. CASE PutSsd BY <1>12, <1>f, PutSsdEffect
  <1>13. CASE MakeRoom BY <1>13, <1>f, MakeRoomEffect
  <1>14. CASE WriteSsd BY <1>14, <1>d, <1>e, <1>f, WriteSsdEffect DEF SameMetadata
  <1>15. CASE PutFinish BY <1>15, <1>a, <1>d, PutFinishEffect
  <1> QED
    BY <1>1, <1>2, <1>3, <1>4, <1>5, <1>6, <1>7, <1>8, <1>9, <1>10, <1>11, <1>12, <1>13, <1>14,
       <1>15 DEF LockHolder

\* A step that touches z alone lists every block if it does so at z.
LEMMA ListedTouch ==
    ASSUME Listed, NEW z \in Keys, Touches(cache, cache', z),
           cache'.block[z] # None => Indexed(cache', z)
    PROVE  Listed'
  <1>1. ASSUME NEW k \in Keys \ {z} PROVE cache'.block[k] # None => Indexed(cache', k)
    BY <1>1 DEF Touches, SameEntry, Listed, Indexed
  <1> QED BY <1>1 DEF Listed

\* A step that changes no block and no index entry does.
LEMMA ListedSame ==
    ASSUME Listed, SameSsd(cache, cache')
    PROVE  Listed'
  BY DEF Listed, SameSsd, SameIndex, Indexed

\* So does a removal by a store that deletes.
LEMMA ListedRemoved ==
    ASSUME Listed, NEW z \in Keys, Removed(z, TRUE)
    PROVE  Listed'
  BY ListedTouch DEF Removed

\* The lock holder leaves no block that the index does not list.
LEMMA ListedHolder ==
    ASSUME Shape, Dependable, Settled, Listed, LockHolder
    PROVE  Listed'
  <1>a. Ok("ssdDelete") = {TRUE} /\ Ok("ssdWrite") = {TRUE} BY SettledHolder, Reliable
  <1>b. SameSsd(cache, cache) BY DEF SameSsd, SameIndex
  <1>c. cache' = cache => Listed' BY <1>b, ListedSame
  <1>1. CASE EvictMemory BY <1>1, <1>c, ListedSame, EvictMemoryEffect
  <1>2. CASE DemoteMemory BY <1>2, <1>c, DemoteMemoryEffect
  <1>3. CASE PutPmem BY <1>3, ListedSame, PutPmemEffect
  <1>4. CASE EvictPmem BY <1>4, <1>c, ListedSame, EvictPmemEffect
  <1>5. CASE Forget BY <1>5, ListedSame, ForgetEffect
  <1>6. CASE SsdBypass BY <1>6, <1>c, SsdBypassEffect
  <1>7. CASE EvictSsd BY <1>7, <1>a, <1>c, ListedTouch, EvictSsdEffect
  <1>8. CASE WriteBypass
    <2> DEFINE z == todo[1].key
    <2>1. CASE cache' = cache BY <2>1, <1>c
    <2>2. CASE cache' # cache
      <3>1. z \in Keys /\ Touches(cache, cache', z) BY <1>8, <2>2, WriteBypassEffect
      <3>2. cache'.block[z] # None => Indexed(cache', z) BY <1>8, <1>a, <2>2, WriteBypassEffect
      <3> QED BY <3>1, <3>2, ListedTouch
    <2> QED BY <2>1, <2>2
  <1>9. CASE Sweep \/ Purge BY <1>9, <1>a, <1>c, ListedRemoved, SweepEffect
  <1>10. CASE PutMemory BY <1>10, ListedSame, PutMemoryEffect
  <1>11. CASE PutPmemPart BY <1>11, <1>c, ListedSame, PutPmemPartEffect
  <1>12. CASE PutSsd BY <1>12, <1>c, PutSsdEffect
  <1>13. CASE MakeRoom BY <1>13, <1>c, MakeRoomEffect
  <1>14. CASE WriteSsd BY <1>14, <1>a, <1>c, ListedTouch, WriteSsdEffect
  <1>15. CASE PutFinish
    <2>1. req.key \in Keys /\ Touches(cache, cache', req.key) BY <1>15, PutFinishEffect
    <2>2. SameSsd(cache, cache') \/ cache'.block[req.key] = None BY <1>15, <1>a, PutFinishEffect
    <2> QED BY <2>1, <2>2, ListedTouch, ListedSame
  <1> QED
    BY <1>1, <1>2, <1>3, <1>4, <1>5, <1>6, <1>7, <1>8, <1>9, <1>10, <1>11, <1>12, <1>13, <1>14,
       <1>15 DEF LockHolder

\* The lock holder brings nothing to a tier that is not there or not used.
LEMMA AbsentHolder ==
    ASSUME Shape, Settled, Absent, LockHolder
    PROVE  Absent'
  <1>a. /\ cache.memory_capacity \in MemoryCapacities /\ cache.pmem_capacity \in PmemCapacities
        /\ cache.memory_capacity \in Nat /\ cache.pmem_capacity \in Nat
    BY DEF Settled, Shape, Tidy, Inner
  <1>b. todo[1] \in OnStack(todo) BY StackKept
  <1>c. /\ PutPmem \/ DemoteMemory \/ SsdBypass => todo[1].step \in Carrying
        /\ PutMemory \/ PutPmemPart => req.active
    BY PutPmemEffect, DemoteMemoryEffect, SsdBypassEffect, PutMemoryEffect, PutPmemPartEffect
       DEF Carrying
  <1>1. ASSUME MemoryCapacities \subseteq {0}, NEW k \in Keys PROVE cache'.memory[k] = None
    <2>1. cache.memory[k] = None /\ cache.memory_capacity = 0 BY <1>1, <1>a DEF Absent
    <2> QED BY <2>1, MemoryGrowth
  <1>2. ASSUME PmemCapacities \subseteq {0}, NEW k \in Keys PROVE cache'.pmem[k] = None
    <2>1. cache.pmem[k] = None /\ cache.pmem_capacity = 0 BY <1>2, <1>a DEF Absent
    <2> QED BY <2>1, PmemGrowth
  <1>3. ASSUME cache'.ssd_only
        PROVE  /\ \A k \in Keys : cache'.memory[k] = None /\ cache'.pmem[k] = None
               /\ \A x \in OnStack(todo') : x.step \notin Carrying
               /\ req'.active => ~ req'.memory /\ ~ req'.pmem /\ ~ req'.fallback
    <2>1. cache.ssd_only BY <1>3, HolderFrame DEF Frame, SameSettings
    <2>2. /\ \A k \in Keys : cache.memory[k] = None /\ cache.pmem[k] = None
          /\ \A x \in OnStack(todo) : x.step \notin Carrying
          /\ req.active => ~ req.memory /\ ~ req.pmem /\ ~ req.fallback
      BY <2>1 DEF Absent
    <2>3. ~ PutPmem /\ ~ DemoteMemory /\ ~ SsdBypass BY <2>2, <1>b, <1>c
    <2>4. ASSUME NEW k \in Keys PROVE cache'.memory[k] = None /\ cache'.pmem[k] = None
      BY <2>2, <2>3, <1>c, MemoryGrowth, PmemGrowth
    <2>5. ASSUME NEW x \in OnStack(todo') PROVE x.step \notin Carrying
      <3>1. None \notin Values BY InnerAssumption
      <3> QED BY <3>1, <2>2, <2>3, <1>c, CarryGrowth DEF Carrying
    <2>6. req'.active => ~ req'.memory /\ ~ req'.pmem /\ ~ req'.fallback
      <3>1. PutFinish => ~ req'.active BY PutFinishEffect DEF NoReq
      <3> QED BY <3>1, <2>2, <2>3, HolderFrame DEF Frame, SameCall
    <2> QED BY <2>4, <2>5, <2>6
  <1> QED BY <1>1, <1>2, <1>3 DEF Absent

\* Everything that Steady says.
LEMMA SteadyHolder ==
    ASSUME Shape, Dependable, Steady, LockHolder
    PROVE  Steady'
  BY SettledHolder, AgelessHolder, ListedHolder, AbsentHolder DEF Steady

-----------------------------------------------------------------------------
(* What reads rely on, through the steps of the lock holder.               *)

\* A probe stays right as long as every change of a block is noted.
LEMMA ProbedKept ==
    ASSUME Shape, Probed, NotesBlocks(cache, cache'),
           \A r \in Readers : reader'[r].at = "refill" => reader'[r] = reader[r]
    PROVE  Probed'
  <1> SUFFICES ASSUME NEW r \in Readers, reader'[r].at = "refill",
                      reader'[r].key \notin cache'.changed[r]
               PROVE  cache'.block[reader'[r].key] = reader'[r].val
    BY DEF Probed
  <1>1. reader'[r] = reader[r] /\ reader[r].at = "refill" OBVIOUS
  <1>2. reader[r].key \in Keys BY <1>1, ReaderFacts DEF Shape
  <1> QED BY <1>1, <1>2 DEF NotesBlocks, Probed

\* The end of a put allows its value.
LEMMA FinishAllows ==
    ASSUME Shape, PutFinish
    PROVE  \E vs : req.val \in vs /\ Allowing(req.key, vs)
  <1> DEFINE vs(failed) == IF failed THEN allowed[req.key] \cup {req.val} ELSE {req.val}
  <1>1. PICK failed : Allowing(req.key, vs(failed)) BY PutFinishEffect
  <1>2. req.val \in vs(failed) OBVIOUS
  <1> HIDE DEF vs
  <1> QED BY <1>1, <1>2

\* Of a key that is being read, only what may be returned is around.
LEMMA FollowedHolder ==
    ASSUME Shape, Followed, LockHolder
    PROVE  Followed'
  <1>1. reader' = reader BY HolderFrame DEF Frame
  <1>2. ASSUME NEW r \in Readers PROVE seen[r] \subseteq seen'[r]
    <2>1. CASE PutFinish
      <3>1. PICK vs : req.val \in vs /\ Allowing(req.key, vs) BY <2>1, FinishAllows
      <3> QED BY <3>1 DEF Allowing
    <2>2. CASE ~ PutFinish BY <2>2, HolderFrame DEF Frame
    <2> QED BY <2>1, <2>2
  <1>3. ASSUME NEW r \in Readers, NEW k \in Keys,
               reader[r].at \in {"ssd", "refill", "promote"}, reader[r].key = k
        PROVE  Follows(r, k)'
    <2>1. Follows(r, k) BY <1>3 DEF Followed
    <2>2. Around(k)' \subseteq Sources(k) BY Origin
    <2>3. Around(k)' \subseteq seen[r] \cup (IF Putting(k) THEN {req.val} ELSE {})
      BY <2>1, <2>2 DEF Sources, Follows
    <2>4. CASE PutFinish
      <3>1. Putting(k) => req.val \in seen'[r]
        <4>1. PICK vs : req.val \in vs /\ Allowing(req.key, vs) BY <2>4, FinishAllows
        <4> QED BY <1>3, <4>1 DEF Allowing, Putting
      <3> QED BY <3>1, <2>3, <1>2 DEF Follows
    <2>5. CASE ~ PutFinish
      <3>1. (Putting(k)' <=> Putting(k)) /\ (Putting(k) => req'.val = req.val)
        BY <2>5, HolderFrame DEF Frame, SameCall, Putting
      <3> QED BY <3>1, <2>3, <1>2 DEF Follows
    <2> QED BY <2>4, <2>5
  <1> QED BY <1>1, <1>2, <1>3 DEF Followed

-----------------------------------------------------------------------------
(* Keys nobody is putting.                                                 *)

\* The life of a key nobody is putting ends where the lock holder finds it in
\* no tier, or takes it out of the last one.
LEMMA ExpiryEnds ==
    ASSUME Shape, Dependable, Steady, LockHolder, NEW k \in Keys, ~ Putting(k),
           Expired(cache, k), ~ Expired(cache', k)
    PROVE  /\ cache'.memory[k] = None /\ cache'.pmem[k] = None /\ cache'.block[k] = None
           /\ OnStack(todo') \subseteq OnStack(todo)
           /\ todo[1].step \in {"Forget", "EvictSsd", "Sweep", "Purge"}
  <1>a. Ok("ssdDelete") = {TRUE} BY SettledHolder, Reliable DEF Steady
  <1>b. OnStack(Tail(todo)) \subseteq OnStack(todo) BY StackKept
  <1>c. Becomes({}) \/ todo' = todo => OnStack(todo') \subseteq OnStack(todo) BY <1>b DEF Becomes
  <1>d. cache'.expiry[k] # cache.expiry[k] BY DEF Expired
  <1>e. ASSUME NEW z \in Keys, Touches(cache, cache', z) PROVE k = z
    BY <1>d, <1>e DEF Touches, SameEntry
  <1>1. CASE EvictMemory BY <1>1, <1>d, EvictMemoryEffect
  <1>2. CASE DemoteMemory BY <1>2, <1>d, DemoteMemoryEffect
  <1>3. CASE PutPmem BY <1>3, <1>d, PutPmemEffect
  <1>4. CASE EvictPmem BY <1>4, <1>d, EvictPmemEffect
  <1>5. CASE Forget
    <2>1. k = todo[1].key /\ todo[1].step = "Forget" /\ Becomes({})
      BY <1>5, <1>e, ForgetEffect
    <2>2. ~ InSomeTier(cache, k) BY <1>5, <1>d, <2>1, ForgetEffect
    <2>3. cache.memory[k] = None /\ cache.pmem[k] = None /\ cache.block[k] = None
      BY <2>2 DEF InSomeTier, InMemory, InPmem, Steady, Listed
    <2> QED BY <1>5, <2>1, <2>3, <1>c, ForgetEffect DEF SameMemory, SamePmem, SameSsd
  <1>6. CASE SsdBypass BY <1>6, <1>d, SsdBypassEffect
  <1>7. CASE EvictSsd
    <2>1. PICK z \in Keys, ok \in Ok("ssdDelete") :
            /\ Touches(cache, cache', z) /\ SameMemory(cache, cache') /\ SamePmem(cache, cache')
            /\ cache'.block[z] = IF ok THEN None ELSE cache.block[z]
            /\ InMemory(cache, z) \/ InPmem(cache, z) => SameMetadata(cache, cache')
            /\ todo' = todo \/ Becomes({})
      BY <1>7, <1>d, EvictSsdEffect
    <2>2. k = z /\ ok BY <2>1, <1>a, <1>e
    <2>3. cache.memory[k] = None /\ cache.pmem[k] = None
      BY <2>1, <2>2, <1>d DEF SameMetadata, InMemory, InPmem
    <2>4. todo[1].step = "EvictSsd" BY <1>7, TopFacts DEF EvictSsd
    <2> QED BY <2>1, <2>2, <2>3, <2>4, <1>c DEF SameMemory, SamePmem
  <1>8. CASE WriteBypass BY <1>8, <1>d, WriteBypassEffect DEF SameMetadata
  <1>9. CASE Sweep \/ Purge
    <2>1. PICK z \in Keys, ok \in Ok("ssdDelete") : todo' = todo /\ Removed(z, ok)
      BY <1>9, <1>d, SweepEffect
    <2>2. k = z /\ ok BY <2>1, <1>a, <1>e DEF Removed
    <2>3. todo[1].step \in {"Sweep", "Purge"} BY <1>9, TopFacts DEF Sweep, Purge
    <2> QED BY <2>1, <2>2, <2>3, <1>c DEF Removed
  <1>10. CASE PutMemory BY <1>10, <1>e, PutMemoryEffect DEF Putting
  <1>11. CASE PutPmemPart BY <1>11, <1>d, <1>e, PutPmemPartEffect DEF Putting
  <1>12. CASE PutSsd BY <1>12, <1>d, PutSsdEffect
  <1>13. CASE MakeRoom BY <1>13, <1>d, MakeRoomEffect
  <1>14. CASE WriteSsd BY <1>14, <1>d, <1>e, WriteSsdEffect DEF Putting
  <1>15. CASE PutFinish BY <1>15, <1>e, PutFinishEffect DEF Putting
  <1> QED
    BY <1>1, <1>2, <1>3, <1>4, <1>5, <1>6, <1>7, <1>8, <1>9, <1>10, <1>11, <1>12, <1>13, <1>14,
       <1>15 DEF LockHolder

\* A lapsed key that nobody is putting stays lapsed until nothing of it is around.
LEMMA LapsedHolder ==
    ASSUME Shape, Dependable, Steady, LockHolder, NEW k \in Keys, ~ Putting(k), Lapsed(k)
    PROVE  Lapsed(k)' \/ Around(k)' = {}
  <1>a. todo[1] \in OnStack(todo) BY StackKept
  <1>b. Expired(cache, k) BY DEF Lapsed
  <1>c. \A x \in OnStack(todo) : x.step \in Carrying /\ x.key = k => x.step = "DemoteMemory"
    BY DEF Lapsed
  <1>1. CASE Expired(cache', k)
    <2>1. ASSUME NEW x \in OnStack(todo'), x.step \in Carrying, x.key = k
          PROVE  x.step = "DemoteMemory"
      <3>1. SsdBypass => todo[1].step = "SsdBypass" BY SsdBypassEffect
      <3>2. PutMemory \/ PutPmemPart => req.active BY PutMemoryEffect, PutPmemPartEffect
      <3> QED BY <2>1, <3>1, <3>2, <1>a, <1>b, <1>c, CarryGrowth DEF Putting, Carrying
    <2> QED BY <1>1, <2>1 DEF Lapsed
  <1>2. CASE ~ Expired(cache', k)
    <2>1. /\ cache'.memory[k] = None /\ cache'.pmem[k] = None /\ cache'.block[k] = None
          /\ OnStack(todo') \subseteq OnStack(todo)
          /\ todo[1].step \in {"Forget", "EvictSsd", "Sweep", "Purge"}
      BY <1>2, <1>b, ExpiryEnds
    <2>2. Copies(k)' = {} BY <2>1 DEF Copies
    <2>3. /\ OnStack(todo) = {todo[1]} \cup OnStack(Tail(todo))
          /\ \A x \in OnStack(Tail(todo)) : x.step # "DemoteMemory"
      <3>1. todo # <<>> /\ Stacked(todo) BY StackKept DEF Shape, Agenda
      <3> QED BY <3>1, UnderTheTop
    <2>4. \A x \in OnStack(todo') : ~ (x.step \in Carrying /\ x.key = k)
      BY <2>1, <2>3, <1>c
    <2>5. Carried(k)' = {} BY <2>4 DEF Carried
    <2> QED BY <2>2, <2>5 DEF Around
  <1> QED BY <1>1, <1>2

\* At its end a put has left only what a read may find.
LEMMA FinishFresh ==
    ASSUME Shape, Dependable, Steady, Fresh, PutFinish, NEW k, k = req.key
    PROVE  Around(k)' \subseteq allowed'[k]
  <1> DEFINE v == req.val
  <1>a. /\ req.active /\ k \in Keys /\ v \in Values /\ OnStack(todo) = {todo[1]}
        /\ todo[1].step = "PutFinish" /\ todo' = <<>> /\ req \in Request
        /\ SameMemory(cache, cache') /\ SamePmem(cache, cache')
    BY PutFinishEffect DEF Shape
  <1>b. /\ ~ Pending("PutMemory") /\ ~ Pending("PutPmemPart")
        /\ ~ Pending("PutSsd") /\ ~ Pending("WriteSsd")
    BY <1>a DEF Pending
  <1>c. Ok("ssdDelete") = {TRUE} BY SettledHolder, Reliable DEF Steady, LockHolder
  <1>d. /\ "ttl" \notin Calls => Around(k) \subseteq allowed[k] \cup {v}
        /\ MemoryPart /\ PmemPart /\ SsdPart
    BY <1>a DEF Fresh
  <1>e. req.outcome \in Outcomes BY <1>a, RequestFacts
  <1>1. cache.memory[k] \in {None, v} BY <1>b, <1>d DEF MemoryPart
  <1>2. cache.pmem[k] \in {None, v} \/ (req.outcome = "err" /\ "ttl" \notin Calls)
    BY <1>a, <1>b, <1>d DEF PmemPart
  <1>3. PICK recorded \in Ok("manifest") :
          LET failed == req.outcome = "err" \/ (StaleBlock /\ ~ recorded)
          IN /\ Allowing(k, IF failed THEN allowed[k] \cup {v} ELSE {v})
             /\ StaleBlock => cache'.block[k] = None
             /\ ~ StaleBlock => cache'.block[k] = cache.block[k]
    BY <1>c, PutFinishEffect DEF SameSsd
  <1>4. /\ v \in allowed'[k]
        /\ req.outcome = "err" => allowed[k] \subseteq allowed'[k]
    <2>1. allowed \in [Keys -> SUBSET Values] BY DEF Shape
    <2> QED BY <1>3, <1>a, <2>1 DEF Allowing
  <1>5. Carried(k)' = {}
    <2>1. OnStack(todo') = {} BY <1>a, EmptyStack
    <2> QED BY <2>1 DEF Carried
  <1>6. {cache'.memory[k], cache'.pmem[k], cache'.block[k]} \subseteq {None} \cup allowed'[k]
    <2>1. cache'.memory[k] = cache.memory[k] /\ cache'.pmem[k] = cache.pmem[k]
      BY <1>a DEF SameMemory, SamePmem
    <2>2. CASE req.outcome = "yes"
      BY <2>1, <2>2, <1>1, <1>2, <1>3, <1>4, <1>d DEF SsdPart, StaleBlock
    <2>3. CASE req.outcome = "err" /\ "ttl" \in Calls
      BY <2>1, <2>3, <1>1, <1>2, <1>3, <1>4, <1>d DEF SsdPart, StaleBlock
    <2>4. CASE req.outcome = "err" /\ "ttl" \notin Calls
      <3>1. Copies(k) \subseteq allowed'[k] BY <2>4, <1>4, <1>d DEF Around
      <3> QED BY <2>1, <2>4, <3>1, <1>3 DEF Copies, StaleBlock
    <2>5. CASE req.outcome = "no"
      <3>1. ~ StaleBlock => cache.block[k] \in {None, v}
        BY <2>5, <1>a DEF StaleBlock, Steady, Listed
      <3> QED BY <2>1, <2>5, <3>1, <1>1, <1>2, <1>3, <1>4
    <2> QED BY <2>2, <2>3, <2>4, <2>5, <1>b, <1>d, <1>e DEF Outcomes, SsdPart
  <1> QED BY <1>5, <1>6 DEF Around, Copies

\* The lock holder leaves only allowed values of a key nobody is putting.
LEMMA UndisturbedHolder ==
    ASSUME Shape, Dependable, Steady, Fresh, Undisturbed, LockHolder
    PROVE  Undisturbed'
  <1> SUFFICES ASSUME NEW k \in Keys, ~ Putting(k)'
               PROVE  Lapsed(k)' \/ Around(k)' \subseteq allowed'[k]
    BY DEF Undisturbed
  <1>1. CASE PutFinish /\ k = req.key BY <1>1, FinishFresh
  <1>2. CASE ~ (PutFinish /\ k = req.key)
    <2>1. allowed'[k] = allowed[k] /\ ~ Putting(k)
      <3>1. CASE PutFinish
        <4>1. PICK vs : Allowing(req.key, vs) BY <3>1, FinishAllows
        <4>2. allowed \in [Keys -> SUBSET Values] BY DEF Shape
        <4> QED BY <4>1, <4>2, <3>1, <1>2 DEF Allowing, Putting
      <3>2. CASE ~ PutFinish BY <3>2, HolderFrame DEF Frame, SameCall, Putting
      <3> QED BY <3>1, <3>2
    <2>2. CASE Lapsed(k) BY <2>1, <2>2, LapsedHolder
    <2>3. CASE ~ Lapsed(k)
      <3>1. Around(k) \subseteq allowed[k] BY <2>1, <2>3 DEF Undisturbed
      <3>2. Around(k)' \subseteq Around(k) BY <2>1, Origin DEF Sources
      <3> QED BY <3>1, <3>2, <2>1
    <2> QED BY <2>2, <2>3
  <1> QED BY <1>1, <1>2

-----------------------------------------------------------------------------
(* The put in progress.                                                    *)

\* The step on top says which action is taken.
LEMMA Tops ==
    ASSUME Shape
    PROVE  /\ EvictMemory => todo[1].step = "EvictMemory"
           /\ DemoteMemory => todo[1].step = "DemoteMemory"
           /\ PutPmem => todo[1].step = "PutPmem"
           /\ EvictPmem => todo[1].step = "EvictPmem"
           /\ Forget => todo[1].step = "Forget"
           /\ SsdBypass => todo[1].step = "SsdBypass"
           /\ EvictSsd => todo[1].step = "EvictSsd"
           /\ WriteBypass => todo[1].step = "WriteBypass"
           /\ Sweep => todo[1].step = "Sweep"
           /\ PutMemory => todo[1].step = "PutMemory"
           /\ PutPmemPart => todo[1].step = "PutPmemPart"
           /\ PutSsd => todo[1].step = "PutSsd"
           /\ MakeRoom => todo[1].step = "MakeRoom"
           /\ WriteSsd => todo[1].step = "WriteSsd"
           /\ PutFinish => todo[1].step = "PutFinish"
           /\ Purge => todo[1].step = "Purge"
  <1> DEFINE Top(step) == Doing(step) => todo[1].step = step
  <1>1. \A step : Top(step) BY TopFacts
  <1> HIDE DEF Top
  <1>2. /\ Top("EvictMemory") /\ Top("DemoteMemory") /\ Top("PutPmem") /\ Top("EvictPmem")
        /\ Top("Forget") /\ Top("SsdBypass") /\ Top("EvictSsd") /\ Top("WriteBypass")
        /\ Top("Sweep") /\ Top("PutMemory") /\ Top("PutPmemPart") /\ Top("PutSsd")
        /\ Top("MakeRoom") /\ Top("WriteSsd") /\ Top("PutFinish") /\ Top("Purge")
    BY <1>1
  <1> QED
    BY <1>2 DEF Top, EvictMemory, DemoteMemory, PutPmem, EvictPmem, Forget, SsdBypass, EvictSsd,
                WriteBypass, Sweep, PutMemory, PutPmemPart, PutSsd, MakeRoom, WriteSsd, PutFinish,
                Purge

\* Under the SSD part of a put lies only its end.
LEMMA UnderSsdPart ==
    ASSUME NEW t, Stacked(t), t # <<>>, t[1].step \in {"PutSsd", "WriteSsd"}
    PROVE  \A x \in OnStack(Tail(t)) : x.step = "PutFinish"
  <1> DEFINE u == Tail(t)
  <1>1. Stacked(u) /\ (u # <<>> => u[1] = t[2] /\ t[2].step \in Below(t[1].step)) BY PoppedStack
  <1> HIDE DEF u
  <1>2. CASE u = <<>> BY <1>2, EmptyStack DEF u
  <1>3. CASE u # <<>>
    <2>1. u[1].step = "PutFinish" BY <1>1, <1>3 DEF Below
    <2>2. OnStack(u) = {u[1]}
      <3>1. Tail(u) = <<>> BY <1>1, <1>3, <2>1, LastStep
      <3>2. OnStack(u) = {u[1]} \cup OnStack(Tail(u)) BY <1>1, <1>3, UnderTheTop
      <3> QED BY <3>1, <3>2, EmptyStack
    <2> QED BY <2>1, <2>2 DEF u
  <1> QED BY <1>2, <1>3

\* Under its PMEM part lie only the SSD part and the end.
LEMMA UnderPmemPart ==
    ASSUME NEW t, Stacked(t), t # <<>>, t[1].step = "PutPmemPart"
    PROVE  \A x \in OnStack(Tail(t)) : x.step \in {"PutSsd", "PutFinish"}
  <1> DEFINE u == Tail(t)
  <1>1. Stacked(u) /\ (u # <<>> => u[1] = t[2] /\ t[2].step \in Below(t[1].step)) BY PoppedStack
  <1> HIDE DEF u
  <1>2. CASE u = <<>> BY <1>2, EmptyStack DEF u
  <1>3. CASE u # <<>>
    <2>1. u[1].step = "PutSsd" BY <1>1, <1>3 DEF Below
    <2>2. \A x \in OnStack(Tail(u)) : x.step = "PutFinish" BY <1>1, <1>3, <2>1, UnderSsdPart
    <2>3. OnStack(u) = {u[1]} \cup OnStack(Tail(u)) BY <1>1, <1>3, UnderTheTop
    <2> QED BY <2>1, <2>2, <2>3 DEF u
  <1> QED BY <1>2, <1>3

\* The PMEM part waits while the memory part does.
LEMMA PartsInOrder ==
    ASSUME Shape, req.active, Pending("PutMemory")
    PROVE  Pending("PutPmemPart")
  <1> DEFINE n == Len(todo)
  <1>1. Stacked(todo) /\ todo # <<>> /\ todo[n].step = "PutFinish" BY DEF Shape, Agenda
  <1>2. n \in Nat BY <1>1 DEF Stacked
  <1>3. PICK i \in 1 .. n : todo[i].step = "PutMemory" BY DEF Pending, OnStack
  <1>4. i # n BY <1>1, <1>3
  <1> DEFINE j == i + 1
  <1>5. j \in 1 .. n /\ j > 1 /\ j - 1 = i BY <1>2, <1>3, <1>4
  <1> HIDE DEF j, n
  <1>6. todo[j].step \in Below(todo[i].step) BY <1>1, <1>5 DEF Stacked, n
  <1>7. todo[j].step = "PutPmemPart" BY <1>3, <1>6 DEF Below
  <1> QED BY <1>5, <1>7 DEF Pending, OnStack, n

\* Memory refuses a value only when it is not there.
LEMMA RefusedByMemory ==
    ASSUME Shape, Dependable, Steady, NEW k \in Keys, NEW v \in Values,
           FALSE \in MemoryAdmits(cache, k, v)
    PROVE  cache.memory[k] = None
  <1>1. cache.memory_capacity \in MemoryCapacities /\ cache.memory_capacity \in Nat /\ Size[v] \in Nat
    BY InnerAssumption DEF Steady, Settled, Shape, Tidy, Inner
  <1>2. ~ (cache.memory_capacity > 0 /\ Size[v] <= cache.memory_capacity)
    <2> SUFFICES ASSUME cache.memory_capacity > 0, Size[v] <= cache.memory_capacity PROVE FALSE
      OBVIOUS
    <2>1. ~ (cache.memory_capacity = 0 \/ Size[v] > cache.memory_capacity) BY <1>1
    <2>2. ~ FilterOn BY DEF Dependable
    <2>3. MemoryAdmits(cache, k, v) = {TRUE} BY <2>1, <2>2 DEF MemoryAdmits
    <2> QED BY <2>3
  <1>3. MemoryCapacities \subseteq {0} BY <1>1, <1>2 DEF Dependable, Roomy
  <1> QED BY <1>3 DEF Steady, Absent

\* So does PMEM.
LEMMA RefusedByPmem ==
    ASSUME Shape, Dependable, Steady, NEW k \in Keys, NEW v \in Values,
           cache.pmem_capacity > 0 /\ Size[v] <= cache.pmem_capacity => "pmemPut" \in Faults
    PROVE  cache.pmem[k] = None
  <1>1. cache.pmem_capacity \in PmemCapacities BY DEF Steady, Settled
  <1>2. ~ (cache.pmem_capacity > 0 /\ Size[v] <= cache.pmem_capacity) BY DEF Dependable
  <1>3. PmemCapacities \subseteq {0} BY <1>1, <1>2 DEF Dependable, Roomy
  <1> QED BY <1>3 DEF Steady, Absent

\* What is left of a put stays left until its turn comes, and nothing of it
\* comes back.
LEMMA PartsWait ==
    ASSUME Shape, LockHolder, NEW s \in {"PutMemory", "PutPmemPart", "PutSsd"}
    PROVE  /\ Pending(s)' => Pending(s)
           /\ Pending(s) /\ todo[1].step # s => Pending(s)'
  <1>1. ASSUME Pending(s)' PROVE Pending(s)
    <2>1. PICK x \in OnStack(todo') : x.step = s BY <1>1 DEF Pending
    <2>2. x \in OnStack(todo) BY <2>1, CarryGrowth
    <2> QED BY <2>1, <2>2 DEF Pending
  <1>2. ASSUME Pending(s), todo[1].step # s PROVE Pending(s)'
    <2>1. PICK x \in OnStack(todo) : x.step = s BY <1>2 DEF Pending
    <2>2. x \in OnStack(todo') BY <1>2, <2>1, StackKept
    <2> QED BY <2>1, <2>2 DEF Pending
  <1> QED BY <1>1, <1>2

\* Who has a part of a put on top takes it.
LEMMA PartsTaken ==
    ASSUME Shape, LockHolder
    PROVE  /\ todo[1].step = "PutMemory" => PutMemory
           /\ todo[1].step = "PutPmemPart" => PutPmemPart
           /\ todo[1].step = "PutSsd" => PutSsd
  BY Tops DEF LockHolder

\* The memory part leaves memory without the old value, and so do the steps
\* that come after it.
LEMMA MemoryPartHolder ==
    ASSUME Shape, Dependable, Steady, Fresh, LockHolder, ~ PutFinish, req.active
    PROVE  MemoryPart'
  <1> DEFINE k == req.key
             v == req.val
  <1>1. /\ k \in Keys /\ v \in Values /\ req.fallback \in BOOLEAN
        /\ req'.key = k /\ req'.val = v
        /\ ~ PutPmem => req'.fallback = req.fallback
    BY HolderFrame, RequestFacts DEF Shape, Frame, SameCall
  <1>2. MemoryPart BY DEF Fresh
  <1>3. todo[1] \in OnStack(todo) /\ OnStack(todo) = {todo[1]} \cup OnStack(Tail(todo)) BY StackKept
  <1>4. CASE Pending("PutMemory")'
    <2>1. Pending("PutMemory") /\ ~ req.fallback BY <1>2, <1>4, PartsWait DEF MemoryPart
    <2>2. ~ PutPmem
      <3> SUFFICES ASSUME PutPmem PROVE FALSE OBVIOUS
      <3>1. todo # <<>> /\ Stacked(todo) /\ todo[1].step = "PutPmem"
        BY StackKept, Tops DEF Shape, Agenda
      <3> QED BY <2>1, <3>1, <1>3, UnderTheTop DEF Pending
    <2> QED BY <1>1, <1>4, <2>1, <2>2 DEF MemoryPart
  <1>5. CASE ~ Pending("PutMemory")'
    <2> SUFFICES /\ cache'.memory[k] \in {None, v}
                 /\ \A x \in OnStack(todo') :
                       x.step \in {"DemoteMemory", "PutPmem"} /\ x.key = k => x.val = v
                 /\ req'.fallback => cache'.pmem[k] \in {None, v}
      BY <1>1, <1>5 DEF MemoryPart, InHand
    <2>1. CASE PutMemory
      <3>1. todo[1].step = "PutMemory" /\ Doing("PutMemory") BY <2>1, Tops DEF PutMemory
      <3>2. ~ req'.fallback BY <3>1, <2>1, <1>1, <1>2, <1>3, Tops DEF MemoryPart, Pending
      <3>3. \A x \in OnStack(Tail(todo)) : x.step \notin Carrying BY <3>1, NothingCarried
      <3>4. cache'.memory[k] \in {None, v}
        <4>1. \/ cache'.memory[k] = v
              \/ SameMemory(cache, cache') /\ FALSE \in MemoryAdmits(cache, k, v)
              \/ cache.ssd_only /\ cache' = cache
              \/ cache'.memory[k] = None
          BY <2>1, PutMemoryEffect
        <4>2. FALSE \in MemoryAdmits(cache, k, v) => cache.memory[k] = None BY <1>1, RefusedByMemory
        <4>3. cache.ssd_only => cache.memory[k] = None BY <1>1 DEF Steady, Absent
        <4> QED BY <4>1, <4>2, <4>3 DEF SameMemory
      <3>5. PICK new : /\ Becomes(new)
                       /\ \A x \in new : x.step \in {"DemoteMemory", "PutPmem"} => x.val = v
        <4> DEFINE e == [step |-> "EvictMemory"]
                   p == [step |-> "PutPmem", key |-> k, val |-> v, fallback |-> TRUE]
        <4>1. Becomes({e}) \/ Becomes({p}) \/ Becomes({}) BY <2>1, PutMemoryEffect
        <4>2. e.step = "EvictMemory" /\ p.val = v OBVIOUS
        <4> HIDE DEF e, p, k, v
        <4> QED BY <4>1, <4>2
      <3> QED BY <3>2, <3>3, <3>4, <3>5 DEF Becomes, Carrying
    <2>2. CASE ~ PutMemory
      <3>1. ~ Pending("PutMemory") BY <2>2, <1>5, PartsWait, PartsTaken
      <3>2. /\ cache.memory[k] \in {None, v} /\ InHand({"DemoteMemory", "PutPmem"})
            /\ req.fallback => cache.pmem[k] \in {None, v}
        BY <3>1, <1>2 DEF MemoryPart
      <3>3. cache'.memory[k] \in {None, v} BY <2>2, <3>2, <1>1, MemoryGrowth
      <3>4. ASSUME NEW x \in OnStack(todo'), x.step \in {"DemoteMemory", "PutPmem"}, x.key = k
            PROVE  x.val = v
        <4>1. None \notin Values BY InnerAssumption
        <4>2. DemoteMemory => todo[1].step = "DemoteMemory" BY Tops
        <4> QED BY <4>1, <4>2, <3>2, <3>4, <2>2, <1>3, CarryGrowth DEF InHand
      <3>5. ASSUME req'.fallback PROVE cache'.pmem[k] \in {None, v}
        <4>1. CASE ~ PutPmem
          BY <4>1, <3>2, <3>5, <1>1, PmemGrowth
        <4>2. CASE PutPmem
          <5>1. todo[1].step = "PutPmem" /\ (todo[1].key = k => todo[1].val = v)
            BY <4>2, <3>2, <1>3, Tops DEF InHand
          <5>2. CASE todo[1].fallback
            <6>1. todo[1].key = k BY <5>1, <5>2, <1>3 DEF Fresh
            <6>2. cache'.pmem[todo[1].key] = todo[1].val BY <4>2, <5>2, <3>5, PutPmemEffect
            <6> QED BY <5>1, <6>1, <6>2
          <5>3. CASE ~ todo[1].fallback
            <6>1. req' = req BY <4>2, <5>3, PutPmemEffect
            <6> QED BY <6>1, <5>1, <3>2, <3>5, <1>1, PmemGrowth
          <5> QED BY <5>2, <5>3
        <4> QED BY <4>1, <4>2
      <3> QED BY <3>3, <3>4, <3>5
    <2> QED BY <2>1, <2>2
  <1> QED BY <1>4, <1>5

\* The PMEM part leaves PMEM without the old value or fails, and so do the
\* steps that come after it.
LEMMA PmemPartHolder ==
    ASSUME Shape, Dependable, Steady, Fresh, LockHolder, ~ PutFinish, req.active
    PROVE  PmemPart'
  <1> DEFINE k == req.key
             v == req.val
  <1>1. k \in Keys /\ v \in Values /\ req'.key = k /\ req'.val = v
    BY HolderFrame, RequestFacts DEF Shape, Frame, SameCall
  <1>2. MemoryPart /\ PmemPart /\ SsdPart BY DEF Fresh
  <1>3. todo[1] \in OnStack(todo) /\ OnStack(todo) = {todo[1]} \cup OnStack(Tail(todo)) BY StackKept
  <1>4. todo # <<>> /\ Stacked(todo) BY StackKept DEF Shape, Agenda
  <1>5. None \notin Values BY InnerAssumption
  <1> SUFFICES ASSUME ~ Pending("PutPmemPart")'
               PROVE  /\ \A x \in OnStack(todo') :
                            x.step \in {"SsdBypass", "WriteBypass"} /\ x.key = k => x.val = v
                      /\ \/ cache'.pmem[k] \in {None, v}
                         \/ \E x \in OnStack(todo') : x.step = "PutPmem" /\ x.key = k
                         \/ req'.outcome = "err" /\ "ttl" \notin Calls
    BY <1>1 DEF PmemPart, InHand
  <1>6. CASE PutPmemPart
    <2> DEFINE p == [step |-> "PutPmem", key |-> k, val |-> v, fallback |-> FALSE]
    <2>1. p.step = "PutPmem" /\ p.key = k OBVIOUS
    <2>2. \A x \in OnStack(Tail(todo)) : x.step \notin Carrying
      BY <1>6, NothingCarried DEF PutPmemPart
    <2>3. req.fallback => cache.pmem[k] \in {None, v} BY <1>2 DEF MemoryPart
    <2>4. cache.ssd_only => cache.pmem[k] = None BY <1>1 DEF Steady, Absent
    <2>5. \/ Becomes({p})
          \/ Becomes({}) /\ cache' = cache /\ (cache.ssd_only \/ req.fallback)
          \/ Becomes({}) /\ req'.outcome = "err" /\ "pmemDelete" \in Faults
          \/ Becomes({}) /\ cache'.pmem[k] = None
      BY <1>6, PutPmemPartEffect
    <2>6. "pmemDelete" \in Faults => "ttl" \notin Calls BY DEF Dependable
    <2> HIDE DEF p, k, v
    <2>7. \A x \in OnStack(todo') : x.step \notin {"SsdBypass", "WriteBypass"}
      BY <2>1, <2>2, <2>5 DEF Becomes, Carrying
    <2> QED BY <2>1, <2>3, <2>4, <2>5, <2>6, <2>7 DEF Becomes
  <1>7. CASE ~ PutPmemPart
    <2>1. ~ Pending("PutPmemPart") BY <1>7, PartsWait, PartsTaken
    <2>2. ~ Pending("PutMemory") BY <2>1, PartsInOrder
    <2>3. InHand({"DemoteMemory", "PutPmem"}) BY <2>2, <1>2 DEF MemoryPart
    <2>4. InHand({"SsdBypass", "WriteBypass"}) BY <2>1, <1>2 DEF PmemPart
    <2>5. \/ cache.pmem[k] \in {None, v}
          \/ \E x \in OnStack(todo) : x.step = "PutPmem" /\ x.key = k
          \/ req.outcome = "err" /\ "ttl" \notin Calls
      BY <2>1, <1>2 DEF PmemPart
    <2>6. \A x \in OnStack(todo) : x.step = "PutPmem" => x = todo[1] BY <1>3, <1>4, UnderTheTop
    <2>7. req.outcome = "err" => PutSsd
      <3> SUFFICES ASSUME req.outcome = "err" PROVE PutSsd OBVIOUS
      <3>1. todo[1].step \in {"PutSsd", "PutFinish"} BY <1>2, <1>3 DEF SsdPart
      <3> QED BY <3>1, Tops DEF LockHolder
    <2>8. EvictPmem => cache.pmem[k] \in {None, v} BY <2>5, <2>6, <2>7, Tops
    <2>9. ASSUME NEW x \in OnStack(todo'), x.step \in {"SsdBypass", "WriteBypass"}, x.key = k
          PROVE  x.val = v
      <3>1. /\ DemoteMemory => todo[1].step = "DemoteMemory"
            /\ SsdBypass => todo[1].step = "SsdBypass"
        BY Tops
      <3> QED BY <3>1, <2>3, <2>4, <2>8, <2>9, <1>3, <1>5, CarryGrowth DEF InHand
    <2>10. \/ cache'.pmem[k] \in {None, v}
           \/ req'.outcome = "err" /\ "ttl" \notin Calls
      <3>1. CASE cache.pmem[k] \in {None, v}
        <4>1. PutPmem /\ todo[1].key = k => todo[1].val = v BY <2>3, <1>3, Tops DEF InHand
        <4> QED BY <3>1, <4>1, <1>1, PmemGrowth
      <3>2. CASE \E x \in OnStack(todo) : x.step = "PutPmem" /\ x.key = k
        <4>1. todo[1].step = "PutPmem" /\ todo[1].key = k /\ todo[1].val = v
          BY <3>2, <2>3, <2>6 DEF InHand
        <4>2. PutPmem BY <4>1, Tops DEF LockHolder
        <4>3. \/ cache'.pmem[k] = v
              \/ /\ SamePmem(cache, cache')
                 /\ cache.pmem_capacity > 0 /\ Size[v] <= cache.pmem_capacity => "pmemPut" \in Faults
          BY <4>1, <4>2, PutPmemEffect
        <4> QED BY <4>3, <1>1, RefusedByPmem DEF SamePmem
      <3>3. CASE req.outcome = "err" /\ "ttl" \notin Calls
        BY <3>3, <2>7, PutSsdEffect
      <3> QED BY <2>5, <3>1, <3>2, <3>3
    <2> QED BY <2>9, <2>10
  <1> QED BY <1>6, <1>7

\* The SSD part leaves the SSD with the value, or fails.
LEMMA SsdPartHolder ==
    ASSUME Shape, Dependable, Steady, Fresh, LockHolder, ~ PutFinish, req.active
    PROVE  SsdPart'
  <1> DEFINE k == req.key
             v == req.val
             o == req'.outcome
  <1>1. k \in Keys /\ v \in Values /\ req'.key = k /\ req'.val = v /\ req.outcome \in Outcomes
    BY HolderFrame, RequestFacts DEF Shape, Frame, SameCall
  <1>2. SsdPart BY DEF Fresh
  <1>3. /\ todo[1] \in OnStack(todo) /\ OnStack(todo) = {todo[1]} \cup OnStack(Tail(todo))
        /\ OnStack(Tail(todo)) \subseteq OnStack(todo')
    BY StackKept
  <1>4. todo # <<>> /\ Stacked(todo) BY StackKept DEF Shape, Agenda
  <1>5. ~ PutSsd => req.outcome \notin {"yes", "err"}
    <2> SUFFICES ASSUME req.outcome \in {"yes", "err"} PROVE PutSsd OBVIOUS
    <2>1. todo[1].step \in {"PutSsd", "PutFinish"} BY <1>2, <1>3 DEF SsdPart
    <2> QED BY <2>1, Tops DEF LockHolder
  <1>6. ~ PutSsd /\ ~ WriteSsd /\ req.outcome = "none" => Pending("PutSsd")' \/ Pending("WriteSsd")'
    <2> SUFFICES ASSUME ~ PutSsd, ~ WriteSsd, req.outcome = "none"
                 PROVE  Pending("PutSsd")' \/ Pending("WriteSsd")'
      OBVIOUS
    <2>1. CASE Pending("PutSsd") BY <2>1, PartsWait, PartsTaken
    <2>2. CASE Pending("WriteSsd")
      <3>1. todo[1].step # "WriteSsd" BY Tops DEF LockHolder
      <3> QED BY <2>2, <3>1, <1>3 DEF Pending
    <2> QED BY <2>1, <2>2, <1>2 DEF SsdPart
  <1> SUFFICES /\ o = "none" => Pending("PutSsd")' \/ Pending("WriteSsd")'
               /\ o = "yes" => cache'.block[k] = v
               /\ o = "err" => cache'.block[k] = v \/ "ttl" \notin Calls
               /\ o \in {"yes", "err"} => \A x \in OnStack(todo') : x.step \in {"PutSsd", "PutFinish"}
               /\ o = "yes" => ~ Pending("PutSsd")'
    BY <1>1 DEF SsdPart
  <1>7. CASE PutSsd
    <2>1. todo[1].step = "PutSsd" BY <1>7, Tops
    <2>2. req.outcome # "yes" BY <2>1, <1>2, <1>3 DEF SsdPart, Pending
    <2>3. \A x \in OnStack(Tail(todo)) : x.step = "PutFinish" BY <1>4, <2>1, UnderSsdPart
    <2> DEFINE m == [step |-> "MakeRoom", before |-> None]
               w == [step |-> "WriteSsd"]
    <2>4. /\ cache' = cache
          /\ \/ req.outcome = "err" /\ o = "err" /\ Becomes({})
             \/ o = "no"
             \/ req.outcome # "err" /\ o = req.outcome /\ Becomes({m, w})
      BY <1>7, PutSsdEffect
    <2>5. w.step = "WriteSsd" OBVIOUS
    <2> HIDE DEF m, w, o
    <2>6. Becomes({m, w}) => Pending("WriteSsd")' BY <2>5 DEF Becomes, Pending
    <2>7. CASE req.outcome = "err" /\ o = "err" /\ Becomes({})
      BY <2>7, <2>3, <2>4, <1>2 DEF SsdPart, Becomes
    <2>8. CASE o = "no" BY <2>8
    <2>9. CASE req.outcome # "err" /\ o = req.outcome /\ Becomes({m, w})
      BY <2>9, <2>2, <2>6
    <2> QED BY <2>4, <2>7, <2>8, <2>9
  <1>8. CASE WriteSsd
    <2>1. todo[1].step = "WriteSsd" BY <1>8, Tops
    <2>2. \A x \in OnStack(Tail(todo)) : x.step = "PutFinish" BY <1>4, <2>1, UnderSsdPart
    <2>3. Ok("ssdWrite") = {TRUE} BY SettledHolder, Reliable DEF Steady
    <2>4. Becomes({}) /\ (o = "no" \/ (o \in {"yes", "err"} /\ cache'.block[k] = v))
      BY <1>8, <2>3, WriteSsdEffect
    <2>5. \A x \in OnStack(todo') : x.step = "PutFinish" BY <2>2, <2>4 DEF Becomes
    <2> HIDE DEF o
    <2> QED BY <2>4, <2>5 DEF Pending
  <1>9. CASE PutPmemPart
    <2>1. todo[1].step = "PutPmemPart" /\ ~ PutSsd /\ ~ WriteSsd
      BY <1>9, Tops
    <2>2. \A x \in OnStack(Tail(todo)) : x.step \in {"PutSsd", "PutFinish"}
      BY <1>4, <2>1, UnderPmemPart
    <2>3. o = req.outcome \/ (o = "err" /\ Becomes({}) /\ "pmemDelete" \in Faults)
      BY <1>9, PutPmemPartEffect
    <2>4. "pmemDelete" \in Faults => "ttl" \notin Calls BY DEF Dependable
    <2> HIDE DEF o
    <2> QED BY <2>1, <2>2, <2>3, <2>4, <1>5, <1>6 DEF Becomes
  <1>10. CASE ~ (PutSsd \/ WriteSsd \/ PutPmemPart)
    <2>1. o = req.outcome \/ o = "no"
      <3>1. CASE MakeRoom BY <3>1, MakeRoomEffect
      <3>2. CASE ~ MakeRoom BY <3>2, <1>10, HolderFrame DEF Frame
      <3> QED BY <3>1, <3>2
    <2> HIDE DEF o
    <2> QED BY <2>1, <1>5, <1>6, <1>10
  <1> QED BY <1>7, <1>8, <1>9, <1>10

\* What a put has dealt with stays rid of the old value.
LEMMA FreshHolder ==
    ASSUME Shape, Dependable, Steady, Fresh, LockHolder
    PROVE  Fresh'
  <1> SUFFICES ASSUME req'.active PROVE Fresh' BY DEF Fresh
  <1>1. ~ PutFinish BY PutFinishEffect DEF NoReq
  <1>2. req.active /\ SameCall(req') /\ allowed' = allowed BY <1>1, HolderFrame DEF Frame
  <1> DEFINE k == req.key
             v == req.val
  <1>3. k \in Keys /\ v \in Values /\ req'.key = k /\ req'.val = v
    BY <1>2, RequestFacts DEF Shape, SameCall
  <1>4. "ttl" \notin Calls => Around(k)' \subseteq allowed[k] \cup {v}
    <2>1. Around(k)' \subseteq Around(k) \cup {v}
      <3>1. ASSUME NEW z \in Keys, z = k PROVE Around(z)' \subseteq Around(k) \cup {v}
        BY <3>1, <1>2, Origin DEF Sources, Putting
      <3> QED BY <3>1, <1>3
    <2> QED BY <2>1, <1>2 DEF Fresh
  <1>5. ASSUME NEW x \in OnStack(todo'), x.step = "PutPmem", x.fallback PROVE x.key = k
    BY <1>2, <1>5, CarryGrowth DEF Fresh
  <1>6. MemoryPart' /\ PmemPart' /\ SsdPart'
    BY <1>1, <1>2, MemoryPartHolder, PmemPartHolder, SsdPartHolder
  <1>7. "ttl" \notin Calls => Around(req.key)' \subseteq allowed'[req'.key] \cup {req'.val}
    BY <1>2, <1>3, <1>4
  <1> QED BY <1>3, <1>5, <1>6, <1>7 DEF Fresh

-----------------------------------------------------------------------------
(* The calls.                                                              *)

Call == (\E r \in Readers : Read(r)) \/ Write \/ Manage

\* What a call may do to k: a tier keeps its copy or gives it up, a read moves a
\* copy up, put_memory_only brings what it allows. With k's life or with what is
\* allowed of it, all of k ends.
CallAt(k) ==
    /\ \/ cache'.memory[k] \in {cache.memory[k], None}
       \/ /\ cache.memory_capacity > 0 /\ ~ cache.ssd_only
          /\ \/ cache'.memory[k] \in Copies(k)
             \/ /\ cache'.memory[k] \in allowed'[k]
                /\ \A r \in Readers : reader[r].at # "idle" /\ reader[r].key = k =>
                      cache'.memory[k] \in seen'[r]
    /\ cache'.pmem[k] \in {cache.pmem[k], None} /\ cache'.block[k] \in {cache.block[k], None}
    /\ cache'.block[k] # None => Indexed(cache', k)
    /\ \A x \in OnStack(todo') : x.step \in Carrying /\ x.key = k =>
          x.val \in Copies(k) /\ ~ Expired(cache, k) /\ ~ cache.ssd_only
    /\ \/ cache'.expiry[k] = cache.expiry[k] /\ allowed[k] \subseteq allowed'[k]
       \/ /\ OnStack(todo') = {} /\ cache'.expiry[k] = "none"
          /\ cache'.memory[k] = None /\ cache'.pmem[k] = None /\ cache'.block[k] = None
       \/ OnStack(todo') = {} /\ Expired(cache', k) /\ cache.expiry[k] = "live"

\* A call leaves k as it is.
LEMMA CallQuiet ==
    ASSUME Listed, NEW k \in Keys, SameEntry(cache, cache', k), allowed'[k] = allowed[k],
           \A x \in OnStack(todo') : ~ (x.step \in Carrying /\ x.key = k)
    PROVE  CallAt(k)
  <1>1. cache'.block[k] # None => Indexed(cache', k) BY DEF Listed, SameEntry, Indexed
  <1> QED BY <1>1 DEF CallAt, SameEntry

\* A call that leaves every entry as it is.
LEMMA CallIdle ==
    ASSUME Listed, SameEntries(cache, cache'), allowed' = allowed, NEW k \in Keys,
           \A x \in OnStack(todo') : x.step \notin Carrying
    PROVE  CallAt(k)
  <1>1. SameEntry(cache, cache', k)
    BY DEF SameEntries, SameEntry, SameMemory, SamePmem, SameSsd, SameIndex, SameMetadata
  <1> QED BY <1>1, CallQuiet

\* A call that removes k, from a store that deletes.
LEMMA CallRemoves ==
    ASSUME NEW k \in Keys, Removed(k, TRUE), OnStack(todo') = {}
    PROVE  CallAt(k)
  BY DEF Removed, CallAt

\* A call that touches another key than k.
LEMMA CallElsewhere ==
    ASSUME Shape, Listed, NEW z \in Keys, NEW k \in Keys, k # z, Touches(cache, cache', z),
           allowed' = allowed \/ \E vs : Allowing(z, vs),
           \A x \in OnStack(todo') : x.step \in Carrying => x.key = z
    PROVE  CallAt(k)
  <1>1. SameEntry(cache, cache', k) BY DEF Touches
  <1>2. allowed'[k] = allowed[k] BY DEF Allowing, Shape
  <1> QED BY <1>1, <1>2, CallQuiet

\* Who may expire or be cleared has a store that deletes.
LEMMA StoreDeletes ==
    ASSUME Dependable, Steady,
           \/ "clear" \in Calls \/ cache.started
           \/ \E k \in Keys : Expired(cache, k)
    PROVE  Ok("ssdDelete") = {TRUE}
  <1>1. "clear" \in Calls \/ "ttl" \in Calls \/ cache.started
    BY DEF Steady, Ageless, Expired
  <1>2. cache.started BY <1>1 DEF Dependable, Steady, Settled
  <1> QED BY <1>2, Reliable

\* The sections of a read keep to that.
LEMMA ReadAt ==
    ASSUME Shape, Dependable, Current, NEW r \in Readers, Read(r), NEW k \in Keys
    PROVE  CallAt(k)
  <1>a. Listed BY DEF Current, Steady
  <1>b. SameEntries(cache, cache)
    BY DEF SameEntries, SameMemory, SamePmem, SameSsd, SameIndex, SameMetadata
  <1>c. Unlocked => OnStack(todo) = {} BY UnlockedFacts
  <1>d. None \notin Values BY InnerAssumption
  <1>1. ASSUME NEW z \in Keys, StartGet(r, z) PROVE CallAt(k)
    <2>1. UNCHANGED <<cache, todo, allowed>> /\ Unlocked BY <1>1, StartGetEffect DEF StartGet
    <2> QED BY <2>1, <1>a, <1>b, <1>c, CallIdle
  <1>2. CASE RemoveExpired(r)
    <2> DEFINE z == reader[r].key
    <2>1. z \in Keys /\ todo' = todo /\ allowed' = allowed /\ OnStack(todo') = {}
      BY <1>2, <1>c, RemoveExpiredEffect
    <2>2. cache' = cache \/ Removed(z, TRUE)
      <3>1. \/ cache' = cache
            \/ Expired(cache, z) /\ \E ok \in Ok("ssdDelete") : Removed(z, ok)
        BY <1>2, RemoveExpiredEffect
      <3>2. Expired(cache, z) => Ok("ssdDelete") = {TRUE} BY <2>1, StoreDeletes DEF Current
      <3> QED BY <3>1, <3>2
    <2> HIDE DEF z
    <2>3. CASE cache' = cache BY <2>1, <2>3, <1>a, <1>b, CallIdle
    <2>4. CASE Removed(z, TRUE) /\ k = z BY <2>1, <2>4, CallRemoves
    <2>5. CASE Removed(z, TRUE) /\ k # z BY <2>1, <2>5, <1>a, CallElsewhere DEF Removed
    <2> QED BY <2>2, <2>3, <2>4, <2>5
  <1>3. CASE ReadSsd(r)
    <2>1. todo' = todo /\ allowed' = allowed /\ OnStack(todo') = {} BY <1>3, <1>c, ReadSsdEffect
    <2>2. SameEntries(cache, cache') BY <1>3, <1>b, ReadSsdEffect
    <2> QED BY <2>1, <2>2, <1>a, CallIdle
  <1>4. CASE FinishSsd(r)
    <2> DEFINE z == reader[r].key
               v == reader[r].val
               p == [step |-> "PutPmem", key |-> z, val |-> v, fallback |-> FALSE]
               e == [step |-> "EvictMemory"]
    <2>1. /\ Unlocked /\ allowed' = allowed /\ z \in Keys /\ v \in Values
          /\ Touches(cache, cache', z) /\ SamePmem(cache, cache') /\ SameSsd(cache, cache')
          /\ cache'.expiry = cache.expiry
      BY <1>4, FinishSsdEffect
    <2>2. \/ SameMemory(cache, cache') /\ todo' = todo
          \/ /\ Refilling(r) /\ cache.memory_capacity > 0 /\ cache'.memory[z] = v
             /\ OnStack(todo') = {e}
          \/ Refilling(r) /\ SameMemory(cache, cache') /\ OnStack(todo') = {p}
      BY <1>4, FinishSsdEffect DEF Begins
    <2>3. Refilling(r) => v \in Copies(z) /\ ~ Expired(cache, z) /\ ~ cache.ssd_only
      <3>1. reader[r].at = "refill" BY <1>4, FinishSsdEffect
      <3> QED BY <2>1, <3>1, <1>d DEF Refilling, Current, Probed, Copies
    <2>4. e.step = "EvictMemory" /\ p.step = "PutPmem" /\ p.key = z /\ p.val = v OBVIOUS
    <2>5. cache'.block[z] # None => Indexed(cache', z)
      BY <2>1, <1>a DEF Listed, SameSsd, SameIndex, Indexed
    <2> HIDE DEF z, v, p, e
    <2>6. CASE k # z
      <3>1. \A x \in OnStack(todo') : x.step \in Carrying => x.key = z
        BY <2>1, <2>2, <2>4, <1>c DEF Carrying
      <3> QED BY <2>1, <2>6, <3>1, <1>a, CallElsewhere
    <2>7. CASE k = z
      <3>1. \/ cache'.memory[z] = cache.memory[z]
            \/ cache.memory_capacity > 0 /\ ~ cache.ssd_only /\ cache'.memory[z] \in Copies(z)
        BY <2>2, <2>3 DEF SameMemory
      <3>2. \A x \in OnStack(todo') : x.step \in Carrying /\ x.key = z =>
               x.val \in Copies(z) /\ ~ Expired(cache, z) /\ ~ cache.ssd_only
        BY <2>1, <2>2, <2>3, <2>4, <1>c DEF Carrying
      <3>3. /\ cache'.pmem[z] = cache.pmem[z] /\ cache'.block[z] = cache.block[z]
            /\ cache'.expiry[z] = cache.expiry[z]
        BY <2>1 DEF SamePmem, SameSsd
      <3> QED BY <2>1, <2>5, <2>7, <3>1, <3>2, <3>3 DEF CallAt
    <2> QED BY <2>6, <2>7
  <1>5. CASE Promote(r)
    <2> DEFINE z == reader[r].key
               v == reader[r].val
               e == [step |-> "EvictMemory"]
    <2>1. /\ Unlocked /\ allowed' = allowed /\ z \in Keys /\ v \in Values
          /\ Touches(cache, cache', z) /\ SamePmem(cache, cache') /\ SameSsd(cache, cache')
          /\ cache'.expiry = cache.expiry
      BY <1>5, PromoteEffect
    <2>2. \/ SameMemory(cache, cache') /\ todo' = todo
          \/ /\ cache.pmem[z] = v /\ ~ cache.ssd_only /\ cache.memory_capacity > 0
             /\ cache'.memory[z] = v /\ OnStack(todo') = {e}
      BY <1>5, PromoteEffect DEF Begins, SameMemory
    <2>3. cache.pmem[z] = v => v \in Copies(z) BY <2>1, <1>d DEF Copies
    <2>4. e.step = "EvictMemory" OBVIOUS
    <2>5. cache'.block[z] # None => Indexed(cache', z)
      BY <2>1, <1>a DEF Listed, SameSsd, SameIndex, Indexed
    <2> HIDE DEF z, v, e
    <2>6. \A x \in OnStack(todo') : x.step \notin Carrying
      BY <2>1, <2>2, <2>4, <1>c DEF Carrying
    <2>7. CASE k # z BY <2>1, <2>6, <2>7, <1>a, CallElsewhere
    <2>8. CASE k = z
      <3>1. \/ cache'.memory[z] = cache.memory[z]
            \/ cache.memory_capacity > 0 /\ ~ cache.ssd_only /\ cache'.memory[z] \in Copies(z)
        BY <2>2, <2>3 DEF SameMemory
      <3>2. /\ cache'.pmem[z] = cache.pmem[z] /\ cache'.block[z] = cache.block[z]
            /\ cache'.expiry[z] = cache.expiry[z]
        BY <2>1 DEF SamePmem, SameSsd
      <3> QED BY <2>1, <2>5, <2>6, <2>8, <3>1, <3>2 DEF CallAt
    <2> QED BY <2>7, <2>8
  <1> QED BY <1>1, <1>2, <1>3, <1>4, <1>5 DEF Read

\* So do the writes.
LEMMA WriteAt ==
    ASSUME Shape, Dependable, Current, Write, NEW k \in Keys
    PROVE  CallAt(k)
  <1>a. Listed BY DEF Current, Steady
  <1>b. SameEntries(cache, cache)
    BY DEF SameEntries, SameMemory, SamePmem, SameSsd, SameIndex, SameMetadata
  <1>c. Unlocked => OnStack(todo) = {} BY UnlockedFacts
  <1>1. ASSUME NEW z \in Keys, NEW v \in Values, NEW heat, NEW life \in Lifetimes,
               PutStart(z, v, heat, life)
        PROVE  CallAt(k)
    <2> DEFINE new == {[step |-> "Sweep"], [step |-> "PutMemory"], [step |-> "PutPmemPart"],
                       [step |-> "PutSsd"], [step |-> "PutFinish"]}
    <2>1. UNCHANGED <<cache, allowed>> /\ OnStack(todo') = new BY <1>1, PutStartEffect DEF Begins
    <2>2. \A x \in new : x.step \notin Carrying BY FirstSteps
    <2> QED BY <2>1, <2>2, <1>a, <1>b, CallIdle
  <1>2. ASSUME NEW z \in Keys, NEW v \in Values, PutMemoryOnly(z, v)
        PROVE  CallAt(k)
    <2> DEFINE e == [step |-> "EvictMemory"]
    <2>1. /\ Unlocked /\ "memoryOnly" \in Calls
          /\ Allowing(z, allowed[z] \cup {v}) /\ Touches(cache, cache', z)
          /\ SamePmem(cache, cache') /\ SameSsd(cache, cache') /\ Restarted(z)
      BY <1>2, PutMemoryOnlyEffect
    <2>2. \/ cache'.memory[z] = v /\ OnStack(todo') = {e} /\ cache.memory_capacity > 0
          \/ SameMemory(cache, cache') /\ todo' = todo
      BY <1>2, PutMemoryOnlyEffect DEF Begins
    <2>3. "ttl" \notin Calls /\ "ssdOnly" \notin Calls BY <2>1 DEF Dependable
    <2>4. ~ cache.ssd_only /\ ~ cache.default_ttl /\ cache.expiry[z] = "none"
      BY <2>3 DEF Current, Steady, Settled, Ageless
    <2>5. cache'.expiry[z] = cache.expiry[z] BY <2>1, <2>4 DEF Restarted
    <2>6. e.step = "EvictMemory" OBVIOUS
    <2> HIDE DEF e
    <2>7. \A x \in OnStack(todo') : x.step \notin Carrying
      BY <2>1, <2>2, <2>6, <1>c DEF Carrying
    <2>8. CASE k # z BY <2>1, <2>7, <2>8, <1>a, CallElsewhere
    <2>9. CASE k = z
      <3>1. allowed'[z] = allowed[z] \cup {v} BY <2>1 DEF Allowing, Shape
      <3>2. \A r \in Readers : reader[r].at # "idle" /\ reader[r].key = z => v \in seen'[r]
        BY <2>1 DEF Allowing
      <3>3. \/ cache'.memory[z] = cache.memory[z]
            \/ cache'.memory[z] = v /\ cache.memory_capacity > 0
        BY <2>2 DEF SameMemory
      <3>4. /\ cache'.pmem[z] = cache.pmem[z] /\ cache'.block[z] = cache.block[z]
            /\ cache'.block[z] # None => Indexed(cache', z)
        BY <2>1, <1>a DEF SamePmem, SameSsd, SameIndex, Listed, Indexed
      <3> QED BY <2>4, <2>5, <2>7, <2>9, <3>1, <3>2, <3>3, <3>4 DEF CallAt
    <2> QED BY <2>8, <2>9
  <1>3. ASSUME NEW z \in Keys, DropVolatile(z) PROVE CallAt(k)
    <2>1. /\ allowed' = allowed /\ OnStack(todo') = {} /\ Touches(cache, cache', z)
          /\ SameSsd(cache, cache') /\ cache'.expiry = cache.expiry
          /\ cache'.memory[z] = None /\ cache'.pmem[z] = None
      BY <1>3, <1>c, DropVolatileEffect
    <2>2. CASE k # z BY <2>1, <2>2, <1>a, CallElsewhere
    <2>3. CASE k = z
      <3>1. /\ cache'.block[z] = cache.block[z] /\ cache'.expiry[z] = cache.expiry[z]
            /\ cache'.block[z] # None => Indexed(cache', z)
        BY <2>1, <1>a DEF SameSsd, SameIndex, Listed, Indexed
      <3> QED BY <2>1, <2>3, <3>1 DEF CallAt
    <2> QED BY <2>2, <2>3
  <1>4. ASSUME NEW z \in Keys, Invalidate(z) PROVE CallAt(k)
    <2>1. cache.started /\ OnStack(todo') = {} /\ Allowing(z, {}) BY <1>4, <1>c, InvalidateEffect
    <2>2. Ok("ssdDelete") = {TRUE} BY <2>1, StoreDeletes DEF Current
    <2>3. Removed(z, TRUE) BY <1>4, <2>2, InvalidateEffect
    <2>4. CASE k = z BY <2>1, <2>3, <2>4, CallRemoves
    <2>5. CASE k # z BY <2>1, <2>3, <2>5, <1>a, CallElsewhere DEF Removed
    <2> QED BY <2>4, <2>5
  <1>5. CASE Clear
    <2>1. "clear" \in Calls /\ OnStack(todo') = {} BY <1>5, <1>c, ClearEffect
    <2>2. Ok("ssdDelete") = {TRUE} BY <2>1, StoreDeletes DEF Current
    <2>3. \/ NothingIn(cache') /\ cache'.block[k] = None
          \/ /\ allowed' = allowed /\ SameSsd(cache, cache') /\ cache'.expiry = cache.expiry
             /\ cache'.memory[k] = None /\ cache'.pmem[k] = None
      BY <1>5, <2>2, ClearEffect
    <2>4. CASE NothingIn(cache') /\ cache'.block[k] = None
      BY <2>1, <2>4 DEF NothingIn, CallAt
    <2>5. CASE /\ allowed' = allowed /\ SameSsd(cache, cache') /\ cache'.expiry = cache.expiry
               /\ cache'.memory[k] = None /\ cache'.pmem[k] = None
      <3>1. cache'.block[k] = cache.block[k] /\ (cache'.block[k] # None => Indexed(cache', k))
        BY <2>5, <1>a DEF SameSsd, SameIndex, Listed, Indexed
      <3> QED BY <2>1, <2>5, <3>1 DEF CallAt
    <2> QED BY <2>3, <2>4, <2>5
  <1>6. CASE PurgeStart
    <2> DEFINE new == {[step |-> "Purge"]}
    <2>1. UNCHANGED <<cache, allowed>> /\ OnStack(todo') = new BY <1>6, PurgeStartEffect DEF Begins
    <2>2. \A x \in new : x.step \notin Carrying BY FirstSteps
    <2> QED BY <2>1, <2>2, <1>a, <1>b, CallIdle
  <1> QED BY <1>1, <1>2, <1>3, <1>4, <1>5, <1>6 DEF Write

\* So do the calls that manage the cache, and the clock.
LEMMA ManageAt ==
    ASSUME Shape, Dependable, Current, Manage, NEW k \in Keys
    PROVE  CallAt(k)
  <1>a. Listed BY DEF Current, Steady
  <1>b. SameEntries(cache, cache)
    BY DEF SameEntries, SameMemory, SamePmem, SameSsd, SameIndex, SameMetadata
  <1>c. Unlocked => OnStack(todo) = {} BY UnlockedFacts
  <1>1. CASE \/ \E n \in MemoryCapacities : SetMemoryCapacity(n)
             \/ \E n \in PmemCapacities : SetPmemCapacity(n)
             \/ \E n \in SsdCapacities : SetSsdCapacity(n)
    <2>1. PICK new \in {{[step |-> "EvictMemory"]}, {[step |-> "EvictPmem"]},
                        {[step |-> "EvictSsd", need |-> 0]}} : OnStack(todo') = new
      BY <1>1, CapacityEffect DEF Begins
    <2>2. \A x \in OnStack(todo') : x.step \notin Carrying BY <2>1, FirstSteps
    <2>3. SameEntries(cache, cache') /\ allowed' = allowed BY <1>1, CapacityEffect
    <2> QED BY <2>2, <2>3, <1>a, CallIdle
  <1>2. ASSUME NEW b \in BOOLEAN, SetSsdOnly(b) PROVE CallAt(k)
    <2>1. /\ allowed' = allowed /\ OnStack(todo') = {}
          /\ SameSsd(cache, cache') /\ cache'.expiry = cache.expiry
      BY <1>2, <1>c, SetSsdOnlyEffect
    <2>2. \/ SameEntries(cache, cache')
          \/ cache'.memory[k] = None /\ cache'.pmem[k] = None
      BY <1>2, SetSsdOnlyEffect
    <2>3. CASE SameEntries(cache, cache') BY <2>1, <2>3, <1>a, CallIdle
    <2>4. CASE cache'.memory[k] = None /\ cache'.pmem[k] = None
      <3>1. cache'.block[k] = cache.block[k] /\ (cache'.block[k] # None => Indexed(cache', k))
        BY <2>1, <1>a DEF SameSsd, SameIndex, Listed, Indexed
      <3> QED BY <2>1, <2>4, <3>1 DEF CallAt
    <2> QED BY <2>2, <2>3, <2>4
  <1>3. ASSUME NEW b \in BOOLEAN, SetStarted(b) \/ SetDefaultTtl(b) PROVE CallAt(k)
    <2>1. SameEntries(cache, cache') /\ allowed' = allowed /\ OnStack(todo') = {}
      BY <1>3, <1>c, SwitchEffect
    <2> QED BY <2>1, <1>a, CallIdle
  <1>4. ASSUME NEW z \in Keys, Pin(z) \/ Unpin(z) PROVE CallAt(k)
    <2>1. UNCHANGED <<cache, allowed>> /\ OnStack(todo') = {} BY <1>4, <1>c, PinEffect
    <2> QED BY <2>1, <1>a, <1>b, CallIdle
  <1>5. ASSUME NEW z \in Keys, Lapse(z) PROVE CallAt(k)
    <2>1. /\ OnStack(todo') = {} /\ Allowing(z, {}) /\ Touches(cache, cache', z)
          /\ SameMemory(cache, cache') /\ SamePmem(cache, cache') /\ SameSsd(cache, cache')
          /\ cache.expiry[z] = "live" /\ cache'.expiry[z] = "lapsed"
      BY <1>5, <1>c, LapseEffect
    <2>2. CASE k # z BY <2>1, <2>2, <1>a, CallElsewhere
    <2>3. CASE k = z
      <3>1. /\ cache'.memory[z] = cache.memory[z] /\ cache'.pmem[z] = cache.pmem[z]
            /\ cache'.block[z] = cache.block[z]
            /\ cache'.block[z] # None => Indexed(cache', z)
        BY <2>1, <1>a DEF SameMemory, SamePmem, SameSsd, SameIndex, Listed, Indexed
      <3> QED BY <2>1, <2>3, <3>1 DEF CallAt, Expired
    <2> QED BY <2>2, <2>3
  <1>6. CASE Reclaim
    <2> DEFINE new == {[step |-> "EvictMemory"], [step |-> "EvictPmem"],
                       [step |-> "EvictSsd", need |-> 0]}
    <2>1. UNCHANGED <<cache, allowed>> /\ OnStack(todo') = new BY <1>6, ReclaimEffect DEF Begins
    <2>2. \A x \in new : x.step \notin Carrying BY FirstSteps
    <2> QED BY <2>1, <2>2, <1>a, <1>b, CallIdle
  <1> QED BY <1>1, <1>2, <1>3, <1>4, <1>5, <1>6 DEF Manage

\* What a call may do to reader q: its read is over, goes on undisturbed, starts,
\* or has just probed the SSD.
CallReads(q) ==
    \/ reader'[q].at \in {"idle", "expired"}
    \/ /\ reader'[q] = reader[q] /\ seen[q] \subseteq seen'[q]
       /\ \A x \in Keys : x \notin cache'.changed[q] =>
             x \notin cache.changed[q] /\ cache'.block[x] = cache.block[x]
    \/ /\ cache' = cache /\ OnStack(todo') = {}
       /\ reader'[q].key \in Keys /\ ~ Expired(cache, reader'[q].key)
       /\ seen'[q] = allowed[reader'[q].key]
       /\ \/ reader'[q].at = "ssd"
          \/ reader'[q].at = "promote" /\ reader'[q].val \in Copies(reader'[q].key)
    \/ /\ reader[q].at = "ssd" /\ reader'[q].at = "refill" /\ reader'[q].key = reader[q].key
       /\ reader[q].key \in Keys /\ reader'[q].val \in Copies(reader[q].key)
       /\ reader'[q].val = cache'.block[reader[q].key] /\ seen'[q] = seen[q]

\* A call that notes what it does to blocks and leaves the reads alone.
LEMMA ReadsGoOn ==
    ASSUME NEW q \in Readers, NotesBlocks(cache, cache'), reader'[q] = reader[q],
           seen[q] \subseteq seen'[q]
    PROVE  CallReads(q)
  BY DEF NotesBlocks, CallReads

\* Nothing to note.
LEMMA NotesNothing ==
    ASSUME cache'.block = cache.block, cache'.changed = cache.changed
    PROVE  NotesBlocks(cache, cache')
  BY DEF NotesBlocks

\* Every call keeps to that.
LEMMA CallOnReads ==
    ASSUME Shape, Call, NEW q \in Readers
    PROVE  CallReads(q)
  <1>a. None \notin Values BY InnerAssumption
  <1>b. Unlocked => OnStack(todo) = {} BY UnlockedFacts
  <1>c. cache' = cache => NotesBlocks(cache, cache') BY NotesNothing
  <1> USE DEF Touches
  <1>1. ASSUME NEW r \in Readers, NEW z \in Keys, StartGet(r, z) PROVE CallReads(q)
    <2>1. /\ cache' = cache /\ OnStack(todo') = {} /\ Unlocked
          /\ q # r => reader'[q] = reader[q] /\ seen'[q] = seen[q]
      BY <1>1, <1>b, StartGetEffect DEF StartGet
    <2>2. CASE q # r BY <2>1, <2>2, <1>c, ReadsGoOn
    <2>3. CASE q = r
      <3>1. /\ reader'[q].key = z /\ seen'[q] = allowed[z]
            /\ \/ reader'[q].at = "expired"
               \/ reader'[q].at = "ssd" /\ ~ Expired(cache, z)
               \/ /\ reader'[q].at = "promote" /\ ~ Expired(cache, z)
                  /\ reader'[q].val = cache.pmem[z] /\ cache.pmem[z] \in Values
        BY <1>1, <2>3, StartGetEffect
      <3>2. cache.pmem[z] \in Values => cache.pmem[z] \in Copies(z) BY <1>a DEF Copies
      <3> QED BY <2>1, <3>1, <3>2 DEF CallReads
    <2> QED BY <2>2, <2>3
  <1>2. ASSUME NEW r \in Readers, Done(r), NotesBlocks(cache, cache') PROVE CallReads(q)
    <2>1. /\ reader'[r].at = "idle"
          /\ q # r => reader'[q] = reader[q] /\ seen'[q] = seen[q]
      BY <1>2, DoneEffect
    <2>2. CASE q = r BY <2>1, <2>2 DEF CallReads
    <2>3. CASE q # r BY <2>1, <2>3, <1>2, ReadsGoOn
    <2> QED BY <2>2, <2>3
  <1>3. ASSUME NEW r \in Readers, RemoveExpired(r) PROVE CallReads(q)
    <2>1. Done(r) /\ NotesBlocks(cache, cache') BY <1>3, <1>c, RemoveExpiredEffect DEF Removed
    <2> QED BY <2>1, <1>2
  <1>4. ASSUME NEW r \in Readers, ReadSsd(r) PROVE CallReads(q)
    <2>1. CASE Done(r) /\ cache' = cache BY <2>1, <1>2, <1>c
    <2>2. CASE ~ (Done(r) /\ cache' = cache)
      <3>1. /\ UNCHANGED seen /\ reader[r].at = "ssd" /\ reader[r].key \in Keys
            /\ reader'[r].at = "refill" /\ reader'[r].key = reader[r].key
            /\ reader'[r].val = cache.block[reader[r].key] /\ reader'[r].val \in Values
            /\ SameEntries(cache, cache')
            /\ q # r => reader'[q] = reader[q] /\ cache'.changed[q] = cache.changed[q]
        BY <1>4, <2>2, ReadSsdEffect
      <3>2. cache'.block = cache.block BY <3>1 DEF SameEntries, SameSsd
      <3>3. CASE q = r BY <3>1, <3>2, <3>3, <1>a DEF CallReads, Copies
      <3>4. CASE q # r BY <3>1, <3>2, <3>4 DEF CallReads
      <3> QED BY <3>3, <3>4
    <2> QED BY <2>1, <2>2
  <1>5. ASSUME NEW r \in Readers, FinishSsd(r) PROVE CallReads(q)
    BY <1>2, <1>5, FinishSsdEffect
  <1>6. ASSUME NEW r \in Readers, Promote(r) PROVE CallReads(q)
    BY <1>2, <1>6, PromoteEffect
  <1>7. ASSUME NEW k \in Keys, NEW v \in Values, NEW heat, NEW life \in Lifetimes,
               PutStart(k, v, heat, life)
        PROVE  CallReads(q)
    BY <1>7, <1>c, PutStartEffect, ReadsGoOn
  <1>8. ASSUME NEW k \in Keys, NEW v \in Values, PutMemoryOnly(k, v) PROVE CallReads(q)
    <2>1. /\ NotesBlocks(cache, cache') /\ reader' = reader
          /\ \E vs : Allowing(k, vs)
      BY <1>8, PutMemoryOnlyEffect
    <2> QED BY <2>1, ReadsGoOn DEF Allowing
  <1>9. ASSUME NEW k \in Keys, DropVolatile(k) PROVE CallReads(q)
    BY <1>9, DropVolatileEffect, ReadsGoOn
  <1>10. ASSUME NEW k \in Keys, Invalidate(k) PROVE CallReads(q)
    <2>1. NotesBlocks(cache, cache') /\ reader' = reader /\ Allowing(k, {})
      BY <1>10, InvalidateEffect DEF Removed
    <2> QED BY <2>1, ReadsGoOn DEF Allowing
  <1>11. CASE Clear
    <2>1. cache'.changed[q] = Keys /\ UNCHANGED <<reader, seen>> BY <1>11, ClearEffect
    <2> QED BY <2>1 DEF CallReads
  <1>12. CASE PurgeStart BY <1>12, <1>c, PurgeStartEffect, ReadsGoOn
  <1>13. CASE \/ \E n \in MemoryCapacities : SetMemoryCapacity(n)
              \/ \E n \in PmemCapacities : SetPmemCapacity(n)
              \/ \E n \in SsdCapacities : SetSsdCapacity(n)
    <2>1. NotesBlocks(cache, cache') /\ UNCHANGED <<reader, seen>>
      BY <1>13, CapacityEffect, NotesNothing DEF SameEntries, SameSsd
    <2> QED BY <2>1, ReadsGoOn
  <1>14. ASSUME NEW b \in BOOLEAN, SetSsdOnly(b) PROVE CallReads(q)
    <2>1. UNCHANGED <<reader, seen>> BY <1>14, SetSsdOnlyEffect
    <2>2. cache'.changed[q] = Keys \/ NotesBlocks(cache, cache')
      BY <1>14, SetSsdOnlyEffect, NotesNothing DEF SameSsd
    <2>3. CASE cache'.changed[q] = Keys BY <2>1, <2>3 DEF CallReads
    <2>4. CASE NotesBlocks(cache, cache') BY <2>1, <2>4, ReadsGoOn
    <2> QED BY <2>2, <2>3, <2>4
  <1>15. ASSUME NEW b \in BOOLEAN, SetStarted(b) \/ SetDefaultTtl(b) PROVE CallReads(q)
    <2>1. NotesBlocks(cache, cache') /\ UNCHANGED <<reader, seen>>
      BY <1>15, SwitchEffect, NotesNothing DEF SameEntries, SameSsd
    <2> QED BY <2>1, ReadsGoOn
  <1>16. ASSUME NEW k \in Keys, Pin(k) \/ Unpin(k) PROVE CallReads(q)
    BY <1>16, <1>c, PinEffect, ReadsGoOn
  <1>17. ASSUME NEW k \in Keys, Lapse(k) PROVE CallReads(q)
    <2>1. NotesBlocks(cache, cache') /\ reader' = reader /\ Allowing(k, {}) BY <1>17, LapseEffect
    <2> QED BY <2>1, ReadsGoOn DEF Allowing
  <1>18. CASE Reclaim BY <1>18, <1>c, ReclaimEffect, ReadsGoOn
  <1>19. CASE \E r \in Readers : Read(r)
    BY <1>1, <1>3, <1>4, <1>5, <1>6, <1>19 DEF Read
  <1>20. CASE Write
    BY <1>7, <1>8, <1>9, <1>10, <1>11, <1>12, <1>20 DEF Write
  <1>21. CASE Manage
    BY <1>13, <1>14, <1>15, <1>16, <1>17, <1>18, <1>21 DEF Manage
  <1> QED BY <1>19, <1>20, <1>21 DEF Call

\* What a call may do to the settings and to the request.
CallSettings ==
    /\ Settled' /\ Unlocked
    /\ "ttl" \notin Calls => ~ cache'.default_ttl
    /\ cache'.ssd_only => \/ cache.ssd_only
                          \/ /\ OnStack(todo') = {}
                             /\ \A k \in Keys : cache'.memory[k] = None /\ cache'.pmem[k] = None
    /\ \/ req' = req
       \/ /\ UNCHANGED <<cache, allowed>>
          /\ req'.active /\ req'.key \in Keys /\ ~ req'.fallback /\ req'.outcome = "none"
          /\ cache.ssd_only => ~ req'.memory /\ ~ req'.pmem
          /\ "ttl" \notin Calls => req'.life = "default"
          /\ \A x \in OnStack(todo') : x.step \notin Carrying
          /\ Pending("PutMemory")' /\ Pending("PutPmemPart")' /\ Pending("PutSsd")'

\* A call that changes none of them.
LEMMA SettingsKept ==
    ASSUME Steady, Unlocked, SameSettings(cache, cache'), reclaims' = reclaims, req' = req,
           todo' = todo \/ cache.started
    PROVE  CallSettings
  <1>1. Settled' BY DEF Steady, Settled, SameSettings
  <1>2. "ttl" \notin Calls => ~ cache'.default_ttl BY DEF Steady, Ageless, SameSettings
  <1>3. cache'.ssd_only = cache.ssd_only BY DEF SameSettings
  <1> QED BY <1>1, <1>2, <1>3 DEF CallSettings

\* Every call keeps to that. The calls that take the lock find a started cache.
LEMMA CallOnSettings ==
    ASSUME Shape, Dependable, Steady, Call
    PROVE  CallSettings
  <1>a. SameSettings(cache, cache) BY DEF SameSettings
  <1>b. Calls \cap {"clear", "capacity", "pin", "ttl"} # {} => cache.started
    BY DEF Dependable, Steady, Settled
  <1>c. Settled BY DEF Steady
  <1> USE DEF Touches
  <1>1. ASSUME NEW r \in Readers, NEW z \in Keys, StartGet(r, z) PROVE CallSettings
    <2>1. Unlocked BY <1>1 DEF StartGet
    <2> QED BY <2>1, <1>1, <1>a, StartGetEffect, SettingsKept
  <1>2. ASSUME NEW r \in Readers, RemoveExpired(r) PROVE CallSettings
    <2>1. SameSettings(cache, cache') BY <1>2, <1>a, RemoveExpiredEffect DEF Removed
    <2> QED BY <2>1, <1>2, RemoveExpiredEffect, SettingsKept
  <1>3. ASSUME NEW r \in Readers, ReadSsd(r) PROVE CallSettings
    <2>1. SameSettings(cache, cache') BY <1>3, <1>a, ReadSsdEffect
    <2> QED BY <2>1, <1>3, ReadSsdEffect, SettingsKept
  <1>4. ASSUME NEW r \in Readers, FinishSsd(r) PROVE CallSettings
    <2>1. SameSettings(cache, cache') /\ (todo' = todo \/ cache.started)
      BY <1>4, FinishSsdEffect DEF Refilling
    <2> QED BY <2>1, <1>4, FinishSsdEffect, SettingsKept
  <1>5. ASSUME NEW r \in Readers, Promote(r) PROVE CallSettings
    <2>1. SameSettings(cache, cache') /\ (todo' = todo \/ cache.started)
      BY <1>5, PromoteEffect
    <2> QED BY <2>1, <1>5, PromoteEffect, SettingsKept
  <1>6. ASSUME NEW k \in Keys, NEW v \in Values, NEW heat, NEW life \in Lifetimes,
               PutStart(k, v, heat, life)
        PROVE  CallSettings
    <2> DEFINE sweep == [step |-> "Sweep"]
               memory == [step |-> "PutMemory"]
               pmem == [step |-> "PutPmemPart"]
               ssd == [step |-> "PutSsd"]
               finish == [step |-> "PutFinish"]
    <2>1. /\ Unlocked /\ cache.started /\ UNCHANGED <<cache, reclaims, allowed>>
          /\ req'.active /\ req'.key \in Keys /\ ~ req'.fallback /\ req'.outcome = "none"
          /\ cache.ssd_only => ~ req'.memory /\ ~ req'.pmem
          /\ "ttl" \notin Calls => req'.life = "default"
      BY <1>6, PutStartEffect
    <2>2. OnStack(todo') = {sweep, memory, pmem, ssd, finish} BY <1>6, PutStartEffect DEF Begins
    <2>3. \A x \in {sweep, memory, pmem, ssd, finish} : x.step \notin Carrying BY FirstSteps
    <2>4. memory.step = "PutMemory" /\ pmem.step = "PutPmemPart" /\ ssd.step = "PutSsd" OBVIOUS
    <2> HIDE DEF sweep, memory, pmem, ssd, finish
    <2>5. Pending("PutMemory")' /\ Pending("PutPmemPart")' /\ Pending("PutSsd")'
      BY <2>2, <2>4 DEF Pending
    <2>6. Settled' BY <2>1, <1>c DEF Settled
    <2>7. "ttl" \notin Calls => ~ cache'.default_ttl BY <2>1 DEF Steady, Ageless
    <2> QED BY <2>1, <2>2, <2>3, <2>5, <2>6, <2>7 DEF CallSettings
  <1>7. ASSUME NEW k \in Keys, NEW v \in Values, PutMemoryOnly(k, v) PROVE CallSettings
    BY <1>7, PutMemoryOnlyEffect, SettingsKept
  <1>8. ASSUME NEW k \in Keys, DropVolatile(k) PROVE CallSettings
    BY <1>8, DropVolatileEffect, SettingsKept
  <1>9. ASSUME NEW k \in Keys, Invalidate(k) PROVE CallSettings
    BY <1>9, InvalidateEffect, SettingsKept DEF Removed
  <1>10. CASE Clear BY <1>10, ClearEffect, SettingsKept
  <1>11. CASE PurgeStart
    <2>1. cache.started BY <1>11, <1>b DEF PurgeStart
    <2> QED BY <2>1, <1>11, <1>a, PurgeStartEffect, SettingsKept
  <1>12. CASE \/ \E n \in MemoryCapacities : SetMemoryCapacity(n)
              \/ \E n \in PmemCapacities : SetPmemCapacity(n)
              \/ \E n \in SsdCapacities : SetSsdCapacity(n)
    <2>1. /\ Unlocked /\ "capacity" \in Calls /\ reclaims' = reclaims /\ req' = req
          /\ cache'.started = cache.started /\ cache'.ssd_only = cache.ssd_only
          /\ cache'.default_ttl = cache.default_ttl
      BY <1>12, CapacityEffect
    <2>2. /\ cache'.memory_capacity \in MemoryCapacities \cup {cache.memory_capacity}
          /\ cache'.pmem_capacity \in PmemCapacities \cup {cache.pmem_capacity}
      BY <1>12, CapacityEffect
    <2>3. Settled' BY <2>1, <2>2, <1>b, <1>c DEF Settled
    <2>4. "ttl" \notin Calls => ~ cache'.default_ttl BY <2>1 DEF Steady, Ageless
    <2> QED BY <2>1, <2>3, <2>4 DEF CallSettings
  <1>13. ASSUME NEW b \in BOOLEAN, SetSsdOnly(b) PROVE CallSettings
    <2>1. /\ Unlocked /\ "ssdOnly" \in Calls /\ UNCHANGED <<reclaims, todo, req>>
          /\ cache'.started = cache.started /\ cache'.default_ttl = cache.default_ttl
          /\ cache'.memory_capacity = cache.memory_capacity
          /\ cache'.pmem_capacity = cache.pmem_capacity
          /\ cache'.ssd_only => \A k \in Keys : cache'.memory[k] = None /\ cache'.pmem[k] = None
      BY <1>13, SetSsdOnlyEffect
    <2>2. Settled' BY <2>1, <1>c DEF Settled
    <2>3. "ttl" \notin Calls => ~ cache'.default_ttl BY <2>1 DEF Steady, Ageless
    <2>4. OnStack(todo') = {} BY <2>1, UnlockedFacts
    <2> QED BY <2>1, <2>2, <2>3, <2>4 DEF CallSettings
  <1>14. ASSUME NEW b \in BOOLEAN, SetStarted(b) \/ SetDefaultTtl(b) PROVE CallSettings
    <2>1. /\ Unlocked /\ UNCHANGED <<reclaims, todo, req>>
          /\ cache'.ssd_only = cache.ssd_only /\ cache'.memory_capacity = cache.memory_capacity
          /\ cache'.pmem_capacity = cache.pmem_capacity
          /\ \/ "stop" \in Calls /\ cache'.default_ttl = cache.default_ttl
             \/ "ttl" \in Calls /\ cache'.started = cache.started
      BY <1>14, SwitchEffect
    <2>2. Settled' BY <2>1, <1>c DEF Settled, Unlocked
    <2>3. "ttl" \notin Calls => ~ cache'.default_ttl BY <2>1 DEF Steady, Ageless
    <2> QED BY <2>1, <2>2, <2>3 DEF CallSettings
  <1>15. ASSUME NEW k \in Keys, Pin(k) \/ Unpin(k) PROVE CallSettings
    <2>1. Unlocked /\ "pin" \in Calls /\ UNCHANGED <<cache, todo, req>> BY <1>15, PinEffect
    <2>2. Settled' BY <2>1, <1>c DEF Settled
    <2>3. "ttl" \notin Calls => ~ cache'.default_ttl BY <2>1 DEF Steady, Ageless
    <2> QED BY <2>1, <2>2, <2>3 DEF CallSettings
  <1>16. ASSUME NEW k \in Keys, Lapse(k) PROVE CallSettings
    BY <1>16, LapseEffect, SettingsKept
  <1>17. CASE Reclaim
    <2>1. Unlocked /\ UNCHANGED <<cache, req>> BY <1>17, ReclaimEffect
    <2>2. reclaims > 0 BY <1>17 DEF Reclaim
    <2>3. reclaims # 0 BY <2>2
    <2>4. "pin" \in Calls /\ cache.started BY <2>3, <1>b, <1>c DEF Settled
    <2>5. Settled' BY <2>1, <2>4, <1>c DEF Settled
    <2>6. "ttl" \notin Calls => ~ cache'.default_ttl BY <2>1 DEF Steady, Ageless
    <2> QED BY <2>1, <2>5, <2>6 DEF CallSettings
  <1>18. CASE \E r \in Readers : Read(r)
    BY <1>1, <1>2, <1>3, <1>4, <1>5, <1>18 DEF Read
  <1>19. CASE Write
    BY <1>6, <1>7, <1>8, <1>9, <1>10, <1>11, <1>19 DEF Write
  <1>20. CASE Manage
    BY <1>12, <1>13, <1>14, <1>15, <1>16, <1>17, <1>20 DEF Manage
  <1> QED BY <1>18, <1>19, <1>20 DEF Call

-----------------------------------------------------------------------------
(* Together.                                                               *)

\* What is around after a call was around before, or was brought by
\* put_memory_only.
LEMMA CallOrigin ==
    ASSUME Shape, Unlocked, NEW k \in Keys, CallAt(k)
    PROVE  /\ Around(k) = Copies(k) /\ ~ Putting(k)
           /\ \A v \in Around(k)' :
                 \/ v \in Around(k)
                 \/ /\ v \in allowed'[k]
                    /\ \A r \in Readers : reader[r].at # "idle" /\ reader[r].key = k => v \in seen'[r]
  <1>1. OnStack(todo) = {} /\ ~ req.active BY UnlockedFacts
  <1>2. Carried(k) = {} BY <1>1 DEF Carried
  <1>3. Around(k) = Copies(k) BY <1>2 DEF Around
  <1>4. ASSUME NEW v \in Around(k)'
        PROVE  \/ v \in Around(k)
               \/ /\ v \in allowed'[k]
                  /\ \A r \in Readers : reader[r].at # "idle" /\ reader[r].key = k => v \in seen'[r]
    <2>1. CASE v \in Copies(k)' BY <2>1, <1>3 DEF Copies, CallAt
    <2>2. CASE v \in Carried(k)' BY <2>2, <1>3 DEF Carried, CallAt
    <2> QED BY <2>1, <2>2 DEF Around
  <1> QED BY <1>1, <1>3, <1>4 DEF Putting

\* Everything that Current says, through a call.
LEMMA CurrentCall ==
    ASSUME Shape, Dependable, Current, Call
    PROVE  Current'
  <1>1. \A k \in Keys : CallAt(k) BY ReadAt, WriteAt, ManageAt DEF Call
  <1>2. \A q \in Readers : CallReads(q) BY CallOnReads
  <1>3. CallSettings BY CallOnSettings DEF Current
  <1>4. Unlocked /\ OnStack(todo) = {} /\ ~ req.active BY <1>3, UnlockedFacts DEF CallSettings
  <1>5. Steady BY DEF Current
  <1>6. /\ cache.memory_capacity \in MemoryCapacities /\ cache.pmem_capacity \in PmemCapacities
        /\ cache.memory_capacity \in Nat
    BY <1>5 DEF Steady, Settled, Shape, Tidy, Inner
  <1>7. ASSUME NEW k \in Keys
        PROVE  /\ Around(k) = Copies(k) /\ ~ Putting(k)
               /\ \A v \in Around(k)' :
                     \/ v \in Around(k)
                     \/ /\ v \in allowed'[k]
                        /\ \A r \in Readers : reader[r].at # "idle" /\ reader[r].key = k =>
                              v \in seen'[r]
    BY <1>1, <1>4, CallOrigin
  <1>8. Ageless'
    <2> SUFFICES ASSUME "ttl" \notin Calls
                 PROVE  /\ ~ cache'.default_ttl /\ \A k \in Keys : cache'.expiry[k] = "none"
                        /\ req'.active => req'.life = "default"
      BY DEF Ageless
    <2>1. ASSUME NEW k \in Keys PROVE cache'.expiry[k] = "none"
      <3>1. cache.expiry[k] = "none" BY <1>5 DEF Steady, Ageless
      <3> QED BY <3>1, <1>1 DEF CallAt
    <2> QED BY <2>1, <1>3, <1>4 DEF CallSettings
  <1>9. Listed' BY <1>1 DEF CallAt, Listed
  <1>10. Absent'
    <2>1. ASSUME MemoryCapacities \subseteq {0}, NEW k \in Keys PROVE cache'.memory[k] = None
      <3>1. cache.memory[k] = None /\ ~ cache.memory_capacity > 0
        BY <2>1, <1>5, <1>6 DEF Steady, Absent
      <3> QED BY <3>1, <1>1 DEF CallAt
    <2>2. ASSUME PmemCapacities \subseteq {0}, NEW k \in Keys PROVE cache'.pmem[k] = None
      <3>1. cache.pmem[k] = None BY <2>2, <1>5 DEF Steady, Absent
      <3> QED BY <3>1, <1>1 DEF CallAt
    <2>3. ASSUME cache'.ssd_only
          PROVE  /\ \A k \in Keys : cache'.memory[k] = None /\ cache'.pmem[k] = None
                 /\ \A x \in OnStack(todo') : x.step \notin Carrying
                 /\ req'.active => ~ req'.memory /\ ~ req'.pmem /\ ~ req'.fallback
      <3>1. CASE cache.ssd_only
        <4>1. \A k \in Keys : cache.memory[k] = None /\ cache.pmem[k] = None
          BY <3>1, <1>5 DEF Steady, Absent
        <4>2. ASSUME NEW k \in Keys PROVE cache'.memory[k] = None /\ cache'.pmem[k] = None
          BY <3>1, <4>1, <1>1 DEF CallAt
        <4>3. ASSUME NEW x \in OnStack(todo'), x.step \in Carrying PROVE FALSE
          <5>1. x.key \in Keys
            <6>1. Shape' BY ShapeStep DEF Call, Next
            <6>2. x \in Step BY <6>1, <4>3 DEF Shape, Agenda, Stacked, OnStack
            <6> QED BY <6>2, <4>3, StepFacts
          <5> QED BY <3>1, <4>3, <5>1, <1>1 DEF CallAt
        <4> QED BY <4>2, <4>3, <3>1, <1>3, <1>4 DEF CallSettings
      <3>2. CASE ~ cache.ssd_only
        BY <2>3, <3>2, <1>3, <1>4 DEF CallSettings
      <3> QED BY <3>1, <3>2
    <2> QED BY <2>1, <2>2, <2>3 DEF Absent
  <1>11. Probed'
    <2> SUFFICES ASSUME NEW r \in Readers, reader'[r].at = "refill",
                        reader'[r].key \notin cache'.changed[r]
                 PROVE  cache'.block[reader'[r].key] = reader'[r].val
      BY DEF Probed
    <2>1. reader[r].at = "refill" => reader[r].key \in Keys BY ReaderFacts DEF Shape
    <2>2. CallReads(r) BY <1>2
    <2> QED BY <2>1, <2>2 DEF CallReads, Current, Probed
  <1>12. Undisturbed'
    <2> SUFFICES ASSUME NEW k \in Keys, ~ Putting(k)'
                 PROVE  Lapsed(k)' \/ Around(k)' \subseteq allowed'[k]
      BY DEF Undisturbed
    <2>1. Lapsed(k) \/ Around(k) \subseteq allowed[k] BY <1>7 DEF Current, Undisturbed
    <2>2. CallAt(k) BY <1>1
    <2>3. CASE cache'.expiry[k] = cache.expiry[k] /\ allowed[k] \subseteq allowed'[k]
      <3>1. CASE Lapsed(k)
        <4>1. Expired(cache, k) /\ Expired(cache', k) BY <2>3, <3>1 DEF Lapsed, Expired
        <4>2. \A x \in OnStack(todo') : ~ (x.step \in Carrying /\ x.key = k)
          BY <4>1, <2>2 DEF CallAt
        <4> QED BY <4>1, <4>2 DEF Lapsed
      <3>2. CASE Around(k) \subseteq allowed[k] BY <3>2, <2>3, <1>7
      <3> QED BY <2>1, <3>1, <3>2
    <2>4. CASE /\ OnStack(todo') = {}
               /\ cache'.memory[k] = None /\ cache'.pmem[k] = None /\ cache'.block[k] = None
      <3>1. Copies(k)' = {} /\ Carried(k)' = {} BY <2>4 DEF Copies, Carried
      <3> QED BY <3>1 DEF Around
    <2>5. CASE OnStack(todo') = {} /\ Expired(cache', k) BY <2>5 DEF Lapsed
    <2> QED BY <2>2, <2>3, <2>4, <2>5 DEF CallAt
  <1>13. Fresh'
    <2> SUFFICES ASSUME req'.active PROVE Fresh' BY DEF Fresh
    <2>1. /\ UNCHANGED <<cache, allowed>>
          /\ req'.key \in Keys /\ ~ req'.fallback /\ req'.outcome = "none"
          /\ \A x \in OnStack(todo') : x.step \notin Carrying
          /\ Pending("PutMemory")' /\ Pending("PutPmemPart")' /\ Pending("PutSsd")'
      BY <1>3, <1>4 DEF CallSettings
    <2>2. ASSUME "ttl" \notin Calls, NEW k \in Keys PROVE Around(k)' \subseteq allowed'[k]
      <3>1. ~ Expired(cache, k) BY <2>2, <1>5 DEF Steady, Ageless, Expired
      <3>2. Around(k) \subseteq allowed[k] BY <3>1, <1>7 DEF Current, Undisturbed, Lapsed
      <3>3. Copies(k)' = Copies(k) /\ Carried(k)' = {} BY <2>1 DEF Copies, Carried
      <3> QED BY <3>2, <3>3, <2>1, <1>7 DEF Around
    <2>3. "ttl" \notin Calls => Around(req.key)' \subseteq allowed'[req'.key] \cup {req'.val}
      BY <2>1, <2>2
    <2>4. \A x \in OnStack(todo') : x.step # "PutPmem" BY <2>1 DEF Carrying
    <2>5. MemoryPart' BY <2>1 DEF MemoryPart
    <2>6. PmemPart' BY <2>1 DEF PmemPart
    <2>7. SsdPart' BY <2>1 DEF SsdPart
    <2> QED BY <2>3, <2>4, <2>5, <2>6, <2>7 DEF Fresh
  <1>14. Followed'
    <2>1. ASSUME NEW r \in Readers, NEW k \in Keys,
                 reader'[r].at \in {"ssd", "refill", "promote"}, reader'[r].key = k
          PROVE  Follows(r, k)'
      <3>1. CASE reader'[r] = reader[r] /\ seen[r] \subseteq seen'[r]
        <4>1. Around(k) \subseteq seen[r] BY <3>1, <2>1, <1>7 DEF Current, Followed, Follows
        <4> QED BY <4>1, <3>1, <2>1, <1>7 DEF Follows
      <3>2. CASE /\ cache' = cache /\ OnStack(todo') = {} /\ ~ Expired(cache, k)
                 /\ seen'[r] = allowed[k]
        <4>1. Around(k) \subseteq allowed[k] BY <3>2, <1>7 DEF Current, Undisturbed, Lapsed
        <4>2. Copies(k)' = Copies(k) /\ Carried(k)' = {} BY <3>2 DEF Copies, Carried
        <4> QED BY <3>2, <4>1, <4>2, <1>7 DEF Follows, Around
      <3>3. CASE reader[r].at = "ssd" /\ reader[r].key = k /\ seen'[r] = seen[r]
        <4>1. Around(k) \subseteq seen[r] BY <3>3, <1>7 DEF Current, Followed, Follows
        <4> QED BY <4>1, <3>3, <1>7 DEF Follows
      <3>4. CallReads(r) BY <1>2
      <3> QED BY <2>1, <3>1, <3>2, <3>3, <3>4 DEF CallReads
    <2>2. ASSUME NEW r \in Readers, reader'[r].at \in {"refill", "promote"}
          PROVE  reader'[r].val \in seen'[r]
      <3>1. CASE reader'[r] = reader[r] /\ seen[r] \subseteq seen'[r]
        BY <3>1, <2>2 DEF Current, Followed
      <3>2. ASSUME NEW k \in Keys, ~ Expired(cache, k), seen'[r] = allowed[k],
                   reader'[r].val \in Copies(k)
            PROVE  reader'[r].val \in seen'[r]
        BY <3>2, <1>7 DEF Current, Undisturbed, Lapsed
      <3>3. ASSUME NEW k \in Keys, reader[r].at = "ssd", reader[r].key = k, seen'[r] = seen[r],
                   reader'[r].val \in Copies(k)
            PROVE  reader'[r].val \in seen'[r]
        BY <3>3, <1>7 DEF Current, Followed, Follows
      <3>4. CallReads(r) BY <1>2
      <3> QED BY <2>2, <3>1, <3>2, <3>3, <3>4 DEF CallReads
    <2> QED BY <2>1, <2>2 DEF Followed
  <1> QED BY <1>3, <1>8, <1>9, <1>10, <1>11, <1>12, <1>13, <1>14 DEF Current, Steady, CallSettings

\* A new cache has nothing around.
LEMMA CurrentInit == Init => Current
  <1> SUFFICES ASSUME Init PROVE Current OBVIOUS
  <1>1. PICK m \in MemoryCapacities, p \in PmemCapacities, s \in SsdCapacities :
           cache = EmptyInner(m, p, s)
    BY DEF Init
  <1>2. m \in Nat /\ p \in Nat /\ s \in Nat BY CacheAssumption
  <1>3. /\ NothingIn(cache) /\ cache.started /\ ~ cache.ssd_only /\ ~ cache.default_ttl
        /\ cache.memory_capacity = m /\ cache.pmem_capacity = p
        /\ \A k \in Keys : cache.block[k] = None
    BY <1>1, <1>2, EmptyInnerFields
  <1>4. todo = <<>> /\ reclaims = 0 /\ ~ req.active BY DEF Init, NoReq
  <1>5. OnStack(todo) = {} BY <1>4, EmptyStack
  <1>6. \A r \in Readers : reader[r].at = "idle" BY DEF Init, IdleReader
  <1>7. Settled BY <1>3, <1>4 DEF Settled
  <1>8. Ageless BY <1>3, <1>4 DEF Ageless, NothingIn
  <1>9. Listed BY <1>3 DEF Listed
  <1>10. Absent BY <1>3, <1>4, <1>5 DEF Absent, NothingIn
  <1>11. Probed BY <1>6 DEF Probed
  <1>12. Undisturbed
    <2> SUFFICES ASSUME NEW k \in Keys PROVE Around(k) = {} BY DEF Undisturbed
    <2>1. Copies(k) = {} BY <1>3 DEF Copies, NothingIn
    <2>2. Carried(k) = {} BY <1>5 DEF Carried
    <2> QED BY <2>1, <2>2 DEF Around
  <1>13. Fresh BY <1>4 DEF Fresh
  <1>14. Followed BY <1>6 DEF Followed
  <1> QED BY <1>7, <1>8, <1>9, <1>10, <1>11, <1>12, <1>13, <1>14 DEF Current, Steady

\* Every step keeps it.
LEMMA CurrentStep ==
    ASSUME Dependable
    PROVE  Shape /\ Current /\ [Next]_vars => Current'
  <1> SUFFICES ASSUME Shape, Current, [Next]_vars PROVE Current' OBVIOUS
  <1>1. CASE LockHolder
    <2>1. Steady' BY <1>1, SteadyHolder DEF Current
    <2>2. Probed'
      <3>1. NotesBlocks(cache, cache') /\ reader' = reader BY <1>1, HolderFrame DEF Frame
      <3> QED BY <3>1, ProbedKept DEF Current
    <2>3. Undisturbed' BY <1>1, UndisturbedHolder DEF Current
    <2>4. Fresh' BY <1>1, FreshHolder DEF Current
    <2>5. Followed' BY <1>1, FollowedHolder DEF Current
    <2> QED BY <2>1, <2>2, <2>3, <2>4, <2>5 DEF Current
  <1>2. CASE Call BY <1>2, CurrentCall
  <1>3. CASE UNCHANGED vars
    <2>1. UNCHANGED <<cache, pins, reclaims, todo, req, reader, allowed, seen>> BY <1>3 DEF vars
    <2>2. Steady' BY <2>1 DEF Current, Steady, Settled, Ageless, Listed, Absent
    <2>3. Probed' BY <2>1 DEF Current, Probed
    <2>4. \A k \in Keys : Around(k)' = Around(k) /\ (Putting(k)' <=> Putting(k))
      BY <2>1 DEF Around, Copies, Carried, Putting
    <2>5. Undisturbed'
      <3>1. \A k \in Keys : Lapsed(k)' <=> Lapsed(k) BY <2>1 DEF Lapsed
      <3> QED BY <3>1, <2>1, <2>4 DEF Current, Undisturbed
    <2>6. Fresh'
      <3>1. Fresh BY DEF Current
      <3> QED BY <3>1, <2>1 DEF Fresh, Around, Copies, Carried, MemoryPart, PmemPart, SsdPart,
                                InHand, Pending
    <2>7. Followed'
      <3>1. \A r \in Readers, k \in Keys : Follows(r, k)' <=> Follows(r, k)
        BY <2>1, <2>4 DEF Follows
      <3> QED BY <3>1, <2>1 DEF Current, Followed
    <2> QED BY <2>2, <2>3, <2>5, <2>6, <2>7 DEF Current
  <1> QED BY <1>1, <1>2, <1>3 DEF Next, Call

\* Between calls no tier holds, for an entry that has not expired, anything but
\* the value of the last put, however puts, demotions, evictions, sweeps and the
\* sections of reads follow each other: a put replaces or drops the copy of every
\* tier it passes by (put_with_request_shared, drop_stale_tier_copy), a read
\* installs what it brought only while the journal says the block is unchanged
\* (refill_ssd_probe), and an expired copy is removed from all tiers together
\* (remove_expired_entry). Excluded: the failures, refusals and combinations of
\* calls listed at Dependable, in which the code does leave an old copy behind.
THEOREM LastWriteIsFound ==
    ASSUME Dependable
    PROVE  Spec => []LastWriteWins
  <1>1. Shape /\ Current => LastWriteWins
    <2> SUFFICES ASSUME Shape, Current, Unlocked, NEW k \in Keys
                 PROVE  Expired(cache, k) \/ Copies(k) \subseteq allowed[k]
      BY DEF LastWriteWins
    <2>1. ~ Putting(k) BY UnlockedFacts DEF Putting
    <2>2. Lapsed(k) \/ Around(k) \subseteq allowed[k] BY <2>1 DEF Current, Undisturbed
    <2> QED BY <2>2 DEF Lapsed, Around
  <1> QED BY <1>1, CurrentInit, CurrentStep, ShapeInvariant, PTL DEF Spec

\* What a read brings back was the value of its key at some moment of the read,
\* although other calls run between its sections (get_shared, read_ssd_probe,
\* promote_pmem_probe_if_current). Excluded: what Dependable excludes.
THEOREM ReadsAreCurrent ==
    ASSUME Dependable
    PROVE  Spec => []ReadSawACurrentValue
  <1>1. Current => ReadSawACurrentValue BY DEF Current, Followed, ReadSawACurrentValue
  <1> QED BY <1>1, CurrentInit, CurrentStep, ShapeInvariant, PTL DEF Spec
=============================================================================
