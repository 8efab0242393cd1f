------------------------- MODULE TieredCacheProofs -------------------------
(***************************************************************************)
(* What each operator of CacheInner does to the fields of the record, what *)
(* one step of the holder of the write lock does, what the calls do, and   *)
(* the invariants of TieredCache that rest on it.                          *)
(*                                                                         *)
(* The lemmas named ...Effect say of each action what it changes and what  *)
(* it leaves on the lock holder's stack; the proofs use them instead of    *)
(* the definitions. In the order of this module:                           *)
(*                                                                         *)
(*   - the operators of CacheInner, the steps on the stack, and the calls; *)
(*   - Shape, inductive as it stands: types, what a step may lie on, that  *)
(*     only a put in progress has steps of a put, what a step may rely on  *)
(*     about its key when it comes to the top (Foreseen), orders that list *)
(*     what the tiers hold, metadata in one home. TypeOK and               *)
(*     NothingOutOfOrder follow from it;                                   *)
(*   - PinnedStays, from Shape and the effect of each step;                *)
(*   - MetadataAtHome, from Held: what is carried between tiers is         *)
(*     described like what a tier holds;                                   *)
(*   - IndexMatchesStore, from Matching, which does not need the lock;     *)
(*   - NothingDescribedThatIsGone, from Accounted: metadata without an     *)
(*     entry is owed a clean-up by the lock holder.                        *)
(*                                                                         *)
(* A theorem with a hypothesis on the constants says in its comment which  *)
(* behaviour of the code the hypothesis excludes.                          *)
(***************************************************************************)
EXTENDS TieredCache, FiniteSetTheorems, TLAPS

SameSettings(c, d) ==
    /\ d.started = c.started /\ d.ssd_only = c.ssd_only /\ d.default_ttl = c.default_ttl
    /\ d.memory_capacity = c.memory_capacity /\ d.pmem_capacity = c.pmem_capacity
    /\ d.ssd_capacity = c.ssd_capacity
SameMemory(c, d) ==
    d.memory = c.memory /\ d.memory_order = c.memory_order /\ d.memory_bytes = c.memory_bytes
SamePmem(c, d) ==
    d.pmem = c.pmem /\ d.pmem_order = c.pmem_order /\ d.pmem_bytes = c.pmem_bytes
SameIndex(c, d) ==
    d.disk_index = c.disk_index /\ d.disk_order = c.disk_order /\ d.ssd_bytes = c.ssd_bytes
SameSsd(c, d) == SameIndex(c, d) /\ d.block = c.block
SameMetadata(c, d) == d.meta = c.meta /\ d.expiry = c.expiry

\* The home metadata_of looks in.
Home(c, k) ==
    IF InMemory(c, k) THEN "memory" ELSE IF InPmem(c, k) THEN "pmem" ELSE "overflow"

-----------------------------------------------------------------------------
\* A saturating subtraction yields a natural and takes something off.
LEMMA MonusFacts ==
    ASSUME NEW a \in Nat, NEW b \in Nat
    PROVE  Monus(a, b) \in Nat /\ Monus(a, b) <= a /\ (a > 0 /\ b > 0 => Monus(a, b) < a)
  BY DEF Monus

\* The lengths the counters add and subtract are naturals.
LEMMA Lengths ==
    ASSUME NEW c \in Inner, NEW k \in Keys
    PROVE  LenOf(c.memory[k]) \in Nat /\ LenOf(c.pmem[k]) \in Nat /\ IndexedLen(c, k) \in Nat
  BY InnerAssumption DEF LenOf, IndexedLen, Inner

\* note_ssd_probe_mutation tells every reader about the key and changes nothing else.
LEMMA NotedFields ==
    ASSUME NEW c \in Inner, NEW k \in Keys
    PROVE  LET d == Noted(c, k)
           IN /\ d \in Inner
              /\ SameSettings(c, d) /\ SameMemory(c, d) /\ SamePmem(c, d)
              /\ SameSsd(c, d) /\ SameMetadata(c, d)
              /\ \A r \in Readers : k \in d.changed[r] /\ c.changed[r] \subseteq d.changed[r]
  BY DEF Noted, Fenced, Inner, SameSettings, SameMemory, SamePmem, SameSsd, SameIndex, SameMetadata

\* bump_ssd_probe_epoch
LEMMA FencedFields ==
    ASSUME NEW c \in Inner
    PROVE  LET d == Fenced(c)
           IN /\ d \in Inner
              /\ SameSettings(c, d) /\ SameMemory(c, d) /\ SamePmem(c, d)
              /\ SameSsd(c, d) /\ SameMetadata(c, d)
              /\ d.changed = [r \in Readers |-> Keys]
  BY DEF Fenced, Inner, SameSettings, SameMemory, SamePmem, SameSsd, SameIndex, SameMetadata

\* set_metadata adds the home of the key.
LEMMA DescribeFields ==
    ASSUME NEW c \in Inner, NEW k \in Keys
    PROVE  LET d == Describe(c, k)
           IN /\ d \in Inner
              /\ SameSettings(c, d) /\ SameMemory(c, d) /\ SamePmem(c, d) /\ SameSsd(c, d)
              /\ d.changed = c.changed /\ d.expiry = c.expiry
              /\ d.meta = [c.meta EXCEPT ![k] = @ \cup {Home(c, k)}]
  <1> DEFINE m == c.meta[k] \cup {Home(c, k)}
  <1>1. m \in SUBSET Homes BY DEF Inner, Homes, Home
  <1>2. Describe(c, k) = [c EXCEPT !.meta[k] = m] BY DEF Describe, Home
  <1> HIDE DEF m
  <1>3. [c EXCEPT !.meta[k] = m] \in Inner BY <1>1 DEF Inner
  <1>4. LET d == [c EXCEPT !.meta[k] = m]
        IN /\ SameSettings(c, d) /\ SameMemory(c, d) /\ SamePmem(c, d) /\ SameSsd(c, d)
           /\ d.changed = c.changed /\ d.expiry = c.expiry
           /\ d.meta = [c.meta EXCEPT ![k] = m]
    BY DEF Inner, SameSettings, SameMemory, SamePmem, SameSsd, SameIndex
  <1> QED BY <1>2, <1>3, <1>4 DEF m

\* record_metadata: the key is described, or was, and then gets a new life.
LEMMA RecordMetadataFields ==
    ASSUME NEW c \in Inner, NEW k \in Keys
    PROVE  LET d == RecordMetadata(c, k)
           IN /\ d \in Inner
              /\ SameSettings(c, d) /\ SameMemory(c, d) /\ SamePmem(c, d) /\ SameSsd(c, d)
              /\ d.changed = c.changed
              /\ d.meta = [c.meta EXCEPT ![k] = @ \cup {Home(c, k)}]
              /\ \A x \in Keys \ {k} : d.expiry[x] = c.expiry[x]
              /\ d.expiry[k] \in {c.expiry[k], IF c.default_ttl THEN "live" ELSE "none"}
              /\ Described(c, k) => d.expiry[k] # "lapsed"
  <1> DEFINE e == [c EXCEPT !.expiry[k] = IF c.default_ttl THEN "live" ELSE "none"]
  <1>1. CASE Described(c, k)
    <2>1. RecordMetadata(c, k) = e BY <1>1 DEF RecordMetadata
    <2>2. e \in Inner BY DEF Inner, Lives
    <2>3. /\ SameSettings(c, e) /\ SameMemory(c, e) /\ SamePmem(c, e) /\ SameSsd(c, e)
          /\ e.changed = c.changed /\ e.meta = c.meta
          /\ e.expiry = [c.expiry EXCEPT ![k] = IF c.default_ttl THEN "live" ELSE "none"]
      BY DEF Inner, SameSettings, SameMemory, SamePmem, SameSsd, SameIndex
    <2>4. c.meta = [c.meta EXCEPT ![k] = @ \cup {Home(c, k)}]
      BY <1>1 DEF Described, Home, Inner
    <2>5. c.expiry \in [Keys -> Lives] BY DEF Inner
    <2> HIDE DEF e
    <2> QED BY <2>1, <2>2, <2>3, <2>4, <2>5
  <1>2. CASE ~ Described(c, k)
    BY <1>2, DescribeFields DEF RecordMetadata
  <1> QED BY <1>1, <1>2

\* record_hit_metadata: the key is described afterwards.
LEMMA RecordHitFields ==
    ASSUME NEW c \in Inner, NEW k \in Keys
    PROVE  LET d == RecordHit(c, k)
           IN /\ d \in Inner
              /\ SameSettings(c, d) /\ SameMemory(c, d) /\ SamePmem(c, d) /\ SameSsd(c, d)
              /\ d.changed = c.changed /\ d.expiry = c.expiry
              /\ d.meta = [c.meta EXCEPT ![k] = @ \cup {Home(c, k)}]
  <1>1. CASE Described(c, k)
    <2>1. RecordHit(c, k) = c BY <1>1 DEF RecordHit
    <2>2. c.meta = [c.meta EXCEPT ![k] = @ \cup {Home(c, k)}]
      BY <1>1 DEF Described, Home, Inner
    <2> QED BY <2>1, <2>2 DEF SameSettings, SameMemory, SamePmem, SameSsd, SameIndex
  <1>2. CASE ~ Described(c, k)
    BY <1>2, DescribeFields DEF RecordHit
  <1> QED BY <1>1, <1>2

\* forget_metadata_of and forget_expiry.
LEMMA ForgetMetadataFields ==
    ASSUME NEW c \in Inner, NEW k \in Keys
    PROVE  LET d == ForgetMetadata(c, k)
           IN /\ d \in Inner
              /\ SameSettings(c, d) /\ SameMemory(c, d) /\ SamePmem(c, d) /\ SameSsd(c, d)
              /\ d.changed = c.changed
              /\ d.meta = [c.meta EXCEPT ![k] = {}]
              /\ d.expiry = [c.expiry EXCEPT ![k] = "none"]
  <1>1. ForgetMetadata(c, k) \in Inner BY DEF ForgetMetadata, Inner, Lives
  <1> QED BY <1>1 DEF ForgetMetadata, Inner, SameSettings, SameMemory, SamePmem, SameSsd, SameIndex

\* make_resident: the value is in memory and in its order, and the metadata of
\* a newcomer moves to the memory map.
LEMMA MakeResidentFields ==
    ASSUME NEW c \in Inner, NEW k \in Keys, NEW v \in Values
    PROVE  LET d == MakeResident(c, k, v)
           IN /\ d \in Inner
              /\ SameSettings(c, d) /\ SamePmem(c, d) /\ SameSsd(c, d)
              /\ d.expiry = c.expiry /\ d.changed = Noted(c, k).changed
              /\ d.memory = [c.memory EXCEPT ![k] = v]
              /\ d.memory_order = c.memory_order \cup {k}
              /\ d.meta = [c.meta EXCEPT ![k] =
                    IF InMemory(c, k) THEN @
                    ELSE IF "pmem" \in @ THEN (@ \ {"pmem"}) \cup {"memory"}
                    ELSE IF "overflow" \in @ THEN (@ \ {"overflow"}) \cup {"memory"}
                    ELSE @]
  <1> DEFINE n == Noted(c, k)
             d == MakeResident(c, k, v)
             b == Monus(n.memory_bytes, LenOf(c.memory[k])) + Size[v]
             m == IF InMemory(c, k) THEN c.meta[k]
                  ELSE IF "pmem" \in c.meta[k] THEN (c.meta[k] \ {"pmem"}) \cup {"memory"}
                  ELSE IF "overflow" \in c.meta[k] THEN (c.meta[k] \ {"overflow"}) \cup {"memory"}
                  ELSE c.meta[k]
  <1>1. /\ n \in Inner /\ SameSettings(c, n) /\ SameMemory(c, n) /\ SamePmem(c, n)
        /\ SameSsd(c, n) /\ SameMetadata(c, n)
    BY NotedFields
  <1>2. n.memory_bytes \in Nat /\ c.meta[k] \in SUBSET Homes BY <1>1 DEF Inner
  <1>3. b \in Nat
    <2>1. LenOf(c.memory[k]) \in Nat BY Lengths
    <2>2. Monus(n.memory_bytes, LenOf(c.memory[k])) \in Nat BY <1>2, <2>1, MonusFacts
    <2>3. Size[v] \in Nat BY InnerAssumption
    <2> QED BY <2>2, <2>3
  <1>4. m \in SUBSET Homes BY <1>2 DEF Homes
  <1>5. d = [n EXCEPT !.memory[k] = v, !.meta[k] = m, !.memory_order = @ \cup {k},
                      !.memory_bytes = b]
    BY DEF MakeResident
  <1> HIDE DEF n, d, b, m
  <1>6. d \in Inner BY <1>1, <1>3, <1>4, <1>5 DEF Inner
  <1>7. /\ SameSettings(n, d) /\ SamePmem(n, d) /\ SameSsd(n, d)
        /\ d.expiry = n.expiry /\ d.changed = n.changed
        /\ d.memory = [n.memory EXCEPT ![k] = v] /\ d.memory_order = n.memory_order \cup {k}
        /\ d.meta = [n.meta EXCEPT ![k] = m]
    BY <1>1, <1>5 DEF Inner, SameSettings, SamePmem, SameSsd, SameIndex
  <1>8. /\ SameSettings(c, d) /\ SamePmem(c, d) /\ SameSsd(c, d)
        /\ d.expiry = c.expiry /\ d.changed = n.changed
        /\ d.memory = [c.memory EXCEPT ![k] = v] /\ d.memory_order = c.memory_order \cup {k}
        /\ d.meta = [c.meta EXCEPT ![k] = m]
    BY <1>1, <1>7 DEF SameSettings, SameMemory, SamePmem, SameSsd, SameIndex, SameMetadata
  <1> QED BY <1>6, <1>8 DEF n, d, m

\* take_resident: the value leaves memory, its metadata moves to the next home,
\* and the counter falls when the value weighed anything.
LEMMA TakeResidentFields ==
    ASSUME NEW c \in Inner, NEW k \in Keys
    PROVE  LET d == TakeResident(c, k)
           IN /\ d \in Inner
              /\ SameSettings(c, d) /\ SamePmem(c, d) /\ SameSsd(c, d)
              /\ d.expiry = c.expiry /\ d.changed = Noted(c, k).changed
              /\ d.memory = [c.memory EXCEPT ![k] = None]
              /\ d.memory_order = c.memory_order
              /\ d.memory_bytes = Monus(c.memory_bytes, LenOf(c.memory[k]))
              /\ d.meta = [c.meta EXCEPT ![k] =
                    IF "memory" \in @
                    THEN (@ \ {"memory"}) \cup {IF InPmem(c, k) THEN "pmem" ELSE "overflow"}
                    ELSE @]
  <1> DEFINE n == Noted(c, k)
             d == TakeResident(c, k)
             b == Monus(n.memory_bytes, LenOf(c.memory[k]))
             m == IF "memory" \in c.meta[k]
                  THEN (c.meta[k] \ {"memory"}) \cup {IF InPmem(c, k) THEN "pmem" ELSE "overflow"}
                  ELSE c.meta[k]
  <1>1. /\ n \in Inner /\ SameSettings(c, n) /\ SameMemory(c, n) /\ SamePmem(c, n)
        /\ SameSsd(c, n) /\ SameMetadata(c, n)
    BY NotedFields
  <1>2. n.memory_bytes \in Nat /\ c.meta[k] \in SUBSET Homes BY <1>1 DEF Inner
  <1>3. b \in Nat
    <2>1. LenOf(c.memory[k]) \in Nat BY Lengths
    <2> QED BY <1>2, <2>1, MonusFacts
  <1>4. m \in SUBSET Homes BY <1>2 DEF Homes
  <1>5. d = [n EXCEPT !.memory[k] = None, !.meta[k] = m, !.memory_bytes = b]
    BY DEF TakeResident
  <1>6. b = Monus(c.memory_bytes, LenOf(c.memory[k])) BY <1>1 DEF SameMemory
  <1> HIDE DEF n, d, b, m
  <1>7. d \in Inner BY <1>1, <1>3, <1>4, <1>5 DEF Inner
  <1>8. /\ SameSettings(n, d) /\ SamePmem(n, d) /\ SameSsd(n, d)
        /\ d.expiry = n.expiry /\ d.changed = n.changed
        /\ d.memory = [n.memory EXCEPT ![k] = None] /\ d.memory_order = n.memory_order
        /\ d.memory_bytes = b /\ d.meta = [n.meta EXCEPT ![k] = m]
    BY <1>1, <1>5 DEF Inner, SameSettings, SamePmem, SameSsd, SameIndex
  <1>9. /\ SameSettings(c, d) /\ SamePmem(c, d) /\ SameSsd(c, d)
        /\ d.expiry = c.expiry /\ d.changed = n.changed
        /\ d.memory = [c.memory EXCEPT ![k] = None] /\ d.memory_order = c.memory_order
        /\ d.meta = [c.meta EXCEPT ![k] = m]
    BY <1>1, <1>8 DEF SameSettings, SameMemory, SamePmem, SameSsd, SameIndex, SameMetadata
  <1> QED BY <1>6, <1>7, <1>8, <1>9 DEF n, d, m

\* make_pmem_resident
LEMMA MakePmemResidentFields ==
    ASSUME NEW c \in Inner, NEW k \in Keys, NEW v \in Values
    PROVE  LET d == MakePmemResident(c, k, v)
           IN /\ d \in Inner
              /\ SameSettings(c, d) /\ SameMemory(c, d) /\ SameSsd(c, d)
              /\ d.expiry = c.expiry /\ d.changed = c.changed
              /\ d.pmem = [c.pmem EXCEPT ![k] = v]
              /\ d.pmem_order = c.pmem_order \cup {k}
              /\ d.meta = [c.meta EXCEPT ![k] =
                    IF InPmem(c, k) \/ InMemory(c, k) \/ "overflow" \notin @ THEN @
                    ELSE (@ \ {"overflow"}) \cup {"pmem"}]
  <1> DEFINE d == MakePmemResident(c, k, v)
             b == Monus(c.pmem_bytes, LenOf(c.pmem[k])) + Size[v]
             m == IF InPmem(c, k) \/ InMemory(c, k) \/ "overflow" \notin c.meta[k] THEN c.meta[k]
                  ELSE (c.meta[k] \ {"overflow"}) \cup {"pmem"}
  <1>1. c.pmem_bytes \in Nat /\ c.meta[k] \in SUBSET Homes BY DEF Inner
  <1>2. b \in Nat
    <2>1. LenOf(c.pmem[k]) \in Nat BY Lengths
    <2>2. Monus(c.pmem_bytes, LenOf(c.pmem[k])) \in Nat BY <1>1, <2>1, MonusFacts
    <2>3. Size[v] \in Nat BY InnerAssumption
    <2> QED BY <2>2, <2>3
  <1>3. m \in SUBSET Homes BY <1>1 DEF Homes
  <1>4. d = [c EXCEPT !.pmem[k] = v, !.meta[k] = m, !.pmem_order = @ \cup {k}, !.pmem_bytes = b]
    BY DEF MakePmemResident
  <1> HIDE DEF d, b, m
  <1>5. d \in Inner BY <1>2, <1>3, <1>4 DEF Inner
  <1>6. /\ SameSettings(c, d) /\ SameMemory(c, d) /\ SameSsd(c, d)
        /\ d.expiry = c.expiry /\ d.changed = c.changed
        /\ d.pmem = [c.pmem EXCEPT ![k] = v] /\ d.pmem_order = c.pmem_order \cup {k}
        /\ d.meta = [c.meta EXCEPT ![k] = m]
    BY <1>4 DEF Inner, SameSettings, SameMemory, SameSsd, SameIndex
  <1> QED BY <1>5, <1>6 DEF d, m

\* take_pmem_resident
LEMMA TakePmemResidentFields ==
    ASSUME NEW c \in Inner, NEW k \in Keys
    PROVE  LET d == TakePmemResident(c, k)
           IN /\ d \in Inner
              /\ SameSettings(c, d) /\ SameMemory(c, d) /\ SameSsd(c, d)
              /\ d.expiry = c.expiry /\ d.changed = c.changed
              /\ d.pmem = [c.pmem EXCEPT ![k] = None]
              /\ d.pmem_order = c.pmem_order
              /\ d.pmem_bytes = Monus(c.pmem_bytes, LenOf(c.pmem[k]))
              /\ d.meta = [c.meta EXCEPT ![k] =
                    IF "pmem" \in @
                    THEN (@ \ {"pmem"}) \cup {IF InMemory(c, k) THEN "memory" ELSE "overflow"}
                    ELSE @]
  <1> DEFINE d == TakePmemResident(c, k)
             b == Monus(c.pmem_bytes, LenOf(c.pmem[k]))
             m == IF "pmem" \in c.meta[k]
                  THEN (c.meta[k] \ {"pmem"}) \cup {IF InMemory(c, k) THEN "memory" ELSE "overflow"}
                  ELSE c.meta[k]
  <1>1. c.pmem_bytes \in Nat /\ c.meta[k] \in SUBSET Homes BY DEF Inner
  <1>2. b \in Nat
    <2>1. LenOf(c.pmem[k]) \in Nat BY Lengths
    <2> QED BY <1>1, <2>1, MonusFacts
  <1>3. m \in SUBSET Homes BY <1>1 DEF Homes
  <1>4. d = [c EXCEPT !.pmem[k] = None, !.meta[k] = m, !.pmem_bytes = b]
    BY DEF TakePmemResident
  <1> HIDE DEF d, b, m
  <1>5. d \in Inner BY <1>2, <1>3, <1>4 DEF Inner
  <1>6. /\ SameSettings(c, d) /\ SameMemory(c, d) /\ SameSsd(c, d)
        /\ d.expiry = c.expiry /\ d.changed = c.changed
        /\ d.pmem = [c.pmem EXCEPT ![k] = None] /\ d.pmem_order = c.pmem_order
        /\ d.pmem_bytes = b /\ d.meta = [c.meta EXCEPT ![k] = m]
    BY <1>4 DEF Inner, SameSettings, SameMemory, SameSsd, SameIndex
  <1> QED BY <1>5, <1>6 DEF d, m, b

\* The eviction order of memory forgets a key.
LEMMA UnlistMemoryFields ==
    ASSUME NEW c \in Inner, NEW k \in Keys
    PROVE  LET d == [c EXCEPT !.memory_order = @ \ {k}]
           IN /\ d \in Inner
              /\ SameSettings(c, d) /\ SamePmem(c, d) /\ SameSsd(c, d) /\ SameMetadata(c, d)
              /\ d.changed = c.changed /\ d.memory = c.memory /\ d.memory_bytes = c.memory_bytes
              /\ d.memory_order = c.memory_order \ {k}
  BY DEF Inner, SameSettings, SamePmem, SameSsd, SameIndex, SameMetadata

\* The eviction order of PMEM forgets a key.
LEMMA UnlistPmemFields ==
    ASSUME NEW c \in Inner, NEW k \in Keys
    PROVE  LET d == [c EXCEPT !.pmem_order = @ \ {k}]
           IN /\ d \in Inner
              /\ SameSettings(c, d) /\ SameMemory(c, d) /\ SameSsd(c, d) /\ SameMetadata(c, d)
              /\ d.changed = c.changed /\ d.pmem = c.pmem /\ d.pmem_bytes = c.pmem_bytes
              /\ d.pmem_order = c.pmem_order \ {k}
  BY DEF Inner, SameSettings, SameMemory, SameSsd, SameIndex, SameMetadata

\* write_ssd_block
LEMMA WriteSsdBlockFields ==
    ASSUME NEW c \in Inner, NEW k \in Keys, NEW v \in Values \cup {None}
    PROVE  LET d == WriteSsdBlock(c, k, v)
           IN /\ d \in Inner
              /\ SameSettings(c, d) /\ SameMemory(c, d) /\ SamePmem(c, d) /\ SameIndex(c, d)
              /\ SameMetadata(c, d)
              /\ d.changed = Noted(c, k).changed
              /\ d.block = [c.block EXCEPT ![k] = v]
  <1> DEFINE n == Noted(c, k)
             d == WriteSsdBlock(c, k, v)
  <1>1. /\ n \in Inner /\ SameSettings(c, n) /\ SameMemory(c, n) /\ SamePmem(c, n)
        /\ SameSsd(c, n) /\ SameMetadata(c, n)
    BY NotedFields
  <1>2. d = [n EXCEPT !.block[k] = v] BY DEF WriteSsdBlock
  <1> HIDE DEF n, d
  <1>3. d \in Inner BY <1>1, <1>2 DEF Inner
  <1>4. /\ SameSettings(n, d) /\ SameMemory(n, d) /\ SamePmem(n, d) /\ SameIndex(n, d)
        /\ SameMetadata(n, d) /\ d.changed = n.changed /\ d.block = [n.block EXCEPT ![k] = v]
    BY <1>1, <1>2 DEF Inner, SameSettings, SameMemory, SamePmem, SameIndex, SameMetadata
  <1>5. /\ SameSettings(c, d) /\ SameMemory(c, d) /\ SamePmem(c, d) /\ SameIndex(c, d)
        /\ SameMetadata(c, d) /\ d.block = [c.block EXCEPT ![k] = v]
    BY <1>1, <1>4 DEF SameSettings, SameMemory, SamePmem, SameSsd, SameIndex, SameMetadata
  <1> QED BY <1>3, <1>4, <1>5 DEF n, d

\* delete_ssd_block is a write of nothing, or of what was there.
LEMMA DeleteIsAWrite ==
    ASSUME NEW c \in Inner, NEW k \in Keys, NEW ok \in BOOLEAN
    PROVE  DeleteSsdBlock(c, k, ok) = WriteSsdBlock(c, k, IF ok THEN None ELSE c.block[k])
  <1>1. Noted(c, k).block = c.block BY NotedFields DEF SameSsd
  <1> QED BY <1>1 DEF DeleteSsdBlock, WriteSsdBlock

\* delete_ssd_block
LEMMA DeleteSsdBlockFields ==
    ASSUME NEW c \in Inner, NEW k \in Keys, NEW ok \in BOOLEAN
    PROVE  LET d == DeleteSsdBlock(c, k, ok)
           IN /\ d \in Inner
              /\ SameSettings(c, d) /\ SameMemory(c, d) /\ SamePmem(c, d) /\ SameIndex(c, d)
              /\ SameMetadata(c, d)
              /\ d.changed = Noted(c, k).changed
              /\ d.block = [c.block EXCEPT ![k] = IF ok THEN None ELSE c.block[k]]
  <1>1. c.block[k] \in Values \cup {None} BY DEF Inner
  <1>2. (IF ok THEN None ELSE c.block[k]) \in Values \cup {None} BY <1>1
  <1> QED BY <1>2, DeleteIsAWrite, WriteSsdBlockFields

\* The index after a block was stored.
LEMMA IndexInsertFields ==
    ASSUME NEW c \in Inner, NEW k \in Keys, NEW v \in Values
    PROVE  LET d == IndexInsert(c, k, v)
           IN /\ d \in Inner
              /\ SameSettings(c, d) /\ SameMemory(c, d) /\ SamePmem(c, d) /\ SameMetadata(c, d)
              /\ d.changed = c.changed /\ d.block = c.block
              /\ d.disk_index = [c.disk_index EXCEPT ![k] = BlockLen[v]]
              /\ d.disk_order = c.disk_order \cup {k}
              /\ d.ssd_bytes = Monus(c.ssd_bytes, IndexedLen(c, k)) + BlockLen[v]
  <1> DEFINE d == IndexInsert(c, k, v)
             b == Monus(c.ssd_bytes, IndexedLen(c, k)) + BlockLen[v]
  <1>1. BlockLen[v] \in Nat BY InnerAssumption
  <1>2. b \in Nat
    <2>1. IndexedLen(c, k) \in Nat BY Lengths
    <2>2. c.ssd_bytes \in Nat BY DEF Inner
    <2>3. Monus(c.ssd_bytes, IndexedLen(c, k)) \in Nat BY <2>1, <2>2, MonusFacts
    <2> QED BY <1>1, <2>3
  <1>3. d = [c EXCEPT !.disk_index[k] = BlockLen[v], !.disk_order = @ \cup {k}, !.ssd_bytes = b]
    BY DEF IndexInsert
  <1> HIDE DEF d, b
  <1>4. d \in Inner BY <1>1, <1>2, <1>3 DEF Inner
  <1>5. /\ SameSettings(c, d) /\ SameMemory(c, d) /\ SamePmem(c, d) /\ SameMetadata(c, d)
        /\ d.changed = c.changed /\ d.block = c.block
        /\ d.disk_index = [c.disk_index EXCEPT ![k] = BlockLen[v]]
        /\ d.disk_order = c.disk_order \cup {k} /\ d.ssd_bytes = b
    BY <1>3 DEF Inner, SameSettings, SameMemory, SamePmem, SameMetadata
  <1> QED BY <1>4, <1>5 DEF d, b

\* The index after a block was given up.
LEMMA IndexRemoveFields ==
    ASSUME NEW c \in Inner, NEW k \in Keys
    PROVE  LET d == IndexRemove(c, k)
           IN /\ d \in Inner
              /\ SameSettings(c, d) /\ SameMemory(c, d) /\ SamePmem(c, d) /\ SameMetadata(c, d)
              /\ d.changed = c.changed /\ d.block = c.block
              /\ d.disk_index = [c.disk_index EXCEPT ![k] = None]
              /\ d.disk_order = c.disk_order \ {k}
              /\ d.ssd_bytes = Monus(c.ssd_bytes, IndexedLen(c, k))
  <1> DEFINE d == IndexRemove(c, k)
             b == Monus(c.ssd_bytes, IndexedLen(c, k))
  <1>1. b \in Nat
    <2>1. IndexedLen(c, k) \in Nat BY Lengths
    <2>2. c.ssd_bytes \in Nat BY DEF Inner
    <2> QED BY <2>1, <2>2, MonusFacts
  <1>2. d = [c EXCEPT !.disk_index[k] = None, !.disk_order = @ \ {k}, !.ssd_bytes = b]
    BY DEF IndexRemove
  <1> HIDE DEF d, b
  <1>3. d \in Inner BY <1>1, <1>2 DEF Inner
  <1>4. /\ SameSettings(c, d) /\ SameMemory(c, d) /\ SamePmem(c, d) /\ SameMetadata(c, d)
        /\ d.changed = c.changed /\ d.block = c.block
        /\ d.disk_index = [c.disk_index EXCEPT ![k] = None]
        /\ d.disk_order = c.disk_order \ {k} /\ d.ssd_bytes = b
    BY <1>2 DEF Inner, SameSettings, SameMemory, SamePmem, SameMetadata
  <1> QED BY <1>3, <1>4 DEF d, b

\* A reader's probe is captured or dropped.
LEMMA ProbeFields ==
    ASSUME NEW c \in Inner, NEW r \in Readers, NEW ks \in SUBSET Keys
    PROVE  LET d == [c EXCEPT !.changed[r] = ks]
           IN /\ d \in Inner
              /\ SameSettings(c, d) /\ SameMemory(c, d) /\ SamePmem(c, d) /\ SameSsd(c, d)
              /\ SameMetadata(c, d)
              /\ d.changed = [c.changed EXCEPT ![r] = ks]
  <1>1. [c EXCEPT !.changed[r] = ks] \in Inner BY DEF Inner
  <1> QED BY <1>1 DEF Inner, SameSettings, SameMemory, SamePmem, SameSsd, SameIndex, SameMetadata

\* set_ssd_instance_only(true): both volatile tiers are empty afterwards.
LEMMA ClearVolatileFields ==
    ASSUME NEW c \in Inner
    PROVE  LET d == ClearVolatile(c)
           IN /\ d \in Inner
              /\ SameSettings(c, d) /\ SameSsd(c, d) /\ d.expiry = c.expiry
              /\ d.memory_order = {} /\ d.pmem_order = {}
              /\ d.memory_bytes = 0 /\ d.pmem_bytes = 0
              /\ \A k \in Keys : /\ d.memory[k] = None /\ d.pmem[k] = None
                                 /\ d.meta[k] = IF c.meta[k] = {} THEN {} ELSE {"overflow"}
              /\ \A r \in Readers : d.changed[r] = Keys
  <1> DEFINE n == Fenced(c)
             d == ClearVolatile(c)
             m == [k \in Keys |-> IF c.meta[k] = {} THEN {} ELSE {"overflow"}]
             e == [k \in Keys |-> None]
  <1>1. /\ n \in Inner /\ SameSettings(c, n) /\ SameSsd(c, n) /\ SameMetadata(c, n)
        /\ \A r \in Readers : n.changed[r] = Keys
    BY FencedFields
  <1>2. m \in [Keys -> SUBSET Homes] BY DEF Homes
  <1>3. e \in [Keys -> Values \cup {None}] OBVIOUS
  <1>4. d = [n EXCEPT !.memory = e, !.pmem = e, !.memory_order = {}, !.pmem_order = {},
                      !.memory_bytes = 0, !.pmem_bytes = 0, !.meta = m]
    BY DEF ClearVolatile
  <1>5. \A k \in Keys : e[k] = None /\ m[k] = IF c.meta[k] = {} THEN {} ELSE {"overflow"}
    OBVIOUS
  <1> HIDE DEF n, d, m, e
  <1>6. d \in Inner BY <1>1, <1>2, <1>3, <1>4 DEF Inner
  <1>7. /\ SameSettings(n, d) /\ SameSsd(n, d) /\ d.expiry = n.expiry
        /\ d.memory = e /\ d.pmem = e /\ d.memory_order = {} /\ d.pmem_order = {}
        /\ d.memory_bytes = 0 /\ d.pmem_bytes = 0 /\ d.meta = m /\ d.changed = n.changed
    BY <1>1, <1>4 DEF Inner, SameSettings, SameSsd, SameIndex
  <1>8. SameSettings(c, d) /\ SameSsd(c, d) /\ d.expiry = c.expiry
    BY <1>1, <1>7 DEF SameSettings, SameSsd, SameIndex, SameMetadata
  <1> QED BY <1>1, <1>5, <1>6, <1>7, <1>8 DEF d

\* clear_all_locked when PMEM cannot be wiped.
LEMMA HalfClearedFields ==
    ASSUME NEW c \in Inner
    PROVE  LET d == HalfCleared(c)
           IN /\ d \in Inner
              /\ SameSettings(c, d) /\ SameSsd(c, d) /\ d.expiry = c.expiry
              /\ d.memory_order = c.memory_order /\ d.pmem_order = c.pmem_order
              /\ \A k \in Keys :
                    /\ d.memory[k] = None /\ d.pmem[k] = None
                    /\ d.meta[k] = IF c.meta[k] \subseteq {"memory"} THEN {} ELSE {"overflow"}
              /\ \A r \in Readers : d.changed[r] = Keys
  <1> DEFINE n == Fenced(c)
             d == HalfCleared(c)
             m == [k \in Keys |-> IF c.meta[k] \subseteq {"memory"} THEN {} ELSE {"overflow"}]
             e == [k \in Keys |-> None]
  <1>1. /\ n \in Inner /\ SameSettings(c, n) /\ SameMemory(c, n) /\ SamePmem(c, n)
        /\ SameSsd(c, n) /\ SameMetadata(c, n) /\ \A r \in Readers : n.changed[r] = Keys
    BY FencedFields
  <1>2. m \in [Keys -> SUBSET Homes] BY DEF Homes
  <1>3. e \in [Keys -> Values \cup {None}] OBVIOUS
  <1>4. d = [n EXCEPT !.memory = e, !.pmem = e, !.meta = m] BY DEF HalfCleared
  <1>5. \A k \in Keys :
            e[k] = None /\ m[k] = IF c.meta[k] \subseteq {"memory"} THEN {} ELSE {"overflow"}
    OBVIOUS
  <1> HIDE DEF n, d, m, e
  <1>6. d \in Inner BY <1>1, <1>2, <1>3, <1>4 DEF Inner
  <1>7. /\ SameSettings(n, d) /\ SameSsd(n, d) /\ d.expiry = n.expiry
        /\ d.memory = e /\ d.pmem = e /\ d.meta = m /\ d.changed = n.changed
        /\ d.memory_order = n.memory_order /\ d.pmem_order = n.pmem_order
    BY <1>1, <1>4 DEF Inner, SameSettings, SameSsd, SameIndex
  <1>8. /\ SameSettings(c, d) /\ SameSsd(c, d) /\ d.expiry = c.expiry
        /\ d.memory_order = c.memory_order /\ d.pmem_order = c.pmem_order
    BY <1>1, <1>7 DEF SameSettings, SameMemory, SamePmem, SameSsd, SameIndex, SameMetadata
  <1> QED BY <1>1, <1>5, <1>6, <1>7, <1>8 DEF d

\* Every tier, counter and description of d is empty.
NothingIn(d) ==
    /\ \A k \in Keys : /\ d.memory[k] = None /\ d.pmem[k] = None /\ d.disk_index[k] = None
                       /\ d.meta[k] = {} /\ d.expiry[k] = "none"
    /\ d.memory_order = {} /\ d.pmem_order = {} /\ d.disk_order = {}
    /\ d.memory_bytes = 0 /\ d.pmem_bytes = 0 /\ d.ssd_bytes = 0
    /\ \A r \in Readers : d.changed[r] = Keys

\* A new cache is a cache with nothing in it.
LEMMA EmptyInnerFields ==
    ASSUME NEW m \in Nat, NEW p \in Nat, NEW s \in Nat
    PROVE  LET d == EmptyInner(m, p, s)
           IN /\ d \in Inner /\ NothingIn(d)
              /\ d.started /\ ~ d.ssd_only /\ ~ d.default_ttl
              /\ d.memory_capacity = m /\ d.pmem_capacity = p /\ d.ssd_capacity = s
              /\ \A k \in Keys : d.block[k] = None
  <1>1. EmptyInner(m, p, s) \in Inner BY DEF EmptyInner, Inner, Lives
  <1> QED BY <1>1 DEF EmptyInner, NothingIn

\* clear_all_locked: only the settings, and the blocks a store refused to drop, stay.
LEMMA ClearAllFields ==
    ASSUME NEW c \in Inner, NEW ok \in BOOLEAN
    PROVE  LET d == ClearAll(c, ok)
           IN /\ d \in Inner /\ SameSettings(c, d) /\ NothingIn(d)
              /\ \A k \in Keys : d.block[k] = IF ok THEN None ELSE c.block[k]
  <1>1. PICK m \in Nat, p \in Nat, s \in Nat :
            m = c.memory_capacity /\ p = c.pmem_capacity /\ s = c.ssd_capacity
    BY DEF Inner
  <1> DEFINE n == EmptyInner(m, p, s)
             d == ClearAll(c, ok)
             b == IF ok THEN n.block ELSE c.block
  <1>2. /\ n \in Inner /\ NothingIn(n) /\ \A k \in Keys : n.block[k] = None
        /\ n.memory_capacity = m /\ n.pmem_capacity = p /\ n.ssd_capacity = s
    BY EmptyInnerFields
  <1>3. d = [n EXCEPT !.started = c.started, !.ssd_only = c.ssd_only,
                      !.default_ttl = c.default_ttl, !.block = b]
    BY <1>1 DEF ClearAll
  <1>4. b \in [Keys -> Values \cup {None}] BY <1>2 DEF Inner
  <1>5. \A k \in Keys : b[k] = IF ok THEN None ELSE c.block[k] BY <1>2
  <1> HIDE DEF n, d, b
  <1>6. d \in Inner BY <1>2, <1>3, <1>4 DEF Inner
  <1>7. /\ d.started = c.started /\ d.ssd_only = c.ssd_only /\ d.default_ttl = c.default_ttl
        /\ d.block = b /\ d.memory_capacity = n.memory_capacity
        /\ d.pmem_capacity = n.pmem_capacity /\ d.ssd_capacity = n.ssd_capacity
        /\ SameMemory(n, d) /\ SamePmem(n, d) /\ SameIndex(n, d) /\ SameMetadata(n, d)
        /\ d.changed = n.changed
    BY <1>2, <1>3 DEF Inner, SameMemory, SamePmem, SameIndex, SameMetadata
  <1>8. NothingIn(d)
    BY <1>2, <1>7 DEF NothingIn, SameMemory, SamePmem, SameIndex, SameMetadata
  <1> QED BY <1>1, <1>2, <1>5, <1>6, <1>7, <1>8 DEF SameSettings, d

-----------------------------------------------------------------------------
(* The two invariants of the record itself, and what an operator on one    *)
(* key leaves alone.                                                       *)

\* What a tier holds for k its eviction order lists, exactly so for the SSD
\* index; and k is described in the home metadata_of looks in, or nowhere.
TidyAt(c, k) ==
    /\ InMemory(c, k) => k \in c.memory_order
    /\ InPmem(c, k) => k \in c.pmem_order
    /\ Indexed(c, k) <=> k \in c.disk_order
    /\ c.meta[k] = {} \/ c.meta[k] = {Home(c, k)}

Tidy(c) == c \in Inner /\ \A k \in Keys : TidyAt(c, k)

\* c and d agree about k.
SameEntry(c, d, k) ==
    /\ d.memory[k] = c.memory[k] /\ d.pmem[k] = c.pmem[k]
    /\ d.disk_index[k] = c.disk_index[k] /\ d.block[k] = c.block[k]
    /\ d.meta[k] = c.meta[k] /\ d.expiry[k] = c.expiry[k]
    /\ k \in d.memory_order <=> k \in c.memory_order
    /\ k \in d.pmem_order <=> k \in c.pmem_order
    /\ k \in d.disk_order <=> k \in c.disk_order

\* A block changes only together with a note for every reader, and no note is lost.
NotesBlocks(c, d) ==
    \A r \in Readers, x \in Keys :
        x \notin d.changed[r] => x \notin c.changed[r] /\ d.block[x] = c.block[x]

\* From c to d only the entry of k changed.
Touches(c, d, k) ==
    /\ SameSettings(c, d)
    /\ \A x \in Keys \ {k} : SameEntry(c, d, x)
    /\ NotesBlocks(c, d)

\* Two changes of k's entry are one.
LEMMA TouchesTwice ==
    ASSUME NEW c, NEW d, NEW e, NEW k \in Keys, Touches(c, d, k), Touches(d, e, k)
    PROVE  Touches(c, e, k)
  BY DEF Touches, SameSettings, SameEntry, NotesBlocks

\* An entry that is as it was is still listed and at home.
LEMMA TidyElsewhere ==
    ASSUME NEW c, Tidy(c), NEW d \in Inner, NEW k \in Keys,
           \A x \in Keys \ {k} : SameEntry(c, d, x), TidyAt(d, k)
    PROVE  Tidy(d)
  BY DEF Tidy, TidyAt, SameEntry, Home, InMemory, InPmem, Indexed

\* note_ssd_probe_mutation
LEMMA NotedTidy ==
    ASSUME NEW c, Tidy(c), NEW k \in Keys
    PROVE  LET d == Noted(c, k)
           IN /\ Tidy(d) /\ Touches(c, d, k) /\ SameEntry(c, d, k)
              /\ \A r \in Readers : k \in d.changed[r]
  <1> DEFINE d == Noted(c, k)
  <1>1. /\ c \in Inner /\ d \in Inner
        /\ SameSettings(c, d) /\ SameMemory(c, d) /\ SamePmem(c, d)
        /\ SameSsd(c, d) /\ SameMetadata(c, d)
        /\ \A r \in Readers : k \in d.changed[r] /\ c.changed[r] \subseteq d.changed[r]
    BY NotedFields DEF Tidy
  <1> HIDE DEF d
  <1>2. \A x \in Keys : SameEntry(c, d, x)
    BY <1>1 DEF SameEntry, SameMemory, SamePmem, SameSsd, SameIndex, SameMetadata
  <1>3. Touches(c, d, k) BY <1>1, <1>2 DEF Touches, NotesBlocks, SameEntry
  <1>4. Tidy(d) BY <1>1, <1>2 DEF Tidy, TidyAt, SameEntry, Home, InMemory, InPmem, Indexed
  <1> QED BY <1>1, <1>2, <1>3, <1>4 DEF d

\* record_metadata leaves the key described, with a life that has not lapsed if
\* it was described before.
LEMMA RecordMetadataTidy ==
    ASSUME NEW c, Tidy(c), NEW k \in Keys
    PROVE  LET d == RecordMetadata(c, k)
           IN /\ Tidy(d) /\ Touches(c, d, k)
              /\ SameMemory(c, d) /\ SamePmem(c, d) /\ SameSsd(c, d) /\ d.changed = c.changed
              /\ d.meta[k] # {}
              /\ c.meta[k] # {} => d.expiry[k] # "lapsed"
              /\ d.expiry[k] \in {c.expiry[k], IF c.default_ttl THEN "live" ELSE "none"}
  <1> DEFINE d == RecordMetadata(c, k)
  <1>1. /\ c \in Inner /\ d \in Inner
        /\ SameSettings(c, d) /\ SameMemory(c, d) /\ SamePmem(c, d) /\ SameSsd(c, d)
        /\ d.changed = c.changed
        /\ d.meta = [c.meta EXCEPT ![k] = @ \cup {Home(c, k)}]
        /\ \A x \in Keys \ {k} : d.expiry[x] = c.expiry[x]
        /\ d.expiry[k] \in {c.expiry[k], IF c.default_ttl THEN "live" ELSE "none"}
        /\ Described(c, k) => d.expiry[k] # "lapsed"
    BY RecordMetadataFields DEF Tidy
  <1>2. c.meta \in [Keys -> SUBSET Homes] BY <1>1 DEF Inner
  <1>3. c.meta[k] # {} => Described(c, k) BY DEF Tidy, TidyAt, Described, Home
  <1> HIDE DEF d
  <1>4. d.meta[k] = {Home(c, k)} /\ \A x \in Keys \ {k} : d.meta[x] = c.meta[x]
    BY <1>1, <1>2 DEF Tidy, TidyAt
  <1>5. \A x \in Keys \ {k} : SameEntry(c, d, x)
    BY <1>1, <1>4 DEF SameEntry, SameMemory, SamePmem, SameSsd, SameIndex
  <1>6. Touches(c, d, k) BY <1>1, <1>5 DEF Touches, NotesBlocks, SameSsd
  <1>7. TidyAt(d, k)
    BY <1>1, <1>4 DEF Tidy, TidyAt, Home, InMemory, InPmem, Indexed, SameMemory, SamePmem, SameSsd,
                      SameIndex
  <1>8. Tidy(d) BY <1>1, <1>5, <1>7, TidyElsewhere
  <1> QED BY <1>1, <1>3, <1>4, <1>6, <1>8 DEF d

\* record_hit_metadata leaves the key described.
LEMMA RecordHitTidy ==
    ASSUME NEW c, Tidy(c), NEW k \in Keys
    PROVE  LET d == RecordHit(c, k)
           IN /\ Tidy(d) /\ Touches(c, d, k)
              /\ SameMemory(c, d) /\ SamePmem(c, d) /\ SameSsd(c, d) /\ d.changed = c.changed
              /\ d.meta[k] # {} /\ d.expiry = c.expiry
  <1> DEFINE d == RecordHit(c, k)
  <1>1. /\ c \in Inner /\ d \in Inner
        /\ SameSettings(c, d) /\ SameMemory(c, d) /\ SamePmem(c, d) /\ SameSsd(c, d)
        /\ d.changed = c.changed /\ d.expiry = c.expiry
        /\ d.meta = [c.meta EXCEPT ![k] = @ \cup {Home(c, k)}]
    BY RecordHitFields DEF Tidy
  <1>2. c.meta \in [Keys -> SUBSET Homes] BY <1>1 DEF Inner
  <1> HIDE DEF d
  <1>3. d.meta[k] = {Home(c, k)} /\ \A x \in Keys \ {k} : d.meta[x] = c.meta[x]
    BY <1>1, <1>2 DEF Tidy, TidyAt
  <1>4. \A x \in Keys \ {k} : SameEntry(c, d, x)
    BY <1>1, <1>3 DEF SameEntry, SameMemory, SamePmem, SameSsd, SameIndex
  <1>5. Touches(c, d, k) BY <1>1, <1>4 DEF Touches, NotesBlocks, SameSsd
  <1>6. TidyAt(d, k)
    BY <1>1, <1>3 DEF Tidy, TidyAt, Home, InMemory, InPmem, Indexed, SameMemory, SamePmem, SameSsd,
                      SameIndex
  <1>7. Tidy(d) BY <1>1, <1>4, <1>6, TidyElsewhere
  <1> QED BY <1>1, <1>3, <1>5, <1>7 DEF d

\* forget_metadata_unless_resident
LEMMA ForgetTidy ==
    ASSUME NEW c, Tidy(c), NEW k \in Keys
    PROVE  LET d == ForgetMetadataUnlessResident(c, k)
           IN /\ Tidy(d) /\ Touches(c, d, k)
              /\ SameMemory(c, d) /\ SamePmem(c, d) /\ SameSsd(c, d) /\ d.changed = c.changed
              /\ InSomeTier(c, k) => d = c
              /\ ~ InSomeTier(c, k) => d.meta[k] = {} /\ d.expiry[k] = "none"
  <1> DEFINE d == ForgetMetadata(c, k)
  <1>1. CASE InSomeTier(c, k)
    <2>1. ForgetMetadataUnlessResident(c, k) = c BY <1>1 DEF ForgetMetadataUnlessResident
    <2> QED BY <1>1, <2>1 DEF Touches, NotesBlocks, SameEntry, SameSettings, SameMemory, SamePmem,
                              SameSsd, SameIndex
  <1>2. CASE ~ InSomeTier(c, k)
    <2>1. ForgetMetadataUnlessResident(c, k) = d BY <1>2 DEF ForgetMetadataUnlessResident
    <2>2. /\ c \in Inner /\ d \in Inner
          /\ SameSettings(c, d) /\ SameMemory(c, d) /\ SamePmem(c, d) /\ SameSsd(c, d)
          /\ d.changed = c.changed
          /\ d.meta = [c.meta EXCEPT ![k] = {}]
          /\ d.expiry = [c.expiry EXCEPT ![k] = "none"]
      BY ForgetMetadataFields DEF Tidy
    <2>3. c.meta \in [Keys -> SUBSET Homes] /\ c.expiry \in [Keys -> Lives] BY <2>2 DEF Inner
    <2> HIDE DEF d
    <2>4. /\ d.meta[k] = {} /\ d.expiry[k] = "none"
          /\ \A x \in Keys \ {k} : d.meta[x] = c.meta[x] /\ d.expiry[x] = c.expiry[x]
      BY <2>2, <2>3
    <2>5. \A x \in Keys \ {k} : SameEntry(c, d, x)
      BY <2>2, <2>4 DEF SameEntry, SameMemory, SamePmem, SameSsd, SameIndex
    <2>6. Touches(c, d, k) BY <2>2, <2>5 DEF Touches, NotesBlocks, SameSsd
    <2>7. TidyAt(d, k)
      BY <2>2, <2>4 DEF Tidy, TidyAt, InMemory, InPmem, Indexed, SameMemory, SamePmem, SameSsd,
                        SameIndex
    <2>8. Tidy(d) BY <2>2, <2>5, <2>7, TidyElsewhere
    <2> QED BY <1>2, <2>1, <2>2, <2>4, <2>6, <2>8
  <1> QED BY <1>1, <1>2

\* make_resident
LEMMA MakeResidentTidy ==
    ASSUME NEW c, Tidy(c), NEW k \in Keys, NEW v \in Values
    PROVE  LET d == MakeResident(c, k, v)
           IN /\ Tidy(d) /\ Touches(c, d, k)
              /\ SamePmem(c, d) /\ SameSsd(c, d) /\ d.expiry = c.expiry
              /\ d.memory[k] = v /\ (d.meta[k] = {} <=> c.meta[k] = {})
  <1> DEFINE d == MakeResident(c, k, v)
  <1>1. /\ c \in Inner /\ d \in Inner /\ SameSettings(c, d)
        /\ SamePmem(c, d) /\ SameSsd(c, d) /\ d.expiry = c.expiry
        /\ d.changed = Noted(c, k).changed
        /\ d.memory = [c.memory EXCEPT ![k] = v] /\ d.memory_order = c.memory_order \cup {k}
        /\ d.meta = [c.meta EXCEPT ![k] =
              IF InMemory(c, k) THEN @
              ELSE IF "pmem" \in @ THEN (@ \ {"pmem"}) \cup {"memory"}
              ELSE IF "overflow" \in @ THEN (@ \ {"overflow"}) \cup {"memory"} ELSE @]
    BY MakeResidentFields DEF Tidy
  <1>2. /\ c.memory \in [Keys -> Values \cup {None}] /\ c.pmem \in [Keys -> Values \cup {None}]
        /\ c.block \in [Keys -> Values \cup {None}] /\ c.disk_index \in [Keys -> Nat \cup {None}]
        /\ c.meta \in [Keys -> SUBSET Homes]
    BY <1>1 DEF Inner
  <1> HIDE DEF d
  <1>3. /\ d.memory[k] = v /\ k \in d.memory_order
        /\ d.meta[k] = IF c.meta[k] = {} THEN {} ELSE {"memory"}
        /\ \A x \in Keys \ {k} : /\ d.memory[x] = c.memory[x] /\ d.meta[x] = c.meta[x]
                                /\ x \in d.memory_order <=> x \in c.memory_order
    <2>1. c.meta[k] = {} \/ c.meta[k] = {Home(c, k)} BY DEF Tidy, TidyAt
    <2>2. d.meta[k] = IF c.meta[k] = {} THEN {} ELSE {"memory"} BY <1>1, <1>2, <2>1 DEF Home
    <2> QED BY <1>1, <1>2, <2>2
  <1>4. \A x \in Keys \ {k} : SameEntry(c, d, x)
    BY <1>1, <1>3 DEF SameEntry, SameMemory, SamePmem, SameSsd, SameIndex, SameMetadata
  <1>5. Touches(c, d, k)
    <2>1. \A r \in Readers : k \in d.changed[r] /\ c.changed[r] \subseteq d.changed[r]
      BY <1>1, NotedFields
    <2> QED BY <1>1, <1>3, <1>4, <2>1 DEF Touches, NotesBlocks, SameEntry, SameSsd
  <1>6. TidyAt(d, k)
    BY <1>1, <1>3, InnerAssumption
       DEF Tidy, TidyAt, Home, InMemory, InPmem, Indexed, SameMemory, SamePmem, SameSsd, SameIndex,
           SameMetadata
  <1>7. Tidy(d) BY <1>1, <1>4, <1>6, TidyElsewhere
  <1> QED BY <1>1, <1>3, <1>5, <1>7 DEF d

\* take_resident
LEMMA TakeResidentTidy ==
    ASSUME NEW c, Tidy(c), NEW k \in Keys
    PROVE  LET d == TakeResident(c, k)
           IN /\ Tidy(d) /\ Touches(c, d, k)
              /\ SamePmem(c, d) /\ SameSsd(c, d) /\ d.expiry = c.expiry
              /\ d.memory[k] = None /\ (d.meta[k] = {} <=> c.meta[k] = {})
  <1> DEFINE d == TakeResident(c, k)
  <1>1. /\ c \in Inner /\ d \in Inner /\ SameSettings(c, d)
        /\ SamePmem(c, d) /\ SameSsd(c, d) /\ d.expiry = c.expiry
        /\ d.changed = Noted(c, k).changed
        /\ d.memory = [c.memory EXCEPT ![k] = None] /\ d.memory_order = c.memory_order
        /\ d.meta = [c.meta EXCEPT ![k] =
              IF "memory" \in @
              THEN (@ \ {"memory"}) \cup {IF InPmem(c, k) THEN "pmem" ELSE "overflow"} ELSE @]
    BY TakeResidentFields DEF Tidy
  <1>2. /\ c.memory \in [Keys -> Values \cup {None}] /\ c.pmem \in [Keys -> Values \cup {None}]
        /\ c.block \in [Keys -> Values \cup {None}] /\ c.disk_index \in [Keys -> Nat \cup {None}]
        /\ c.meta \in [Keys -> SUBSET Homes]
    BY <1>1 DEF Inner
  <1> HIDE DEF d
  <1>3. /\ d.memory[k] = None
        /\ d.meta[k] = IF c.meta[k] = {} THEN {} ELSE {IF InPmem(c, k) THEN "pmem" ELSE "overflow"}
        /\ \A x \in Keys \ {k} : d.memory[x] = c.memory[x] /\ d.meta[x] = c.meta[x]
    BY <1>1, <1>2 DEF Tidy, TidyAt, Home
  <1>4. \A x \in Keys \ {k} : SameEntry(c, d, x)
    BY <1>1, <1>3 DEF SameEntry, SameMemory, SamePmem, SameSsd, SameIndex, SameMetadata
  <1>5. Touches(c, d, k)
    <2>1. \A r \in Readers : k \in d.changed[r] /\ c.changed[r] \subseteq d.changed[r]
      BY <1>1, NotedFields
    <2> QED BY <1>1, <1>3, <1>4, <2>1 DEF Touches, NotesBlocks, SameEntry, SameSsd
  <1>6. TidyAt(d, k)
    BY <1>1, <1>3, InnerAssumption
       DEF Tidy, TidyAt, Home, InMemory, InPmem, Indexed, SameMemory, SamePmem, SameSsd, SameIndex,
           SameMetadata
  <1>7. Tidy(d) BY <1>1, <1>4, <1>6, TidyElsewhere
  <1> QED BY <1>1, <1>3, <1>5, <1>7 DEF d

\* make_pmem_resident
LEMMA MakePmemResidentTidy ==
    ASSUME NEW c, Tidy(c), NEW k \in Keys, NEW v \in Values
    PROVE  LET d == MakePmemResident(c, k, v)
           IN /\ Tidy(d) /\ Touches(c, d, k)
              /\ SameMemory(c, d) /\ SameSsd(c, d) /\ d.expiry = c.expiry
              /\ d.pmem[k] = v /\ (d.meta[k] = {} <=> c.meta[k] = {})
  <1> DEFINE d == MakePmemResident(c, k, v)
  <1>1. /\ c \in Inner /\ d \in Inner /\ SameSettings(c, d)
        /\ SameMemory(c, d) /\ SameSsd(c, d) /\ d.expiry = c.expiry
        /\ d.changed = c.changed
        /\ d.pmem = [c.pmem EXCEPT ![k] = v] /\ d.pmem_order = c.pmem_order \cup {k}
        /\ d.meta = [c.meta EXCEPT ![k] =
              IF InPmem(c, k) \/ InMemory(c, k) \/ "overflow" \notin @ THEN @
              ELSE (@ \ {"overflow"}) \cup {"pmem"}]
    BY MakePmemResidentFields DEF Tidy
  <1>2. /\ c.memory \in [Keys -> Values \cup {None}] /\ c.pmem \in [Keys -> Values \cup {None}]
        /\ c.block \in [Keys -> Values \cup {None}] /\ c.disk_index \in [Keys -> Nat \cup {None}]
        /\ c.meta \in [Keys -> SUBSET Homes]
    BY <1>1 DEF Inner
  <1> HIDE DEF d
  <1>3. /\ d.pmem[k] = v /\ k \in d.pmem_order
        /\ d.meta[k] = IF c.meta[k] = {} THEN {} ELSE {IF InMemory(c, k) THEN "memory" ELSE "pmem"}
        /\ \A x \in Keys \ {k} : /\ d.pmem[x] = c.pmem[x] /\ d.meta[x] = c.meta[x]
                                /\ x \in d.pmem_order <=> x \in c.pmem_order
    BY <1>1, <1>2 DEF Tidy, TidyAt, Home
  <1>4. \A x \in Keys \ {k} : SameEntry(c, d, x)
    BY <1>1, <1>3 DEF SameEntry, SameMemory, SamePmem, SameSsd, SameIndex, SameMetadata
  <1>5. Touches(c, d, k)
    BY <1>1, <1>3, <1>4 DEF Touches, NotesBlocks, SameSsd
  <1>6. TidyAt(d, k)
    BY <1>1, <1>3, InnerAssumption
       DEF Tidy, TidyAt, Home, InMemory, InPmem, Indexed, SameMemory, SamePmem, SameSsd, SameIndex,
           SameMetadata
  <1>7. Tidy(d) BY <1>1, <1>4, <1>6, TidyElsewhere
  <1> QED BY <1>1, <1>3, <1>5, <1>7 DEF d

\* take_pmem_resident
LEMMA TakePmemResidentTidy ==
    ASSUME NEW c, Tidy(c), NEW k \in Keys
    PROVE  LET d == TakePmemResident(c, k)
           IN /\ Tidy(d) /\ Touches(c, d, k)
              /\ SameMemory(c, d) /\ SameSsd(c, d) /\ d.expiry = c.expiry
              /\ d.pmem[k] = None /\ (d.meta[k] = {} <=> c.meta[k] = {})
  <1> DEFINE d == TakePmemResident(c, k)
  <1>1. /\ c \in Inner /\ d \in Inner /\ SameSettings(c, d)
        /\ SameMemory(c, d) /\ SameSsd(c, d) /\ d.expiry = c.expiry
        /\ d.changed = c.changed
        /\ d.pmem = [c.pmem EXCEPT ![k] = None] /\ d.pmem_order = c.pmem_order
        /\ d.meta = [c.meta EXCEPT ![k] =
              IF "pmem" \in @
              THEN (@ \ {"pmem"}) \cup {IF InMemory(c, k) THEN "memory" ELSE "overflow"} ELSE @]
    BY TakePmemResidentFields DEF Tidy
  <1>2. /\ c.memory \in [Keys -> Values \cup {None}] /\ c.pmem \in [Keys -> Values \cup {None}]
        /\ c.block \in [Keys -> Values \cup {None}] /\ c.disk_index \in [Keys -> Nat \cup {None}]
        /\ c.meta \in [Keys -> SUBSET Homes]
    BY <1>1 DEF Inner
  <1> HIDE DEF d
  <1>3. /\ d.pmem[k] = None
        /\ d.meta[k] = IF c.meta[k] = {} THEN {} ELSE {IF InMemory(c, k) THEN "memory" ELSE "overflow"}
        /\ \A x \in Keys \ {k} : d.pmem[x] = c.pmem[x] /\ d.meta[x] = c.meta[x]
    BY <1>1, <1>2 DEF Tidy, TidyAt, Home
  <1>4. \A x \in Keys \ {k} : SameEntry(c, d, x)
    BY <1>1, <1>3 DEF SameEntry, SameMemory, SamePmem, SameSsd, SameIndex, SameMetadata
  <1>5. Touches(c, d, k)
    BY <1>1, <1>3, <1>4 DEF Touches, NotesBlocks, SameSsd
  <1>6. TidyAt(d, k)
    BY <1>1, <1>3, InnerAssumption
       DEF Tidy, TidyAt, Home, InMemory, InPmem, Indexed, SameMemory, SamePmem, SameSsd, SameIndex,
           SameMetadata
  <1>7. Tidy(d) BY <1>1, <1>4, <1>6, TidyElsewhere
  <1> QED BY <1>1, <1>3, <1>5, <1>7 DEF d

\* A key that memory does not hold leaves its order.
LEMMA UnlistMemoryTidy ==
    ASSUME NEW c, Tidy(c), NEW k \in Keys, ~ InMemory(c, k)
    PROVE  LET d == [c EXCEPT !.memory_order = @ \ {k}]
           IN /\ Tidy(d) /\ Touches(c, d, k)
              /\ SamePmem(c, d) /\ SameSsd(c, d) /\ SameMetadata(c, d)
              /\ d.memory = c.memory /\ d.memory_bytes = c.memory_bytes
  <1> DEFINE d == [c EXCEPT !.memory_order = @ \ {k}]
  <1>1. /\ c \in Inner /\ d \in Inner /\ SameSettings(c, d)
        /\ SamePmem(c, d) /\ SameSsd(c, d) /\ SameMetadata(c, d)
        /\ d.changed = c.changed /\ d.memory = c.memory
        /\ d.memory_bytes = c.memory_bytes /\ d.memory_order = c.memory_order \ {k}
    BY UnlistMemoryFields DEF Tidy
  <1>2. /\ c.memory \in [Keys -> Values \cup {None}] /\ c.pmem \in [Keys -> Values \cup {None}]
        /\ c.block \in [Keys -> Values \cup {None}] /\ c.disk_index \in [Keys -> Nat \cup {None}]
        /\ c.meta \in [Keys -> SUBSET Homes]
    BY <1>1 DEF Inner
  <1> HIDE DEF d
  <1>3. /\ d.memory[k] = None
        /\ \A x \in Keys \ {k} : x \in d.memory_order <=> x \in c.memory_order
    BY <1>1, <1>2 DEF InMemory
  <1>4. \A x \in Keys \ {k} : SameEntry(c, d, x)
    BY <1>1, <1>3 DEF SameEntry, SameMemory, SamePmem, SameSsd, SameIndex, SameMetadata
  <1>5. Touches(c, d, k)
    BY <1>1, <1>3, <1>4 DEF Touches, NotesBlocks, SameSsd
  <1>6. TidyAt(d, k)
    BY <1>1, <1>3, InnerAssumption
       DEF Tidy, TidyAt, Home, InMemory, InPmem, Indexed, SameMemory, SamePmem, SameSsd, SameIndex,
           SameMetadata
  <1>7. Tidy(d) BY <1>1, <1>4, <1>6, TidyElsewhere
  <1> QED BY <1>1, <1>3, <1>5, <1>7 DEF d

\* A key that PMEM does not hold leaves its order.
LEMMA UnlistPmemTidy ==
    ASSUME NEW c, Tidy(c), NEW k \in Keys, ~ InPmem(c, k)
    PROVE  LET d == [c EXCEPT !.pmem_order = @ \ {k}]
           IN /\ Tidy(d) /\ Touches(c, d, k)
              /\ SameMemory(c, d) /\ SameSsd(c, d) /\ SameMetadata(c, d)
              /\ d.pmem = c.pmem /\ d.pmem_bytes = c.pmem_bytes
  <1> DEFINE d == [c EXCEPT !.pmem_order = @ \ {k}]
  <1>1. /\ c \in Inner /\ d \in Inner /\ SameSettings(c, d)
        /\ SameMemory(c, d) /\ SameSsd(c, d) /\ SameMetadata(c, d)
        /\ d.changed = c.changed /\ d.pmem = c.pmem
        /\ d.pmem_bytes = c.pmem_bytes /\ d.pmem_order = c.pmem_order \ {k}
    BY UnlistPmemFields DEF Tidy
  <1>2. /\ c.memory \in [Keys -> Values \cup {None}] /\ c.pmem \in [Keys -> Values \cup {None}]
        /\ c.block \in [Keys -> Values \cup {None}] /\ c.disk_index \in [Keys -> Nat \cup {None}]
        /\ c.meta \in [Keys -> SUBSET Homes]
    BY <1>1 DEF Inner
  <1> HIDE DEF d
  <1>3. /\ d.pmem[k] = None
        /\ \A x \in Keys \ {k} : x \in d.pmem_order <=> x \in c.pmem_order
    BY <1>1, <1>2 DEF InPmem
  <1>4. \A x \in Keys \ {k} : SameEntry(c, d, x)
    BY <1>1, <1>3 DEF SameEntry, SameMemory, SamePmem, SameSsd, SameIndex, SameMetadata
  <1>5. Touches(c, d, k)
    BY <1>1, <1>3, <1>4 DEF Touches, NotesBlocks, SameSsd
  <1>6. TidyAt(d, k)
    BY <1>1, <1>3, InnerAssumption
       DEF Tidy, TidyAt, Home, InMemory, InPmem, Indexed, SameMemory, SamePmem, SameSsd, SameIndex,
           SameMetadata
  <1>7. Tidy(d) BY <1>1, <1>4, <1>6, TidyElsewhere
  <1> QED BY <1>1, <1>3, <1>5, <1>7 DEF d

\* write_ssd_block
LEMMA WriteSsdBlockTidy ==
    ASSUME NEW c, Tidy(c), NEW k \in Keys, NEW v \in Values \cup {None}
    PROVE  LET d == WriteSsdBlock(c, k, v)
           IN /\ Tidy(d) /\ Touches(c, d, k)
              /\ SameMemory(c, d) /\ SamePmem(c, d) /\ SameIndex(c, d) /\ SameMetadata(c, d)
              /\ d.block[k] = v
  <1> DEFINE d == WriteSsdBlock(c, k, v)
  <1>1. /\ c \in Inner /\ d \in Inner /\ SameSettings(c, d)
        /\ SameMemory(c, d) /\ SamePmem(c, d) /\ SameIndex(c, d) /\ SameMetadata(c, d)
        /\ d.changed = Noted(c, k).changed
        /\ d.block = [c.block EXCEPT ![k] = v]
    BY WriteSsdBlockFields DEF Tidy
  <1>2. /\ c.memory \in [Keys -> Values \cup {None}] /\ c.pmem \in [Keys -> Values \cup {None}]
        /\ c.block \in [Keys -> Values \cup {None}] /\ c.disk_index \in [Keys -> Nat \cup {None}]
        /\ c.meta \in [Keys -> SUBSET Homes]
    BY <1>1 DEF Inner
  <1> HIDE DEF d
  <1>3. /\ d.block[k] = v
        /\ \A x \in Keys \ {k} : d.block[x] = c.block[x]
    BY <1>1, <1>2
  <1>4. \A x \in Keys \ {k} : SameEntry(c, d, x)
    BY <1>1, <1>3 DEF SameEntry, SameMemory, SamePmem, SameSsd, SameIndex, SameMetadata
  <1>5. Touches(c, d, k)
    <2>1. \A r \in Readers : k \in d.changed[r] /\ c.changed[r] \subseteq d.changed[r]
      BY <1>1, NotedFields
    <2> QED BY <1>1, <1>3, <1>4, <2>1 DEF Touches, NotesBlocks, SameEntry, SameSsd
  <1>6. TidyAt(d, k)
    BY <1>1, <1>3, InnerAssumption
       DEF Tidy, TidyAt, Home, InMemory, InPmem, Indexed, SameMemory, SamePmem, SameSsd, SameIndex,
           SameMetadata
  <1>7. Tidy(d) BY <1>1, <1>4, <1>6, TidyElsewhere
  <1> QED BY <1>1, <1>3, <1>5, <1>7 DEF d

\* delete_ssd_block
LEMMA DeleteSsdBlockTidy ==
    ASSUME NEW c, Tidy(c), NEW k \in Keys, NEW ok \in BOOLEAN
    PROVE  LET d == DeleteSsdBlock(c, k, ok)
           IN /\ Tidy(d) /\ Touches(c, d, k)
              /\ SameMemory(c, d) /\ SamePmem(c, d) /\ SameIndex(c, d) /\ SameMetadata(c, d)
              /\ d.block[k] = IF ok THEN None ELSE c.block[k]
  <1> DEFINE d == DeleteSsdBlock(c, k, ok)
  <1>1. /\ c \in Inner /\ d \in Inner /\ SameSettings(c, d)
        /\ SameMemory(c, d) /\ SamePmem(c, d) /\ SameIndex(c, d) /\ SameMetadata(c, d)
        /\ d.changed = Noted(c, k).changed
        /\ d.block = [c.block EXCEPT ![k] = IF ok THEN None ELSE c.block[k]]
    BY DeleteSsdBlockFields DEF Tidy
  <1>2. /\ c.memory \in [Keys -> Values \cup {None}] /\ c.pmem \in [Keys -> Values \cup {None}]
        /\ c.block \in [Keys -> Values \cup {None}] /\ c.disk_index \in [Keys -> Nat \cup {None}]
        /\ c.meta \in [Keys -> SUBSET Homes]
    BY <1>1 DEF Inner
  <1> HIDE DEF d
  <1>3. /\ d.block[k] = IF ok THEN None ELSE c.block[k]
        /\ \A x \in Keys \ {k} : d.block[x] = c.block[x]
    BY <1>1, <1>2
  <1>4. \A x \in Keys \ {k} : SameEntry(c, d, x)
    BY <1>1, <1>3 DEF SameEntry, SameMemory, SamePmem, SameSsd, SameIndex, SameMetadata
  <1>5. Touches(c, d, k)
    <2>1. \A r \in Readers : k \in d.changed[r] /\ c.changed[r] \subseteq d.changed[r]
      BY <1>1, NotedFields
    <2> QED BY <1>1, <1>3, <1>4, <2>1 DEF Touches, NotesBlocks, SameEntry, SameSsd
  <1>6. TidyAt(d, k)
    BY <1>1, <1>3, InnerAssumption
       DEF Tidy, TidyAt, Home, InMemory, InPmem, Indexed, SameMemory, SamePmem, SameSsd, SameIndex,
           SameMetadata
  <1>7. Tidy(d) BY <1>1, <1>4, <1>6, TidyElsewhere
  <1> QED BY <1>1, <1>3, <1>5, <1>7 DEF d

\* The index lists a stored block.
LEMMA IndexInsertTidy ==
    ASSUME NEW c, Tidy(c), NEW k \in Keys, NEW v \in Values
    PROVE  LET d == IndexInsert(c, k, v)
           IN /\ Tidy(d) /\ Touches(c, d, k)
              /\ SameMemory(c, d) /\ SamePmem(c, d) /\ SameMetadata(c, d) /\ d.block = c.block
              /\ d.disk_index[k] = BlockLen[v] /\ Indexed(d, k)
  <1> DEFINE d == IndexInsert(c, k, v)
  <1>1. /\ c \in Inner /\ d \in Inner /\ SameSettings(c, d)
        /\ SameMemory(c, d) /\ SamePmem(c, d) /\ SameMetadata(c, d)
        /\ d.changed = c.changed /\ d.block = c.block
        /\ d.disk_index = [c.disk_index EXCEPT ![k] = BlockLen[v]] /\ d.disk_order = c.disk_order \cup {k}
    BY IndexInsertFields DEF Tidy
  <1>2. /\ c.memory \in [Keys -> Values \cup {None}] /\ c.pmem \in [Keys -> Values \cup {None}]
        /\ c.block \in [Keys -> Values \cup {None}] /\ c.disk_index \in [Keys -> Nat \cup {None}]
        /\ c.meta \in [Keys -> SUBSET Homes]
    BY <1>1 DEF Inner
  <1> HIDE DEF d
  <1>3. /\ d.disk_index[k] = BlockLen[v] /\ BlockLen[v] # None /\ k \in d.disk_order
        /\ Indexed(d, k)
        /\ \A x \in Keys \ {k} : /\ d.disk_index[x] = c.disk_index[x]
                                /\ x \in d.disk_order <=> x \in c.disk_order
    BY <1>1, <1>2, InnerAssumption DEF Indexed
  <1>4. \A x \in Keys \ {k} : SameEntry(c, d, x)
    BY <1>1, <1>3 DEF SameEntry, SameMemory, SamePmem, SameSsd, SameIndex, SameMetadata
  <1>5. Touches(c, d, k)
    BY <1>1, <1>3, <1>4 DEF Touches, NotesBlocks, SameSsd
  <1>6. TidyAt(d, k)
    BY <1>1, <1>3, InnerAssumption
       DEF Tidy, TidyAt, Home, InMemory, InPmem, Indexed, SameMemory, SamePmem, SameSsd, SameIndex,
           SameMetadata
  <1>7. Tidy(d) BY <1>1, <1>4, <1>6, TidyElsewhere
  <1> QED BY <1>1, <1>3, <1>5, <1>7 DEF d

\* The index gives a block up.
LEMMA IndexRemoveTidy ==
    ASSUME NEW c, Tidy(c), NEW k \in Keys
    PROVE  LET d == IndexRemove(c, k)
           IN /\ Tidy(d) /\ Touches(c, d, k)
              /\ SameMemory(c, d) /\ SamePmem(c, d) /\ SameMetadata(c, d) /\ d.block = c.block
              /\ d.disk_index[k] = None
  <1> DEFINE d == IndexRemove(c, k)
  <1>1. /\ c \in Inner /\ d \in Inner /\ SameSettings(c, d)
        /\ SameMemory(c, d) /\ SamePmem(c, d) /\ SameMetadata(c, d)
        /\ d.changed = c.changed /\ d.block = c.block
        /\ d.disk_index = [c.disk_index EXCEPT ![k] = None] /\ d.disk_order = c.disk_order \ {k}
    BY IndexRemoveFields DEF Tidy
  <1>2. /\ c.memory \in [Keys -> Values \cup {None}] /\ c.pmem \in [Keys -> Values \cup {None}]
        /\ c.block \in [Keys -> Values \cup {None}] /\ c.disk_index \in [Keys -> Nat \cup {None}]
        /\ c.meta \in [Keys -> SUBSET Homes]
    BY <1>1 DEF Inner
  <1> HIDE DEF d
  <1>3. /\ d.disk_index[k] = None /\ k \notin d.disk_order
        /\ \A x \in Keys \ {k} : /\ d.disk_index[x] = c.disk_index[x]
                                /\ x \in d.disk_order <=> x \in c.disk_order
    BY <1>1, <1>2
  <1>4. \A x \in Keys \ {k} : SameEntry(c, d, x)
    BY <1>1, <1>3 DEF SameEntry, SameMemory, SamePmem, SameSsd, SameIndex, SameMetadata
  <1>5. Touches(c, d, k)
    BY <1>1, <1>3, <1>4 DEF Touches, NotesBlocks, SameSsd
  <1>6. TidyAt(d, k)
    BY <1>1, <1>3, InnerAssumption
       DEF Tidy, TidyAt, Home, InMemory, InPmem, Indexed, SameMemory, SamePmem, SameSsd, SameIndex,
           SameMetadata
  <1>7. Tidy(d) BY <1>1, <1>4, <1>6, TidyElsewhere
  <1> QED BY <1>1, <1>3, <1>5, <1>7 DEF d

-----------------------------------------------------------------------------
(* The same for the operators made of several of these.                    *)

\* What an eviction round takes from memory, and drop_stale_tier_copy.
LEMMA EvictedMemoryTidy ==
    ASSUME NEW c, Tidy(c), NEW k \in Keys
    PROVE  LET d == [TakeResident(c, k) EXCEPT !.memory_order = @ \ {k}]
           IN /\ Tidy(d) /\ Touches(c, d, k)
              /\ SamePmem(c, d) /\ SameSsd(c, d) /\ d.expiry = c.expiry
              /\ d.memory[k] = None /\ (d.meta[k] = {} <=> c.meta[k] = {})
              /\ d.memory_bytes = Monus(c.memory_bytes, LenOf(c.memory[k]))
  <1> DEFINE t == TakeResident(c, k)
             d == [t EXCEPT !.memory_order = @ \ {k}]
  <1>1. /\ Tidy(t) /\ Touches(c, t, k) /\ SamePmem(c, t) /\ SameSsd(c, t) /\ t.expiry = c.expiry
        /\ t.memory[k] = None /\ (t.meta[k] = {} <=> c.meta[k] = {})
    BY TakeResidentTidy
  <1>2. t.memory_bytes = Monus(c.memory_bytes, LenOf(c.memory[k])) BY TakeResidentFields DEF Tidy
  <1> HIDE DEF t
  <1>3. /\ Tidy(d) /\ Touches(t, d, k) /\ SamePmem(t, d) /\ SameSsd(t, d) /\ SameMetadata(t, d)
        /\ d.memory = t.memory /\ d.memory_bytes = t.memory_bytes
    BY <1>1, UnlistMemoryTidy DEF InMemory
  <1> HIDE DEF d
  <1>4. Touches(c, d, k) BY <1>1, <1>3, TouchesTwice
  <1> QED BY <1>1, <1>2, <1>3, <1>4 DEF SamePmem, SameSsd, SameIndex, SameMetadata, t, d

\* What an eviction round takes from PMEM.
LEMMA EvictedPmemTidy ==
    ASSUME NEW c, Tidy(c), NEW k \in Keys
    PROVE  LET d == [TakePmemResident(c, k) EXCEPT !.pmem_order = @ \ {k}]
           IN /\ Tidy(d) /\ Touches(c, d, k)
              /\ SameMemory(c, d) /\ SameSsd(c, d) /\ d.expiry = c.expiry
              /\ d.pmem[k] = None /\ (d.meta[k] = {} <=> c.meta[k] = {})
              /\ d.pmem_bytes = Monus(c.pmem_bytes, LenOf(c.pmem[k]))
  <1> DEFINE t == TakePmemResident(c, k)
             d == [t EXCEPT !.pmem_order = @ \ {k}]
  <1>1. /\ Tidy(t) /\ Touches(c, t, k) /\ SameMemory(c, t) /\ SameSsd(c, t) /\ t.expiry = c.expiry
        /\ t.pmem[k] = None /\ (t.meta[k] = {} <=> c.meta[k] = {})
    BY TakePmemResidentTidy
  <1>2. t.pmem_bytes = Monus(c.pmem_bytes, LenOf(c.pmem[k])) BY TakePmemResidentFields DEF Tidy
  <1> HIDE DEF t
  <1>3. /\ Tidy(d) /\ Touches(t, d, k) /\ SameMemory(t, d) /\ SameSsd(t, d) /\ SameMetadata(t, d)
        /\ d.pmem = t.pmem /\ d.pmem_bytes = t.pmem_bytes
    BY <1>1, UnlistPmemTidy DEF InPmem
  <1> HIDE DEF d
  <1>4. Touches(c, d, k) BY <1>1, <1>3, TouchesTwice
  <1> QED BY <1>1, <1>2, <1>3, <1>4 DEF SameMemory, SameSsd, SameIndex, SameMetadata, t, d

\* drop_stale_tier_copy(key, Memory)
LEMMA DropStaleMemoryTidy ==
    ASSUME NEW c, Tidy(c), NEW k \in Keys
    PROVE  LET d == DropStaleMemory(c, k)
           IN /\ Tidy(d) /\ Touches(c, d, k)
              /\ SamePmem(c, d) /\ SameSsd(c, d) /\ d.expiry = c.expiry
              /\ d.memory[k] = None /\ (d.meta[k] = {} <=> c.meta[k] = {})
              /\ d.memory_bytes <= c.memory_bytes
  <1>1. CASE InMemory(c, k)
    <2>1. DropStaleMemory(c, k) = [TakeResident(c, k) EXCEPT !.memory_order = @ \ {k}]
      BY <1>1 DEF DropStaleMemory
    <2>2. Monus(c.memory_bytes, LenOf(c.memory[k])) <= c.memory_bytes
      <3>1. c.memory_bytes \in Nat /\ LenOf(c.memory[k]) \in Nat BY Lengths DEF Tidy, Inner
      <3> QED BY <3>1, MonusFacts
    <2> DEFINE d == [TakeResident(c, k) EXCEPT !.memory_order = @ \ {k}]
    <2>3. /\ Tidy(d) /\ Touches(c, d, k) /\ SamePmem(c, d) /\ SameSsd(c, d) /\ d.expiry = c.expiry
          /\ d.memory[k] = None /\ (d.meta[k] = {} <=> c.meta[k] = {})
          /\ d.memory_bytes = Monus(c.memory_bytes, LenOf(c.memory[k]))
      BY EvictedMemoryTidy
    <2> HIDE DEF d
    <2> QED BY <2>1, <2>2, <2>3 DEF d
  <1>2. CASE ~ InMemory(c, k)
    <2>1. DropStaleMemory(c, k) = [c EXCEPT !.memory_order = @ \ {k}]
      BY <1>2 DEF DropStaleMemory
    <2>2. c.memory_bytes <= c.memory_bytes BY DEF Tidy, Inner
    <2> QED BY <1>2, <2>1, <2>2, UnlistMemoryTidy DEF InMemory, SameMetadata
  <1> QED BY <1>1, <1>2

\* drop_stale_tier_copy(key, Pmem)
LEMMA DropStalePmemTidy ==
    ASSUME NEW c, Tidy(c), NEW k \in Keys
    PROVE  LET d == DropStalePmem(c, k)
           IN /\ Tidy(d) /\ Touches(c, d, k)
              /\ SameMemory(c, d) /\ SameSsd(c, d) /\ d.expiry = c.expiry
              /\ d.pmem[k] = None /\ (d.meta[k] = {} <=> c.meta[k] = {})
              /\ d.pmem_bytes <= c.pmem_bytes
  <1>1. CASE InPmem(c, k)
    <2> DEFINE n == Noted(c, k)
               d == [TakePmemResident(n, k) EXCEPT !.pmem_order = @ \ {k}]
    <2>1. DropStalePmem(c, k) = d BY <1>1 DEF DropStalePmem
    <2>2. Tidy(n) /\ Touches(c, n, k) BY NotedTidy
    <2>3. /\ n \in Inner /\ SameMemory(c, n) /\ SamePmem(c, n) /\ SameSsd(c, n)
          /\ SameMetadata(c, n)
      BY NotedFields DEF Tidy
    <2> HIDE DEF n
    <2>4. /\ Tidy(d) /\ Touches(n, d, k) /\ SameMemory(n, d) /\ SameSsd(n, d)
          /\ d.expiry = n.expiry /\ d.pmem[k] = None /\ (d.meta[k] = {} <=> n.meta[k] = {})
          /\ d.pmem_bytes = Monus(n.pmem_bytes, LenOf(n.pmem[k]))
      BY <2>2, EvictedPmemTidy
    <2>5. Monus(n.pmem_bytes, LenOf(n.pmem[k])) <= n.pmem_bytes
      <3>1. n.pmem_bytes \in Nat /\ LenOf(n.pmem[k]) \in Nat BY <2>3, Lengths DEF Inner
      <3> QED BY <3>1, MonusFacts
    <2> HIDE DEF d
    <2>6. Touches(c, d, k) BY <2>2, <2>4, TouchesTwice
    <2> QED BY <2>1, <2>3, <2>4, <2>5, <2>6 DEF SameMemory, SamePmem, SameSsd, SameIndex, SameMetadata
  <1>2. CASE ~ InPmem(c, k)
    <2>1. DropStalePmem(c, k) = [c EXCEPT !.pmem_order = @ \ {k}]
      BY <1>2 DEF DropStalePmem
    <2>2. c.pmem_bytes <= c.pmem_bytes BY DEF Tidy, Inner
    <2> QED BY <1>2, <2>1, <2>2, UnlistPmemTidy DEF InPmem, SameMetadata
  <1> QED BY <1>1, <1>2

\* A block is stored and listed.
LEMMA StoredTidy ==
    ASSUME NEW c, Tidy(c), NEW k \in Keys, NEW v \in Values
    PROVE  LET d == IndexInsert(WriteSsdBlock(c, k, v), k, v)
           IN /\ Tidy(d) /\ Touches(c, d, k)
              /\ SameMemory(c, d) /\ SamePmem(c, d) /\ SameMetadata(c, d)
              /\ d.block[k] = v /\ d.disk_index[k] = BlockLen[v] /\ Indexed(d, k)
              /\ d.ssd_bytes = Monus(c.ssd_bytes, IndexedLen(c, k)) + BlockLen[v]
  <1> DEFINE w == WriteSsdBlock(c, k, v)
             d == IndexInsert(w, k, v)
  <1>1. /\ Tidy(w) /\ Touches(c, w, k) /\ SameMemory(c, w) /\ SamePmem(c, w) /\ SameIndex(c, w)
        /\ SameMetadata(c, w) /\ w.block[k] = v
    BY WriteSsdBlockTidy
  <1> HIDE DEF w
  <1>2. /\ Tidy(d) /\ Touches(w, d, k) /\ SameMemory(w, d) /\ SamePmem(w, d) /\ SameMetadata(w, d)
        /\ d.block = w.block /\ d.disk_index[k] = BlockLen[v] /\ Indexed(d, k)
    BY <1>1, IndexInsertTidy
  <1>3. d.ssd_bytes = Monus(w.ssd_bytes, IndexedLen(w, k)) + BlockLen[v]
    <2>1. w \in Inner BY <1>1 DEF Tidy
    <2> DEFINE n == Monus(w.ssd_bytes, IndexedLen(w, k)) + BlockLen[v]
    <2>2. d = [w EXCEPT !.disk_index[k] = BlockLen[v], !.disk_order = @ \cup {k}, !.ssd_bytes = n]
      BY DEF IndexInsert
    <2> HIDE DEF n, d
    <2> QED BY <2>1, <2>2 DEF Inner, n
  <1>4. w.ssd_bytes = c.ssd_bytes /\ IndexedLen(w, k) = IndexedLen(c, k)
    BY <1>1 DEF SameIndex, IndexedLen
  <1> HIDE DEF d
  <1>5. Touches(c, d, k) BY <1>1, <1>2, TouchesTwice
  <1> QED BY <1>1, <1>2, <1>3, <1>4, <1>5 DEF SameMemory, SamePmem, SameMetadata, w, d

\* invalidate_memory_only
LEMMA InvalidateMemoryOnlyTidy ==
    ASSUME NEW c, Tidy(c), NEW k \in Keys
    PROVE  LET d == InvalidateMemoryOnly(c, k)
           IN /\ Tidy(d) /\ Touches(c, d, k) /\ SameSsd(c, d) /\ d.expiry = c.expiry
              /\ d.memory[k] = None /\ d.pmem[k] = None /\ (d.meta[k] = {} <=> c.meta[k] = {})
              /\ d.memory_bytes <= c.memory_bytes /\ d.pmem_bytes <= c.pmem_bytes
  <1> DEFINE t == TakeResident(c, k)
             d == TakePmemResident(t, k)
  <1>1. /\ Tidy(t) /\ Touches(c, t, k) /\ SamePmem(c, t) /\ SameSsd(c, t) /\ t.expiry = c.expiry
        /\ t.memory[k] = None /\ (t.meta[k] = {} <=> c.meta[k] = {})
    BY TakeResidentTidy
  <1>2. t.memory_bytes = Monus(c.memory_bytes, LenOf(c.memory[k])) BY TakeResidentFields DEF Tidy
  <1> HIDE DEF t
  <1>3. /\ Tidy(d) /\ Touches(t, d, k) /\ SameMemory(t, d) /\ SameSsd(t, d) /\ d.expiry = t.expiry
        /\ d.pmem[k] = None /\ (d.meta[k] = {} <=> t.meta[k] = {})
    BY <1>1, TakePmemResidentTidy
  <1>4. d.pmem_bytes = Monus(t.pmem_bytes, LenOf(t.pmem[k]))
    BY <1>1, TakePmemResidentFields DEF Tidy
  <1>5. t.memory_bytes <= c.memory_bytes /\ d.pmem_bytes <= t.pmem_bytes
    <2>1. /\ c.memory_bytes \in Nat /\ LenOf(c.memory[k]) \in Nat
          /\ t.pmem_bytes \in Nat /\ LenOf(t.pmem[k]) \in Nat
      BY <1>1, Lengths DEF Tidy, Inner
    <2> QED BY <2>1, <1>2, <1>4, MonusFacts
  <1> HIDE DEF d
  <1>6. Touches(c, d, k) BY <1>1, <1>3, TouchesTwice
  <1>7. d = InvalidateMemoryOnly(c, k) BY DEF InvalidateMemoryOnly, t, d
  <1> QED BY <1>1, <1>3, <1>5, <1>6, <1>7 DEF SameMemory, SamePmem, SameSsd, SameIndex

\* remove_expired_entry: the key is gone from every tier, from the store too
\* when the delete succeeds.
LEMMA RemoveExpiredEntryTidy ==
    ASSUME NEW c, Tidy(c), NEW k \in Keys, NEW ok \in BOOLEAN
    PROVE  LET d == RemoveExpiredEntry(c, k, ok)
           IN /\ Tidy(d) /\ Touches(c, d, k)
              /\ d.memory[k] = None /\ d.pmem[k] = None /\ d.disk_index[k] = None
              /\ d.block[k] = IF ok THEN None ELSE c.block[k]
              /\ d.meta[k] = {} /\ d.expiry[k] = "none"
              /\ d.memory_bytes <= c.memory_bytes /\ d.pmem_bytes <= c.pmem_bytes
              /\ d.ssd_bytes <= c.ssd_bytes
  <1> DEFINE u == InvalidateMemoryOnly(c, k)
             i == IndexRemove(u, k)
             w == DeleteSsdBlock(i, k, ok)
             m == [w EXCEPT !.memory_order = @ \ {k}]
             p == [m EXCEPT !.pmem_order = @ \ {k}]
             d == ForgetMetadata(p, k)
  <1>1. /\ Tidy(u) /\ Touches(c, u, k) /\ SameSsd(c, u)
        /\ u.memory[k] = None /\ u.pmem[k] = None
        /\ u.memory_bytes <= c.memory_bytes /\ u.pmem_bytes <= c.pmem_bytes
    BY InvalidateMemoryOnlyTidy
  <1>2. RemoveExpiredEntry(c, k, ok) = d
    BY DEF RemoveExpiredEntry, InvalidateMemoryOnly
  <1> HIDE DEF u
  <1>3. /\ Tidy(i) /\ Touches(u, i, k) /\ SameMemory(u, i) /\ SamePmem(u, i)
        /\ i.block = u.block /\ i.disk_index[k] = None
    BY <1>1, IndexRemoveTidy
  <1>4. i.ssd_bytes <= u.ssd_bytes
    <2>1. i.ssd_bytes = Monus(u.ssd_bytes, IndexedLen(u, k)) BY <1>1, IndexRemoveFields DEF Tidy
    <2>2. u.ssd_bytes \in Nat /\ IndexedLen(u, k) \in Nat BY <1>1, Lengths DEF Tidy, Inner
    <2> QED BY <2>1, <2>2, MonusFacts
  <1> HIDE DEF i
  <1>5. /\ Tidy(w) /\ Touches(i, w, k) /\ SameMemory(i, w) /\ SamePmem(i, w) /\ SameIndex(i, w)
        /\ w.block[k] = IF ok THEN None ELSE i.block[k]
    BY <1>3, DeleteSsdBlockTidy
  <1> HIDE DEF w
  <1>6. w.memory[k] = None /\ w.pmem[k] = None
    BY <1>1, <1>3, <1>5 DEF SameMemory, SamePmem
  <1>7. /\ Tidy(m) /\ Touches(w, m, k) /\ SamePmem(w, m) /\ SameSsd(w, m)
        /\ m.memory = w.memory /\ m.memory_bytes = w.memory_bytes
    BY <1>5, <1>6, UnlistMemoryTidy DEF InMemory
  <1> HIDE DEF m
  <1>8. /\ Tidy(p) /\ Touches(m, p, k) /\ SameMemory(m, p) /\ SameSsd(m, p)
        /\ p.pmem = m.pmem /\ p.pmem_bytes = m.pmem_bytes
    BY <1>6, <1>7, UnlistPmemTidy DEF InPmem, SamePmem
  <1> HIDE DEF p
  <1>9. p.memory[k] = None /\ p.pmem[k] = None /\ p.disk_index[k] = None
    BY <1>3, <1>5, <1>6, <1>7, <1>8 DEF SameMemory, SamePmem, SameSsd, SameIndex
  <1>10. ForgetMetadataUnlessResident(p, k) = d
    BY <1>9 DEF ForgetMetadataUnlessResident, InSomeTier, InMemory, InPmem, Indexed
  <1>11. /\ Tidy(d) /\ Touches(p, d, k) /\ SameMemory(p, d) /\ SamePmem(p, d) /\ SameSsd(p, d)
         /\ d.meta[k] = {} /\ d.expiry[k] = "none"
    BY <1>8, <1>9, <1>10, ForgetTidy DEF InSomeTier, InMemory, InPmem, Indexed
  <1> HIDE DEF d
  <1>12. Touches(c, d, k)
    <2>1. Touches(c, i, k) BY <1>1, <1>3, TouchesTwice
    <2>2. Touches(c, w, k) BY <2>1, <1>5, TouchesTwice
    <2>3. Touches(c, m, k) BY <2>2, <1>7, TouchesTwice
    <2>4. Touches(c, p, k) BY <2>3, <1>8, TouchesTwice
    <2> QED BY <2>4, <1>11, TouchesTwice
  <1>13. /\ d.memory[k] = None /\ d.pmem[k] = None /\ d.disk_index[k] = None
         /\ d.block[k] = w.block[k] /\ d.memory_bytes = u.memory_bytes
         /\ d.pmem_bytes = u.pmem_bytes /\ d.ssd_bytes = i.ssd_bytes
    BY <1>3, <1>5, <1>7, <1>8, <1>9, <1>11 DEF SameMemory, SamePmem, SameSsd, SameIndex
  <1>14. w.block[k] = (IF ok THEN None ELSE c.block[k]) /\ u.ssd_bytes = c.ssd_bytes
    BY <1>1, <1>3, <1>5 DEF SameSsd, SameIndex
  <1> QED BY <1>1, <1>2, <1>4, <1>11, <1>12, <1>13, <1>14

\* invalidate_keys_locked: likewise.
LEMMA InvalidateKeyTidy ==
    ASSUME NEW c, Tidy(c), NEW k \in Keys, NEW ok \in BOOLEAN
    PROVE  LET d == InvalidateKey(c, k, ok)
           IN /\ Tidy(d) /\ Touches(c, d, k)
              /\ d.memory[k] = None /\ d.pmem[k] = None /\ d.disk_index[k] = None
              /\ d.block[k] = IF ok THEN None ELSE c.block[k]
              /\ d.meta[k] = {} /\ d.expiry[k] = "none"
              /\ d.memory_bytes <= c.memory_bytes /\ d.pmem_bytes <= c.pmem_bytes
              /\ d.ssd_bytes <= c.ssd_bytes
  <1> DEFINE a == [TakeResident(c, k) EXCEPT !.memory_order = @ \ {k}]
             i == IndexRemove(a, k)
             p == [TakePmemResident(i, k) EXCEPT !.pmem_order = @ \ {k}]
             f == ForgetMetadataUnlessResident(p, k)
             d == DeleteSsdBlock(f, k, ok)
  <1>1. /\ Tidy(a) /\ Touches(c, a, k) /\ SamePmem(c, a) /\ SameSsd(c, a) /\ a.memory[k] = None
        /\ a.memory_bytes = Monus(c.memory_bytes, LenOf(c.memory[k]))
    BY EvictedMemoryTidy
  <1>2. InvalidateKey(c, k, ok) = d BY DEF InvalidateKey
  <1> HIDE DEF a
  <1>3. /\ Tidy(i) /\ Touches(a, i, k) /\ SameMemory(a, i) /\ SamePmem(a, i)
        /\ i.block = a.block /\ i.disk_index[k] = None
    BY <1>1, IndexRemoveTidy
  <1>4. i.ssd_bytes = Monus(a.ssd_bytes, IndexedLen(a, k))
    <2>1. a \in Inner BY <1>1 DEF Tidy
    <2> QED BY <2>1, IndexRemoveFields
  <1> HIDE DEF i
  <1>5. /\ Tidy(p) /\ Touches(i, p, k) /\ SameMemory(i, p) /\ SameSsd(i, p) /\ p.pmem[k] = None
        /\ p.pmem_bytes = Monus(i.pmem_bytes, LenOf(i.pmem[k]))
    BY <1>3, EvictedPmemTidy
  <1> HIDE DEF p
  <1>6. p.memory[k] = None /\ p.disk_index[k] = None
    BY <1>1, <1>3, <1>5 DEF SameMemory, SameSsd, SameIndex
  <1>7. /\ Tidy(f) /\ Touches(p, f, k) /\ SameMemory(p, f) /\ SamePmem(p, f) /\ SameSsd(p, f)
        /\ f.meta[k] = {} /\ f.expiry[k] = "none"
    BY <1>5, <1>6, ForgetTidy DEF InSomeTier, InMemory, InPmem, Indexed
  <1> HIDE DEF f
  <1>8. /\ Tidy(d) /\ Touches(f, d, k) /\ SameMemory(f, d) /\ SamePmem(f, d) /\ SameIndex(f, d)
        /\ SameMetadata(f, d) /\ d.block[k] = IF ok THEN None ELSE f.block[k]
    BY <1>7, DeleteSsdBlockTidy
  <1> HIDE DEF d
  <1>9. Touches(c, d, k)
    <2>1. Touches(c, i, k) BY <1>1, <1>3, TouchesTwice
    <2>2. Touches(c, p, k) BY <2>1, <1>5, TouchesTwice
    <2>3. Touches(c, f, k) BY <2>2, <1>7, TouchesTwice
    <2> QED BY <2>3, <1>8, TouchesTwice
  <1>10. /\ d.memory[k] = None /\ d.pmem[k] = None /\ d.disk_index[k] = None
         /\ d.meta[k] = {} /\ d.expiry[k] = "none"
         /\ d.memory_bytes = a.memory_bytes /\ d.pmem_bytes = p.pmem_bytes
         /\ d.ssd_bytes = i.ssd_bytes /\ i.pmem_bytes = c.pmem_bytes
         /\ a.ssd_bytes = c.ssd_bytes
    BY <1>1, <1>3, <1>5, <1>6, <1>7, <1>8 DEF SameMemory, SamePmem, SameSsd, SameIndex, SameMetadata
  <1>11. d.block[k] = IF ok THEN None ELSE c.block[k]
    BY <1>1, <1>3, <1>5, <1>7, <1>8 DEF SameSsd
  <1>12. /\ a.memory_bytes <= c.memory_bytes /\ p.pmem_bytes <= i.pmem_bytes
         /\ i.ssd_bytes <= a.ssd_bytes
    <2>1. c \in Inner /\ a \in Inner /\ i \in Inner BY <1>1, <1>3 DEF Tidy
    <2>2. LenOf(c.memory[k]) \in Nat /\ IndexedLen(a, k) \in Nat /\ LenOf(i.pmem[k]) \in Nat
      BY <2>1, Lengths
    <2>3. c.memory_bytes \in Nat /\ a.ssd_bytes \in Nat /\ i.pmem_bytes \in Nat BY <2>1 DEF Inner
    <2> QED BY <1>1, <1>4, <1>5, <2>2, <2>3, MonusFacts
  <1> QED BY <1>2, <1>8, <1>9, <1>10, <1>11, <1>12

\* A cache with nothing in it is tidy.
LEMMA NothingTidy ==
    ASSUME NEW d \in Inner, NothingIn(d)
    PROVE  Tidy(d)
  BY DEF Tidy, TidyAt, NothingIn, InMemory, InPmem, Indexed

\* set_ssd_instance_only(true) and a clear that fails half-way keep the record tidy.
LEMMA ClearedTidy ==
    ASSUME NEW c, Tidy(c)
    PROVE  Tidy(ClearVolatile(c)) /\ Tidy(HalfCleared(c))
  <1> DEFINE v == ClearVolatile(c)
             h == HalfCleared(c)
  <1>1. /\ c \in Inner /\ v \in Inner /\ SameSsd(c, v) /\ v.memory_order = {} /\ v.pmem_order = {}
        /\ \A k \in Keys : /\ v.memory[k] = None /\ v.pmem[k] = None
                           /\ v.meta[k] = IF c.meta[k] = {} THEN {} ELSE {"overflow"}
    BY ClearVolatileFields DEF Tidy
  <1>2. /\ h \in Inner /\ SameSsd(c, h)
        /\ \A k \in Keys : /\ h.memory[k] = None /\ h.pmem[k] = None
                           /\ h.meta[k] = IF c.meta[k] \subseteq {"memory"} THEN {} ELSE {"overflow"}
    BY HalfClearedFields DEF Tidy
  <1> HIDE DEF v, h
  <1>3. Tidy(v)
    BY <1>1 DEF Tidy, TidyAt, Home, InMemory, InPmem, Indexed, SameSsd, SameIndex
  <1>4. Tidy(h)
    BY <1>1, <1>2 DEF Tidy, TidyAt, Home, InMemory, InPmem, Indexed, SameSsd, SameIndex
  <1> QED BY <1>3, <1>4 DEF v, h

\* c and d agree about every entry.
SameEntries(c, d) ==
    SameMemory(c, d) /\ SamePmem(c, d) /\ SameSsd(c, d) /\ SameMetadata(c, d)

\* Capturing or dropping a probe changes no entry.
LEMMA ProbeTidy ==
    ASSUME NEW c, Tidy(c), NEW r \in Readers, NEW ks \in SUBSET Keys
    PROVE  LET d == [c EXCEPT !.changed[r] = ks]
           IN /\ Tidy(d) /\ SameSettings(c, d) /\ SameEntries(c, d)
              /\ d.changed = [c.changed EXCEPT ![r] = ks]
  <1> DEFINE d == [c EXCEPT !.changed[r] = ks]
  <1>1. /\ c \in Inner /\ d \in Inner /\ SameSettings(c, d)
        /\ SameMemory(c, d) /\ SamePmem(c, d) /\ SameSsd(c, d)
        /\ SameMetadata(c, d) /\ d.changed = [c.changed EXCEPT ![r] = ks]
    BY ProbeFields DEF Tidy
  <1> HIDE DEF d
  <1>2. Tidy(d)
    BY <1>1 DEF Tidy, TidyAt, Home, InMemory, InPmem, Indexed, SameMemory, SamePmem, SameSsd,
                SameIndex, SameMetadata
  <1> QED BY <1>1, <1>2 DEF SameEntries, d

\* put_with_ttl stamps an expiry, and the clock passes one.
LEMMA ExpiryTidy ==
    ASSUME NEW c, Tidy(c), NEW k \in Keys, NEW l \in Lives
    PROVE  LET d == [c EXCEPT !.expiry[k] = l]
           IN /\ Tidy(d) /\ Touches(c, d, k)
              /\ SameMemory(c, d) /\ SamePmem(c, d) /\ SameSsd(c, d)
              /\ d.meta = c.meta /\ d.expiry[k] = l
  <1> DEFINE d == [c EXCEPT !.expiry[k] = l]
  <1>0. c \in Inner BY DEF Tidy
  <1>1. d \in Inner BY <1>0 DEF Inner
  <1>2. /\ SameSettings(c, d) /\ SameMemory(c, d) /\ SamePmem(c, d) /\ SameSsd(c, d)
        /\ d.meta = c.meta /\ d.changed = c.changed /\ d.expiry = [c.expiry EXCEPT ![k] = l]
    BY <1>0, <1>1 DEF Inner, SameSettings, SameMemory, SamePmem, SameSsd, SameIndex
  <1>3. c.expiry \in [Keys -> Lives] BY <1>0 DEF Inner
  <1> HIDE DEF d
  <1>4. d.expiry[k] = l /\ \A x \in Keys \ {k} : d.expiry[x] = c.expiry[x] BY <1>2, <1>3
  <1>5. Touches(c, d, k)
    BY <1>2, <1>4 DEF Touches, NotesBlocks, SameEntry, SameMemory, SamePmem, SameSsd, SameIndex
  <1>6. Tidy(d)
    BY <1>1, <1>2 DEF Tidy, TidyAt, Home, InMemory, InPmem, Indexed, SameMemory, SamePmem, SameSsd,
                      SameIndex
  <1> QED BY <1>2, <1>4, <1>5, <1>6 DEF d

\* The settings: a change of one of them changes no entry.
LEMMA SettingsTidy ==
    ASSUME NEW c, Tidy(c), NEW n \in Nat, NEW b \in BOOLEAN
    PROVE  \A d \in {[c EXCEPT !.memory_capacity = n], [c EXCEPT !.pmem_capacity = n],
                     [c EXCEPT !.ssd_capacity = n], [c EXCEPT !.ssd_only = b],
                     [c EXCEPT !.started = b], [c EXCEPT !.default_ttl = b]} :
              Tidy(d) /\ SameEntries(c, d) /\ d.changed = c.changed
  <1>1. ASSUME NEW d \in {[c EXCEPT !.memory_capacity = n], [c EXCEPT !.pmem_capacity = n],
                     [c EXCEPT !.ssd_capacity = n], [c EXCEPT !.ssd_only = b],
                     [c EXCEPT !.started = b], [c EXCEPT !.default_ttl = b]}
        PROVE  Tidy(d) /\ SameEntries(c, d) /\ d.changed = c.changed
    <2>0. c \in Inner BY DEF Tidy
    <2>1. d \in Inner BY <2>0 DEF Inner
    <2>2. /\ SameMemory(c, d) /\ SamePmem(c, d) /\ SameSsd(c, d) /\ SameMetadata(c, d)
          /\ d.changed = c.changed
      BY <2>0 DEF Inner, SameMemory, SamePmem, SameSsd, SameIndex, SameMetadata
    <2>3. Tidy(d)
      BY <2>1, <2>2 DEF Tidy, TidyAt, Home, InMemory, InPmem, Indexed, SameMemory, SamePmem, SameSsd,
                        SameIndex, SameMetadata
    <2> QED BY <2>2, <2>3 DEF SameEntries
  <1> QED BY <1>1

\* refill_ssd_probe with room to spare: the value is installed and no other
\* reader's probe is cancelled.
LEMMA SpareTidy ==
    ASSUME NEW c, Tidy(c), NEW k \in Keys, NEW v \in Values
    PROVE  LET d == [MakeResident(c, k, v) EXCEPT !.changed = c.changed]
           IN /\ Tidy(d) /\ Touches(c, d, k)
              /\ SamePmem(c, d) /\ SameSsd(c, d) /\ d.expiry = c.expiry
              /\ d.memory[k] = v /\ (d.meta[k] = {} <=> c.meta[k] = {})
  <1> DEFINE p == MakeResident(c, k, v)
             d == [p EXCEPT !.changed = c.changed]
  <1>1. c \in Inner BY DEF Tidy
  <1>2. /\ Tidy(p) /\ Touches(c, p, k) /\ SamePmem(c, p) /\ SameSsd(c, p) /\ p.expiry = c.expiry
        /\ p.memory[k] = v /\ (p.meta[k] = {} <=> c.meta[k] = {}) /\ p \in Inner
    BY MakeResidentTidy DEF Tidy
  <1> HIDE DEF p
  <1>3. d \in Inner BY <1>1, <1>2 DEF Inner
  <1>4. /\ SameSettings(p, d) /\ SameMemory(p, d) /\ SamePmem(p, d) /\ SameSsd(p, d)
        /\ SameMetadata(p, d) /\ d.changed = c.changed
    BY <1>2 DEF Inner, SameSettings, SameMemory, SamePmem, SameSsd, SameIndex, SameMetadata
  <1> HIDE DEF d
  <1>5. Tidy(d)
    BY <1>2, <1>3, <1>4 DEF Tidy, TidyAt, Home, InMemory, InPmem, Indexed, SameMemory, SamePmem,
                            SameSsd, SameIndex, SameMetadata
  <1>6. SameSettings(c, d) BY <1>2, <1>4 DEF Touches, SameSettings
  <1>7. \A x \in Keys \ {k} : SameEntry(c, d, x)
    BY <1>2, <1>4 DEF Touches, SameEntry, SameMemory, SamePmem, SameSsd, SameIndex, SameMetadata
  <1>8. SamePmem(c, d) /\ SameSsd(c, d) BY <1>2, <1>4 DEF SamePmem, SameSsd, SameIndex
  <1>9. NotesBlocks(c, d) BY <1>4, <1>8 DEF NotesBlocks, SameSsd
  <1> QED BY <1>2, <1>4, <1>5, <1>6, <1>7, <1>8, <1>9 DEF Touches, SameMemory, SameMetadata, d, p

\* A reader gives its probe up.
LEMMA DropProbeTidy ==
    ASSUME NEW c, Tidy(c), NEW r \in Readers, NEW k \in Keys
    PROVE  LET d == DropProbe(c, r)
           IN Tidy(d) /\ SameSettings(c, d) /\ SameEntries(c, d) /\ Touches(c, d, k)
  <1> DEFINE d == DropProbe(c, r)
  <1>1. /\ Tidy(d) /\ SameSettings(c, d) /\ SameEntries(c, d)
        /\ d.changed = [c.changed EXCEPT ![r] = Keys]
    BY ProbeTidy DEF DropProbe
  <1>2. c.changed \in [Readers -> SUBSET Keys] BY DEF Tidy, Inner
  <1> HIDE DEF d
  <1>3. NotesBlocks(c, d) BY <1>1, <1>2 DEF NotesBlocks, SameEntries, SameSsd
  <1>4. \A x \in Keys : SameEntry(c, d, x)
    BY <1>1 DEF SameEntries, SameEntry, SameMemory, SamePmem, SameSsd, SameIndex, SameMetadata
  <1> QED BY <1>1, <1>3, <1>4 DEF Touches, d

\* An SSD hit is recorded and its probe is given up.
LEMMA HitTidy ==
    ASSUME NEW c, Tidy(c), NEW r \in Readers, NEW k \in Keys
    PROVE  LET d == DropProbe(RecordHit(c, k), r)
           IN /\ Tidy(d) /\ Touches(c, d, k)
              /\ SameMemory(c, d) /\ SamePmem(c, d) /\ SameSsd(c, d)
              /\ d.meta[k] # {} /\ d.expiry = c.expiry
  <1> DEFINE h == RecordHit(c, k)
             d == DropProbe(h, r)
  <1>1. /\ Tidy(h) /\ Touches(c, h, k) /\ SameMemory(c, h) /\ SamePmem(c, h) /\ SameSsd(c, h)
        /\ h.meta[k] # {} /\ h.expiry = c.expiry
    BY RecordHitTidy
  <1> HIDE DEF h
  <1>2. Tidy(d) /\ SameSettings(h, d) /\ SameEntries(h, d) /\ Touches(h, d, k)
    BY <1>1, DropProbeTidy
  <1> HIDE DEF d
  <1>3. Touches(c, d, k) BY <1>1, <1>2, TouchesTwice
  <1>4. SameMemory(c, d) /\ SamePmem(c, d) /\ SameSsd(c, d)
    BY <1>1, <1>2 DEF SameEntries, SameMemory, SamePmem, SameSsd, SameIndex
  <1>5. d.meta = h.meta /\ d.expiry = h.expiry BY <1>2 DEF SameEntries, SameMetadata
  <1> QED BY <1>1, <1>2, <1>3, <1>4, <1>5 DEF d, h

-----------------------------------------------------------------------------
(* The steps of the lock holder.                                           *)

\* The steps the holder of the write lock may have before it.
Step ==
         [step: {"EvictMemory", "EvictPmem", "Sweep", "PutMemory", "PutPmemPart", "PutSsd",
                 "WriteSsd", "PutFinish", "Purge"}]
    \cup [step: {"DemoteMemory", "SsdBypass", "WriteBypass"}, key: Keys, val: Values]
    \cup [step: {"PutPmem"}, key: Keys, val: Values, fallback: BOOLEAN]
    \cup [step: {"Forget"}, key: Keys]
    \cup [step: {"EvictSsd"}, need: Nat]
    \cup [step: {"MakeRoom"}, before: Nat \cup {None}]

Carrying == {"DemoteMemory", "SsdBypass", "WriteBypass", "PutPmem"}
PutSteps == {"PutMemory", "PutPmemPart", "PutSsd", "MakeRoom", "WriteSsd", "PutFinish"}

\* What may lie under any step that is pushed on top of a call's own steps.
Rest == {"EvictMemory", "EvictPmem", "EvictSsd", "Forget", "PutPmemPart", "PutSsd", "PutFinish"}

\* What may lie directly under a step.
Below(step) ==
    IF step \in {"Purge", "PutFinish"} THEN {}
    ELSE IF step = "Sweep" THEN {"PutMemory"}
    ELSE IF step = "PutMemory" THEN {"PutPmemPart"}
    ELSE IF step = "PutPmemPart" THEN {"PutSsd"}
    ELSE IF step \in {"PutSsd", "WriteSsd"} THEN {"PutFinish"}
    ELSE IF step = "MakeRoom" THEN {"WriteSsd"}
    ELSE IF step = "EvictSsd" THEN Rest \cup {"WriteBypass", "MakeRoom"}
    ELSE Rest

\* How the steps lie on a stack.
Stacked(t) ==
    /\ t \in Seq(Step)
    /\ \A i \in 1 .. Len(t) : i > 1 => t[i].step \in Below(t[i - 1].step)
    /\ \A i \in 1 .. Len(t) : i > 1 /\ t[i].step = "EvictSsd" => i = Len(t)

\* The steps on the stack t.
OnStack(t) == {t[i] : i \in 1 .. Len(t)}

\* Steps that only a put in progress takes.
NeedsPut(s) == s.step \in PutSteps \/ (s.step = "PutPmem" /\ s.fallback)

\* The stack of a call that is a put exactly when `active`.
Agenda(t, active) ==
    /\ Stacked(t)
    /\ \A s \in OnStack(t) : NeedsPut(s) => active
    /\ active => t # <<>> /\ t[Len(t)].step = "PutFinish"

\* What a step carries.
LEMMA StepFacts ==
    ASSUME NEW s \in Step
    PROVE  /\ s.step \in Steps
           /\ s.step \in Carrying => s.key \in Keys /\ s.val \in Values
           /\ s.step = "PutPmem" => s.fallback \in BOOLEAN
           /\ s.step = "Forget" => s.key \in Keys
           /\ s.step = "EvictSsd" => s.need \in Nat
           /\ s.step = "MakeRoom" => s.before \in Nat \cup {None}
  BY DEF Step, Steps, Carrying

\* Popping the top of a stack.
LEMMA PoppedStack ==
    ASSUME NEW t, Stacked(t), t # <<>>
    PROVE  /\ Stacked(<<>> \o Tail(t)) /\ <<>> \o Tail(t) = Tail(t)
           /\ Len(Tail(t)) = Len(t) - 1 /\ \A i \in 1 .. Len(t) - 1 : Tail(t)[i] = t[i + 1]
           /\ Head(t) = t[1] /\ t[1] \in Step
           /\ Tail(t) # <<>> => Tail(t)[1] = t[2] /\ t[2].step \in Below(t[1].step)
  <1>1. t \in Seq(Step) /\ Len(t) \in Nat /\ Len(t) > 0 BY DEF Stacked
  <1>2. <<>> \o Tail(t) = Tail(t) /\ Tail(t) \in Seq(Step) /\ Len(Tail(t)) = Len(t) - 1
    BY <1>1
  <1>3. \A i \in 1 .. Len(t) - 1 : Tail(t)[i] = t[i + 1]
    BY <1>1
  <1>4. Head(t) = t[1] /\ t[1] \in Step BY <1>1
  <1>5. ASSUME NEW i \in 1 .. Len(Tail(t)), i > 1
        PROVE  Tail(t)[i].step \in Below(Tail(t)[i - 1].step)
    <2>1. Tail(t)[i] = t[i + 1] /\ Tail(t)[i - 1] = t[i] BY <1>1, <1>2, <1>3, <1>5
    <2>2. i + 1 \in 1 .. Len(t) /\ i + 1 > 1 /\ (i + 1) - 1 = i BY <1>1, <1>2, <1>5
    <2>3. t[i + 1].step \in Below(t[(i + 1) - 1].step) BY <2>2 DEF Stacked
    <2> QED BY <2>1, <2>2, <2>3
  <1>6. Tail(t) # <<>> => Tail(t)[1] = t[2] /\ t[2].step \in Below(t[1].step)
    <2> SUFFICES ASSUME Tail(t) # <<>> PROVE Tail(t)[1] = t[2] /\ t[2].step \in Below(t[1].step)
      OBVIOUS
    <2>1. Len(t) > 1 BY <1>1, <1>2
    <2>2. 2 \in 1 .. Len(t) /\ 2 > 1 /\ 2 - 1 = 1 BY <1>1, <2>1
    <2>3. t[2].step \in Below(t[2 - 1].step) BY <2>2 DEF Stacked
    <2>4. Tail(t)[1] = t[1 + 1] BY <1>1, <1>3, <2>1
    <2> QED BY <2>2, <2>3, <2>4
  <1>7. ASSUME NEW i \in 1 .. Len(Tail(t)), i > 1, Tail(t)[i].step = "EvictSsd"
        PROVE  i = Len(Tail(t))
    <2>1. i + 1 \in 1 .. Len(t) /\ i + 1 > 1 /\ Tail(t)[i] = t[i + 1] BY <1>1, <1>2, <1>3, <1>7
    <2>2. i + 1 = Len(t) BY <2>1, <1>7 DEF Stacked
    <2> DEFINE n == Len(t)
               m == Len(Tail(t))
    <2>3. m \in Int /\ n \in Int /\ m = n - 1 BY <1>1, <1>2
    <2>5. i + 1 = n BY <2>2
    <2>6. i \in 1 .. m OBVIOUS
    <2> HIDE DEF n, m
    <2>4. i = m BY <2>3, <2>5, <2>6
    <2> QED BY <2>4 DEF m
  <1>8. Stacked(Tail(t)) BY <1>2, <1>5, <1>7 DEF Stacked
  <1> QED BY <1>2, <1>3, <1>4, <1>6, <1>8

\* Replacing the top of a stack.
LEMMA Replacing ==
    ASSUME NEW S, NEW t \in Seq(S), t # <<>>, NEW s \in Seq(S)
    PROVE  LET u == s \o Tail(t)
           IN /\ u \in Seq(S) /\ Len(u) = Len(s) + Len(t) - 1
              /\ \A i \in 1 .. Len(s) : u[i] = s[i]
              /\ \A i \in (Len(s) + 1) .. Len(u) : u[i] = t[i - Len(s) + 1]
  OBVIOUS

\* What is pushed in the place of the top of a stack lies well there when its
\* last step may lie on what the top lay on.
LEMMA PushedStack ==
    ASSUME NEW t, Stacked(t), t # <<>>, NEW s, Stacked(s), s # <<>>,
           Below(t[1].step) \subseteq Below(s[Len(s)].step),
           \A i \in 2 .. Len(s) : s[i].step # "EvictSsd"
    PROVE  Stacked(s \o Tail(t))
  <1> DEFINE u == s \o Tail(t)
             n == Len(t)
             m == Len(s)
  <1>1. t \in Seq(Step) /\ n \in Nat /\ n > 0 /\ s \in Seq(Step) /\ m \in Nat /\ m > 0
    BY DEF Stacked
  <1>2. /\ u \in Seq(Step) /\ Len(u) = m + n - 1
        /\ \A i \in 1 .. m : u[i] = s[i]
        /\ \A i \in (m + 1) .. Len(u) : u[i] = t[i - m + 1]
    BY <1>1, Replacing
  <1>3. \A i \in 1 .. m : i > 1 => s[i].step \in Below(s[i - 1].step) BY DEF Stacked
  <1>4. \A i \in 1 .. n : i > 1 => t[i].step \in Below(t[i - 1].step) BY DEF Stacked
  <1>5. Below(t[1].step) \subseteq Below(s[m].step) OBVIOUS
  <1>8. \A i \in 1 .. n : i > 1 /\ t[i].step = "EvictSsd" => i = n BY DEF Stacked
  <1>9. \A i \in 2 .. m : s[i].step # "EvictSsd" OBVIOUS
  <1> HIDE DEF u, n, m
  <1>7. ASSUME NEW i \in 1 .. Len(u), i > 1, u[i].step = "EvictSsd"
        PROVE  i = Len(u)
    <2>1. CASE i <= m
      <3>1. i \in 1 .. m /\ i \in 2 .. m BY <1>1, <1>7, <2>1
      <3> QED BY <3>1, <1>2, <1>9, <1>7
    <2>2. CASE i > m
      <3> DEFINE j == i - m + 1
      <3>1. i \in (m + 1) .. Len(u) /\ j \in 1 .. n /\ j > 1 BY <1>1, <1>2, <2>2
      <3>2. u[i] = t[j] BY <3>1, <1>2
      <3>3. j = n BY <3>1, <3>2, <1>7, <1>8
      <3> QED BY <3>3, <1>1, <1>2
    <2> QED BY <2>1, <2>2, <1>1, <1>2
  <1>6. ASSUME NEW i \in 1 .. Len(u), i > 1
        PROVE  u[i].step \in Below(u[i - 1].step)
    <2>1. CASE i <= m
      <3>1. i \in 1 .. m /\ i - 1 \in 1 .. m BY <1>1, <1>6, <2>1
      <3> QED BY <3>1, <1>2, <1>3, <1>6
    <2>2. CASE i = m + 1
      <3>1. i \in (m + 1) .. Len(u) /\ i - m + 1 = 2 /\ i - 1 = m /\ m \in 1 .. m
        BY <1>1, <2>2
      <3>2. u[i] = t[2] /\ u[i - 1] = s[m] BY <3>1, <1>2
      <3>3. 2 \in 1 .. n /\ 2 > 1 /\ 2 - 1 = 1 BY <1>1, <1>2, <2>2
      <3>4. t[2].step \in Below(t[1].step) BY <3>3, <1>4
      <3> QED BY <3>2, <3>4, <1>5
    <2>3. CASE i > m + 1
      <3> DEFINE j == i - m + 1
      <3>1. /\ i \in (m + 1) .. Len(u) /\ i - 1 \in (m + 1) .. Len(u) /\ (i - 1) - m + 1 = j - 1
            /\ j \in 1 .. n /\ j > 1
        BY <1>1, <1>2, <2>3
      <3>2. u[i] = t[j] /\ u[i - 1] = t[j - 1] BY <3>1, <1>2
      <3> HIDE DEF j
      <3>3. t[j].step \in Below(t[j - 1].step) BY <3>1, <1>4
      <3> QED BY <3>2, <3>3
    <2>4. i \in Nat /\ Len(u) \in Nat BY <1>1, <1>2
    <2> QED BY <1>1, <2>1, <2>2, <2>3, <2>4
  <1> QED BY <1>2, <1>6, <1>7 DEF Stacked, u

-----------------------------------------------------------------------------
\* What is under the top carries nothing, unless the top makes room for it.
LEMMA UnderTheTop ==
    ASSUME NEW t, Stacked(t), t # <<>>
    PROVE  /\ OnStack(t) = {t[1]} \cup OnStack(Tail(t))
           /\ OnStack(t) \subseteq Step
           /\ \A x \in OnStack(Tail(t)) :
                 /\ x.step \notin {"DemoteMemory", "PutPmem", "SsdBypass", "Sweep", "Purge"}
                 /\ x.step = "WriteBypass" => t[1].step = "EvictSsd" /\ x = t[2]
                 /\ x.step = "PutMemory" => t[1].step = "Sweep"
                 /\ x.step = "MakeRoom" => t[1].step = "EvictSsd"
  <1> DEFINE n == Len(t)
             w == Tail(t)
  <1>1. t \in Seq(Step) /\ n \in Nat /\ n > 0 /\ Len(w) = n - 1
        /\ \A i \in 1 .. n - 1 : w[i] = t[i + 1]
    BY PoppedStack DEF Stacked
  <1>2. \A i \in 1 .. n : t[i] \in Step /\ (i > 1 => t[i].step \in Below(t[i - 1].step))
    <2>1. \A i \in 1 .. n : t[i] \in Step BY <1>1
    <2> QED BY <2>1 DEF Stacked
  <1>6. \A i \in 1 .. n : i > 1 /\ t[i].step = "EvictSsd" => i = n BY DEF Stacked
  <1>0. OnStack(t) = {t[i] : i \in 1 .. n} /\ OnStack(w) = {w[i] : i \in 1 .. n - 1}
    BY <1>1 DEF OnStack
  <1> HIDE DEF n, w
  <1>3. OnStack(t) = {t[1]} \cup OnStack(w)
    <2>1. ASSUME NEW i \in 1 .. n PROVE t[i] = t[1] \/ t[i] \in OnStack(w)
      <3>1. CASE i = 1 BY <3>1
      <3>2. CASE i # 1
        <4>1. i - 1 \in 1 .. n - 1 /\ (i - 1) + 1 = i BY <1>1, <3>2
        <4>2. w[i - 1] = t[i] BY <4>1, <1>1
        <4> QED BY <4>1, <4>2, <1>0
      <3> QED BY <3>1, <3>2
    <2>2. ASSUME NEW i \in 1 .. n - 1 PROVE w[i] \in OnStack(t)
      <3>1. i + 1 \in 1 .. n /\ w[i] = t[i + 1] BY <1>1
      <3> QED BY <3>1, <1>0
    <2>3. t[1] \in OnStack(t) BY <1>0, <1>1
    <2> QED BY <1>0, <2>1, <2>2, <2>3
  <1>4. OnStack(t) \subseteq Step BY <1>0, <1>2
  <1>5. ASSUME NEW x \in OnStack(w)
        PROVE  /\ x.step \notin {"DemoteMemory", "PutPmem", "SsdBypass", "Sweep", "Purge"}
               /\ x.step = "WriteBypass" => t[1].step = "EvictSsd" /\ x = t[2]
               /\ x.step = "PutMemory" => t[1].step = "Sweep"
               /\ x.step = "MakeRoom" => t[1].step = "EvictSsd"
    <2>1. PICK i \in 1 .. n - 1 : x = w[i] BY <1>0
    <2>2. i \in 1 .. n /\ i + 1 \in 1 .. n /\ i + 1 > 1 /\ (i + 1) - 1 = i /\ x = t[i + 1]
      BY <1>1, <2>1
    <2>3. x.step \in Below(t[i].step) BY <1>2, <2>2
    <2>4. i > 1 => t[i].step \in Below(t[i - 1].step) BY <1>2, <2>2
    <2>5. \A a, b : b \in Below(a) =>
             /\ b \notin {"DemoteMemory", "PutPmem", "SsdBypass", "Sweep", "Purge"}
             /\ b \in {"WriteBypass", "MakeRoom"} => a = "EvictSsd"
             /\ b = "PutMemory" => a = "Sweep"
             /\ b = "EvictSsd" => a \notin {"Sweep", "PutMemory"}
      BY DEF Below, Rest
    <2>6. CASE i = 1
      <3>1. x = t[2] BY <2>2, <2>6
      <3> QED BY <2>3, <2>5, <2>6, <3>1
    <2>7. CASE i > 1 /\ x.step = "PutMemory"
      <3>1. t[i].step = "Sweep" BY <2>3, <2>5, <2>7
      <3> QED BY <2>4, <2>5, <2>7, <3>1
    <2>8. CASE i > 1 /\ x.step \in {"WriteBypass", "MakeRoom"}
      <3>1. t[i].step = "EvictSsd" BY <2>3, <2>5, <2>8
      <3>2. i = n BY <3>1, <2>2, <2>8, <1>6
      <3> QED BY <3>2, <1>1, <2>1
    <2> QED BY <2>1, <2>2, <2>3, <2>5, <2>6, <2>7, <2>8
  <1> QED BY <1>3, <1>4, <1>5 DEF w

-----------------------------------------------------------------------------
\* Short stacks.
LEMMA EmptyStack == Agenda(<<>>, FALSE) /\ OnStack(<<>>) = {}
  <1>1. <<>> \in Seq(Step) /\ Len(<<>>) = 0 OBVIOUS
  <1>2. OnStack(<<>>) = {} BY <1>1 DEF OnStack
  <1> QED BY <1>1, <1>2 DEF Agenda, Stacked

\* A stack of one step lies well.
LEMMA OneStep ==
    ASSUME NEW x \in Step
    PROVE  Stacked(<<x>>) /\ OnStack(<<x>>) = {x} /\ <<x>> # <<>> /\ <<x>>[Len(<<x>>)] = x
           /\ \A i \in 2 .. Len(<<x>>) : <<x>>[i].step # "EvictSsd"
  <1>1. <<x>> \in Seq(Step) /\ Len(<<x>>) = 1 /\ <<x>>[1] = x OBVIOUS
  <1> QED BY <1>1 DEF Stacked, OnStack

\* A stack of two steps lies well when the second may lie under the first.
LEMMA TwoSteps ==
    ASSUME NEW x \in Step, NEW y \in Step, y.step \in Below(x.step), y.step # "EvictSsd"
    PROVE  LET s == <<x, y>>
           IN /\ Stacked(s) /\ OnStack(s) = {x, y} /\ s # <<>> /\ s[Len(s)] = y
              /\ \A i \in 2 .. Len(s) : s[i].step # "EvictSsd"
  <1> DEFINE s == <<x, y>>
  <1>1. s \in Seq(Step) /\ Len(s) = 2 /\ s[1] = x /\ s[2] = y OBVIOUS
  <1> HIDE DEF s
  <1>2. OnStack(s) = {s[i] : i \in {1, 2}} BY <1>1 DEF OnStack
  <1>3. OnStack(s) = {x, y} BY <1>1, <1>2
  <1>4. Stacked(s) /\ \A i \in 2 .. Len(s) : s[i].step # "EvictSsd"
    <2>1. \A i \in 1 .. Len(s) : i = 1 \/ i = 2 BY <1>1
    <2>2. \A i \in 1 .. Len(s) : i > 1 => i = 2 /\ i - 1 = 1 BY <1>1
    <2> QED BY <1>1, <2>1, <2>2 DEF Stacked
  <1> QED BY <1>1, <1>3, <1>4 DEF s

\* A stack of three steps, likewise.
LEMMA ThreeSteps ==
    ASSUME NEW x \in Step, NEW y \in Step, NEW z \in Step,
           y.step \in Below(x.step), z.step \in Below(y.step),
           y.step # "EvictSsd", z.step # "EvictSsd"
    PROVE  LET s == <<x, y, z>>
           IN /\ Stacked(s) /\ OnStack(s) = {x, y, z} /\ s # <<>> /\ s[Len(s)] = z
              /\ \A i \in 2 .. Len(s) : s[i].step # "EvictSsd"
  <1> DEFINE s == <<x, y, z>>
  <1>1. s \in Seq(Step) /\ Len(s) = 3 /\ s[1] = x /\ s[2] = y /\ s[3] = z OBVIOUS
  <1> HIDE DEF s
  <1>2. OnStack(s) = {s[i] : i \in {1, 2, 3}} BY <1>1 DEF OnStack
  <1>3. OnStack(s) = {x, y, z} BY <1>1, <1>2
  <1>4. Stacked(s) /\ \A i \in 2 .. Len(s) : s[i].step # "EvictSsd"
    <2>2. \A i \in 1 .. Len(s) : i > 1 => (i = 2 /\ i - 1 = 1) \/ (i = 3 /\ i - 1 = 2) BY <1>1
    <2>3. \A i \in 2 .. Len(s) : i = 2 \/ i = 3 BY <1>1
    <2> QED BY <1>1, <2>2, <2>3 DEF Stacked
  <1> QED BY <1>1, <1>3, <1>4 DEF s

\* One sequence after the other.
LEMMA Following ==
    ASSUME NEW S, NEW a \in Seq(S), NEW b \in Seq(S)
    PROVE  /\ a \o b \in Seq(S) /\ Len(a \o b) = Len(a) + Len(b)
           /\ \A i \in 1 .. Len(a) : (a \o b)[i] = a[i]
           /\ \A i \in (Len(a) + 1) .. (Len(a) + Len(b)) : (a \o b)[i] = b[i - Len(a)]
  OBVIOUS

\* Steps one after the other.
LEMMA Joined ==
    ASSUME NEW x, NEW y, NEW z
    PROVE  /\ <<>> \o <<x>> = <<x>> /\ <<x>> \o <<>> = <<x>> /\ <<x, y>> \o <<>> = <<x, y>>
           /\ <<x>> \o <<y>> = <<x, y>> /\ <<x, y>> \o <<z>> = <<x, y, z>>
  <1>1. <<>> \o <<x>> = <<x>> /\ <<x>> \o <<>> = <<x>> OBVIOUS
  <1>2. <<x, y>> \o <<>> = <<x, y>> OBVIOUS
  <1>3. <<x>> \o <<y>> = <<x, y>>
    <2> DEFINE S == {x, y}
               a == <<x>>
               b == <<y>>
               l == a \o b
               m == <<x, y>>
    <2>1. /\ a \in Seq(S) /\ Len(a) = 1 /\ a[1] = x
          /\ b \in Seq(S) /\ Len(b) = 1 /\ b[1] = y
          /\ m \in Seq(S) /\ Len(m) = 2 /\ m[1] = x /\ m[2] = y
      OBVIOUS
    <2> HIDE DEF a, b, m
    <2>2. /\ l \in Seq(S) /\ Len(l) = 2 /\ l[1] = x /\ l[2] = y
      <3>1. /\ l \in Seq(S) /\ Len(l) = Len(a) + Len(b)
            /\ \A i \in 1 .. Len(a) : l[i] = a[i]
            /\ \A i \in (Len(a) + 1) .. (Len(a) + Len(b)) : l[i] = b[i - Len(a)]
        BY <2>1, Following
      <3> HIDE DEF l
      <3>2. 1 \in 1 .. 1 /\ 2 \in (1 + 1) .. (1 + 1) /\ 2 - 1 = 1 OBVIOUS
      <3> QED BY <2>1, <3>1, <3>2
    <2> HIDE DEF l
    <2>3. \A i \in 1 .. 2 : l[i] = m[i]
      <3>1. \A i \in 1 .. 2 : i = 1 \/ i = 2 OBVIOUS
      <3> QED BY <2>1, <2>2, <3>1
    <2>4. l = m BY <2>1, <2>2, <2>3
    <2> QED BY <2>4 DEF l, m, a, b
  <1>4. <<x, y>> \o <<z>> = <<x, y, z>>
    <2> DEFINE S == {x, y, z}
               a == <<x, y>>
               b == <<z>>
               l == a \o b
               m == <<x, y, z>>
    <2>1. /\ a \in Seq(S) /\ Len(a) = 2 /\ a[1] = x /\ a[2] = y
          /\ b \in Seq(S) /\ Len(b) = 1 /\ b[1] = z
          /\ m \in Seq(S) /\ Len(m) = 3 /\ m[1] = x /\ m[2] = y /\ m[3] = z
      OBVIOUS
    <2> HIDE DEF a, b, m
    <2>2. /\ l \in Seq(S) /\ Len(l) = 3 /\ l[1] = x /\ l[2] = y /\ l[3] = z
      <3>1. /\ l \in Seq(S) /\ Len(l) = Len(a) + Len(b)
            /\ \A i \in 1 .. Len(a) : l[i] = a[i]
            /\ \A i \in (Len(a) + 1) .. (Len(a) + Len(b)) : l[i] = b[i - Len(a)]
        BY <2>1, Following
      <3> HIDE DEF l
      <3>2. 1 \in 1 .. 2 /\ 2 \in 1 .. 2 /\ 3 \in (2 + 1) .. (2 + 1) /\ 3 - 2 = 1 OBVIOUS
      <3> QED BY <2>1, <3>1, <3>2
    <2> HIDE DEF l
    <2>3. \A i \in 1 .. 3 : l[i] = m[i]
      <3>1. \A i \in 1 .. 3 : i = 1 \/ i = 2 \/ i = 3 OBVIOUS
      <3> QED BY <2>1, <2>2, <3>1
    <2>4. l = m BY <2>1, <2>2, <2>3
    <2> QED BY <2>4 DEF l, m, a, b
  <1> QED BY <1>1, <1>2, <1>3, <1>4

\* A step that is taken again.
LEMMA SameStack ==
    ASSUME NEW t, Stacked(t), t # <<>>
    PROVE  <<Head(t)>> \o Tail(t) = t
  <1>1. t \in Seq(Step) BY DEF Stacked
  <1> QED BY <1>1

\* The stack after its top is done.
LEMMA PoppedAgenda ==
    ASSUME NEW t, NEW a, Agenda(t, a), t # <<>>, t[1].step # "PutFinish"
    PROVE  Agenda(<<>> \o Tail(t), a) /\ <<>> \o Tail(t) = Tail(t)
  <1> DEFINE u == Tail(t)
  <1>1. Stacked(t) /\ t \in Seq(Step) /\ Len(t) \in Nat BY DEF Agenda, Stacked
  <1>2. /\ Stacked(u) /\ <<>> \o u = u /\ Len(u) = Len(t) - 1
        /\ \A i \in 1 .. Len(t) - 1 : u[i] = t[i + 1]
    BY <1>1, PoppedStack
  <1>3. OnStack(u) \subseteq OnStack(t) BY <1>1, UnderTheTop
  <1>4. a => u # <<>> /\ u[Len(u)].step = "PutFinish"
    <2> SUFFICES ASSUME a PROVE u # <<>> /\ u[Len(u)].step = "PutFinish" OBVIOUS
    <2> DEFINE n == Len(t)
    <2>1. t[n].step = "PutFinish" BY DEF Agenda
    <2>2. n \in Nat /\ n > 0 BY <1>1
    <2>3. Len(u) = n - 1 /\ \A i \in 1 .. n - 1 : u[i] = t[i + 1] BY <1>2
    <2> HIDE DEF n
    <2>4. n # 1 BY <2>1
    <2>5. n - 1 \in 1 .. n - 1 /\ (n - 1) + 1 = n BY <2>2, <2>4
    <2>6. u[Len(u)] = t[n] BY <2>3, <2>5
    <2>7. u # <<>> BY <2>3, <2>5
    <2> QED BY <2>1, <2>6, <2>7
  <1> HIDE DEF u
  <1>5. Agenda(u, a) BY <1>2, <1>3, <1>4 DEF Agenda
  <1> QED BY <1>2, <1>5 DEF u

\* The stack after its top was replaced by s.
LEMMA PushedAgenda ==
    ASSUME NEW t, NEW a, Agenda(t, a), t # <<>>, t[1].step # "PutFinish",
           NEW s, Stacked(s), s # <<>>, Below(t[1].step) \subseteq Below(s[Len(s)].step),
           \A i \in 2 .. Len(s) : s[i].step # "EvictSsd",
           \A x \in OnStack(s) : NeedsPut(x) => a
    PROVE  /\ Agenda(s \o Tail(t), a) /\ s \o Tail(t) # <<>>
           /\ OnStack(s \o Tail(t)) = OnStack(s) \cup OnStack(Tail(t))
  <1> DEFINE u == s \o Tail(t)
             n == Len(t)
             m == Len(s)
             w == Tail(t)
  <1>1. Stacked(t) /\ t \in Seq(Step) /\ n \in Nat /\ n > 0 /\ s \in Seq(Step) /\ m \in Nat /\ m > 0
    BY DEF Agenda, Stacked
  <1>2. Stacked(u) BY <1>1, PushedStack
  <1>3. /\ Len(u) = m + n - 1 /\ u # <<>>
        /\ \A i \in 1 .. m : u[i] = s[i]
        /\ \A i \in (m + 1) .. Len(u) : u[i] = t[i - m + 1]
    <2>1. /\ Len(u) = m + n - 1
          /\ \A i \in 1 .. m : u[i] = s[i]
          /\ \A i \in (m + 1) .. Len(u) : u[i] = t[i - m + 1]
      BY <1>1, Replacing
    <2> HIDE DEF u
    <2> QED BY <1>1, <2>1
  <1>4. Len(w) = n - 1 /\ \A i \in 1 .. n - 1 : w[i] = t[i + 1]
    BY <1>1, PoppedStack
  <1>5. /\ OnStack(u) = {u[i] : i \in 1 .. m + n - 1} /\ OnStack(w) = {w[i] : i \in 1 .. n - 1}
        /\ OnStack(s) = {s[i] : i \in 1 .. m}
    BY <1>3, <1>4 DEF OnStack
  <1>6. a => t[n].step = "PutFinish" BY DEF Agenda
  <1>7. OnStack(w) \subseteq OnStack(t) BY <1>1, UnderTheTop
  <1> HIDE DEF u, n, m, w
  <1>8. OnStack(u) = OnStack(s) \cup OnStack(w)
    <2>1. ASSUME NEW i \in 1 .. m + n - 1 PROVE u[i] \in OnStack(s) \cup OnStack(w)
      <3>1. CASE i <= m
        <4>1. i \in 1 .. m BY <3>1, <1>1
        <4> QED BY <4>1, <1>3, <1>5
      <3>2. CASE i > m
        <4> DEFINE j == i - m
        <4>1. i \in (m + 1) .. Len(u) /\ j \in 1 .. n - 1 /\ i - m + 1 = j + 1
          BY <3>2, <1>1, <1>3
        <4>2. u[i] = t[j + 1] /\ w[j] = t[j + 1] BY <4>1, <1>3, <1>4
        <4> HIDE DEF j
        <4> QED BY <4>1, <4>2, <1>5
      <3> QED BY <3>1, <3>2, <1>1
    <2>2. ASSUME NEW i \in 1 .. m PROVE s[i] \in OnStack(u)
      <3>1. i \in 1 .. m + n - 1 BY <1>1
      <3> QED BY <3>1, <1>3, <1>5
    <2>3. ASSUME NEW i \in 1 .. n - 1 PROVE w[i] \in OnStack(u)
      <3> DEFINE j == i + m
      <3>1. j \in (m + 1) .. Len(u) /\ j \in 1 .. m + n - 1 /\ j - m + 1 = i + 1
        <4>1. Len(u) = m + n - 1 /\ m \in Nat /\ n \in Nat BY <1>1, <1>3
        <4> QED BY <4>1
      <3>2. u[j] = t[i + 1] /\ w[i] = t[i + 1] BY <3>1, <1>3, <1>4
      <3> HIDE DEF j
      <3> QED BY <3>1, <3>2, <1>5
    <2> QED BY <1>5, <2>1, <2>2, <2>3
  <1>9. a => u[Len(u)].step = "PutFinish"
    <2> SUFFICES ASSUME a PROVE u[Len(u)].step = "PutFinish" OBVIOUS
    <2>1. n # 1 BY <1>6
    <2> DEFINE l == m + n - 1
    <2>2. l \in (m + 1) .. Len(u) /\ l - m + 1 = n /\ l = Len(u) BY <1>1, <1>3, <2>1
    <2>3. u[l] = t[n] BY <2>2, <1>3
    <2> HIDE DEF l
    <2> QED BY <1>6, <2>2, <2>3
  <1>10. \A x \in OnStack(u) : NeedsPut(x) => a BY <1>7, <1>8 DEF Agenda
  <1>11. Agenda(u, a) BY <1>2, <1>3, <1>9, <1>10 DEF Agenda
  <1> QED BY <1>3, <1>8, <1>11 DEF u, w

-----------------------------------------------------------------------------
(* The shape of the state, and what each action does to it.                *)

Outcomes == {"none", "no", "err", "yes"}

Request ==
         [active: {FALSE}]
    \cup [active: {TRUE}, key: Keys, val: Values, life: Lifetimes, memory: BOOLEAN,
          pmem: BOOLEAN, ssd: BOOLEAN, fallback: BOOLEAN, outcome: Outcomes]

ReaderState ==
         [at: {"idle"}]
    \cup [at: {"ssd", "expired"}, key: Keys]
    \cup [at: {"refill", "promote"}, key: Keys, val: Values]

\* A step of the lock holder that overwrites in a tier has found the tier
\* without the key, or is the put of that key.
Foreseen(x) ==
    /\ x.step = "PutPmem" => ~ InPmem(cache, x.key) \/ (req.active /\ req.key = x.key)
    /\ x.step = "WriteBypass" => ~ Indexed(cache, x.key)

\* The inductive invariant behind everything that holds of every instance.
Shape ==
    /\ Tidy(cache)
    /\ pins \in [Keys -> 0 .. MaxPins]
    /\ reclaims \in 0 .. MaxPins
    /\ req \in Request
    /\ reader \in [Readers -> ReaderState]
    /\ allowed \in [Keys -> SUBSET Values]
    /\ seen \in [Readers -> SUBSET Values]
    /\ Agenda(todo, req.active)
    /\ \A x \in OnStack(todo) : Foreseen(x)

\* q is the request of the same call, for the same tiers.
SameCall(q) ==
    /\ q.key = req.key /\ q.val = req.val /\ q.life = req.life
    /\ q.memory = req.memory /\ q.pmem = req.pmem /\ q.ssd = req.ssd

\* What a step of the lock holder leaves alone.
Still == UNCHANGED <<pins, reclaims, reader, allowed, seen>>

\* The top of the stack makes way for `new`.
Becomes(new) ==
    Agenda(todo', req'.active) /\ OnStack(todo') = new \cup OnStack(Tail(todo))

\* What a request holds.
LEMMA RequestFacts ==
    ASSUME req \in Request
    PROVE  /\ req.active \in BOOLEAN
           /\ req.active => /\ req.key \in Keys /\ req.val \in Values /\ req.life \in Lifetimes
                            /\ req.memory \in BOOLEAN /\ req.pmem \in BOOLEAN
                            /\ req.ssd \in BOOLEAN /\ req.fallback \in BOOLEAN
                            /\ req.outcome \in Outcomes
  BY DEF Request

\* The top of the stack.
LEMMA TopFacts ==
    ASSUME Shape, NEW step, Doing(step)
    PROVE  /\ todo # <<>> /\ Agenda(todo, req.active) /\ Head(todo) = todo[1] /\ todo[1] \in Step
           /\ todo[1].step = step /\ todo[1] \in OnStack(todo) /\ Foreseen(todo[1])
           /\ OnStack(todo) = {todo[1]} \cup OnStack(Tail(todo))
           /\ \A x \in OnStack(Tail(todo)) : x.step = "WriteBypass" => step = "EvictSsd"
           /\ \A x \in OnStack(Tail(todo)) : x.step # "PutPmem"
           /\ NeedsPut(todo[1]) => req.active
           /\ <<Head(todo)>> \o Tail(todo) = todo
  <1>1. todo # <<>> /\ Agenda(todo, req.active) /\ Stacked(todo) BY DEF Shape, Doing, Agenda
  <1>2. Head(todo) = todo[1] /\ todo[1] \in Step BY <1>1, PoppedStack
  <1>3. todo[1].step = step BY <1>2 DEF Doing
  <1>4. /\ OnStack(todo) = {todo[1]} \cup OnStack(Tail(todo))
        /\ \A x \in OnStack(Tail(todo)) : x.step = "WriteBypass" => step = "EvictSsd"
        /\ \A x \in OnStack(Tail(todo)) : x.step # "PutPmem"
    BY <1>1, <1>3, UnderTheTop
  <1>5. Foreseen(todo[1]) /\ (NeedsPut(todo[1]) => req.active) BY <1>4 DEF Shape, Agenda
  <1>6. <<Head(todo)>> \o Tail(todo) = todo BY <1>1, SameStack
  <1> QED BY <1>1, <1>2, <1>3, <1>4, <1>5, <1>6

\* The lock holder takes its step off the stack.
LEMMA Pops ==
    ASSUME Agenda(todo, req.active), todo # <<>>, todo[1].step # "PutFinish",
           todo' = <<>> \o Tail(todo), req'.active = req.active
    PROVE  Becomes({}) /\ todo' = Tail(todo)
  BY PoppedAgenda DEF Becomes

\* The lock holder puts one step in the place of the one it takes.
LEMMA PushesOne ==
    ASSUME Agenda(todo, req.active), todo # <<>>, todo[1].step # "PutFinish",
           NEW x \in Step, Below(todo[1].step) \subseteq Below(x.step), NeedsPut(x) => req.active,
           todo' = <<x>> \o Tail(todo), req'.active = req.active
    PROVE  Becomes({x})
  <1> DEFINE s == <<x>>
  <1>1. /\ Stacked(s) /\ OnStack(s) = {x} /\ s # <<>> /\ s[Len(s)] = x
        /\ \A i \in 2 .. Len(s) : s[i].step # "EvictSsd"
    BY OneStep
  <1>2. todo' = s \o Tail(todo) OBVIOUS
  <1> HIDE DEF s
  <1>3. Agenda(s \o Tail(todo), req.active)
        /\ OnStack(s \o Tail(todo)) = OnStack(s) \cup OnStack(Tail(todo))
    BY <1>1, PushedAgenda
  <1> QED BY <1>1, <1>2, <1>3 DEF Becomes

\* Two steps.
LEMMA PushesTwo ==
    ASSUME Agenda(todo, req.active), todo # <<>>, todo[1].step # "PutFinish",
           NEW x \in Step, NEW y \in Step, y.step \in Below(x.step), y.step # "EvictSsd",
           Below(todo[1].step) \subseteq Below(y.step),
           NeedsPut(x) \/ NeedsPut(y) => req.active,
           todo' = <<x, y>> \o Tail(todo), req'.active = req.active
    PROVE  Becomes({x, y})
  <1> DEFINE s == <<x, y>>
  <1>1. /\ Stacked(s) /\ OnStack(s) = {x, y} /\ s # <<>> /\ s[Len(s)] = y
        /\ \A i \in 2 .. Len(s) : s[i].step # "EvictSsd"
    BY TwoSteps
  <1>2. todo' = s \o Tail(todo) OBVIOUS
  <1> HIDE DEF s
  <1>3. Agenda(s \o Tail(todo), req.active)
        /\ OnStack(s \o Tail(todo)) = OnStack(s) \cup OnStack(Tail(todo))
    BY <1>1, PushedAgenda
  <1> QED BY <1>1, <1>2, <1>3 DEF Becomes

\* Three steps.
LEMMA PushesThree ==
    ASSUME Agenda(todo, req.active), todo # <<>>, todo[1].step # "PutFinish",
           NEW x \in Step, NEW y \in Step, NEW z \in Step,
           y.step \in Below(x.step), z.step \in Below(y.step),
           y.step # "EvictSsd", z.step # "EvictSsd",
           Below(todo[1].step) \subseteq Below(z.step),
           NeedsPut(x) \/ NeedsPut(y) \/ NeedsPut(z) => req.active,
           todo' = <<x, y, z>> \o Tail(todo), req'.active = req.active
    PROVE  Becomes({x, y, z})
  <1> DEFINE s == <<x, y, z>>
  <1>1. /\ Stacked(s) /\ OnStack(s) = {x, y, z} /\ s # <<>> /\ s[Len(s)] = z
        /\ \A i \in 2 .. Len(s) : s[i].step # "EvictSsd"
    BY ThreeSteps
  <1>2. todo' = s \o Tail(todo) OBVIOUS
  <1> HIDE DEF s
  <1>3. Agenda(s \o Tail(todo), req.active)
        /\ OnStack(s \o Tail(todo)) = OnStack(s) \cup OnStack(Tail(todo))
    BY <1>1, PushedAgenda
  <1> QED BY <1>1, <1>2, <1>3 DEF Becomes

-----------------------------------------------------------------------------
\* evict_memory_to_capacity_since: the loop ends, or an unpinned key leaves
\* memory and is on its way down.
LEMMA EvictMemoryEffect ==
    ASSUME Shape, EvictMemory
    PROVE  /\ Still /\ req' = req
           /\ \/ /\ cache' = cache /\ Becomes({})
                 /\ OverMemory => \A k \in Keys : InMemory(cache, k) => Pinned(k)
              \/ \E k \in Keys :
                    /\ ~ Pinned(k) /\ OverMemory
                    /\ Tidy(cache') /\ Touches(cache, cache', k)
                    /\ SamePmem(cache, cache') /\ SameSsd(cache, cache')
                    /\ cache'.expiry = cache.expiry
                    /\ cache'.memory[k] = None /\ (cache'.meta[k] = {} <=> cache.meta[k] = {})
                    /\ cache'.memory_bytes = Monus(cache.memory_bytes, LenOf(cache.memory[k]))
                    /\ \/ cache.memory[k] = None /\ todo' = todo
                       \/ /\ cache.memory[k] \in Values
                          /\ \E again \in {{}, {todo[1]}} :
                               /\ Becomes({[step |-> "DemoteMemory", key |-> k, val |-> cache.memory[k]],
                                           [step |-> "Forget", key |-> k]} \cup again)
                               /\ again = {} => cache'.memory_bytes = cache.memory_bytes
  <1>1. /\ todo # <<>> /\ Agenda(todo, req.active) /\ Head(todo) = todo[1] /\ todo[1] \in Step
        /\ todo[1].step = "EvictMemory" /\ <<Head(todo)>> \o Tail(todo) = todo
    BY TopFacts DEF EvictMemory
  <1>2. Tidy(cache) /\ pins \in [Keys -> 0 .. MaxPins] BY DEF Shape
  <1>3. Still /\ req' = req BY DEF EvictMemory, Then, Still
  <1>4. cache.memory_bytes \in Nat /\ cache.memory_capacity \in Nat /\ cache.memory_order \subseteq Keys
        /\ \A k \in Keys : cache.memory[k] \in Values \cup {None}
    BY <1>2 DEF Tidy, Inner
  <1>5. CASE cache.memory_bytes <= cache.memory_capacity \/ OnOffer(cache.memory_order) = {}
    <2>1. cache' = cache /\ todo' = <<>> \o Tail(todo) BY <1>5 DEF EvictMemory, Then
    <2>2. Becomes({}) BY <1>1, <1>3, <2>1, Pops
    <2>3. OverMemory => \A k \in Keys : InMemory(cache, k) => Pinned(k)
      BY <1>2, <1>4, <1>5 DEF OverMemory, OnOffer, Tidy, TidyAt
    <2> QED BY <1>3, <2>1, <2>2, <2>3
  <1>6. CASE ~ (cache.memory_bytes <= cache.memory_capacity \/ OnOffer(cache.memory_order) = {})
    <2> DEFINE c(k) == [TakeResident(cache, k) EXCEPT !.memory_order = @ \ {k}]
               demote(k) == [step |-> "DemoteMemory", key |-> k, val |-> cache.memory[k]]
               forget(k) == [step |-> "Forget", key |-> k]
               again(k) == IF c(k).memory_bytes = cache.memory_bytes THEN <<>> ELSE <<Head(todo)>>
    <2>1. PICK k \in OnOffer(cache.memory_order) :
            /\ cache' = c(k)
            /\ todo' = IF cache.memory[k] = None THEN <<Head(todo)>> \o Tail(todo)
                       ELSE (<<demote(k), forget(k)>> \o again(k)) \o Tail(todo)
      BY <1>6 DEF EvictMemory, Then
    <2>2. k \in Keys /\ ~ Pinned(k) BY <1>4 DEF OnOffer
    <2>3. /\ Tidy(cache') /\ Touches(cache, cache', k)
          /\ SamePmem(cache, cache') /\ SameSsd(cache, cache')
          /\ cache'.expiry = cache.expiry
          /\ cache'.memory[k] = None /\ (cache'.meta[k] = {} <=> cache.meta[k] = {})
          /\ cache'.memory_bytes = Monus(cache.memory_bytes, LenOf(cache.memory[k]))
      BY <1>2, <2>1, <2>2, EvictedMemoryTidy
    <2>4. OverMemory BY <1>4, <1>6 DEF OverMemory
    <2>5. CASE cache.memory[k] = None
      BY <1>1, <1>3, <2>1, <2>2, <2>3, <2>4, <2>5
    <2>6. CASE cache.memory[k] # None
      <3>1. cache.memory[k] \in Values BY <1>4, <2>2, <2>6
      <3>2. demote(k) \in Step /\ forget(k) \in Step BY <2>2, <3>1 DEF Step
      <3>3. /\ forget(k).step \in Below(demote(k).step) /\ forget(k).step # "EvictSsd"
            /\ Below(todo[1].step) \subseteq Below(forget(k).step)
            /\ todo[1].step \in Below(forget(k).step)
            /\ ~ NeedsPut(demote(k)) /\ ~ NeedsPut(forget(k)) /\ ~ NeedsPut(todo[1])
        BY <1>1 DEF Below, Rest, NeedsPut, PutSteps
      <3>4. CASE cache'.memory_bytes = cache.memory_bytes
        <4>1. todo' = <<demote(k), forget(k)>> \o Tail(todo)
          <5>1. again(k) = <<>> BY <2>1, <3>4
          <5>2. <<demote(k), forget(k)>> \o <<>> = <<demote(k), forget(k)>> OBVIOUS
          <5> QED BY <2>1, <2>6, <5>1, <5>2
        <4> HIDE DEF demote, forget
        <4>2. Becomes({demote(k), forget(k)}) BY <1>1, <1>3, <3>2, <3>3, <4>1, PushesTwo
        <4>3. {demote(k), forget(k)} \cup {} = {demote(k), forget(k)} OBVIOUS
        <4> QED BY <1>3, <2>2, <2>3, <2>4, <3>1, <3>4, <4>2, <4>3 DEF demote, forget
      <3>5. CASE cache'.memory_bytes # cache.memory_bytes
        <4>1. todo' = <<demote(k), forget(k), todo[1]>> \o Tail(todo)
          <5>1. again(k) = <<todo[1]>> BY <2>1, <3>5, <1>1
          <5>2. <<demote(k), forget(k)>> \o <<todo[1]>> = <<demote(k), forget(k), todo[1]>> BY Joined
          <5> QED BY <2>1, <2>6, <5>1, <5>2
        <4> HIDE DEF demote, forget
        <4>2. Becomes({demote(k), forget(k), todo[1]})
          BY <1>1, <1>3, <3>2, <3>3, <4>1, PushesThree
        <4>3. {demote(k), forget(k)} \cup {todo[1]} = {demote(k), forget(k), todo[1]} OBVIOUS
        <4>4. {todo[1]} # {} OBVIOUS
        <4> QED BY <1>3, <2>2, <2>3, <2>4, <3>1, <4>2, <4>3, <4>4 DEF demote, forget
      <3> QED BY <3>4, <3>5
    <2> QED BY <2>5, <2>6
  <1> QED BY <1>5, <1>6

\* demote_memory_victim: the victim goes on to PMEM, to the SSD, or nowhere.
LEMMA DemoteMemoryEffect ==
    ASSUME Shape, DemoteMemory
    PROVE  LET x == todo[1]
           IN /\ Still /\ req' = req /\ cache' = cache
              /\ x.step = "DemoteMemory" /\ x.key \in Keys /\ x.val \in Values
              /\ \/ Becomes({})
                 \/ /\ ~ InPmem(cache, x.key) /\ ~ Expired(cache, x.key) /\ cache.pmem_capacity > 0
                    /\ Becomes({[step |-> "PutPmem", key |-> x.key, val |-> x.val, fallback |-> FALSE]})
                 \/ /\ ~ Expired(cache, x.key)
                    /\ Becomes({[step |-> "SsdBypass", key |-> x.key, val |-> x.val]})
  <1> DEFINE x == todo[1]
             p == [step |-> "PutPmem", key |-> x.key, val |-> x.val, fallback |-> FALSE]
             b == [step |-> "SsdBypass", key |-> x.key, val |-> x.val]
  <1>1. /\ todo # <<>> /\ Agenda(todo, req.active) /\ Head(todo) = x /\ x \in Step
        /\ x.step = "DemoteMemory"
    BY TopFacts DEF DemoteMemory
  <1>2. x.key \in Keys /\ x.val \in Values BY <1>1, StepFacts DEF Carrying
  <1>3. Still /\ req' = req /\ cache' = cache BY DEF DemoteMemory, Then, Still
  <1>4. /\ p \in Step /\ b \in Step /\ ~ NeedsPut(p) /\ ~ NeedsPut(b)
        /\ Below(x.step) \subseteq Below(p.step) /\ Below(x.step) \subseteq Below(b.step)
    BY <1>1, <1>2 DEF Step, NeedsPut, PutSteps, Below, Rest
  <1>5. \/ todo' = <<>> \o Tail(todo)
        \/ /\ ~ InPmem(cache, x.key) /\ ~ Expired(cache, x.key) /\ cache.pmem_capacity > 0
           /\ todo' = <<p>> \o Tail(todo)
        \/ ~ Expired(cache, x.key) /\ todo' = <<b>> \o Tail(todo)
    BY <1>1 DEF DemoteMemory, Then
  <1> HIDE DEF p, b
  <1>6. todo' = <<>> \o Tail(todo) => Becomes({}) BY <1>1, <1>3, Pops
  <1>7. todo' = <<p>> \o Tail(todo) => Becomes({p}) BY <1>1, <1>3, <1>4, PushesOne
  <1>8. todo' = <<b>> \o Tail(todo) => Becomes({b}) BY <1>1, <1>3, <1>4, PushesOne
  <1> QED BY <1>1, <1>2, <1>3, <1>5, <1>6, <1>7, <1>8 DEF p, b

\* The two fields of a request that change.
LEMMA RequestUpdates ==
    ASSUME req \in Request, req.active, NEW b \in BOOLEAN, NEW o \in Outcomes
    PROVE  /\ LET q == [req EXCEPT !.fallback = b]
              IN /\ q \in Request /\ q.active /\ SameCall(q)
                 /\ q.fallback = b /\ q.outcome = req.outcome
           /\ LET q == [req EXCEPT !.outcome = o]
              IN /\ q \in Request /\ q.active /\ SameCall(q)
                 /\ q.outcome = o /\ q.fallback = req.fallback
  BY DEF Request, SameCall

\* put_pmem_shared_with_persistence: the value is placed, or the tier keeps
\* what it held.
LEMMA PutPmemEffect ==
    ASSUME Shape, PutPmem
    PROVE  LET x == todo[1]
               k == x.key
           IN /\ Still /\ x.step = "PutPmem" /\ k \in Keys /\ x.val \in Values
              /\ Foreseen(x) /\ (x.fallback => req.active)
              /\ Tidy(cache') /\ Touches(cache, cache', k)
              /\ SameMemory(cache, cache') /\ SameSsd(cache, cache') /\ cache'.expiry = cache.expiry
              /\ cache'.meta[k] = {} <=> cache.meta[k] = {}
              /\ req' \in Request /\ req'.active = req.active
              /\ req.active => SameCall(req') /\ req'.outcome = req.outcome
              /\ ~ x.fallback => req' = req
              /\ \/ /\ cache'.pmem[k] = x.val /\ Becomes({[step |-> "EvictPmem"]})
                    /\ cache.pmem_capacity > 0
                    /\ x.fallback => req'.fallback
                 \/ /\ SamePmem(cache, cache') /\ Becomes({})
                    /\ x.fallback => ~ req'.fallback
                    /\ cache.pmem_capacity > 0 /\ Size[x.val] <= cache.pmem_capacity
                          => "pmemPut" \in Faults
  <1> DEFINE x == todo[1]
             k == x.key
             v == x.val
             e == [step |-> "EvictPmem"]
             fits == cache.pmem_capacity > 0 /\ Size[v] <= cache.pmem_capacity
             n == Noted(cache, k)
             m == MakePmemResident(n, k, v)
  <1>1. /\ todo # <<>> /\ Agenda(todo, req.active) /\ Head(todo) = x /\ x \in Step
        /\ x.step = "PutPmem" /\ Foreseen(x) /\ (NeedsPut(x) => req.active)
    BY TopFacts DEF PutPmem
  <1>2. k \in Keys /\ v \in Values /\ x.fallback \in BOOLEAN BY <1>1, StepFacts DEF Carrying
  <1>3. Still BY DEF PutPmem, Then, Still
  <1>4. x.fallback => req.active BY <1>1 DEF NeedsPut
  <1>5. Tidy(cache) /\ req \in Request BY DEF Shape
  <1>6. PICK ok \in BOOLEAN :
          /\ IF fits /\ ok THEN cache' = m /\ todo' = <<e>> \o Tail(todo)
                           ELSE cache' = n /\ todo' = <<>> \o Tail(todo)
          /\ req' = IF x.fallback THEN [req EXCEPT !.fallback = fits /\ ok] ELSE req
          /\ ok \/ "pmemPut" \in Faults
    BY <1>1 DEF PutPmem, Then, Ok
  <1>7. /\ Tidy(n) /\ Touches(cache, n, k)
        /\ SameMemory(cache, n) /\ SamePmem(cache, n) /\ SameSsd(cache, n) /\ SameMetadata(cache, n)
    <2>1. cache \in Inner BY <1>5 DEF Tidy
    <2> QED BY <1>2, <1>5, <2>1, NotedTidy, NotedFields
  <1>8. /\ Tidy(m) /\ Touches(n, m, k) /\ SameMemory(n, m) /\ SameSsd(n, m) /\ m.expiry = n.expiry
        /\ m.pmem[k] = v /\ (m.meta[k] = {} <=> n.meta[k] = {})
    BY <1>2, <1>7, MakePmemResidentTidy
  <1> HIDE DEF n, m
  <1>9. /\ req' \in Request /\ req'.active = req.active
        /\ req.active => SameCall(req') /\ req'.outcome = req.outcome
        /\ ~ x.fallback => req' = req
        /\ x.fallback => req'.fallback = (fits /\ ok)
    <2>1. CASE ~ x.fallback
      BY <1>5, <1>6, <2>1 DEF SameCall
    <2>2. CASE x.fallback
      <3> DEFINE f == fits /\ ok
      <3>1. req' = [req EXCEPT !.fallback = f] /\ f \in BOOLEAN BY <1>6, <2>2
      <3> HIDE DEF f
      <3>2. /\ req' \in Request /\ req'.active /\ SameCall(req')
            /\ req'.fallback = f /\ req'.outcome = req.outcome
        BY <1>4, <1>5, <2>2, <3>1, RequestUpdates DEF Outcomes
      <3> QED BY <1>4, <2>2, <3>2, <1>5, RequestFacts DEF f
    <2> QED BY <2>1, <2>2, <1>2
  <1>10. /\ e \in Step /\ ~ NeedsPut(e) /\ Below(x.step) \subseteq Below(e.step)
    BY <1>1 DEF Step, NeedsPut, PutSteps, Below, Rest
  <1>11. CASE fits /\ ok
    <2>1. cache' = m /\ todo' = <<e>> \o Tail(todo) BY <1>6, <1>11
    <2>2. Becomes({e})
      <3> HIDE DEF e
      <3> QED BY <1>1, <1>9, <1>10, <2>1, PushesOne
    <2>3. Touches(cache, m, k) BY <1>2, <1>7, <1>8, TouchesTwice
    <2>4. /\ SameMemory(cache, m) /\ SameSsd(cache, m) /\ m.expiry = cache.expiry
          /\ m.meta[k] = {} <=> cache.meta[k] = {}
      BY <1>7, <1>8 DEF SameMemory, SameSsd, SameIndex, SameMetadata
    <2>5. x.fallback => req'.fallback BY <1>9, <1>11
    <2>6. cache.pmem_capacity > 0 BY <1>11
    <2> QED BY <1>1, <1>2, <1>3, <1>4, <1>8, <1>9, <2>1, <2>2, <2>3, <2>4, <2>5, <2>6
  <1>12. CASE ~ (fits /\ ok)
    <2>1. cache' = n /\ todo' = <<>> \o Tail(todo) BY <1>6, <1>12
    <2>2. Becomes({}) BY <1>1, <1>9, <2>1, Pops
    <2>3. n.meta[k] = {} <=> cache.meta[k] = {} BY <1>7 DEF SameMetadata
    <2>4. n.expiry = cache.expiry BY <1>7 DEF SameMetadata
    <2>5. fits => "pmemPut" \in Faults BY <1>6, <1>12
    <2>6. x.fallback => ~ req'.fallback BY <1>9, <1>12
    <2> QED BY <1>1, <1>2, <1>3, <1>4, <1>7, <1>9, <2>1, <2>2, <2>3, <2>4, <2>5, <2>6
  <1> QED BY <1>11, <1>12

\* evict_pmem_to_capacity_since
LEMMA EvictPmemEffect ==
    ASSUME Shape, EvictPmem
    PROVE  /\ Still /\ req' = req
           /\ \/ /\ cache' = cache /\ Becomes({})
                 /\ OverPmem => \A k \in Keys : InPmem(cache, k) => Pinned(k)
              \/ \E k \in Keys :
                    /\ ~ Pinned(k) /\ OverPmem
                    /\ Tidy(cache') /\ Touches(cache, cache', k)
                    /\ SameMemory(cache, cache') /\ SameSsd(cache, cache')
                    /\ cache'.expiry = cache.expiry
                    /\ cache'.pmem[k] = None /\ (cache'.meta[k] = {} <=> cache.meta[k] = {})
                    /\ cache'.pmem_bytes = Monus(cache.pmem_bytes, LenOf(cache.pmem[k]))
                    /\ \/ cache.pmem[k] = None /\ todo' = todo
                       \/ /\ cache.pmem[k] \in Values
                          /\ \E down \in {{}, {[step |-> "SsdBypass", key |-> k, val |-> cache.pmem[k]]}},
                                again \in {{}, {todo[1]}} :
                               /\ Becomes(down \cup {[step |-> "Forget", key |-> k]} \cup again)
                               /\ again = {} => cache'.pmem_bytes = cache.pmem_bytes
                               /\ down # {} => ~ Expired(cache, k)
  <1>1. /\ todo # <<>> /\ Agenda(todo, req.active) /\ Head(todo) = todo[1] /\ todo[1] \in Step
        /\ todo[1].step = "EvictPmem" /\ <<Head(todo)>> \o Tail(todo) = todo
    BY TopFacts DEF EvictPmem
  <1>2. Tidy(cache) /\ pins \in [Keys -> 0 .. MaxPins] BY DEF Shape
  <1>3. Still /\ req' = req BY DEF EvictPmem, Then, Still
  <1>4. cache.pmem_bytes \in Nat /\ cache.pmem_capacity \in Nat /\ cache.pmem_order \subseteq Keys
        /\ \A k \in Keys : cache.pmem[k] \in Values \cup {None}
    BY <1>2 DEF Tidy, Inner
  <1>5. CASE cache.pmem_bytes <= cache.pmem_capacity \/ OnOffer(cache.pmem_order) = {}
    <2>1. cache' = cache /\ todo' = <<>> \o Tail(todo) BY <1>5 DEF EvictPmem, Then
    <2>2. Becomes({}) BY <1>1, <1>3, <2>1, Pops
    <2>3. OverPmem => \A k \in Keys : InPmem(cache, k) => Pinned(k)
      BY <1>2, <1>4, <1>5 DEF OverPmem, OnOffer, Tidy, TidyAt
    <2> QED BY <1>3, <2>1, <2>2, <2>3
  <1>6. CASE ~ (cache.pmem_bytes <= cache.pmem_capacity \/ OnOffer(cache.pmem_order) = {})
    <2> DEFINE c(k) == [TakePmemResident(cache, k) EXCEPT !.pmem_order = @ \ {k}]
               bypass(k) == [step |-> "SsdBypass", key |-> k, val |-> cache.pmem[k]]
               forget(k) == [step |-> "Forget", key |-> k]
               down(k) == DemoteOn /\ cache.ssd_capacity > 0 /\ ~ Expired(cache, k)
               same(k) == c(k).pmem_bytes = cache.pmem_bytes
    <2>1. PICK k \in OnOffer(cache.pmem_order) :
            /\ cache' = c(k)
            /\ todo' = IF cache.pmem[k] = None THEN <<Head(todo)>> \o Tail(todo)
                       ELSE ((IF down(k) THEN <<bypass(k)>> ELSE <<>>) \o <<forget(k)>>
                               \o (IF same(k) THEN <<>> ELSE <<Head(todo)>>)) \o Tail(todo)
      BY <1>6 DEF EvictPmem, Then
    <2>2. k \in Keys /\ ~ Pinned(k) BY <1>4 DEF OnOffer
    <2>3. /\ Tidy(cache') /\ Touches(cache, cache', k)
          /\ SameMemory(cache, cache') /\ SameSsd(cache, cache')
          /\ cache'.expiry = cache.expiry
          /\ cache'.pmem[k] = None /\ (cache'.meta[k] = {} <=> cache.meta[k] = {})
          /\ cache'.pmem_bytes = Monus(cache.pmem_bytes, LenOf(cache.pmem[k]))
      BY <1>2, <2>1, <2>2, EvictedPmemTidy
    <2>4. OverPmem BY <1>4, <1>6 DEF OverPmem
    <2>5. CASE cache.pmem[k] = None
      BY <1>1, <1>3, <2>1, <2>2, <2>3, <2>4, <2>5
    <2>6. CASE cache.pmem[k] # None
      <3> DEFINE b == bypass(k)
                 f == forget(k)
                 h == todo[1]
      <3>1. cache.pmem[k] \in Values BY <1>4, <2>2, <2>6
      <3>2. b \in Step /\ f \in Step BY <2>2, <3>1 DEF Step
      <3>3. /\ f.step \in Below(b.step) /\ f.step # "EvictSsd" /\ h.step # "EvictSsd"
            /\ Below(h.step) \subseteq Below(f.step)
            /\ h.step \in Below(f.step)
            /\ ~ NeedsPut(b) /\ ~ NeedsPut(f) /\ ~ NeedsPut(h)
        BY <1>1 DEF Below, Rest, NeedsPut, PutSteps
      <3>4. same(k) <=> cache'.pmem_bytes = cache.pmem_bytes BY <2>1
      <3>5. todo' = ((IF down(k) THEN <<b>> ELSE <<>>) \o <<f>>
                       \o (IF same(k) THEN <<>> ELSE <<h>>)) \o Tail(todo)
        BY <2>1, <2>6, <1>1
      <3>6. down(k) => ~ Expired(cache, k) OBVIOUS
      <3> HIDE DEF b, f, h, same, down
      <3>7. PICK d \in {{}, {b}}, a \in {{}, {h}} :
              /\ Becomes(d \cup {f} \cup a)
              /\ a = {} => cache'.pmem_bytes = cache.pmem_bytes
              /\ d # {} => ~ Expired(cache, k)
        <4>1. CASE down(k) /\ same(k)
          <5>1. todo' = <<b, f>> \o Tail(todo) BY <3>5, <4>1, Joined
          <5>2. Becomes({b, f}) BY <1>1, <1>3, <3>2, <3>3, <5>1, PushesTwo DEF h
          <5>3. {b} \cup {f} \cup {} = {b, f} OBVIOUS
          <5> QED BY <5>2, <5>3, <4>1, <3>4, <3>6
        <4>2. CASE down(k) /\ ~ same(k)
          <5>1. todo' = <<b, f, h>> \o Tail(todo) BY <3>5, <4>2, Joined
          <5>2. Becomes({b, f, h}) BY <1>1, <1>3, <3>2, <3>3, <5>1, PushesThree DEF h
          <5>3. {b} \cup {f} \cup {h} = {b, f, h} /\ {h} # {} OBVIOUS
          <5> QED BY <5>2, <5>3, <4>2, <3>4, <3>6
        <4>3. CASE ~ down(k) /\ same(k)
          <5>1. todo' = <<f>> \o Tail(todo) BY <3>5, <4>3, Joined
          <5>2. Becomes({f}) BY <1>1, <1>3, <3>2, <3>3, <5>1, PushesOne DEF h
          <5>3. {} \cup {f} \cup {} = {f} OBVIOUS
          <5> QED BY <5>2, <5>3, <4>3, <3>4
        <4>4. CASE ~ down(k) /\ ~ same(k)
          <5>1. todo' = <<f, h>> \o Tail(todo) BY <3>5, <4>4, Joined
          <5>2. Becomes({f, h}) BY <1>1, <1>3, <3>2, <3>3, <5>1, PushesTwo DEF h
          <5>3. {} \cup {f} \cup {h} = {f, h} /\ {h} # {} OBVIOUS
          <5> QED BY <5>2, <5>3, <4>4, <3>4
        <4> QED BY <4>1, <4>2, <4>3, <4>4
      <3> QED BY <1>3, <2>2, <2>3, <2>4, <3>1, <3>7 DEF b, f, h
    <2> QED BY <2>5, <2>6
  <1> QED BY <1>5, <1>6

\* The metadata rule at the end of an eviction round.
LEMMA ForgetEffect ==
    ASSUME Shape, Forget
    PROVE  LET k == todo[1].key
           IN /\ Still /\ req' = req /\ k \in Keys /\ Becomes({})
              /\ todo[1] = [step |-> "Forget", key |-> k]
              /\ Tidy(cache') /\ Touches(cache, cache', k)
              /\ SameMemory(cache, cache') /\ SamePmem(cache, cache') /\ SameSsd(cache, cache')
              /\ InSomeTier(cache, k) => cache' = cache
              /\ ~ InSomeTier(cache, k) => cache'.meta[k] = {} /\ cache'.expiry[k] = "none"
  <1> DEFINE x == todo[1]
  <1>1. /\ todo # <<>> /\ Agenda(todo, req.active) /\ Head(todo) = x /\ x \in Step
        /\ x.step = "Forget"
    BY TopFacts DEF Forget
  <1>2. x.key \in Keys BY <1>1, StepFacts
  <1>3. x = [step |-> "Forget", key |-> x.key] BY <1>1 DEF Step
  <1>4. /\ cache' = ForgetMetadataUnlessResident(cache, x.key) /\ todo' = <<>> \o Tail(todo)
        /\ Still /\ req' = req
    BY <1>1 DEF Forget, Then, Still
  <1>5. Becomes({}) BY <1>1, <1>4, Pops
  <1>6. Tidy(cache) BY DEF Shape
  <1> QED BY <1>2, <1>3, <1>4, <1>5, <1>6, ForgetTidy

\* put_ssd_bypass_if_absent up to the write.
LEMMA SsdBypassEffect ==
    ASSUME Shape, SsdBypass
    PROVE  LET x == todo[1]
           IN /\ Still /\ req' = req /\ cache' = cache
              /\ x.step = "SsdBypass" /\ x.key \in Keys /\ x.val \in Values
              /\ \/ Becomes({})
                 \/ /\ ~ Indexed(cache, x.key)
                    /\ Becomes({[step |-> "EvictSsd", need |-> BlockLen[x.val]],
                                [step |-> "WriteBypass", key |-> x.key, val |-> x.val]})
  <1> DEFINE x == todo[1]
             e == [step |-> "EvictSsd", need |-> BlockLen[x.val]]
             w == [step |-> "WriteBypass", key |-> x.key, val |-> x.val]
  <1>1. /\ todo # <<>> /\ Agenda(todo, req.active) /\ Head(todo) = x /\ x \in Step
        /\ x.step = "SsdBypass"
    BY TopFacts DEF SsdBypass
  <1>2. x.key \in Keys /\ x.val \in Values BY <1>1, StepFacts DEF Carrying
  <1>3. Still /\ req' = req /\ cache' = cache BY DEF SsdBypass, Then, Still
  <1>4. /\ e \in Step /\ w \in Step /\ ~ NeedsPut(e) /\ ~ NeedsPut(w)
        /\ w.step \in Below(e.step) /\ w.step # "EvictSsd" /\ Below(x.step) \subseteq Below(w.step)
    <2>1. BlockLen[x.val] \in Nat BY <1>2, InnerAssumption
    <2> QED BY <1>1, <1>2, <2>1 DEF Step, NeedsPut, PutSteps, Below, Rest
  <1>5. \/ todo' = <<>> \o Tail(todo)
        \/ ~ Indexed(cache, x.key) /\ todo' = <<e, w>> \o Tail(todo)
    BY <1>1 DEF SsdBypass, Then
  <1> HIDE DEF e, w
  <1>6. todo' = <<>> \o Tail(todo) => Becomes({}) BY <1>1, <1>3, Pops
  <1>7. todo' = <<e, w>> \o Tail(todo) => Becomes({e, w}) BY <1>1, <1>3, <1>4, PushesTwo
  <1> QED BY <1>1, <1>2, <1>3, <1>5, <1>6, <1>7 DEF e, w

\* The answers of the store.
LEMMA Answers ==
    ASSUME NEW fault
    PROVE  Ok(fault) \subseteq BOOLEAN /\ (fault \notin Faults /\ cache.started => Ok(fault) = {TRUE})
           /\ (fault \notin Faults /\ fault \notin {"ssdWrite", "ssdDelete"} => Ok(fault) = {TRUE})
  BY DEF Ok

\* evict_ssd_for_batch
LEMMA EvictSsdEffect ==
    ASSUME Shape, EvictSsd
    PROVE  /\ Still /\ req' = req /\ todo[1].need \in Nat
           /\ \/ /\ cache' = cache /\ Becomes({})
                 /\ \/ cache.ssd_bytes + todo[1].need <= cache.ssd_capacity
                    \/ \A k \in Keys : Indexed(cache, k) => Pinned(k)
              \/ \E k \in Keys, ok \in Ok("ssdDelete") :
                    /\ ~ Pinned(k) /\ Indexed(cache, k)
                    /\ Tidy(cache') /\ Touches(cache, cache', k)
                    /\ SameMemory(cache, cache') /\ SamePmem(cache, cache')
                    /\ cache'.disk_index[k] = None
                    /\ cache'.block[k] = IF ok THEN None ELSE cache.block[k]
                    /\ InMemory(cache, k) \/ InPmem(cache, k) => SameMetadata(cache, cache')
                    /\ ~ (InMemory(cache, k) \/ InPmem(cache, k)) =>
                          cache'.meta[k] = {} /\ cache'.expiry[k] = "none"
                    /\ cache'.ssd_bytes = Monus(cache.ssd_bytes, IndexedLen(cache, k))
                    /\ \/ todo' = todo
                       \/ Becomes({}) /\ cache'.ssd_bytes = cache.ssd_bytes
  <1>1. /\ todo # <<>> /\ Agenda(todo, req.active) /\ Head(todo) = todo[1] /\ todo[1] \in Step
        /\ todo[1].step = "EvictSsd" /\ <<Head(todo)>> \o Tail(todo) = todo
    BY TopFacts DEF EvictSsd
  <1>2. Tidy(cache) /\ pins \in [Keys -> 0 .. MaxPins] BY DEF Shape
  <1>3. Still /\ req' = req BY DEF EvictSsd, Then, Still
  <1>4. /\ cache.ssd_bytes \in Nat /\ cache.ssd_capacity \in Nat /\ cache.disk_order \subseteq Keys
        /\ todo[1].need \in Nat /\ cache \in Inner
    BY <1>1, <1>2, StepFacts DEF Tidy, Inner
  <1>5. CASE cache.ssd_bytes + todo[1].need <= cache.ssd_capacity \/ OnOffer(cache.disk_order) = {}
    <2>1. cache' = cache /\ todo' = <<>> \o Tail(todo) BY <1>1, <1>5 DEF EvictSsd, Then
    <2>2. Becomes({}) BY <1>1, <1>3, <2>1, Pops
    <2>3. \/ cache.ssd_bytes + todo[1].need <= cache.ssd_capacity
          \/ \A k \in Keys : Indexed(cache, k) => Pinned(k)
      BY <1>2, <1>4, <1>5 DEF OnOffer, Tidy, TidyAt
    <2> QED BY <1>3, <1>4, <2>1, <2>2, <2>3
  <1>6. CASE ~ (cache.ssd_bytes + todo[1].need <= cache.ssd_capacity \/ OnOffer(cache.disk_order) = {})
    <2> DEFINE i(k) == IndexRemove(cache, k)
               f(k) == ForgetMetadataUnlessResident(i(k), k)
    <2>1. PICK k \in OnOffer(cache.disk_order), ok \in Ok("ssdDelete") :
            /\ cache' = DeleteSsdBlock(f(k), k, ok)
            /\ todo' = (IF f(k).ssd_bytes = cache.ssd_bytes THEN <<>> ELSE <<Head(todo)>>) \o Tail(todo)
      BY <1>1, <1>6 DEF EvictSsd, Then
    <2>2. k \in Keys /\ ~ Pinned(k) /\ ok \in BOOLEAN BY <1>4, Answers DEF OnOffer
    <2>3. Indexed(cache, k) BY <1>2, <2>2 DEF OnOffer, Tidy, TidyAt
    <2>4. /\ Tidy(i(k)) /\ Touches(cache, i(k), k) /\ SameMemory(cache, i(k)) /\ SamePmem(cache, i(k))
          /\ SameMetadata(cache, i(k)) /\ i(k).block = cache.block /\ i(k).disk_index[k] = None
      BY <1>2, <2>2, IndexRemoveTidy
    <2>5. i(k).ssd_bytes = Monus(cache.ssd_bytes, IndexedLen(cache, k))
      BY <1>4, <2>2, IndexRemoveFields
    <2> DEFINE j == i(k)
    <2> HIDE DEF i
    <2>6. /\ Tidy(f(k)) /\ Touches(j, f(k), k) /\ SameMemory(j, f(k)) /\ SamePmem(j, f(k))
          /\ SameSsd(j, f(k))
          /\ InSomeTier(j, k) => f(k) = j
          /\ ~ InSomeTier(j, k) => f(k).meta[k] = {} /\ f(k).expiry[k] = "none"
      BY <2>2, <2>4, ForgetTidy
    <2> DEFINE g == f(k)
    <2>7. InSomeTier(j, k) <=> InMemory(cache, k) \/ InPmem(cache, k)
      BY <2>4 DEF InSomeTier, InMemory, InPmem, Indexed, SameMemory, SamePmem
    <2> HIDE DEF f
    <2>8. /\ Tidy(cache') /\ Touches(g, cache', k) /\ SameMemory(g, cache') /\ SamePmem(g, cache')
          /\ SameIndex(g, cache') /\ SameMetadata(g, cache')
          /\ cache'.block[k] = IF ok THEN None ELSE g.block[k]
      BY <2>1, <2>2, <2>6, DeleteSsdBlockTidy
    <2>9. Touches(cache, cache', k)
      <3>1. Touches(cache, g, k) BY <2>2, <2>4, <2>6, TouchesTwice
      <3> QED BY <2>2, <2>8, <3>1, TouchesTwice
    <2>10. /\ SameMemory(cache, cache') /\ SamePmem(cache, cache') /\ cache'.disk_index[k] = None
           /\ cache'.block[k] = IF ok THEN None ELSE cache.block[k]
           /\ cache'.ssd_bytes = Monus(cache.ssd_bytes, IndexedLen(cache, k))
           /\ cache'.ssd_bytes = f(k).ssd_bytes
      BY <2>4, <2>5, <2>6, <2>8 DEF SameMemory, SamePmem, SameSsd, SameIndex
    <2>11. /\ InMemory(cache, k) \/ InPmem(cache, k) => SameMetadata(cache, cache')
           /\ ~ (InMemory(cache, k) \/ InPmem(cache, k)) =>
                 cache'.meta[k] = {} /\ cache'.expiry[k] = "none"
      BY <2>4, <2>6, <2>7, <2>8 DEF SameMetadata
    <2>12. \/ todo' = todo
           \/ Becomes({}) /\ cache'.ssd_bytes = cache.ssd_bytes
      <3>1. CASE f(k).ssd_bytes = cache.ssd_bytes
        <4>1. todo' = <<>> \o Tail(todo) BY <2>1, <3>1
        <4> QED BY <1>1, <1>3, <2>10, <3>1, <4>1, Pops
      <3>2. CASE f(k).ssd_bytes # cache.ssd_bytes
        BY <1>1, <2>1, <3>2
      <3> QED BY <3>1, <3>2
    <2> QED BY <1>3, <1>4, <2>2, <2>3, <2>8, <2>9, <2>10, <2>11, <2>12
  <1> QED BY <1>5, <1>6

\* A delete right after a write.
LEMMA UndoneTidy ==
    ASSUME NEW c, Tidy(c), NEW k \in Keys, NEW v \in Values, NEW ok \in BOOLEAN
    PROVE  LET d == DeleteSsdBlock(WriteSsdBlock(c, k, v), k, ok)
           IN /\ Tidy(d) /\ Touches(c, d, k)
              /\ SameMemory(c, d) /\ SamePmem(c, d) /\ SameIndex(c, d) /\ SameMetadata(c, d)
              /\ d.block[k] = IF ok THEN None ELSE v
  <1> DEFINE w == WriteSsdBlock(c, k, v)
             d == DeleteSsdBlock(w, k, ok)
  <1>1. /\ Tidy(w) /\ Touches(c, w, k) /\ SameMemory(c, w) /\ SamePmem(c, w) /\ SameIndex(c, w)
        /\ SameMetadata(c, w) /\ w.block[k] = v
    BY WriteSsdBlockTidy
  <1> HIDE DEF w
  <1>2. /\ Tidy(d) /\ Touches(w, d, k) /\ SameMemory(w, d) /\ SamePmem(w, d) /\ SameIndex(w, d)
        /\ SameMetadata(w, d) /\ d.block[k] = IF ok THEN None ELSE w.block[k]
    BY <1>1, DeleteSsdBlockTidy
  <1> HIDE DEF d
  <1>3. Touches(c, d, k) BY <1>1, <1>2, TouchesTwice
  <1> QED BY <1>1, <1>2, <1>3 DEF SameMemory, SamePmem, SameIndex, SameMetadata, w, d

\* The rest of put_ssd_bypass_if_absent: nothing is written, a write fails, the
\* manifest cannot record it, or the block is there and listed.
LEMMA WriteBypassEffect ==
    ASSUME Shape, WriteBypass
    PROVE  LET x == todo[1]
               k == x.key
               v == x.val
           IN /\ Still /\ req' = req /\ Becomes({})
              /\ x.step = "WriteBypass" /\ k \in Keys /\ v \in Values /\ ~ Indexed(cache, k)
              /\ \/ cache' = cache
                 \/ /\ Tidy(cache') /\ Touches(cache, cache', k)
                    /\ SameMemory(cache, cache') /\ SamePmem(cache, cache')
                    /\ SameMetadata(cache, cache')
                    /\ \/ /\ FALSE \in Ok("ssdWrite") /\ SameIndex(cache, cache')
                          /\ cache'.block[k] \in Leftovers(k, v)
                       \/ /\ "manifest" \in Faults /\ SameIndex(cache, cache')
                          /\ \E undone \in Ok("ssdDelete") :
                               cache'.block[k] = IF undone THEN None ELSE v
                       \/ /\ cache'.block[k] = v /\ cache'.disk_index[k] = BlockLen[v]
                          /\ Indexed(cache', k)
                          /\ cache'.ssd_bytes <= cache.ssd_capacity
  <1> DEFINE x == todo[1]
             k == x.key
             v == x.val
  <1>1. /\ todo # <<>> /\ Agenda(todo, req.active) /\ Head(todo) = x /\ x \in Step
        /\ x.step = "WriteBypass" /\ Foreseen(x)
    BY TopFacts DEF WriteBypass
  <1>2. k \in Keys /\ v \in Values BY <1>1, StepFacts DEF Carrying
  <1>3. Still /\ req' = req /\ todo' = <<>> \o Tail(todo) BY DEF WriteBypass, Then, Still
  <1>4. Becomes({}) BY <1>1, <1>3, Pops
  <1>5. ~ Indexed(cache, k) BY <1>1 DEF Foreseen
  <1>6. Tidy(cache) /\ cache \in Inner BY DEF Shape, Tidy
  <1>7. PICK written \in Ok("ssdWrite"), recorded \in Ok("manifest"), undone \in Ok("ssdDelete") :
          \/ cache' = cache
          \/ ~ written /\ \E left \in Leftovers(k, v) : cache' = WriteSsdBlock(cache, k, left)
          \/ ~ recorded /\ cache' = DeleteSsdBlock(WriteSsdBlock(cache, k, v), k, undone)
          \/ /\ ~ (cache.ssd_bytes + BlockLen[v] > cache.ssd_capacity)
             /\ cache' = IndexInsert(WriteSsdBlock(cache, k, v), k, v)
    BY <1>1 DEF WriteBypass, Then
  <1>8. undone \in BOOLEAN /\ written \in BOOLEAN /\ recorded \in BOOLEAN BY Answers
  <1>9. Leftovers(k, v) \subseteq Values \cup {None} BY <1>2, <1>6 DEF Leftovers, Inner
  <1>10. CASE ~ written /\ \E left \in Leftovers(k, v) : cache' = WriteSsdBlock(cache, k, left)
    <2>1. PICK left \in Leftovers(k, v) : cache' = WriteSsdBlock(cache, k, left) BY <1>10
    <2>2. /\ Tidy(cache') /\ Touches(cache, cache', k)
          /\ SameMemory(cache, cache') /\ SamePmem(cache, cache') /\ SameIndex(cache, cache')
          /\ SameMetadata(cache, cache') /\ cache'.block[k] = left
      BY <1>2, <1>6, <1>9, <2>1, WriteSsdBlockTidy, SMTT(30)
    <2>3. FALSE \in Ok("ssdWrite") BY <1>8, <1>10
    <2> QED BY <1>1, <1>2, <1>3, <1>4, <1>5, <2>1, <2>2, <2>3
  <1>11. CASE ~ recorded /\ cache' = DeleteSsdBlock(WriteSsdBlock(cache, k, v), k, undone)
    <2>1. /\ Tidy(cache') /\ Touches(cache, cache', k)
          /\ SameMemory(cache, cache') /\ SamePmem(cache, cache') /\ SameIndex(cache, cache')
          /\ SameMetadata(cache, cache') /\ cache'.block[k] = IF undone THEN None ELSE v
      BY <1>2, <1>6, <1>8, <1>11, UndoneTidy
    <2>2. "manifest" \in Faults BY <1>11 DEF Ok
    <2> QED BY <1>1, <1>2, <1>3, <1>4, <1>5, <2>1, <2>2
  <1>12. CASE /\ ~ (cache.ssd_bytes + BlockLen[v] > cache.ssd_capacity)
              /\ cache' = IndexInsert(WriteSsdBlock(cache, k, v), k, v)
    <2>1. /\ Tidy(cache') /\ Touches(cache, cache', k)
          /\ SameMemory(cache, cache') /\ SamePmem(cache, cache') /\ SameMetadata(cache, cache')
          /\ cache'.block[k] = v /\ cache'.disk_index[k] = BlockLen[v] /\ Indexed(cache', k)
          /\ cache'.ssd_bytes = Monus(cache.ssd_bytes, IndexedLen(cache, k)) + BlockLen[v]
      BY <1>2, <1>6, <1>12, StoredTidy
    <2>2. cache'.ssd_bytes <= cache.ssd_capacity
      <3>1. /\ cache.ssd_bytes \in Nat /\ cache.ssd_capacity \in Nat /\ BlockLen[v] \in Nat
            /\ IndexedLen(cache, k) = 0
        BY <1>2, <1>5, <1>6, InnerAssumption DEF Inner, Indexed, IndexedLen
      <3>2. Monus(cache.ssd_bytes, 0) = cache.ssd_bytes BY <3>1 DEF Monus
      <3> QED BY <1>12, <2>1, <3>1, <3>2
    <2> QED BY <1>1, <1>2, <1>3, <1>4, <1>5, <2>1, <2>2
  <1> QED BY <1>1, <1>2, <1>3, <1>4, <1>5, <1>7, <1>10, <1>11, <1>12

\* remove_expired_entry, as the sweep, the purge and a read use it.
Removed(k, ok) ==
    /\ Tidy(cache') /\ Touches(cache, cache', k)
    /\ cache'.memory[k] = None /\ cache'.pmem[k] = None /\ cache'.disk_index[k] = None
    /\ cache'.block[k] = IF ok THEN None ELSE cache.block[k]
    /\ cache'.meta[k] = {} /\ cache'.expiry[k] = "none"
    /\ cache'.memory_bytes <= cache.memory_bytes /\ cache'.pmem_bytes <= cache.pmem_bytes
    /\ cache'.ssd_bytes <= cache.ssd_bytes

\* sweep_some_expired and purge_expired
LEMMA SweepEffect ==
    ASSUME Shape, Sweep \/ Purge
    PROVE  /\ Still /\ req' = req
           /\ \/ cache' = cache /\ Becomes({})
              \/ /\ todo' = todo
                 /\ \E k \in Keys, ok \in Ok("ssdDelete") : Expired(cache, k) /\ Removed(k, ok)
  <1>1. /\ todo # <<>> /\ Agenda(todo, req.active) /\ Head(todo) = todo[1] /\ todo[1] \in Step
        /\ todo[1].step \in {"Sweep", "Purge"} /\ <<Head(todo)>> \o Tail(todo) = todo
    BY TopFacts DEF Sweep, Purge
  <1>2. Tidy(cache) /\ cache \in Inner BY DEF Shape, Tidy
  <1>3. Still /\ req' = req BY DEF Sweep, Purge, Then, Still
  <1>4. \/ cache' = cache /\ todo' = <<>> \o Tail(todo)
        \/ /\ todo' = <<Head(todo)>> \o Tail(todo)
           /\ \E k \in Keys, ok \in Ok("ssdDelete") :
                Expired(cache, k) /\ cache' = RemoveExpiredEntry(cache, k, ok)
    <2>1. cache.memory_order \cup cache.pmem_order \cup cache.disk_order \subseteq Keys
      BY <1>2 DEF Inner
    <2>2. CASE Sweep BY <2>1, <2>2 DEF Sweep, Then
    <2>3. CASE Purge BY <2>3 DEF Purge, Then
    <2> QED BY <2>2, <2>3
  <1>5. CASE cache' = cache /\ todo' = <<>> \o Tail(todo)
    BY <1>1, <1>3, <1>5, Pops
  <1>6. ASSUME todo' = <<Head(todo)>> \o Tail(todo), NEW k \in Keys, NEW ok \in Ok("ssdDelete"),
               Expired(cache, k), cache' = RemoveExpiredEntry(cache, k, ok)
        PROVE  todo' = todo /\ Removed(k, ok)
    <2>1. ok \in BOOLEAN BY Answers
    <2>2. Removed(k, ok) BY <1>2, <1>6, <2>1, RemoveExpiredEntryTidy DEF Removed
    <2> QED BY <1>1, <1>6, <2>2
  <1> QED BY <1>3, <1>4, <1>5, <1>6

-----------------------------------------------------------------------------
(* The steps of a put.                                                     *)

\* k's life after record_metadata.
Restarted(k) ==
    /\ cache'.expiry[k] \in {cache.expiry[k], IF cache.default_ttl THEN "live" ELSE "none"}
    /\ cache.meta[k] # {} => cache'.expiry[k] # "lapsed"

\* The put the lock holder is in.
LEMMA PutFacts ==
    ASSUME Shape, NEW step, Doing(step), step \in PutSteps
    PROVE  /\ req \in Request /\ req.active /\ req.key \in Keys /\ req.val \in Values
           /\ todo # <<>> /\ Agenda(todo, req.active) /\ Head(todo) = todo[1] /\ todo[1] \in Step
           /\ todo[1].step = step /\ Tidy(cache) /\ cache \in Inner
  <1>1. /\ todo # <<>> /\ Agenda(todo, req.active) /\ Head(todo) = todo[1] /\ todo[1] \in Step
        /\ todo[1].step = step /\ (NeedsPut(todo[1]) => req.active)
    BY TopFacts
  <1>2. req.active BY <1>1 DEF NeedsPut
  <1>3. req \in Request /\ Tidy(cache) /\ cache \in Inner BY DEF Shape, Tidy
  <1> QED BY <1>1, <1>2, <1>3, RequestFacts

\* Memory admits something only if it is there.
LEMMA Admitting ==
    ASSUME NEW c \in Inner, NEW k, NEW v, TRUE \in MemoryAdmits(c, k, v)
    PROVE  c.memory_capacity > 0
  <1>1. c.memory_capacity \in Nat /\ c.memory_capacity # 0 BY DEF Inner, MemoryAdmits
  <1> QED BY <1>1

\* The memory part of put_with_request_inner: the value is placed, or refused
\* and perhaps sent to PMEM instead, or an older copy is dropped.
LEMMA PutMemoryEffect ==
    ASSUME Shape, PutMemory
    PROVE  LET k == req.key
               v == req.val
           IN /\ Still /\ req' = req /\ req.active /\ k \in Keys /\ v \in Values
              /\ todo[1].step = "PutMemory"
              /\ Tidy(cache') /\ Touches(cache, cache', k)
              /\ SamePmem(cache, cache') /\ SameSsd(cache, cache')
              /\ \/ /\ req.memory /\ cache.memory_capacity > 0 /\ Becomes({[step |-> "EvictMemory"]})
                    /\ cache'.memory[k] = v /\ cache'.meta[k] # {} /\ Restarted(k)
                 \/ /\ req.memory /\ SameMemory(cache, cache') /\ cache'.meta[k] # {} /\ Restarted(k)
                    /\ FALSE \in MemoryAdmits(cache, k, v)
                    /\ \/ cache.pmem_capacity > 0
                          /\ Becomes({[step |-> "PutPmem", key |-> k, val |-> v, fallback |-> TRUE]})
                       \/ Becomes({})
                 \/ ~ req.memory /\ cache.ssd_only /\ cache' = cache /\ Becomes({})
                 \/ /\ ~ req.memory /\ ~ cache.ssd_only /\ Becomes({})
                    /\ cache'.expiry = cache.expiry /\ (cache'.meta[k] = {} <=> cache.meta[k] = {})
                    /\ cache'.memory[k] = None /\ cache'.memory_bytes <= cache.memory_bytes
  <1> DEFINE k == req.key
             v == req.val
             c == RecordMetadata(cache, k)
             e == [step |-> "EvictMemory"]
             p == [step |-> "PutPmem", key |-> k, val |-> v, fallback |-> TRUE]
  <1>1. /\ req \in Request /\ req.active /\ k \in Keys /\ v \in Values
        /\ todo # <<>> /\ Agenda(todo, req.active) /\ Head(todo) = todo[1] /\ todo[1] \in Step
        /\ todo[1].step = "PutMemory" /\ Tidy(cache)
    BY PutFacts DEF PutMemory, PutSteps
  <1>2. Still /\ req' = req BY DEF PutMemory, Then, Still
  <1>3. /\ e \in Step /\ p \in Step /\ ~ NeedsPut(e)
        /\ Below(todo[1].step) \subseteq Below(e.step) /\ Below(todo[1].step) \subseteq Below(p.step)
    BY <1>1 DEF Step, NeedsPut, PutSteps, Below, Rest
  <1>4. /\ Tidy(c) /\ Touches(cache, c, k)
        /\ SameMemory(cache, c) /\ SamePmem(cache, c) /\ SameSsd(cache, c)
        /\ c.meta[k] # {}
        /\ cache.meta[k] # {} => c.expiry[k] # "lapsed"
        /\ c.expiry[k] \in {cache.expiry[k], IF cache.default_ttl THEN "live" ELSE "none"}
    BY <1>1, RecordMetadataTidy
  <1>5. CASE ~ req.memory /\ cache.ssd_only
    <2>1. cache' = cache /\ todo' = <<>> \o Tail(todo) BY <1>5 DEF PutMemory, Then
    <2>2. Becomes({}) BY <1>1, <1>2, <2>1, Pops
    <2>3. Touches(cache, cache', k) /\ SamePmem(cache, cache') /\ SameSsd(cache, cache')
      BY <2>1 DEF Touches, SameSettings, SameEntry, NotesBlocks, SamePmem, SameSsd, SameIndex
    <2> QED BY <1>1, <1>2, <1>5, <2>1, <2>2, <2>3
  <1>6. CASE ~ req.memory /\ ~ cache.ssd_only
    <2>1. cache' = DropStaleMemory(cache, k) /\ todo' = <<>> \o Tail(todo) BY <1>6 DEF PutMemory, Then
    <2>2. Becomes({}) BY <1>1, <1>2, <2>1, Pops
    <2>3. /\ Tidy(cache') /\ Touches(cache, cache', k)
          /\ SamePmem(cache, cache') /\ SameSsd(cache, cache') /\ cache'.expiry = cache.expiry
          /\ cache'.memory[k] = None /\ (cache'.meta[k] = {} <=> cache.meta[k] = {})
          /\ cache'.memory_bytes <= cache.memory_bytes
      BY <1>1, <2>1, DropStaleMemoryTidy
    <2> QED BY <1>1, <1>2, <1>6, <2>2, <2>3
  <1>7. CASE req.memory
    <2> DEFINE m == MakeResident(c, k, v)
               c2 == RecordMetadata(c, k)
    <2>1. PICK admitted \in MemoryAdmits(c, k, v) :
            \/ admitted /\ cache' = m /\ todo' = <<e>> \o Tail(todo)
            \/ ~ admitted /\ c.pmem_capacity > 0 /\ cache' = c2 /\ todo' = <<p>> \o Tail(todo)
            \/ ~ admitted /\ cache' = c /\ todo' = <<>> \o Tail(todo)
      BY <1>7 DEF PutMemory, Then
    <2>2. MemoryAdmits(c, k, v) = MemoryAdmits(cache, k, v)
      BY <1>4 DEF MemoryAdmits, Touches, SameSettings, SameMemory
    <2>3. MemoryAdmits(cache, k, v) \subseteq BOOLEAN BY DEF MemoryAdmits
    <2>4. c.pmem_capacity = cache.pmem_capacity /\ c.default_ttl = cache.default_ttl
      BY <1>4 DEF Touches, SameSettings
    <2>5. /\ Tidy(m) /\ Touches(c, m, k) /\ SamePmem(c, m) /\ SameSsd(c, m) /\ m.expiry = c.expiry
          /\ m.memory[k] = v /\ (m.meta[k] = {} <=> c.meta[k] = {})
      BY <1>1, <1>4, MakeResidentTidy
    <2>6. /\ Tidy(c2) /\ Touches(c, c2, k)
          /\ SameMemory(c, c2) /\ SamePmem(c, c2) /\ SameSsd(c, c2)
          /\ c2.meta[k] # {}
          /\ c.meta[k] # {} => c2.expiry[k] # "lapsed"
          /\ c2.expiry[k] \in {c.expiry[k], IF c.default_ttl THEN "live" ELSE "none"}
      BY <1>1, <1>4, RecordMetadataTidy
    <2> HIDE DEF c, m, c2, e, p
    <2>7. CASE admitted /\ cache' = m /\ todo' = <<e>> \o Tail(todo)
      <3>1. Becomes({e}) BY <1>1, <1>2, <1>3, <2>7, PushesOne
      <3>2. Touches(cache, m, k) BY <1>1, <1>4, <2>5, TouchesTwice
      <3>3. SamePmem(cache, m) /\ SameSsd(cache, m) BY <1>4, <2>5 DEF SamePmem, SameSsd, SameIndex
      <3>4. Restarted(k) /\ m.meta[k] # {} BY <1>4, <2>5, <2>7 DEF Restarted
      <3>5. cache.memory_capacity > 0 BY <1>1, <2>1, <2>2, <2>3, <2>7, Admitting DEF Tidy
      <3> QED BY <1>1, <1>2, <1>7, <2>5, <2>7, <3>1, <3>2, <3>3, <3>4, <3>5 DEF e
    <2>8. CASE ~ admitted /\ c.pmem_capacity > 0 /\ cache' = c2 /\ todo' = <<p>> \o Tail(todo)
      <3>1. Becomes({p}) BY <1>1, <1>2, <1>3, <2>8, PushesOne
      <3>2. Touches(cache, c2, k) BY <1>1, <1>4, <2>6, TouchesTwice
      <3>3. SameMemory(cache, c2) /\ SamePmem(cache, c2) /\ SameSsd(cache, c2)
        BY <1>4, <2>6 DEF SameMemory, SamePmem, SameSsd, SameIndex
      <3>4. Restarted(k) BY <1>4, <2>4, <2>6, <2>8 DEF Restarted
      <3>5. FALSE \in MemoryAdmits(cache, k, v) BY <2>1, <2>2, <2>3, <2>8
      <3> QED BY <1>1, <1>2, <1>7, <2>4, <2>6, <2>8, <3>1, <3>2, <3>3, <3>4, <3>5 DEF p
    <2>9. CASE ~ admitted /\ cache' = c /\ todo' = <<>> \o Tail(todo)
      <3>1. Becomes({}) BY <1>1, <1>2, <2>9, Pops
      <3>2. Restarted(k) BY <1>4, <2>9 DEF Restarted
      <3>3. FALSE \in MemoryAdmits(cache, k, v) BY <2>1, <2>2, <2>3, <2>9
      <3> QED BY <1>1, <1>2, <1>4, <1>7, <2>9, <3>1, <3>2, <3>3
    <2> QED BY <2>1, <2>7, <2>8, <2>9
  <1> QED BY <1>1, <1>5, <1>6, <1>7

\* The PMEM part: the value goes to PMEM, an older copy is dropped, or cannot be.
LEMMA PutPmemPartEffect ==
    ASSUME Shape, PutPmemPart
    PROVE  LET k == req.key
               v == req.val
           IN /\ Still /\ req.active /\ k \in Keys /\ v \in Values
              /\ todo[1].step = "PutPmemPart"
              /\ req' \in Request /\ req'.active /\ SameCall(req') /\ req'.fallback = req.fallback
              /\ \/ /\ req' = req /\ Tidy(cache') /\ Touches(cache, cache', k)
                    /\ SameMemory(cache, cache') /\ SamePmem(cache, cache') /\ SameSsd(cache, cache')
                    /\ cache'.meta[k] # {} /\ Restarted(k) /\ req.pmem /\ ~ req.fallback
                    /\ Becomes({[step |-> "PutPmem", key |-> k, val |-> v, fallback |-> FALSE]})
                 \/ /\ cache' = cache /\ req' = req /\ Becomes({}) /\ (cache.ssd_only \/ req.fallback)
                 \/ /\ cache' = cache /\ req'.outcome = "err" /\ Becomes({})
                    /\ InPmem(cache, k) /\ "pmemDelete" \in Faults /\ ~ req.fallback /\ ~ req.pmem
                 \/ /\ req' = req /\ Tidy(cache') /\ Touches(cache, cache', k) /\ Becomes({})
                    /\ SameMemory(cache, cache') /\ SameSsd(cache, cache')
                    /\ cache'.expiry = cache.expiry /\ (cache'.meta[k] = {} <=> cache.meta[k] = {})
                    /\ cache'.pmem[k] = None /\ cache'.pmem_bytes <= cache.pmem_bytes
                    /\ ~ req.fallback /\ ~ req.pmem
  <1> DEFINE k == req.key
             v == req.val
             c == RecordMetadata(cache, k)
             p == [step |-> "PutPmem", key |-> k, val |-> v, fallback |-> FALSE]
  <1>1. /\ req \in Request /\ req.active /\ k \in Keys /\ v \in Values
        /\ todo # <<>> /\ Agenda(todo, req.active) /\ Head(todo) = todo[1] /\ todo[1] \in Step
        /\ todo[1].step = "PutPmemPart" /\ Tidy(cache)
    BY PutFacts DEF PutPmemPart, PutSteps
  <1>2. Still BY DEF PutPmemPart, Then, Still
  <1>3. /\ p \in Step /\ ~ NeedsPut(p) /\ Below(todo[1].step) \subseteq Below(p.step)
    BY <1>1 DEF Step, NeedsPut, PutSteps, Below, Rest
  <1>4. SameCall(req) BY DEF SameCall
  <1>5. CASE req.pmem /\ ~ req.fallback
    <2>1. cache' = c /\ todo' = <<p>> \o Tail(todo) /\ req' = req BY <1>5 DEF PutPmemPart, Then
    <2>2. Becomes({p})
      <3> HIDE DEF p
      <3> QED BY <1>1, <1>3, <2>1, PushesOne
    <2>3. /\ Tidy(cache') /\ Touches(cache, cache', k)
          /\ SameMemory(cache, cache') /\ SamePmem(cache, cache') /\ SameSsd(cache, cache')
          /\ cache'.meta[k] # {} /\ Restarted(k)
      BY <1>1, <2>1, RecordMetadataTidy DEF Restarted
    <2> QED BY <1>1, <1>2, <1>4, <1>5, <2>1, <2>2, <2>3
  <1>6. CASE ~ (req.pmem /\ ~ req.fallback)
    <2>1. PICK deleted \in Ok("pmemDelete") :
            \/ (cache.ssd_only \/ req.fallback) /\ cache' = cache /\ todo' = <<>> \o Tail(todo) /\ req' = req
            \/ /\ ~ req.fallback /\ InPmem(cache, k) /\ ~ deleted
               /\ cache' = cache /\ todo' = <<>> \o Tail(todo) /\ req' = [req EXCEPT !.outcome = "err"]
            \/ /\ ~ req.fallback
               /\ cache' = DropStalePmem(cache, k) /\ todo' = <<>> \o Tail(todo) /\ req' = req
      BY <1>6 DEF PutPmemPart, Then
    <2>2. CASE (cache.ssd_only \/ req.fallback) /\ cache' = cache /\ todo' = <<>> \o Tail(todo) /\ req' = req
      <3>1. Becomes({}) BY <1>1, <2>2, Pops
      <3> QED BY <1>1, <1>2, <1>4, <2>2, <3>1
    <2>3. CASE /\ ~ req.fallback /\ InPmem(cache, k) /\ ~ deleted
               /\ cache' = cache /\ todo' = <<>> \o Tail(todo) /\ req' = [req EXCEPT !.outcome = "err"]
      <3>1. /\ req' \in Request /\ req'.active /\ SameCall(req') /\ req'.fallback = req.fallback
            /\ req'.outcome = "err"
        BY <1>1, <2>3, RequestUpdates DEF Outcomes
      <3>2. req'.active = req.active BY <1>1, <3>1, RequestFacts DEF Request
      <3>3. Becomes({}) BY <1>1, <2>3, <3>2, Pops
      <3>4. "pmemDelete" \in Faults BY <2>3 DEF Ok
      <3> QED BY <1>1, <1>2, <1>6, <2>3, <3>1, <3>3, <3>4
    <2>4. CASE /\ ~ req.fallback
               /\ cache' = DropStalePmem(cache, k) /\ todo' = <<>> \o Tail(todo) /\ req' = req
      <3>1. Becomes({}) BY <1>1, <2>4, Pops
      <3>2. /\ Tidy(cache') /\ Touches(cache, cache', k)
            /\ SameMemory(cache, cache') /\ SameSsd(cache, cache') /\ cache'.expiry = cache.expiry
            /\ cache'.pmem[k] = None /\ (cache'.meta[k] = {} <=> cache.meta[k] = {})
            /\ cache'.pmem_bytes <= cache.pmem_bytes
        BY <1>1, <2>4, DropStalePmemTidy
      <3> QED BY <1>1, <1>2, <1>4, <1>6, <2>4, <3>1, <3>2
    <2> QED BY <2>1, <2>2, <2>3, <2>4
  <1> QED BY <1>5, <1>6

\* The SSD part up to the loop that makes room.
LEMMA PutSsdEffect ==
    ASSUME Shape, PutSsd
    PROVE  /\ Still /\ cache' = cache /\ req.active /\ todo[1].step = "PutSsd"
           /\ req' \in Request /\ req'.active /\ SameCall(req') /\ req'.fallback = req.fallback
           /\ \/ req.outcome = "err" /\ req' = req /\ Becomes({})
              \/ req.outcome # "err" /\ req'.outcome = "no" /\ Becomes({})
              \/ /\ req.outcome # "err" /\ req' = req
                 /\ Becomes({[step |-> "MakeRoom", before |-> None], [step |-> "WriteSsd"]})
  <1> DEFINE m == [step |-> "MakeRoom", before |-> None]
             w == [step |-> "WriteSsd"]
  <1>1. /\ req \in Request /\ req.active
        /\ todo # <<>> /\ Agenda(todo, req.active) /\ Head(todo) = todo[1] /\ todo[1] \in Step
        /\ todo[1].step = "PutSsd" /\ Tidy(cache)
    BY PutFacts DEF PutSsd, PutSteps
  <1>2. Still /\ cache' = cache BY DEF PutSsd, Then, Still
  <1>3. /\ m \in Step /\ w \in Step /\ w.step \in Below(m.step) /\ w.step # "EvictSsd"
        /\ Below(todo[1].step) \subseteq Below(w.step)
    BY <1>1 DEF Step, NeedsPut, PutSteps, Below, Rest
  <1>4. SameCall(req) BY DEF SameCall
  <1>5. \/ req.outcome = "err" /\ req' = req /\ todo' = <<>> \o Tail(todo)
        \/ req.outcome # "err" /\ req' = [req EXCEPT !.outcome = "no"] /\ todo' = <<>> \o Tail(todo)
        \/ req.outcome # "err" /\ req' = req /\ todo' = <<m, w>> \o Tail(todo)
    BY DEF PutSsd, Then
  <1> HIDE DEF m, w
  <1>6. CASE req.outcome = "err" /\ req' = req /\ todo' = <<>> \o Tail(todo)
    <2>1. Becomes({}) BY <1>1, <1>6, Pops
    <2> QED BY <1>1, <1>2, <1>4, <1>6, <2>1
  <1>7. CASE req.outcome # "err" /\ req' = [req EXCEPT !.outcome = "no"] /\ todo' = <<>> \o Tail(todo)
    <2>1. /\ req' \in Request /\ req'.active /\ SameCall(req') /\ req'.fallback = req.fallback
          /\ req'.outcome = "no"
      BY <1>1, <1>7, RequestUpdates DEF Outcomes
    <2>2. req'.active = req.active BY <1>1, <2>1, RequestFacts DEF Request
    <2>3. Becomes({}) BY <1>1, <1>7, <2>2, Pops
    <2> QED BY <1>1, <1>2, <1>7, <2>1, <2>3
  <1>8. CASE req.outcome # "err" /\ req' = req /\ todo' = <<m, w>> \o Tail(todo)
    <2>1. Becomes({m, w}) BY <1>1, <1>3, <1>8, PushesTwo
    <2> QED BY <1>1, <1>2, <1>4, <1>8, <2>1 DEF m, w
  <1> QED BY <1>5, <1>6, <1>7, <1>8

\* make_room_for_ssd_install
LEMMA MakeRoomEffect ==
    ASSUME Shape, MakeRoom
    PROVE  /\ Still /\ cache' = cache /\ req.active /\ todo[1].step = "MakeRoom"
           /\ req.key \in Keys /\ req.val \in Values
           /\ req' \in Request /\ req'.active /\ SameCall(req') /\ req'.fallback = req.fallback
           /\ \/ /\ req' = req /\ Becomes({})
                 /\ ProjectedSsdBytes(cache, req.key, req.val) <= cache.ssd_capacity
              \/ req'.outcome = "no" /\ Becomes({})
              \/ /\ req' = req
                 /\ \E n \in Nat, b \in Nat :
                      Becomes({[step |-> "EvictSsd", need |-> n], [step |-> "MakeRoom", before |-> b]})
  <1> DEFINE projected == ProjectedSsdBytes(cache, req.key, req.val)
             n == Monus(cache.ssd_capacity, cache.ssd_bytes) + (projected - cache.ssd_capacity)
             e == [step |-> "EvictSsd", need |-> n]
             m == [step |-> "MakeRoom", before |-> cache.ssd_bytes]
  <1>1. /\ req \in Request /\ req.active /\ req.key \in Keys /\ req.val \in Values
        /\ todo # <<>> /\ Agenda(todo, req.active) /\ Head(todo) = todo[1] /\ todo[1] \in Step
        /\ todo[1].step = "MakeRoom" /\ Tidy(cache) /\ cache \in Inner
    BY PutFacts DEF MakeRoom, PutSteps
  <1>2. Still /\ cache' = cache BY DEF MakeRoom, Then, Still
  <1>3. SameCall(req) BY DEF SameCall
  <1>4. cache.ssd_capacity \in Nat /\ cache.ssd_bytes \in Nat /\ projected \in Nat
    <2>1. /\ cache.ssd_capacity \in Nat /\ cache.ssd_bytes \in Nat /\ BlockLen[req.val] \in Nat
          /\ IndexedLen(cache, req.key) \in Nat
      BY <1>1, Lengths, InnerAssumption DEF Inner
    <2>2. Monus(cache.ssd_bytes, IndexedLen(cache, req.key)) \in Nat BY <2>1, MonusFacts
    <2> QED BY <2>1, <2>2 DEF ProjectedSsdBytes
  <1>5. \/ projected <= cache.ssd_capacity /\ req' = req /\ todo' = <<>> \o Tail(todo)
        \/ req' = [req EXCEPT !.outcome = "no"] /\ todo' = <<>> \o Tail(todo)
        \/ ~ (projected <= cache.ssd_capacity) /\ req' = req /\ todo' = <<e, m>> \o Tail(todo)
    BY <1>1 DEF MakeRoom, Then
  <1>6. CASE projected <= cache.ssd_capacity /\ req' = req /\ todo' = <<>> \o Tail(todo)
    <2>1. Becomes({}) BY <1>1, <1>6, Pops
    <2> QED BY <1>1, <1>2, <1>3, <1>6, <2>1
  <1>7. CASE req' = [req EXCEPT !.outcome = "no"] /\ todo' = <<>> \o Tail(todo)
    <2>1. /\ req' \in Request /\ req'.active /\ SameCall(req') /\ req'.fallback = req.fallback
          /\ req'.outcome = "no"
      BY <1>1, <1>7, RequestUpdates DEF Outcomes
    <2>2. req'.active = req.active BY <1>1, <2>1, RequestFacts DEF Request
    <2>3. Becomes({}) BY <1>1, <1>7, <2>2, Pops
    <2> QED BY <1>1, <1>2, <2>1, <2>3
  <1>8. CASE ~ (projected <= cache.ssd_capacity) /\ req' = req /\ todo' = <<e, m>> \o Tail(todo)
    <2>1. n \in Nat
      <3>1. Monus(cache.ssd_capacity, cache.ssd_bytes) \in Nat BY <1>4, MonusFacts
      <3> HIDE DEF projected
      <3> QED BY <1>4, <1>8, <3>1
    <2>2. /\ e \in Step /\ m \in Step /\ m.step \in Below(e.step) /\ m.step # "EvictSsd"
          /\ Below(todo[1].step) \subseteq Below(m.step)
      <3> HIDE DEF n
      <3> QED BY <1>1, <1>4, <2>1 DEF Step, Below, Rest
    <2>3. Becomes({e, m})
      <3> HIDE DEF e, m
      <3> QED BY <1>1, <1>8, <2>2, PushesTwo
    <2> QED BY <1>1, <1>2, <1>3, <1>4, <1>8, <2>1, <2>3
  <1> QED BY <1>5, <1>6, <1>7, <1>8

\* write_ssd_block, the index, the metadata and the manifest.
LEMMA WriteSsdEffect ==
    ASSUME Shape, WriteSsd
    PROVE  LET k == req.key
               v == req.val
           IN /\ Still /\ Becomes({}) /\ todo[1].step = "WriteSsd"
              /\ req.active /\ k \in Keys /\ v \in Values
              /\ req' \in Request /\ req'.active /\ SameCall(req') /\ req'.fallback = req.fallback
              /\ \/ req.outcome = "no" /\ cache' = cache /\ req' = req
                 \/ /\ req.outcome # "no" /\ req'.outcome = "err" /\ FALSE \in Ok("ssdWrite")
                    /\ Tidy(cache') /\ Touches(cache, cache', k)
                    /\ SameMemory(cache, cache') /\ SamePmem(cache, cache')
                    /\ SameMetadata(cache, cache') /\ SameIndex(cache, cache')
                    /\ cache'.block[k] \in Leftovers(k, v)
                 \/ /\ req.outcome # "no" /\ req'.outcome \in {"yes", "err"}
                    /\ req'.outcome = "err" => "manifest" \in Faults
                    /\ Tidy(cache') /\ Touches(cache, cache', k)
                    /\ SameMemory(cache, cache') /\ SamePmem(cache, cache')
                    /\ cache'.meta[k] # {} /\ Restarted(k)
                    /\ cache'.block[k] = v /\ cache'.disk_index[k] = BlockLen[v] /\ Indexed(cache', k)
                    /\ cache'.ssd_bytes = Monus(cache.ssd_bytes, IndexedLen(cache, k)) + BlockLen[v]
  <1> DEFINE k == req.key
             v == req.val
             i == IndexInsert(WriteSsdBlock(cache, k, v), k, v)
             s == RecordMetadata(i, k)
  <1>1. /\ req \in Request /\ req.active /\ k \in Keys /\ v \in Values
        /\ todo # <<>> /\ Agenda(todo, req.active) /\ Head(todo) = todo[1] /\ todo[1] \in Step
        /\ todo[1].step = "WriteSsd" /\ Tidy(cache) /\ cache \in Inner
    BY PutFacts DEF WriteSsd, PutSteps
  <1>2. Still /\ todo' = <<>> \o Tail(todo) BY DEF WriteSsd, Then, Still
  <1>3. SameCall(req) BY DEF SameCall
  <1>4. Leftovers(k, v) \subseteq Values \cup {None} BY <1>1 DEF Leftovers, Inner
  <1>5. \/ req.outcome = "no" /\ cache' = cache /\ req' = req
        \/ /\ req.outcome # "no" /\ FALSE \in Ok("ssdWrite")
           /\ req' = [req EXCEPT !.outcome = "err"]
           /\ \E left \in Leftovers(k, v) : cache' = WriteSsdBlock(cache, k, left)
        \/ /\ req.outcome # "no" /\ cache' = s
           /\ \E recorded \in Ok("manifest") :
                req' = [req EXCEPT !.outcome = IF recorded THEN "yes" ELSE "err"]
    <2>1. Ok("ssdWrite") \subseteq BOOLEAN BY Answers
    <2> HIDE DEF s
    <2> QED BY <2>1 DEF WriteSsd, Then, s, i
  <1>6. CASE req.outcome = "no" /\ cache' = cache /\ req' = req
    <2>1. Becomes({}) BY <1>1, <1>2, <1>6, Pops
    <2> QED BY <1>1, <1>2, <1>3, <1>6, <2>1
  <1>7. CASE /\ req.outcome # "no" /\ FALSE \in Ok("ssdWrite")
             /\ req' = [req EXCEPT !.outcome = "err"]
             /\ \E left \in Leftovers(k, v) : cache' = WriteSsdBlock(cache, k, left)
    <2>1. PICK left \in Leftovers(k, v) : cache' = WriteSsdBlock(cache, k, left) BY <1>7
    <2>2. /\ Tidy(cache') /\ Touches(cache, cache', k)
          /\ SameMemory(cache, cache') /\ SamePmem(cache, cache') /\ SameIndex(cache, cache')
          /\ SameMetadata(cache, cache') /\ cache'.block[k] = left
      BY <1>1, <1>4, <2>1, WriteSsdBlockTidy
    <2>3. /\ req' \in Request /\ req'.active /\ SameCall(req') /\ req'.fallback = req.fallback
          /\ req'.outcome = "err"
      BY <1>1, <1>7, RequestUpdates DEF Outcomes
    <2>4. req'.active = req.active BY <1>1, <2>3, RequestFacts DEF Request
    <2>5. Becomes({}) BY <1>1, <1>2, <2>4, Pops
    <2> QED BY <1>1, <1>2, <1>7, <2>1, <2>2, <2>3, <2>5
  <1>8. CASE /\ req.outcome # "no" /\ cache' = s
             /\ \E recorded \in Ok("manifest") :
                  req' = [req EXCEPT !.outcome = IF recorded THEN "yes" ELSE "err"]
    <2>1. PICK recorded \in Ok("manifest") :
                  req' = [req EXCEPT !.outcome = IF recorded THEN "yes" ELSE "err"]
      BY <1>8
    <2> DEFINE o == IF recorded THEN "yes" ELSE "err"
    <2>2. o \in {"yes", "err"} /\ (o = "err" => "manifest" \in Faults) BY DEF Ok
    <2>3. /\ req' \in Request /\ req'.active /\ SameCall(req') /\ req'.fallback = req.fallback
          /\ req'.outcome = o
      <3>1. o \in Outcomes BY <2>2 DEF Outcomes
      <3>2. req' = [req EXCEPT !.outcome = o] BY <2>1
      <3> HIDE DEF o
      <3> QED BY <1>1, <3>1, <3>2, RequestUpdates
    <2> HIDE DEF o
    <2>4. req'.active = req.active BY <1>1, <2>3, RequestFacts DEF Request
    <2>5. Becomes({}) BY <1>1, <1>2, <2>4, Pops
    <2>6. /\ Tidy(i) /\ Touches(cache, i, k) /\ SameMemory(cache, i) /\ SamePmem(cache, i)
          /\ SameMetadata(cache, i) /\ i.block[k] = v /\ i.disk_index[k] = BlockLen[v] /\ Indexed(i, k)
          /\ i.ssd_bytes = Monus(cache.ssd_bytes, IndexedLen(cache, k)) + BlockLen[v]
      BY <1>1, StoredTidy
    <2> HIDE DEF i
    <2>7. /\ Tidy(s) /\ Touches(i, s, k)
          /\ SameMemory(i, s) /\ SamePmem(i, s) /\ SameSsd(i, s)
          /\ s.meta[k] # {}
          /\ i.meta[k] # {} => s.expiry[k] # "lapsed"
          /\ s.expiry[k] \in {i.expiry[k], IF i.default_ttl THEN "live" ELSE "none"}
      BY <1>1, <2>6, RecordMetadataTidy
    <2> HIDE DEF s
    <2>8. Touches(cache, cache', k) BY <1>1, <1>8, <2>6, <2>7, TouchesTwice
    <2>9. /\ SameMemory(cache, cache') /\ SamePmem(cache, cache')
          /\ cache'.block[k] = v /\ cache'.disk_index[k] = BlockLen[v] /\ Indexed(cache', k)
          /\ cache'.ssd_bytes = Monus(cache.ssd_bytes, IndexedLen(cache, k)) + BlockLen[v]
      BY <1>8, <2>6, <2>7 DEF SameMemory, SamePmem, SameSsd, SameIndex, Indexed
    <2>10. i.default_ttl = cache.default_ttl /\ i.meta = cache.meta /\ i.expiry = cache.expiry
      BY <2>6 DEF Touches, SameSettings, SameMetadata
    <2>11. Restarted(k) BY <1>8, <2>7, <2>10 DEF Restarted
    <2> QED BY <1>1, <1>2, <1>8, <2>2, <2>3, <2>5, <2>7, <2>8, <2>9, <2>11
  <1> QED BY <1>5, <1>6, <1>7, <1>8

\* A put's last step is the last step on the stack.
LEMMA LastStep ==
    ASSUME NEW t, Stacked(t), t # <<>>, t[1].step \in {"PutFinish", "Purge"}
    PROVE  Tail(t) = <<>>
  BY PoppedStack DEF Below

\* The SSD copy a put found it should not keep.
StaleBlock == req.outcome = "no" /\ Indexed(cache, req.key) /\ cache.block[req.key] # req.val

\* What a completed operation on k says a read may find.
Allowing(k, vs) ==
    /\ allowed' = [allowed EXCEPT ![k] = vs]
    /\ \A r \in Readers :
          /\ seen[r] \subseteq seen'[r]
          /\ reader[r].at # "idle" /\ reader[r].key = k => vs \subseteq seen'[r]
    /\ seen' \in [Readers -> SUBSET Values]

\* What Allow does to the two history variables.
LEMMA AllowEffect ==
    ASSUME seen \in [Readers -> SUBSET Values], NEW k \in Keys, NEW vs \in SUBSET Values, Allow(k, vs)
    PROVE  Allowing(k, vs)
  BY DEF Allow, Allowing

\* The tail of put_with_request_shared: the metadata of a key that is nowhere
\* goes, an older block goes, or stays when the store refuses.
LEMMA PutFinishEffect ==
    ASSUME Shape, PutFinish
    PROVE  LET k == req.key
           IN /\ UNCHANGED <<pins, reclaims, reader>> /\ todo' = <<>> /\ req' = NoReq
              /\ OnStack(todo) = {todo[1]} /\ todo[1].step = "PutFinish"
              /\ req.active /\ k \in Keys /\ req.val \in Values
              /\ Tidy(cache') /\ Touches(cache, cache', k)
              /\ SameMemory(cache, cache') /\ SamePmem(cache, cache')
              /\ cache'.ssd_bytes <= cache.ssd_bytes
              /\ cache'.expiry[k] = cache.expiry[k] \/ cache'.expiry[k] # "lapsed"
              /\ cache'.expiry[k] \in {cache.expiry[k], "none"} \/ req.life # "default"
              /\ \E deleted \in Ok("ssdDelete"), recorded \in Ok("manifest") :
                   LET failed == req.outcome = "err" \/ (StaleBlock /\ ~ (deleted /\ recorded))
                   IN /\ Allowing(k, IF failed THEN allowed[k] \cup {req.val} ELSE {req.val})
                      /\ \/ /\ StaleBlock /\ ~ (deleted /\ recorded) /\ SameIndex(cache, cache')
                            /\ cache'.block[k] = IF deleted THEN None ELSE cache.block[k]
                            /\ cache'.meta[k] = cache.meta[k]
                         \/ /\ StaleBlock /\ deleted /\ recorded
                            /\ cache'.disk_index[k] = None /\ cache'.block[k] = None
                            /\ IF InMemory(cache, k) \/ InPmem(cache, k)
                               THEN cache'.meta[k] = cache.meta[k] ELSE cache'.meta[k] = {}
                         \/ /\ ~ StaleBlock /\ SameSsd(cache, cache')
                            /\ IF InSomeTier(cache, k)
                               THEN cache'.meta[k] = cache.meta[k] ELSE cache'.meta[k] = {}
  <1> DEFINE k == req.key
             stale == req.outcome = "no" /\ Indexed(cache, k) /\ cache.block[k] # req.val
             dropped(deleted) == DeleteSsdBlock(cache, k, deleted)
             unlisted(deleted) == IndexRemove(dropped(deleted), k)
             clean(deleted) == ForgetMetadataUnlessResident(
                                 IF stale THEN unlisted(deleted) ELSE cache, k)
             left(deleted, recorded) ==
                 IF stale /\ ~ (deleted /\ recorded) THEN dropped(deleted) ELSE clean(deleted)
             failed(deleted, recorded) ==
                 req.outcome = "err" \/ (stale /\ ~ (deleted /\ recorded))
             stamp(deleted, recorded) ==
                 /\ req.life # "default" /\ ~ failed(deleted, recorded)
                 /\ Described(left(deleted, recorded), k)
             life == IF req.life = "finite" THEN "live" ELSE "none"
  <1>1. /\ req \in Request /\ req.active /\ k \in Keys /\ req.val \in Values
        /\ todo # <<>> /\ Agenda(todo, req.active) /\ Head(todo) = todo[1] /\ todo[1] \in Step
        /\ todo[1].step = "PutFinish" /\ Tidy(cache) /\ cache \in Inner
    BY PutFacts DEF PutFinish, PutSteps
  <1>2. UNCHANGED <<pins, reclaims, reader>> /\ todo' = Tail(todo) /\ req' = NoReq BY DEF PutFinish
  <1>3. Tail(todo) = <<>> /\ OnStack(todo) = {todo[1]}
    <2>1. Stacked(todo) BY <1>1 DEF Agenda
    <2>2. Tail(todo) = <<>> BY <1>1, <2>1, LastStep
    <2>3. OnStack(todo) = {todo[1]} \cup OnStack(Tail(todo)) BY <1>1, <2>1, UnderTheTop
    <2> QED BY <2>2, <2>3, EmptyStack
  <1>4. PICK deleted \in Ok("ssdDelete"), recorded \in Ok("manifest") :
          /\ cache' = IF stamp(deleted, recorded)
                      THEN [left(deleted, recorded) EXCEPT !.expiry[k] = life]
                      ELSE left(deleted, recorded)
          /\ Allow(k, IF failed(deleted, recorded) THEN allowed[k] \cup {req.val} ELSE {req.val})
    BY DEF PutFinish
  <1>5. deleted \in BOOLEAN /\ recorded \in BOOLEAN BY Answers
  <1> DEFINE f == failed(deleted, recorded)
             l == left(deleted, recorded)
             d == dropped(deleted)
             u == unlisted(deleted)
             c == clean(deleted)
  <1>6. Allowing(k, IF f THEN allowed[k] \cup {req.val} ELSE {req.val})
    <2>1. seen \in [Readers -> SUBSET Values] /\ allowed \in [Keys -> SUBSET Values] BY DEF Shape
    <2>2. (IF f THEN allowed[k] \cup {req.val} ELSE {req.val}) \in SUBSET Values
      BY <1>1, <2>1
    <2> HIDE DEF f
    <2> QED BY <1>1, <1>4, <2>1, <2>2, AllowEffect DEF f
  <1>7. /\ Tidy(d) /\ Touches(cache, d, k)
        /\ SameMemory(cache, d) /\ SamePmem(cache, d) /\ SameIndex(cache, d) /\ SameMetadata(cache, d)
        /\ d.block[k] = IF deleted THEN None ELSE cache.block[k]
    BY <1>1, <1>5, DeleteSsdBlockTidy
  <1>8. StaleBlock <=> stale BY DEF StaleBlock
  <1>9. ASSUME stale, ~ (deleted /\ recorded)
        PROVE  /\ l = d /\ f
    BY <1>9
  <1>10. ASSUME ~ (stale /\ ~ (deleted /\ recorded))
         PROVE  l = c
    BY <1>10
  <1>11. ASSUME stale
         PROVE  /\ Tidy(c) /\ Touches(cache, c, k) /\ SameMemory(cache, c) /\ SamePmem(cache, c)
                /\ c.disk_index[k] = None /\ c.block[k] = (IF deleted THEN None ELSE cache.block[k])
                /\ c.ssd_bytes <= cache.ssd_bytes
                /\ InMemory(cache, k) \/ InPmem(cache, k) => c.meta[k] = cache.meta[k]
                /\ ~ (InMemory(cache, k) \/ InPmem(cache, k)) => c.meta[k] = {}
                /\ c.expiry[k] \in {cache.expiry[k], "none"}
    <2>1. c = ForgetMetadataUnlessResident(u, k) BY <1>11
    <2> HIDE DEF d
    <2>2. /\ Tidy(u) /\ Touches(d, u, k) /\ SameMemory(d, u) /\ SamePmem(d, u)
          /\ SameMetadata(d, u) /\ u.block = d.block /\ u.disk_index[k] = None
      BY <1>1, <1>7, IndexRemoveTidy DEF d
    <2>3. u.ssd_bytes = Monus(d.ssd_bytes, IndexedLen(d, k))
      <3>1. d \in Inner BY <1>7 DEF Tidy
      <3> QED BY <1>1, <3>1, IndexRemoveFields DEF d
    <2> HIDE DEF u
    <2>4. /\ Tidy(c) /\ Touches(u, c, k) /\ SameMemory(u, c) /\ SamePmem(u, c) /\ SameSsd(u, c)
          /\ InSomeTier(u, k) => c = u
          /\ ~ InSomeTier(u, k) => c.meta[k] = {} /\ c.expiry[k] = "none"
      BY <1>1, <2>1, <2>2, ForgetTidy
    <2>5. InSomeTier(u, k) <=> InMemory(cache, k) \/ InPmem(cache, k)
      BY <1>7, <2>2 DEF InSomeTier, InMemory, InPmem, Indexed, SameMemory, SamePmem
    <2> HIDE DEF c
    <2>6. Touches(cache, c, k)
      <3>1. Touches(cache, u, k) BY <1>1, <1>7, <2>2, TouchesTwice
      <3> QED BY <1>1, <2>4, <3>1, TouchesTwice
    <2>7. c.ssd_bytes <= cache.ssd_bytes
      <3>1. cache.ssd_bytes \in Nat /\ IndexedLen(d, k) \in Nat
        BY <1>1, <1>7, Lengths DEF Tidy, Inner
      <3>2. c.ssd_bytes = Monus(cache.ssd_bytes, IndexedLen(d, k))
        BY <1>7, <2>3, <2>4 DEF SameIndex, SameSsd
      <3> QED BY <3>1, <3>2, MonusFacts
    <2>8. SameMemory(cache, c) /\ SamePmem(cache, c)
      BY <1>7, <2>2, <2>4 DEF SameMemory, SamePmem
    <2>9. c.disk_index[k] = None /\ c.block[k] = (IF deleted THEN None ELSE cache.block[k])
      BY <1>7, <2>2, <2>4 DEF SameSsd, SameIndex
    <2>10. /\ InMemory(cache, k) \/ InPmem(cache, k) => c.meta[k] = cache.meta[k]
           /\ ~ (InMemory(cache, k) \/ InPmem(cache, k)) => c.meta[k] = {}
           /\ c.expiry[k] \in {cache.expiry[k], "none"}
      BY <1>7, <2>2, <2>4, <2>5 DEF SameMetadata
    <2> QED BY <2>4, <2>6, <2>7, <2>8, <2>9, <2>10
  <1>12. ASSUME ~ stale
         PROVE  /\ Tidy(c) /\ Touches(cache, c, k) /\ SameMemory(cache, c) /\ SamePmem(cache, c)
                /\ SameSsd(cache, c)
                /\ InSomeTier(cache, k) => c.meta[k] = cache.meta[k]
                /\ ~ InSomeTier(cache, k) => c.meta[k] = {}
                /\ c.expiry[k] \in {cache.expiry[k], "none"}
    <2>1. c = ForgetMetadataUnlessResident(cache, k) BY <1>12
    <2> HIDE DEF c
    <2> QED BY <1>1, <2>1, ForgetTidy
  <1>13. /\ Tidy(l) /\ Touches(cache, l, k) /\ SameMemory(cache, l) /\ SamePmem(cache, l)
         /\ l.ssd_bytes <= cache.ssd_bytes
         /\ l.expiry[k] \in {cache.expiry[k], "none"}
         /\ \/ /\ StaleBlock /\ ~ (deleted /\ recorded) /\ SameIndex(cache, l)
               /\ l.block[k] = IF deleted THEN None ELSE cache.block[k]
               /\ l.meta[k] = cache.meta[k]
            \/ /\ StaleBlock /\ deleted /\ recorded
               /\ l.disk_index[k] = None /\ l.block[k] = None
               /\ IF InMemory(cache, k) \/ InPmem(cache, k)
                  THEN l.meta[k] = cache.meta[k] ELSE l.meta[k] = {}
            \/ /\ ~ StaleBlock /\ SameSsd(cache, l)
               /\ IF InSomeTier(cache, k)
                  THEN l.meta[k] = cache.meta[k] ELSE l.meta[k] = {}
    <2>1. cache.ssd_bytes <= cache.ssd_bytes BY <1>1 DEF Inner
    <2>2. CASE stale /\ ~ (deleted /\ recorded)
      <3>1. l = d BY <1>9, <2>2
      <3> HIDE DEF l, d
      <3> QED BY <1>7, <1>8, <2>1, <2>2, <3>1 DEF SameMetadata, SameIndex
    <2>3. CASE stale /\ deleted /\ recorded
      <3>1. l = c BY <1>10, <2>3
      <3> HIDE DEF l, c
      <3> QED BY <1>8, <1>11, <2>3, <3>1
    <2>4. CASE ~ stale
      <3>1. l = c BY <1>10, <2>4
      <3> HIDE DEF l, c
      <3> QED BY <1>8, <1>12, <2>1, <2>4, <3>1 DEF SameSsd, SameIndex
    <2> QED BY <2>2, <2>3, <2>4
  <1> HIDE DEF l
  <1>14. life \in Lives /\ life # "lapsed" BY DEF Lives
  <1>15. \/ cache' = l
         \/ req.life # "default" /\ cache' = [l EXCEPT !.expiry[k] = life]
    BY <1>4 DEF l
  <1>16. f <=> (req.outcome = "err" \/ (StaleBlock /\ ~ (deleted /\ recorded))) BY <1>8
  <1> HIDE DEF f, life
  <1>17. CASE cache' = l
    BY <1>1, <1>2, <1>3, <1>5, <1>6, <1>13, <1>16, <1>17
  <1>18. CASE req.life # "default" /\ cache' = [l EXCEPT !.expiry[k] = life]
    <2>1. /\ Tidy(cache') /\ Touches(l, cache', k)
          /\ SameMemory(l, cache') /\ SamePmem(l, cache') /\ SameSsd(l, cache')
          /\ cache'.meta = l.meta /\ cache'.expiry[k] = life
      BY <1>1, <1>13, <1>14, <1>18, ExpiryTidy
    <2>2. Touches(cache, cache', k) BY <1>1, <1>13, <2>1, TouchesTwice
    <2>3. /\ SameMemory(cache, cache') /\ SamePmem(cache, cache')
          /\ cache'.ssd_bytes <= cache.ssd_bytes /\ cache'.expiry[k] # "lapsed"
      BY <1>13, <1>14, <2>1 DEF SameMemory, SamePmem, SameSsd, SameIndex
    <2>4. \/ /\ StaleBlock /\ ~ (deleted /\ recorded) /\ SameIndex(cache, cache')
             /\ cache'.block[k] = IF deleted THEN None ELSE cache.block[k]
             /\ cache'.meta[k] = cache.meta[k]
          \/ /\ StaleBlock /\ deleted /\ recorded
             /\ cache'.disk_index[k] = None /\ cache'.block[k] = None
             /\ IF InMemory(cache, k) \/ InPmem(cache, k)
                THEN cache'.meta[k] = cache.meta[k] ELSE cache'.meta[k] = {}
          \/ /\ ~ StaleBlock /\ SameSsd(cache, cache')
             /\ IF InSomeTier(cache, k)
                THEN cache'.meta[k] = cache.meta[k] ELSE cache'.meta[k] = {}
      BY <1>13, <2>1 DEF SameSsd, SameIndex
    <2> QED BY <1>1, <1>2, <1>3, <1>5, <1>6, <1>16, <1>18, <2>1, <2>2, <2>3, <2>4
  <1> QED BY <1>15, <1>17, <1>18

-----------------------------------------------------------------------------
(* What a call does when it takes the lock.                                *)

\* The call that takes the lock has `new` before it.
Begins(new) == Agenda(todo', req'.active) /\ OnStack(todo') = new

\* What a call leaves as it is when the lock is free.
LEMMA UnlockedFacts ==
    ASSUME Shape, Unlocked
    PROVE  /\ ~ req.active /\ OnStack(todo) = {} /\ req \in Request /\ Tidy(cache) /\ cache \in Inner
           /\ Agenda(todo, req.active) /\ req.active = FALSE
  <1>1. Agenda(todo, req.active) /\ todo = <<>> /\ req \in Request /\ Tidy(cache)
    BY DEF Shape, Unlocked
  <1>2. ~ req.active BY <1>1 DEF Agenda
  <1> QED BY <1>1, <1>2, EmptyStack, RequestFacts DEF Tidy

\* A stack of one step.
LEMMA FreshStep ==
    ASSUME NEW x \in Step, ~ NeedsPut(x)
    PROVE  Agenda(<<x>>, FALSE) /\ OnStack(<<x>>) = {x}
  BY OneStep DEF Agenda

\* The stack of reclaim_after_release.
LEMMA ReclaimStack ==
    LET m == [step |-> "EvictMemory"]
        p == [step |-> "EvictPmem"]
        s == [step |-> "EvictSsd", need |-> 0]
    IN Agenda(<<m, p, s>>, FALSE) /\ OnStack(<<m, p, s>>) = {m, p, s}
  <1> DEFINE m == [step |-> "EvictMemory"]
             p == [step |-> "EvictPmem"]
             s == [step |-> "EvictSsd", need |-> 0]
             t == <<m, p, s>>
  <1>1. m \in Step /\ p \in Step /\ s \in Step /\ ~ NeedsPut(m) /\ ~ NeedsPut(p) /\ ~ NeedsPut(s)
    BY DEF Step, NeedsPut, PutSteps
  <1>2. /\ p.step \in Below(m.step) /\ s.step \in Below(p.step) /\ p.step # "EvictSsd"
    BY DEF Below, Rest
  <1> HIDE DEF m, p, s
  <1>3. t \in Seq(Step) /\ Len(t) = 3 /\ t[1] = m /\ t[2] = p /\ t[3] = s BY <1>1
  <1> HIDE DEF t
  <1>4. OnStack(t) = {t[i] : i \in {1, 2, 3}} BY <1>3 DEF OnStack
  <1>5. OnStack(t) = {m, p, s} BY <1>3, <1>4
  <1>6. Stacked(t)
    <2>1. \A i \in 1 .. Len(t) : i > 1 => (i = 2 /\ i - 1 = 1) \/ (i = 3 /\ i - 1 = 2) BY <1>3
    <2> QED BY <1>2, <1>3, <2>1 DEF Stacked
  <1> QED BY <1>1, <1>5, <1>6 DEF Agenda, t, m, p, s

\* The stack of a put.
LEMMA PutStack ==
    LET t == <<[step |-> "Sweep"], [step |-> "PutMemory"], [step |-> "PutPmemPart"],
               [step |-> "PutSsd"], [step |-> "PutFinish"]>>
    IN /\ Agenda(t, TRUE) /\ t # <<>>
       /\ OnStack(t) = {[step |-> "Sweep"], [step |-> "PutMemory"], [step |-> "PutPmemPart"],
                        [step |-> "PutSsd"], [step |-> "PutFinish"]}
  <1> DEFINE a == [step |-> "Sweep"]
             b == [step |-> "PutMemory"]
             c == [step |-> "PutPmemPart"]
             d == [step |-> "PutSsd"]
             e == [step |-> "PutFinish"]
             t == <<a, b, c, d, e>>
  <1>1. a \in Step /\ b \in Step /\ c \in Step /\ d \in Step /\ e \in Step
    BY DEF Step
  <1>2. /\ b.step \in Below(a.step) /\ c.step \in Below(b.step) /\ d.step \in Below(c.step)
        /\ e.step \in Below(d.step) /\ e.step = "PutFinish"
        /\ "EvictSsd" \notin {b.step, c.step, d.step, e.step}
    BY DEF Below
  <1> HIDE DEF a, b, c, d, e
  <1>3. /\ t \in Seq(Step) /\ Len(t) = 5
        /\ t[1] = a /\ t[2] = b /\ t[3] = c /\ t[4] = d /\ t[5] = e
    BY <1>1
  <1> HIDE DEF t
  <1>4. OnStack(t) = {t[i] : i \in {1, 2, 3, 4, 5}} BY <1>3 DEF OnStack
  <1>5. OnStack(t) = {a, b, c, d, e} BY <1>3, <1>4
  <1>6. Stacked(t)
    <2>1. \A i \in 1 .. Len(t) : i > 1 => \/ (i = 2 /\ i - 1 = 1) \/ (i = 3 /\ i - 1 = 2)
                                         \/ (i = 4 /\ i - 1 = 3) \/ (i = 5 /\ i - 1 = 4)
      BY <1>3
    <2> QED BY <1>2, <1>3, <2>1 DEF Stacked
  <1>8. t # <<>> BY <1>3
  <1>9. Agenda(t, TRUE) BY <1>2, <1>3, <1>6, <1>8 DEF Agenda
  <1> QED BY <1>5, <1>8, <1>9 DEF t, a, b, c, d, e

-----------------------------------------------------------------------------
(* What the reads do.                                                      *)

\* What reader r keeps.
LEMMA ReaderFacts ==
    ASSUME reader \in [Readers -> ReaderState], NEW r \in Readers
    PROVE  /\ reader[r] \in ReaderState
           /\ reader[r].at \in {"idle", "ssd", "refill", "promote", "expired"}
           /\ reader[r].at # "idle" => reader[r].key \in Keys
           /\ reader[r].at \in {"refill", "promote"} => reader[r].val \in Values
  BY DEF ReaderState

\* The return of a read.
LEMMA DoneEffect ==
    ASSUME Shape, NEW r \in Readers, Done(r)
    PROVE  /\ reader' \in [Readers -> ReaderState] /\ seen' \in [Readers -> SUBSET Values]
           /\ reader'[r].at = "idle"
           /\ \A q \in Readers \ {r} : reader'[q] = reader[q] /\ seen'[q] = seen[q]
  <1>1. reader \in [Readers -> ReaderState] /\ seen \in [Readers -> SUBSET Values] BY DEF Shape
  <1>2. IdleReader \in ReaderState /\ IdleReader.at = "idle" BY DEF IdleReader, ReaderState
  <1> QED BY <1>1, <1>2 DEF Done

\* The first section of a read.
LEMMA StartGetEffect ==
    ASSUME Shape, NEW r \in Readers, NEW k \in Keys, StartGet(r, k)
    PROVE  /\ UNCHANGED <<cache, pins, reclaims, todo, req, allowed>>
           /\ reader' \in [Readers -> ReaderState] /\ seen' \in [Readers -> SUBSET Values]
           /\ seen'[r] = allowed[k] /\ reader'[r].key = k
           /\ \A q \in Readers \ {r} : reader'[q] = reader[q] /\ seen'[q] = seen[q]
           /\ \/ reader'[r].at = "expired" /\ Expired(cache, k)
              \/ /\ reader'[r].at = "promote" /\ ~ Expired(cache, k)
                 /\ reader'[r].val = cache.pmem[k] /\ cache.pmem[k] \in Values
              \/ reader'[r].at = "ssd" /\ ~ Expired(cache, k)
  <1>1. /\ reader \in [Readers -> ReaderState] /\ seen \in [Readers -> SUBSET Values]
        /\ allowed \in [Keys -> SUBSET Values] /\ cache \in Inner
    BY DEF Shape, Tidy
  <1>2. cache.pmem[k] \in Values \cup {None} BY <1>1 DEF Inner
  <1>3. PICK n : /\ reader' = [reader EXCEPT ![r] = n]
                 /\ \/ n = [at |-> "expired", key |-> k] /\ Expired(cache, k)
                    \/ /\ n = [at |-> "promote", key |-> k, val |-> cache.pmem[k]]
                       /\ ~ Expired(cache, k) /\ cache.pmem[k] # None
                    \/ n = [at |-> "ssd", key |-> k] /\ ~ Expired(cache, k)
    BY DEF StartGet, InPmem, InMemory
  <1>4. n \in ReaderState /\ n.key = k BY <1>2, <1>3 DEF ReaderState
  <1>5. seen' = [seen EXCEPT ![r] = allowed[k]] BY DEF StartGet
  <1>6. UNCHANGED <<cache, pins, reclaims, todo, req, allowed>> BY DEF StartGet
  <1>7. reader' \in [Readers -> ReaderState] /\ reader'[r] = n
        /\ \A q \in Readers \ {r} : reader'[q] = reader[q]
    BY <1>1, <1>3, <1>4
  <1>8. seen' \in [Readers -> SUBSET Values] /\ seen'[r] = allowed[k]
        /\ \A q \in Readers \ {r} : seen'[q] = seen[q]
    BY <1>1, <1>5
  <1> QED BY <1>2, <1>3, <1>4, <1>6, <1>7, <1>8

\* A read that noticed an expired entry comes back to remove it.
LEMMA RemoveExpiredEffect ==
    ASSUME Shape, NEW r \in Readers, RemoveExpired(r)
    PROVE  /\ Unlocked /\ Done(r) /\ UNCHANGED <<pins, reclaims, todo, req, allowed>>
           /\ reader[r].key \in Keys /\ reader[r].at = "expired"
           /\ \/ cache' = cache
              \/ /\ Expired(cache, reader[r].key)
                 /\ \E ok \in Ok("ssdDelete") : Removed(reader[r].key, ok)
  <1>1. Tidy(cache) /\ reader \in [Readers -> ReaderState] BY DEF Shape
  <1>2. Done(r) /\ UNCHANGED <<pins, reclaims, todo, req, allowed>> /\ reader[r].at = "expired"
        /\ Unlocked
    BY DEF RemoveExpired
  <1>3. reader[r].key \in Keys BY <1>1, <1>2, ReaderFacts
  <1>4. \/ cache' = cache
        \/ /\ Expired(cache, reader[r].key)
           /\ \E ok \in Ok("ssdDelete") : cache' = RemoveExpiredEntry(cache, reader[r].key, ok)
    BY DEF RemoveExpired
  <1>5. ASSUME NEW ok \in Ok("ssdDelete"), cache' = RemoveExpiredEntry(cache, reader[r].key, ok)
        PROVE  Removed(reader[r].key, ok)
    <2>1. ok \in BOOLEAN BY Answers
    <2> QED BY <1>1, <1>3, <1>5, <2>1, RemoveExpiredEntryTidy DEF Removed
  <1> QED BY <1>2, <1>3, <1>4, <1>5

\* The second section of a read that missed.
LEMMA ReadSsdEffect ==
    ASSUME Shape, NEW r \in Readers, ReadSsd(r)
    PROVE  /\ Unlocked /\ UNCHANGED <<pins, reclaims, todo, req, allowed>>
           /\ reader[r].key \in Keys /\ reader[r].at = "ssd"
           /\ \/ Done(r) /\ cache' = cache
              \/ /\ UNCHANGED seen /\ reader' \in [Readers -> ReaderState]
                 /\ reader'[r].at = "refill" /\ reader'[r].key = reader[r].key
                 /\ reader'[r].val = cache.block[reader[r].key] /\ reader'[r].val \in Values
                 /\ \A q \in Readers \ {r} : reader'[q] = reader[q]
                 /\ Tidy(cache') /\ SameSettings(cache, cache') /\ SameEntries(cache, cache')
                 /\ \A q \in Readers \ {r} : cache'.changed[q] = cache.changed[q]
  <1> DEFINE k == reader[r].key
             v == cache.block[k]
             ks == IF InMemory(cache, k) \/ InPmem(cache, k) THEN Keys ELSE {}
  <1>1. Tidy(cache) /\ reader \in [Readers -> ReaderState] /\ cache \in Inner BY DEF Shape, Tidy
  <1>2. UNCHANGED <<pins, reclaims, todo, req, allowed>> /\ reader[r].at = "ssd" /\ Unlocked
    BY DEF ReadSsd
  <1>3. k \in Keys /\ v \in Values \cup {None} BY <1>1, <1>2, ReaderFacts DEF Inner
  <1>4. \/ Done(r) /\ cache' = cache
        \/ /\ v # None /\ UNCHANGED seen
           /\ reader' = [reader EXCEPT ![r] = [at |-> "refill", key |-> k, val |-> v]]
           /\ cache' = [cache EXCEPT !.changed[r] = ks]
    BY DEF ReadSsd, CaptureProbe
  <1>5. CASE Done(r) /\ cache' = cache
    BY <1>2, <1>3, <1>5
  <1>6. CASE /\ v # None /\ UNCHANGED seen
             /\ reader' = [reader EXCEPT ![r] = [at |-> "refill", key |-> k, val |-> v]]
             /\ cache' = [cache EXCEPT !.changed[r] = ks]
    <2>1. v \in Values /\ ks \in SUBSET Keys BY <1>3, <1>6
    <2>2. /\ Tidy(cache') /\ SameSettings(cache, cache') /\ SameEntries(cache, cache')
          /\ cache'.changed = [cache.changed EXCEPT ![r] = ks]
      <3> HIDE DEF ks
      <3> QED BY <1>1, <1>6, <2>1, ProbeTidy
    <2>3. \A q \in Readers \ {r} : cache'.changed[q] = cache.changed[q]
      <3>1. cache.changed \in [Readers -> SUBSET Keys] BY <1>1 DEF Inner
      <3> QED BY <2>2, <3>1
    <2> DEFINE n == [at |-> "refill", key |-> k, val |-> v]
    <2>4. n \in ReaderState /\ n.at = "refill" /\ n.key = k /\ n.val = v
      BY <1>3, <2>1 DEF ReaderState
    <2>5. /\ reader' \in [Readers -> ReaderState] /\ reader'[r] = n
          /\ \A q \in Readers \ {r} : reader'[q] = reader[q]
      <3> HIDE DEF n
      <3> QED BY <1>1, <1>6, <2>4 DEF n
    <2> QED BY <1>2, <1>3, <1>6, <2>1, <2>2, <2>3, <2>4, <2>5
  <1> QED BY <1>4, <1>5, <1>6

\* When a read may install what it brought: the cache is the one it looked at,
\* as far as the key is concerned.
Refilling(r) ==
    LET k == reader[r].key
    IN /\ cache.started /\ ~ cache.ssd_only
       /\ ~ InMemory(cache, k) /\ ~ InPmem(cache, k) /\ ~ Expired(cache, k)
       /\ k \notin cache.changed[r]

\* The last section of an SSD hit: the value goes to memory, to PMEM or nowhere.
LEMMA FinishSsdEffect ==
    ASSUME Shape, NEW r \in Readers, FinishSsd(r)
    PROVE  LET k == reader[r].key
               v == reader[r].val
           IN /\ Unlocked /\ Done(r) /\ UNCHANGED <<pins, reclaims, req, allowed>>
              /\ k \in Keys /\ v \in Values /\ reader[r].at = "refill"
              /\ Tidy(cache') /\ Touches(cache, cache', k)
              /\ SamePmem(cache, cache') /\ SameSsd(cache, cache') /\ cache'.expiry = cache.expiry
              /\ cache.meta[k] # {} => cache'.meta[k] # {}
              /\ \/ SameMemory(cache, cache') /\ todo' = todo
                 \/ /\ Refilling(r) /\ cache.memory_capacity > 0
                    /\ cache'.memory[k] = v /\ cache'.meta[k] # {}
                    /\ Begins({[step |-> "EvictMemory"]})
                 \/ /\ Refilling(r) /\ SameMemory(cache, cache') /\ cache'.meta[k] # {}
                    /\ Begins({[step |-> "PutPmem", key |-> k, val |-> v, fallback |-> FALSE]})
  <1> DEFINE k == reader[r].key
             v == reader[r].val
             hit == DropProbe(RecordHit(cache, k), r)
             e == [step |-> "EvictMemory"]
             p == [step |-> "PutPmem", key |-> k, val |-> v, fallback |-> FALSE]
             placed == MakeResident(hit, k, v)
             spare == [placed EXCEPT !.changed = hit.changed]
  <1>1. Tidy(cache) /\ reader \in [Readers -> ReaderState] /\ req \in Request BY DEF Shape
  <1>2. /\ Unlocked /\ Done(r) /\ UNCHANGED <<pins, reclaims, req, allowed>>
        /\ reader[r].at = "refill"
    BY DEF FinishSsd
  <1>3. k \in Keys /\ v \in Values BY <1>1, <1>2, ReaderFacts
  <1>4. /\ Tidy(hit) /\ Touches(cache, hit, k)
        /\ SameMemory(cache, hit) /\ SamePmem(cache, hit) /\ SameSsd(cache, hit)
        /\ hit.meta[k] # {} /\ hit.expiry = cache.expiry
    BY <1>1, <1>3, HitTidy
  <1>5. todo = <<>> /\ req' = req /\ req.active = FALSE
    BY <1>2, UnlockedFacts DEF Unlocked
  <1>6. \/ cache' = hit /\ todo' = todo
        \/ cache' = DropProbe(cache, r) /\ todo' = todo
        \/ \E current \in ProbeAnswers(cache, r, k) :
             /\ MayRefill(hit, k, current)
             /\ \/ cache' = placed /\ todo' = <<e>> /\ cache.memory_capacity > 0
                \/ cache' = spare /\ todo' = <<e>> /\ cache.memory_capacity > 0
                \/ cache' = hit /\ todo' = <<p>>
    <2>1. CASE cache.ssd_only BY <2>1 DEF FinishSsd
    <2>2. CASE ~ cache.ssd_only
      <3>1. PICK current \in ProbeAnswers(cache, r, k), admitted \in MemoryAdmits(cache, k, v) :
              LET refill == IF MayRefill(hit, k, current) THEN Refill(hit, k, v, admitted)
                            ELSE [cache |-> hit, steps |-> <<>>]
              IN cache' = refill.cache /\ todo' = refill.steps
        BY <2>2 DEF FinishSsd
      <3>2. CASE ~ MayRefill(hit, k, current) BY <1>5, <3>1, <3>2
      <3>3. CASE MayRefill(hit, k, current)
        <4>1. cache' = Refill(hit, k, v, admitted).cache /\ todo' = Refill(hit, k, v, admitted).steps
          BY <3>1, <3>3
        <4>2. admitted => cache.memory_capacity > 0
          <5>1. MemoryAdmits(cache, k, v) \subseteq BOOLEAN /\ cache \in Inner
            BY <1>1 DEF MemoryAdmits, Tidy
          <5> QED BY <3>1, <5>1, Admitting
        <4> HIDE DEF hit, k, v
        <4> QED BY <1>5, <3>3, <4>1, <4>2 DEF Refill
      <3> QED BY <3>2, <3>3
    <2> QED BY <2>1, <2>2
  <1>7. CASE cache' = hit /\ todo' = todo
    <2> HIDE DEF hit
    <2> QED BY <1>2, <1>3, <1>4, <1>7
  <1>8. CASE cache' = DropProbe(cache, r) /\ todo' = todo
    <2>1. Tidy(cache') /\ SameEntries(cache, cache') /\ Touches(cache, cache', k)
      BY <1>1, <1>3, <1>8, DropProbeTidy
    <2> QED BY <1>2, <1>3, <1>8, <2>1 DEF SameEntries, SameMetadata
  <1>9. ASSUME NEW current \in ProbeAnswers(cache, r, k), MayRefill(hit, k, current)
        PROVE  Refilling(r)
    <2>1. k \notin cache.changed[r] BY <1>9 DEF ProbeAnswers, MayRefill
    <2>2. /\ hit.started = cache.started /\ hit.ssd_only = cache.ssd_only
          /\ hit.memory = cache.memory /\ hit.pmem = cache.pmem /\ hit.expiry = cache.expiry
      BY <1>4 DEF Touches, SameSettings, SameMemory, SamePmem
    <2> HIDE DEF hit
    <2> QED BY <1>9, <2>1, <2>2 DEF MayRefill, Refilling, InMemory, InPmem, Expired
  <1>10. /\ Tidy(placed) /\ Touches(hit, placed, k) /\ SamePmem(hit, placed) /\ SameSsd(hit, placed)
         /\ placed.expiry = hit.expiry /\ placed.memory[k] = v
         /\ (placed.meta[k] = {} <=> hit.meta[k] = {})
    BY <1>3, <1>4, MakeResidentTidy
  <1>11. /\ Tidy(spare) /\ Touches(hit, spare, k) /\ SamePmem(hit, spare) /\ SameSsd(hit, spare)
         /\ spare.expiry = hit.expiry /\ spare.memory[k] = v
         /\ (spare.meta[k] = {} <=> hit.meta[k] = {})
    BY <1>3, <1>4, SpareTidy
  <1>12. e \in Step /\ p \in Step /\ ~ NeedsPut(e) /\ ~ NeedsPut(p)
    BY <1>3 DEF Step, NeedsPut, PutSteps
  <1> HIDE DEF e, p, placed, spare, hit
  <1>13. ASSUME Refilling(r), cache' \in {placed, spare}, todo' = <<e>>
         PROVE  /\ Tidy(cache') /\ Touches(cache, cache', k)
                /\ SamePmem(cache, cache') /\ SameSsd(cache, cache') /\ cache'.expiry = cache.expiry
                /\ cache'.memory[k] = v /\ cache'.meta[k] # {} /\ Begins({e})
    <2>1. /\ Tidy(cache') /\ Touches(hit, cache', k) /\ SamePmem(hit, cache') /\ SameSsd(hit, cache')
          /\ cache'.expiry = hit.expiry /\ cache'.memory[k] = v
          /\ (cache'.meta[k] = {} <=> hit.meta[k] = {})
      BY <1>10, <1>11, <1>13
    <2>2. Touches(cache, cache', k) BY <1>3, <1>4, <2>1, TouchesTwice
    <2>3. SamePmem(cache, cache') /\ SameSsd(cache, cache')
      BY <1>4, <2>1 DEF SamePmem, SameSsd, SameIndex
    <2>4. Begins({e}) BY <1>5, <1>12, <1>13, FreshStep DEF Begins
    <2> QED BY <1>4, <2>1, <2>2, <2>3, <2>4
  <1>14. ASSUME Refilling(r), cache' = hit, todo' = <<p>>
         PROVE  Begins({p})
    BY <1>5, <1>12, <1>14, FreshStep DEF Begins
  <1>15. CASE \E current \in ProbeAnswers(cache, r, k) :
                /\ MayRefill(hit, k, current)
                /\ cache' \in {placed, spare} /\ todo' = <<e>> /\ cache.memory_capacity > 0
    BY <1>2, <1>3, <1>9, <1>13, <1>15 DEF e
  <1>16. CASE \E current \in ProbeAnswers(cache, r, k) :
                MayRefill(hit, k, current) /\ cache' = hit /\ todo' = <<p>>
    BY <1>2, <1>3, <1>4, <1>9, <1>14, <1>16 DEF p
  <1> QED BY <1>6, <1>7, <1>8, <1>15, <1>16

\* promote_pmem_probe_if_current
LEMMA PromoteEffect ==
    ASSUME Shape, NEW r \in Readers, Promote(r)
    PROVE  LET k == reader[r].key
               v == reader[r].val
           IN /\ Unlocked /\ Done(r) /\ UNCHANGED <<pins, reclaims, req, allowed>>
              /\ k \in Keys /\ v \in Values /\ reader[r].at = "promote"
              /\ Tidy(cache') /\ Touches(cache, cache', k)
              /\ SamePmem(cache, cache') /\ SameSsd(cache, cache') /\ cache'.expiry = cache.expiry
              /\ cache.meta[k] # {} => cache'.meta[k] # {}
              /\ \/ cache' = cache /\ todo' = todo
                 \/ SameMemory(cache, cache') /\ todo' = todo /\ InPmem(cache, k)
                 \/ /\ cache.started /\ ~ cache.ssd_only /\ cache.memory_capacity > 0
                    /\ cache.pmem[k] = v /\ ~ Expired(cache, k)
                    /\ cache'.memory[k] = v /\ cache'.meta[k] # {}
                    /\ Begins({[step |-> "EvictMemory"]})
  <1> DEFINE k == reader[r].key
             v == reader[r].val
             hit == RecordHit(cache, k)
             e == [step |-> "EvictMemory"]
             placed == MakeResident(hit, k, v)
  <1>1. Tidy(cache) /\ reader \in [Readers -> ReaderState] /\ req \in Request BY DEF Shape
  <1>2. /\ Unlocked /\ Done(r) /\ UNCHANGED <<pins, reclaims, req, allowed>>
        /\ reader[r].at = "promote"
    BY DEF Promote
  <1>3. k \in Keys /\ v \in Values BY <1>1, <1>2, ReaderFacts
  <1>4. /\ Tidy(hit) /\ Touches(cache, hit, k)
        /\ SameMemory(cache, hit) /\ SamePmem(cache, hit) /\ SameSsd(cache, hit)
        /\ hit.meta[k] # {} /\ hit.expiry = cache.expiry
    BY <1>1, <1>3, RecordHitTidy
  <1>5. todo = <<>> /\ req' = req /\ req.active = FALSE
    BY <1>2, UnlockedFacts DEF Unlocked
  <1>6. \/ cache' = cache /\ todo' = todo
        \/ /\ ~ cache.ssd_only /\ ~ Expired(cache, k) /\ cache.pmem[k] = v
           /\ \/ cache' = placed /\ todo' = <<e>> /\ cache.started /\ cache.memory_capacity > 0
              \/ cache' = hit /\ todo' = todo
    BY DEF Promote, PmemShouldRefillMemory
  <1>7. CASE cache' = cache /\ todo' = todo
    <2>1. /\ Touches(cache, cache', k) /\ SamePmem(cache, cache') /\ SameSsd(cache, cache')
      BY <1>7 DEF Touches, SameSettings, SameEntry, NotesBlocks, SamePmem, SameSsd, SameIndex
    <2> QED BY <1>1, <1>2, <1>3, <1>7, <2>1
  <1>10. /\ Tidy(placed) /\ Touches(hit, placed, k) /\ SamePmem(hit, placed) /\ SameSsd(hit, placed)
         /\ placed.expiry = hit.expiry /\ placed.memory[k] = v
         /\ (placed.meta[k] = {} <=> hit.meta[k] = {})
    BY <1>3, <1>4, MakeResidentTidy
  <1>11. e \in Step /\ ~ NeedsPut(e) BY DEF Step, NeedsPut, PutSteps
  <1> HIDE DEF e, placed, hit
  <1>12. CASE /\ ~ cache.ssd_only /\ ~ Expired(cache, k) /\ cache.pmem[k] = v
              /\ cache' = hit /\ todo' = todo
    <2>1. InPmem(cache, k) BY <1>3, <1>12, InnerAssumption DEF InPmem
    <2> QED BY <1>2, <1>3, <1>4, <1>12, <2>1
  <1>13. CASE /\ ~ cache.ssd_only /\ ~ Expired(cache, k) /\ cache.pmem[k] = v
              /\ cache' = placed /\ todo' = <<e>> /\ cache.started /\ cache.memory_capacity > 0
    <2>2. Touches(cache, cache', k) BY <1>3, <1>4, <1>10, <1>13, TouchesTwice
    <2>3. SamePmem(cache, cache') /\ SameSsd(cache, cache')
      BY <1>4, <1>10, <1>13 DEF SamePmem, SameSsd, SameIndex
    <2>4. Begins({e}) BY <1>5, <1>11, <1>13, FreshStep DEF Begins
    <2> QED BY <1>2, <1>3, <1>4, <1>10, <1>13, <2>2, <2>3, <2>4 DEF e
  <1> QED BY <1>6, <1>7, <1>12, <1>13

-----------------------------------------------------------------------------
(* What the writes do.                                                     *)

\* The placement policy answers yes or no for each tier.
LEMMA DecideAnswers ==
    ASSUME NEW c \in Inner, NEW v \in Values, NEW heat, NEW pinned
    PROVE  LET d == Decide(c, v, heat, pinned)
           IN d.memory \in BOOLEAN /\ d.pmem \in BOOLEAN /\ d.ssd \in BOOLEAN
  <1>1. (c.ssd_capacity > 0) \in BOOLEAN OBVIOUS
  <1> QED BY <1>1 DEF Decide

\* put takes the lock.
LEMMA PutStartEffect ==
    ASSUME Shape, NEW k \in Keys, NEW v \in Values, NEW heat, NEW life \in Lifetimes,
           PutStart(k, v, heat, life)
    PROVE  /\ Unlocked /\ UNCHANGED <<cache, pins, reclaims, reader, allowed, seen>>
           /\ cache.started
           /\ req' \in Request /\ req'.active /\ req'.key = k /\ req'.val = v /\ req'.life = life
           /\ req'.fallback = FALSE /\ req'.outcome = "none"
           /\ cache.ssd_only => ~ req'.memory /\ ~ req'.pmem
           /\ life # "default" => "ttl" \in Calls
           /\ Begins({[step |-> "Sweep"], [step |-> "PutMemory"], [step |-> "PutPmemPart"],
                      [step |-> "PutSsd"], [step |-> "PutFinish"]})
           /\ todo' # <<>>
  <1> DEFINE d == Decide(cache, v, heat, Pinned(k))
             m == d.memory /\ ~ cache.ssd_only
             p == d.pmem /\ ~ cache.ssd_only
             s == (cache.ssd_capacity > 0 \/ cache.ssd_only)
                     /\ (d.ssd \/ WriteThrough \/ cache.ssd_only)
  <1>1. /\ Unlocked /\ UNCHANGED <<cache, pins, reclaims, reader, allowed, seen>> /\ cache.started
        /\ life # "default" => "ttl" \in Calls
    BY DEF PutStart
  <1>2. /\ todo' = <<[step |-> "Sweep"], [step |-> "PutMemory"], [step |-> "PutPmemPart"],
                     [step |-> "PutSsd"], [step |-> "PutFinish"]>>
        /\ req' = [active |-> TRUE, key |-> k, val |-> v, life |-> life,
                   memory |-> m, pmem |-> p, ssd |-> s, fallback |-> FALSE, outcome |-> "none"]
    BY DEF PutStart
  <1>3. cache \in Inner BY DEF Shape, Tidy
  <1>4. m \in BOOLEAN /\ p \in BOOLEAN /\ s \in BOOLEAN OBVIOUS
  <1>5. cache.ssd_only => ~ m /\ ~ p OBVIOUS
  <1> HIDE DEF m, p, s, d
  <1>6. /\ req' \in Request /\ req'.active = TRUE /\ req'.key = k /\ req'.val = v /\ req'.life = life
        /\ req'.fallback = FALSE /\ req'.outcome = "none" /\ req'.memory = m /\ req'.pmem = p
    BY <1>2, <1>4 DEF Request, Outcomes
  <1>7. todo' # <<>> BY <1>2
  <1>8. Begins({[step |-> "Sweep"], [step |-> "PutMemory"], [step |-> "PutPmemPart"],
                [step |-> "PutSsd"], [step |-> "PutFinish"]})
    BY <1>2, <1>6, PutStack DEF Begins
  <1> QED BY <1>1, <1>5, <1>6, <1>7, <1>8

\* put_memory_only
LEMMA PutMemoryOnlyEffect ==
    ASSUME Shape, NEW k \in Keys, NEW v \in Values, PutMemoryOnly(k, v)
    PROVE  /\ Unlocked /\ "memoryOnly" \in Calls /\ cache.started
           /\ UNCHANGED <<pins, reclaims, req, reader>>
           /\ Allowing(k, allowed[k] \cup {v})
           /\ Tidy(cache') /\ Touches(cache, cache', k)
           /\ SamePmem(cache, cache') /\ SameSsd(cache, cache')
           /\ cache'.meta[k] # {} /\ Restarted(k)
           /\ \/ /\ cache'.memory[k] = v /\ Begins({[step |-> "EvictMemory"]})
                 /\ cache.memory_capacity > 0
              \/ SameMemory(cache, cache') /\ todo' = todo
  <1> DEFINE c == RecordMetadata(cache, k)
             m == MakeResident(c, k, v)
             e == [step |-> "EvictMemory"]
  <1>1. /\ Tidy(cache) /\ allowed \in [Keys -> SUBSET Values] /\ seen \in [Readers -> SUBSET Values]
        /\ req \in Request
    BY DEF Shape
  <1>2. /\ Unlocked /\ "memoryOnly" \in Calls /\ cache.started
        /\ UNCHANGED <<pins, reclaims, req, reader>>
        /\ Allow(k, allowed[k] \cup {v})
    BY DEF PutMemoryOnly
  <1>3. Allowing(k, allowed[k] \cup {v}) BY <1>1, <1>2, AllowEffect
  <1>4. /\ Tidy(c) /\ Touches(cache, c, k)
        /\ SameMemory(cache, c) /\ SamePmem(cache, c) /\ SameSsd(cache, c)
        /\ c.meta[k] # {}
        /\ cache.meta[k] # {} => c.expiry[k] # "lapsed"
        /\ c.expiry[k] \in {cache.expiry[k], IF cache.default_ttl THEN "live" ELSE "none"}
    BY <1>1, RecordMetadataTidy
  <1>5. /\ Tidy(m) /\ Touches(c, m, k) /\ SamePmem(c, m) /\ SameSsd(c, m) /\ m.expiry = c.expiry
        /\ m.memory[k] = v /\ (m.meta[k] = {} <=> c.meta[k] = {})
    BY <1>1, <1>4, MakeResidentTidy
  <1>6. \/ cache' = m /\ todo' = <<e>> /\ cache.memory_capacity > 0
        \/ cache' = c /\ todo' = todo
    <2>1. PICK admitted \in MemoryAdmits(c, k, v) :
            IF admitted THEN cache' = m /\ todo' = <<e>> ELSE cache' = c /\ todo' = todo
      BY DEF PutMemoryOnly
    <2>2. MemoryAdmits(c, k, v) \subseteq BOOLEAN /\ c \in Inner BY <1>4 DEF MemoryAdmits, Tidy
    <2>3. c.memory_capacity = cache.memory_capacity BY <1>4 DEF Touches, SameSettings
    <2> HIDE DEF c, m
    <2> QED BY <2>1, <2>2, <2>3, Admitting
  <1>7. req.active = FALSE BY <1>2, UnlockedFacts
  <1>8. e \in Step /\ ~ NeedsPut(e) BY DEF Step, NeedsPut, PutSteps
  <1> HIDE DEF c, m, e
  <1>9. CASE cache' = m /\ todo' = <<e>> /\ cache.memory_capacity > 0
    <2>1. Begins({e}) BY <1>2, <1>7, <1>8, <1>9, FreshStep DEF Begins
    <2>2. Touches(cache, m, k) BY <1>4, <1>5, TouchesTwice
    <2>3. SamePmem(cache, m) /\ SameSsd(cache, m) BY <1>4, <1>5 DEF SamePmem, SameSsd, SameIndex
    <2>4. Restarted(k) BY <1>4, <1>5, <1>9 DEF Restarted
    <2> QED BY <1>2, <1>3, <1>4, <1>5, <1>9, <2>1, <2>2, <2>3, <2>4 DEF e
  <1>10. CASE cache' = c /\ todo' = todo
    BY <1>2, <1>3, <1>4, <1>10 DEF Restarted
  <1> QED BY <1>6, <1>9, <1>10

\* What a removal of k does to the pins: those of k all stay or all go.
Unpinning(k, len) ==
    /\ pins' \in [Keys -> 0 .. MaxPins]
    /\ \A x \in Keys \ {k} : pins'[x] = pins[x]
    /\ pins'[k] = IF len > 0 THEN pins[k] ELSE 0

\* UnpinUnless is such a removal.
LEMMA UnpinEffect ==
    ASSUME pins \in [Keys -> 0 .. MaxPins], NEW k \in Keys, NEW len \in Nat, UnpinUnless(len > 0, k)
    PROVE  Unpinning(k, len)
  <1>1. MaxPins \in Nat BY CacheAssumption
  <1> QED BY <1>1 DEF UnpinUnless, Unpinning

\* invalidate_memory_only
LEMMA DropVolatileEffect ==
    ASSUME Shape, NEW k \in Keys, DropVolatile(k)
    PROVE  /\ Unlocked /\ "memoryOnly" \in Calls
           /\ UNCHANGED <<reclaims, todo, req, reader, allowed, seen>>
           /\ Unpinning(k, LenOf(cache.memory[k]) + LenOf(cache.pmem[k]))
           /\ Tidy(cache') /\ Touches(cache, cache', k)
           /\ SameSsd(cache, cache') /\ cache'.expiry = cache.expiry
           /\ cache'.memory[k] = None /\ cache'.pmem[k] = None
           /\ cache'.meta[k] = {} <=> cache.meta[k] = {}
           /\ cache'.memory_bytes <= cache.memory_bytes /\ cache'.pmem_bytes <= cache.pmem_bytes
  <1> DEFINE len == LenOf(cache.memory[k]) + LenOf(cache.pmem[k])
  <1>1. Tidy(cache) /\ cache \in Inner /\ pins \in [Keys -> 0 .. MaxPins] BY DEF Shape, Tidy
  <1>2. /\ Unlocked /\ "memoryOnly" \in Calls
        /\ UNCHANGED <<reclaims, todo, req, reader, allowed, seen>>
        /\ UnpinUnless(len > 0, k) /\ cache' = InvalidateMemoryOnly(cache, k)
    BY DEF DropVolatile
  <1>3. len \in Nat BY <1>1, Lengths
  <1> HIDE DEF len
  <1>4. Unpinning(k, len) BY <1>1, <1>2, <1>3, UnpinEffect
  <1> QED BY <1>1, <1>2, <1>4, InvalidateMemoryOnlyTidy DEF len

\* invalidate
LEMMA InvalidateEffect ==
    ASSUME Shape, NEW k \in Keys, Invalidate(k)
    PROVE  /\ Unlocked /\ "invalidate" \in Calls /\ cache.started
           /\ UNCHANGED <<reclaims, todo, req, reader>> /\ Allowing(k, {})
           /\ Unpinning(k, LenOf(cache.memory[k]) + LenOf(cache.pmem[k]) + IndexedLen(cache, k))
           /\ \E ok \in Ok("ssdDelete") : Removed(k, ok)
  <1> DEFINE len == LenOf(cache.memory[k]) + LenOf(cache.pmem[k]) + IndexedLen(cache, k)
  <1>1. /\ Tidy(cache) /\ cache \in Inner /\ pins \in [Keys -> 0 .. MaxPins]
        /\ seen \in [Readers -> SUBSET Values]
    BY DEF Shape, Tidy
  <1>2. /\ Unlocked /\ "invalidate" \in Calls /\ cache.started
        /\ UNCHANGED <<reclaims, todo, req, reader>> /\ Allow(k, {}) /\ UnpinUnless(len > 0, k)
    BY DEF Invalidate
  <1>3. len \in Nat BY <1>1, Lengths
  <1> HIDE DEF len
  <1>4. Unpinning(k, len) BY <1>1, <1>2, <1>3, UnpinEffect
  <1>5. Allowing(k, {}) BY <1>1, <1>2, AllowEffect
  <1>6. PICK ok \in Ok("ssdDelete") : cache' = InvalidateKey(cache, k, ok) BY DEF Invalidate
  <1>7. ok \in BOOLEAN BY Answers
  <1>8. Removed(k, ok) BY <1>1, <1>6, <1>7, InvalidateKeyTidy DEF Removed
  <1> QED BY <1>2, <1>4, <1>5, <1>8 DEF len

\* remove_all and reset, and the half of them a failing PMEM wipe leaves.
LEMMA ClearEffect ==
    ASSUME Shape, Clear
    PROVE  /\ Unlocked /\ "clear" \in Calls /\ UNCHANGED <<reclaims, todo, req, reader, seen>>
           /\ pins' \in [Keys -> 0 .. MaxPins] /\ Tidy(cache') /\ SameSettings(cache, cache')
           /\ \A r \in Readers : cache'.changed[r] = Keys
           /\ \/ \E ok \in Ok("ssdDelete") :
                   /\ NothingIn(cache')
                   /\ \A k \in Keys : cache'.block[k] = IF ok THEN None ELSE cache.block[k]
                   /\ allowed' = IF ok THEN [k \in Keys |-> {}] ELSE allowed
              \/ /\ PmemPaths /\ "pmemClear" \in Faults
                 /\ pins' = pins /\ allowed' = allowed
                 /\ SameSsd(cache, cache') /\ cache'.expiry = cache.expiry
                 /\ \A k \in Keys : cache'.memory[k] = None /\ cache'.pmem[k] = None
  <1>1. Tidy(cache) /\ cache \in Inner /\ pins \in [Keys -> 0 .. MaxPins] BY DEF Shape, Tidy
  <1>2. Unlocked /\ "clear" \in Calls /\ UNCHANGED <<reclaims, todo, req, reader, seen>>
    BY DEF Clear
  <1>3. PICK wiped \in IF PmemPaths THEN Ok("pmemClear") ELSE {TRUE}, ok \in Ok("ssdDelete") :
           /\ cache' = IF wiped THEN ClearAll(cache, ok) ELSE HalfCleared(cache)
           /\ pins' = IF wiped THEN [k \in Keys |-> 0] ELSE pins
           /\ allowed' = IF wiped /\ ok THEN [k \in Keys |-> {}] ELSE allowed
    BY DEF Clear
  <1>4. ok \in BOOLEAN /\ wiped \in BOOLEAN BY Answers
  <1>5. CASE wiped
    <2>1. cache' = ClearAll(cache, ok) /\ pins' = [k \in Keys |-> 0]
          /\ allowed' = IF ok THEN [k \in Keys |-> {}] ELSE allowed
      BY <1>3, <1>5
    <2>2. /\ cache' \in Inner /\ SameSettings(cache, cache') /\ NothingIn(cache')
          /\ \A k \in Keys : cache'.block[k] = IF ok THEN None ELSE cache.block[k]
      BY <1>1, <1>4, <2>1, ClearAllFields
    <2>3. Tidy(cache') BY <2>2, NothingTidy
    <2>4. pins' \in [Keys -> 0 .. MaxPins]
      <3>1. MaxPins \in Nat BY CacheAssumption
      <3> QED BY <2>1, <3>1
    <2>5. \A r \in Readers : cache'.changed[r] = Keys BY <2>2 DEF NothingIn
    <2> QED BY <1>2, <2>1, <2>2, <2>3, <2>4, <2>5
  <1>6. CASE ~ wiped
    <2>1. cache' = HalfCleared(cache) /\ pins' = pins /\ allowed' = allowed
      BY <1>3, <1>6
    <2>2. PmemPaths /\ "pmemClear" \in Faults BY <1>3, <1>6 DEF Ok
    <2>3. /\ SameSettings(cache, cache') /\ SameSsd(cache, cache') /\ cache'.expiry = cache.expiry
          /\ \A k \in Keys : cache'.memory[k] = None /\ cache'.pmem[k] = None
          /\ \A r \in Readers : cache'.changed[r] = Keys
      BY <1>1, <2>1, HalfClearedFields
    <2>4. Tidy(cache') BY <1>1, <2>1, ClearedTidy
    <2> QED BY <1>1, <1>2, <2>1, <2>2, <2>3, <2>4
  <1> QED BY <1>4, <1>5, <1>6

-----------------------------------------------------------------------------
(* What the calls that manage the cache do.                                *)

\* set_capacity_for_tier: one capacity changes and its tier is evicted down
\* to it.
LEMMA CapacityEffect ==
    ASSUME Shape,
           \/ \E n \in MemoryCapacities : SetMemoryCapacity(n)
           \/ \E n \in PmemCapacities : SetPmemCapacity(n)
           \/ \E n \in SsdCapacities : SetSsdCapacity(n)
    PROVE  /\ Unlocked /\ "capacity" \in Calls
           /\ UNCHANGED <<pins, reclaims, req, reader, allowed, seen>>
           /\ Tidy(cache') /\ SameEntries(cache, cache') /\ cache'.changed = cache.changed
           /\ cache'.started = cache.started /\ cache'.ssd_only = cache.ssd_only
           /\ cache'.default_ttl = cache.default_ttl
           /\ \/ /\ cache'.memory_capacity \in MemoryCapacities /\ Begins({[step |-> "EvictMemory"]})
                 /\ cache'.pmem_capacity = cache.pmem_capacity
                 /\ cache'.ssd_capacity = cache.ssd_capacity
              \/ /\ cache'.pmem_capacity \in PmemCapacities /\ Begins({[step |-> "EvictPmem"]})
                 /\ cache'.memory_capacity = cache.memory_capacity
                 /\ cache'.ssd_capacity = cache.ssd_capacity
              \/ /\ Begins({[step |-> "EvictSsd", need |-> 0]})
                 /\ cache'.memory_capacity = cache.memory_capacity
                 /\ cache'.pmem_capacity = cache.pmem_capacity
  <1>1. Tidy(cache) /\ cache \in Inner BY DEF Shape, Tidy
  <1>2. /\ Unlocked /\ "capacity" \in Calls
        /\ UNCHANGED <<pins, reclaims, req, reader, allowed, seen>>
    BY DEF SetMemoryCapacity, SetPmemCapacity, SetSsdCapacity
  <1>3. req' = req /\ req.active = FALSE BY <1>2, UnlockedFacts
  <1>4. MemoryCapacities \subseteq Nat /\ PmemCapacities \subseteq Nat /\ SsdCapacities \subseteq Nat
    BY CacheAssumption
  <1>5. CASE \E n \in MemoryCapacities : SetMemoryCapacity(n)
    <2>1. PICK n \in MemoryCapacities : SetMemoryCapacity(n) BY <1>5
    <2>2. cache' = [cache EXCEPT !.memory_capacity = n] /\ todo' = <<[step |-> "EvictMemory"]>>
      BY <2>1 DEF SetMemoryCapacity
    <2>3. Tidy(cache') /\ SameEntries(cache, cache') /\ cache'.changed = cache.changed
      BY <1>1, <1>4, <2>2, SettingsTidy
    <2>4. /\ cache'.started = cache.started /\ cache'.ssd_only = cache.ssd_only
          /\ cache'.default_ttl = cache.default_ttl /\ cache'.memory_capacity = n
          /\ cache'.pmem_capacity = cache.pmem_capacity /\ cache'.ssd_capacity = cache.ssd_capacity
      BY <1>1, <2>2 DEF Inner
    <2>5. [step |-> "EvictMemory"] \in Step /\ ~ NeedsPut([step |-> "EvictMemory"])
      BY DEF Step, NeedsPut, PutSteps
    <2>6. Begins({[step |-> "EvictMemory"]}) BY <1>3, <2>2, <2>5, FreshStep DEF Begins
    <2> QED BY <1>2, <2>3, <2>4, <2>6
  <1>6. CASE \E n \in PmemCapacities : SetPmemCapacity(n)
    <2>1. PICK n \in PmemCapacities : SetPmemCapacity(n) BY <1>6
    <2>2. cache' = [cache EXCEPT !.pmem_capacity = n] /\ todo' = <<[step |-> "EvictPmem"]>>
      BY <2>1 DEF SetPmemCapacity
    <2>3. Tidy(cache') /\ SameEntries(cache, cache') /\ cache'.changed = cache.changed
      BY <1>1, <1>4, <2>2, SettingsTidy
    <2>4. /\ cache'.started = cache.started /\ cache'.ssd_only = cache.ssd_only
          /\ cache'.default_ttl = cache.default_ttl /\ cache'.pmem_capacity = n
          /\ cache'.memory_capacity = cache.memory_capacity /\ cache'.ssd_capacity = cache.ssd_capacity
      BY <1>1, <2>2 DEF Inner
    <2>5. [step |-> "EvictPmem"] \in Step /\ ~ NeedsPut([step |-> "EvictPmem"])
      BY DEF Step, NeedsPut, PutSteps
    <2>6. Begins({[step |-> "EvictPmem"]}) BY <1>3, <2>2, <2>5, FreshStep DEF Begins
    <2> QED BY <1>2, <2>3, <2>4, <2>6
  <1>7. CASE \E n \in SsdCapacities : SetSsdCapacity(n)
    <2>1. PICK n \in SsdCapacities : SetSsdCapacity(n) BY <1>7
    <2>2. cache' = [cache EXCEPT !.ssd_capacity = n] /\ todo' = <<[step |-> "EvictSsd", need |-> 0]>>
      BY <2>1 DEF SetSsdCapacity
    <2>3. Tidy(cache') /\ SameEntries(cache, cache') /\ cache'.changed = cache.changed
      BY <1>1, <1>4, <2>2, SettingsTidy
    <2>4. /\ cache'.started = cache.started /\ cache'.ssd_only = cache.ssd_only
          /\ cache'.default_ttl = cache.default_ttl /\ cache'.ssd_capacity = n
          /\ cache'.memory_capacity = cache.memory_capacity /\ cache'.pmem_capacity = cache.pmem_capacity
      BY <1>1, <2>2 DEF Inner
    <2>5. /\ [step |-> "EvictSsd", need |-> 0] \in Step
          /\ ~ NeedsPut([step |-> "EvictSsd", need |-> 0])
      BY DEF Step, NeedsPut, PutSteps
    <2>6. Begins({[step |-> "EvictSsd", need |-> 0]}) BY <1>3, <2>2, <2>5, FreshStep DEF Begins
    <2> QED BY <1>2, <2>3, <2>4, <2>6
  <1> QED BY <1>5, <1>6, <1>7

\* set_ssd_instance_only: on its way in the volatile tiers are emptied.
LEMMA SetSsdOnlyEffect ==
    ASSUME Shape, NEW b \in BOOLEAN, SetSsdOnly(b)
    PROVE  /\ Unlocked /\ "ssdOnly" \in Calls
           /\ UNCHANGED <<pins, reclaims, todo, req, reader, allowed, seen>>
           /\ Tidy(cache') /\ SameSsd(cache, cache') /\ cache'.expiry = cache.expiry
           /\ cache'.ssd_only = b /\ cache'.started = cache.started
           /\ cache'.default_ttl = cache.default_ttl
           /\ cache'.memory_capacity = cache.memory_capacity
           /\ cache'.pmem_capacity = cache.pmem_capacity /\ cache'.ssd_capacity = cache.ssd_capacity
           /\ \A k \in Keys : cache'.meta[k] = {} <=> cache.meta[k] = {}
           /\ \/ b = FALSE /\ SameEntries(cache, cache') /\ cache'.changed = cache.changed
              \/ /\ b = TRUE /\ cache'.memory_bytes = 0 /\ cache'.pmem_bytes = 0
                 /\ \A k \in Keys : cache'.memory[k] = None /\ cache'.pmem[k] = None
                 /\ \A r \in Readers : cache'.changed[r] = Keys
  <1> DEFINE c == IF b THEN ClearVolatile(cache) ELSE cache
  <1>1. Tidy(cache) /\ cache \in Inner BY DEF Shape, Tidy
  <1>2. /\ Unlocked /\ "ssdOnly" \in Calls
        /\ UNCHANGED <<pins, reclaims, todo, req, reader, allowed, seen>>
        /\ cache' = [c EXCEPT !.ssd_only = b]
    BY DEF SetSsdOnly
  <1>3. Tidy(c) /\ c \in Inner BY <1>1, ClearedTidy DEF Tidy
  <1>4. /\ SameSettings(cache, c) /\ SameSsd(cache, c) /\ c.expiry = cache.expiry
        /\ \A k \in Keys : c.meta[k] = {} <=> cache.meta[k] = {}
        /\ \/ b = FALSE /\ c = cache
           \/ /\ b = TRUE /\ c.memory_bytes = 0 /\ c.pmem_bytes = 0
              /\ \A k \in Keys : c.memory[k] = None /\ c.pmem[k] = None
              /\ \A r \in Readers : c.changed[r] = Keys
    <2>1. CASE b BY <1>1, <2>1, ClearVolatileFields
    <2>2. CASE ~ b BY <2>2 DEF SameSettings, SameSsd, SameIndex
    <2> QED BY <2>1, <2>2
  <1> HIDE DEF c
  <1>5. Tidy(cache') /\ SameEntries(c, cache') /\ cache'.changed = c.changed
    <2>1. 0 \in Nat OBVIOUS
    <2> QED BY <1>2, <1>3, <2>1, SettingsTidy
  <1>6. /\ cache'.ssd_only = b /\ cache'.started = c.started /\ cache'.default_ttl = c.default_ttl
        /\ cache'.memory_capacity = c.memory_capacity
        /\ cache'.pmem_capacity = c.pmem_capacity /\ cache'.ssd_capacity = c.ssd_capacity
    BY <1>2, <1>3 DEF Inner
  <1>7. SameSsd(cache, cache') /\ cache'.expiry = cache.expiry
    BY <1>4, <1>5 DEF SameEntries, SameSsd, SameIndex, SameMetadata
  <1>8. /\ cache'.memory = c.memory /\ cache'.pmem = c.pmem /\ cache'.meta = c.meta
        /\ cache'.memory_bytes = c.memory_bytes /\ cache'.pmem_bytes = c.pmem_bytes
    BY <1>5 DEF SameEntries, SameMemory, SamePmem, SameMetadata
  <1> QED BY <1>2, <1>4, <1>5, <1>6, <1>7, <1>8 DEF SameSettings

\* start, stop and set_default_ttl.
LEMMA SwitchEffect ==
    ASSUME Shape, NEW b \in BOOLEAN, SetStarted(b) \/ SetDefaultTtl(b)
    PROVE  /\ Unlocked /\ UNCHANGED <<pins, reclaims, todo, req, reader, allowed, seen>>
           /\ Tidy(cache') /\ SameEntries(cache, cache') /\ cache'.changed = cache.changed
           /\ cache'.ssd_only = cache.ssd_only /\ cache'.memory_capacity = cache.memory_capacity
           /\ cache'.pmem_capacity = cache.pmem_capacity /\ cache'.ssd_capacity = cache.ssd_capacity
           /\ \/ "stop" \in Calls /\ cache'.default_ttl = cache.default_ttl
              \/ "ttl" \in Calls /\ cache'.started = cache.started
  <1>1. Tidy(cache) /\ cache \in Inner BY DEF Shape, Tidy
  <1>2. /\ Unlocked /\ UNCHANGED <<pins, reclaims, todo, req, reader, allowed, seen>>
        /\ \/ "stop" \in Calls /\ cache' = [cache EXCEPT !.started = b]
           \/ "ttl" \in Calls /\ cache' = [cache EXCEPT !.default_ttl = b]
    BY DEF SetStarted, SetDefaultTtl
  <1>3. Tidy(cache') /\ SameEntries(cache, cache') /\ cache'.changed = cache.changed
    <2>1. 0 \in Nat OBVIOUS
    <2>2. CASE cache' = [cache EXCEPT !.started = b] BY <1>1, <2>1, <2>2, SettingsTidy
    <2>3. CASE cache' = [cache EXCEPT !.default_ttl = b] BY <1>1, <2>1, <2>3, SettingsTidy
    <2> QED BY <1>2, <2>2, <2>3
  <1>4. /\ cache'.ssd_only = cache.ssd_only /\ cache'.memory_capacity = cache.memory_capacity
        /\ cache'.pmem_capacity = cache.pmem_capacity /\ cache'.ssd_capacity = cache.ssd_capacity
        /\ \/ "stop" \in Calls /\ cache'.default_ttl = cache.default_ttl
           \/ "ttl" \in Calls /\ cache'.started = cache.started
    BY <1>1, <1>2 DEF Inner
  <1> QED BY <1>2, <1>3, <1>4

\* pin, acquire, and unpin, release.
LEMMA PinEffect ==
    ASSUME Shape, NEW k \in Keys, Pin(k) \/ Unpin(k)
    PROVE  /\ Unlocked /\ "pin" \in Calls /\ UNCHANGED <<cache, todo, req, reader, allowed, seen>>
           /\ pins' \in [Keys -> 0 .. MaxPins] /\ reclaims' \in 0 .. MaxPins
           /\ \A x \in Keys \ {k} : pins'[x] = pins[x]
           /\ \/ pins'[k] = pins[k] + 1 /\ reclaims' = reclaims
              \/ /\ pins[k] > 0
                 /\ reclaims' = IF OverMemory \/ OverPmem \/ OverSsd THEN reclaims + 1 ELSE reclaims
  <1>1. pins \in [Keys -> 0 .. MaxPins] /\ reclaims \in 0 .. MaxPins /\ MaxPins \in Nat
    BY CacheAssumption DEF Shape
  <1>2. CASE Pin(k)
    <2>1. pins[k] < MaxPins /\ pins' = [pins EXCEPT ![k] = pins[k] + 1] BY <1>2 DEF Pin
    <2>2. pins[k] + 1 \in 0 .. MaxPins BY <1>1, <2>1
    <2> QED BY <1>1, <1>2, <2>1, <2>2 DEF Pin
  <1>3. CASE Unpin(k)
    <2>1. /\ pins[k] > 0 /\ reclaims < MaxPins /\ pins' = [pins EXCEPT ![k] = pins[k] - 1]
          /\ reclaims' = IF OverMemory \/ OverPmem \/ OverSsd THEN reclaims + 1 ELSE reclaims
      BY <1>3 DEF Unpin
    <2>2. pins[k] - 1 \in 0 .. MaxPins /\ reclaims' \in 0 .. MaxPins BY <1>1, <2>1
    <2> QED BY <1>1, <1>3, <2>1, <2>2 DEF Unpin
  <1> QED BY <1>2, <1>3

\* reclaim_after_release
LEMMA ReclaimEffect ==
    ASSUME Shape, Reclaim
    PROVE  /\ Unlocked /\ UNCHANGED <<cache, pins, req, reader, allowed, seen>>
           /\ reclaims' \in 0 .. MaxPins
           /\ Begins({[step |-> "EvictMemory"], [step |-> "EvictPmem"],
                      [step |-> "EvictSsd", need |-> 0]})
  <1>1. reclaims \in 0 .. MaxPins /\ MaxPins \in Nat BY CacheAssumption DEF Shape
  <1>2. /\ Unlocked /\ UNCHANGED <<cache, pins, req, reader, allowed, seen>>
        /\ reclaims > 0 /\ reclaims' = reclaims - 1
        /\ todo' = <<[step |-> "EvictMemory"], [step |-> "EvictPmem"],
                     [step |-> "EvictSsd", need |-> 0]>>
    BY DEF Reclaim
  <1>3. reclaims' \in 0 .. MaxPins BY <1>1, <1>2
  <1>4. req' = req /\ req.active = FALSE BY <1>2, UnlockedFacts
  <1> QED BY <1>2, <1>3, <1>4, ReclaimStack DEF Begins

\* The clock passes an entry's expiry.
LEMMA LapseEffect ==
    ASSUME Shape, NEW k \in Keys, Lapse(k)
    PROVE  /\ Unlocked /\ UNCHANGED <<pins, reclaims, todo, req, reader>> /\ Allowing(k, {})
           /\ Tidy(cache') /\ Touches(cache, cache', k)
           /\ SameMemory(cache, cache') /\ SamePmem(cache, cache') /\ SameSsd(cache, cache')
           /\ cache'.meta = cache.meta
           /\ cache.expiry[k] = "live" /\ cache'.expiry[k] = "lapsed"
  <1>1. Tidy(cache) /\ seen \in [Readers -> SUBSET Values] BY DEF Shape
  <1>2. /\ Unlocked /\ UNCHANGED <<pins, reclaims, todo, req, reader>> /\ Allow(k, {})
        /\ cache.expiry[k] = "live" /\ cache' = [cache EXCEPT !.expiry[k] = "lapsed"]
    BY DEF Lapse
  <1>3. Allowing(k, {}) BY <1>1, <1>2, AllowEffect
  <1>4. "lapsed" \in Lives BY DEF Lives
  <1> QED BY <1>1, <1>2, <1>3, <1>4, ExpiryTidy

\* purge_expired takes the lock.
LEMMA PurgeStartEffect ==
    ASSUME Shape, PurgeStart
    PROVE  /\ Unlocked /\ UNCHANGED <<cache, pins, reclaims, req, reader, allowed, seen>>
           /\ Begins({[step |-> "Purge"]})
  <1>1. /\ Unlocked /\ UNCHANGED <<cache, pins, reclaims, req, reader, allowed, seen>>
        /\ todo' = <<[step |-> "Purge"]>>
    BY DEF PurgeStart
  <1>2. [step |-> "Purge"] \in Step /\ ~ NeedsPut([step |-> "Purge"]) BY DEF Step, NeedsPut, PutSteps
  <1>3. req' = req /\ req.active = FALSE BY <1>1, UnlockedFacts
  <1> QED BY <1>1, <1>2, <1>3, FreshStep DEF Begins

-----------------------------------------------------------------------------
(* The shape is an invariant.                                              *)

\* What is left for later foresees nothing the step on top can upset, except
\* that an SSD write waits for the eviction that makes room for it.
LEMMA Unaffected ==
    ASSUME Shape, NEW step, Doing(step), step # "EvictSsd", NEW x \in OnStack(Tail(todo))
    PROVE  x.step \notin {"PutPmem", "WriteBypass"} /\ Foreseen(x)'
  BY TopFacts DEF Foreseen

\* A step of the lock holder keeps the shape if it leaves the cache tidy and
\* whatever it puts on the stack is foreseen.
LEMMA ShapeKept ==
    ASSUME Shape, Still, Tidy(cache'), req' \in Request, NEW new, Becomes(new),
           NEW step, Doing(step), step # "EvictSsd", \A x \in new : Foreseen(x)'
    PROVE  Shape'
  <1>1. \A x \in OnStack(Tail(todo)) : Foreseen(x)' BY Unaffected
  <1> QED BY <1>1 DEF Shape, Still, Becomes

\* The same for a round that will be followed by another.
LEMMA ShapeRepeats ==
    ASSUME Shape, Still, Tidy(cache'), req' = req, todo' = todo,
           \A x \in OnStack(todo) : Foreseen(x)'
    PROVE  Shape'
  BY DEF Shape, Still

\* Every step of the lock holder keeps the shape: eviction, demotion, the
\* parts of a put and the sweeps.
LEMMA ShapeLockHolder ==
    ASSUME Shape, LockHolder
    PROVE  Shape'
  <1>0. Tidy(cache) /\ req \in Request BY DEF Shape
  <1>1. CASE EvictMemory
    <2>1. Doing("EvictMemory") /\ todo[1].step = "EvictMemory"
      BY <1>1, TopFacts DEF EvictMemory
    <2>2. Still /\ req' = req BY <1>1, EvictMemoryEffect
    <2>3. CASE cache' = cache /\ Becomes({}) BY <1>0, <2>1, <2>2, <2>3, ShapeKept
    <2>4. CASE ~ (cache' = cache /\ Becomes({}))
      <3>1. PICK k \in Keys :
              /\ Tidy(cache')
              /\ \/ todo' = todo
                 \/ /\ cache.memory[k] \in Values
                    /\ \E again \in {{}, {todo[1]}} :
                          Becomes({[step |-> "DemoteMemory", key |-> k, val |-> cache.memory[k]],
                                   [step |-> "Forget", key |-> k]} \cup again)
        BY <1>1, <2>4, EvictMemoryEffect
      <3>2. CASE todo' = todo
        <4>1. \A x \in OnStack(todo) : Foreseen(x)'
          <5>1. \A x \in {todo[1]} : Foreseen(x)' BY <2>1 DEF Foreseen
          <5> QED BY <2>1, <5>1, TopFacts, Unaffected
        <4> QED BY <2>2, <3>1, <3>2, <4>1, ShapeRepeats
      <3>3. CASE ~ (todo' = todo)
        <4>1. PICK again \in {{}, {todo[1]}} :
                 Becomes({[step |-> "DemoteMemory", key |-> k, val |-> cache.memory[k]],
                          [step |-> "Forget", key |-> k]} \cup again)
          BY <3>1, <3>3
        <4> DEFINE new == {[step |-> "DemoteMemory", key |-> k, val |-> cache.memory[k]],
                           [step |-> "Forget", key |-> k]} \cup again
        <4>2. \A x \in new : Foreseen(x)' BY <2>1 DEF Foreseen
        <4> HIDE DEF new
        <4>3. Becomes(new) BY <4>1 DEF new
        <4> QED BY <1>0, <2>1, <2>2, <3>1, <4>2, <4>3, ShapeKept
      <3> QED BY <3>2, <3>3
    <2> QED BY <2>3, <2>4
  <1>2. CASE DemoteMemory
    <2>1. Doing("DemoteMemory") BY <1>2 DEF DemoteMemory
    <2>2. /\ Still /\ req' = req /\ cache' = cache
          /\ \E new : /\ Becomes(new) /\ \A x \in new : Foreseen(x)'
      <3> DEFINE x == todo[1]
                 p == [step |-> "PutPmem", key |-> x.key, val |-> x.val, fallback |-> FALSE]
                 s == [step |-> "SsdBypass", key |-> x.key, val |-> x.val]
      <3>1. /\ Still /\ req' = req /\ cache' = cache
            /\ \/ Becomes({}) \/ (~ InPmem(cache, x.key) /\ Becomes({p})) \/ Becomes({s})
        BY <1>2, DemoteMemoryEffect
      <3>2. ~ InPmem(cache, x.key) => \A y \in {p} : Foreseen(y)' BY <3>1 DEF Foreseen
      <3>3. \A y \in {s} : Foreseen(y)' BY DEF Foreseen
      <3> HIDE DEF p, s
      <3> QED BY <3>1, <3>2, <3>3
    <2> QED BY <1>0, <2>1, <2>2, ShapeKept
  <1>3. CASE PutPmem
    <2>1. Doing("PutPmem") BY <1>3 DEF PutPmem
    <2>2. /\ Still /\ Tidy(cache') /\ req' \in Request
          /\ \E new \in {{}, {[step |-> "EvictPmem"]}} : Becomes(new)
      BY <1>3, PutPmemEffect
    <2>3. Foreseen([step |-> "EvictPmem"])' BY DEF Foreseen
    <2> QED BY <2>1, <2>2, <2>3, ShapeKept
  <1>4. CASE EvictPmem
    <2>1. Doing("EvictPmem") /\ todo[1].step = "EvictPmem"
      BY <1>4, TopFacts DEF EvictPmem
    <2>2. Still /\ req' = req BY <1>4, EvictPmemEffect
    <2>3. CASE cache' = cache /\ Becomes({}) BY <1>0, <2>1, <2>2, <2>3, ShapeKept
    <2>4. CASE ~ (cache' = cache /\ Becomes({}))
      <3>1. PICK k \in Keys :
              /\ Tidy(cache')
              /\ \/ todo' = todo
                 \/ /\ cache.pmem[k] \in Values
                    /\ \E down \in {{}, {[step |-> "SsdBypass", key |-> k, val |-> cache.pmem[k]]}},
                          again \in {{}, {todo[1]}} :
                          Becomes(down \cup {[step |-> "Forget", key |-> k]} \cup again)
        BY <1>4, <2>4, EvictPmemEffect
      <3>2. CASE todo' = todo
        <4>1. \A x \in OnStack(todo) : Foreseen(x)'
          <5>1. \A x \in {todo[1]} : Foreseen(x)' BY <2>1 DEF Foreseen
          <5> QED BY <2>1, <5>1, TopFacts, Unaffected
        <4> QED BY <2>2, <3>1, <3>2, <4>1, ShapeRepeats
      <3>3. CASE ~ (todo' = todo)
        <4>1. PICK down \in {{}, {[step |-> "SsdBypass", key |-> k, val |-> cache.pmem[k]]}},
                   again \in {{}, {todo[1]}} :
                 Becomes(down \cup {[step |-> "Forget", key |-> k]} \cup again)
          BY <3>1, <3>3
        <4> DEFINE new == down \cup {[step |-> "Forget", key |-> k]} \cup again
        <4>2. \A x \in new : Foreseen(x)' BY <2>1 DEF Foreseen
        <4> HIDE DEF new
        <4>3. Becomes(new) BY <4>1 DEF new
        <4> QED BY <1>0, <2>1, <2>2, <3>1, <4>2, <4>3, ShapeKept
      <3> QED BY <3>2, <3>3
    <2> QED BY <2>3, <2>4
  <1>5. CASE Forget
    <2>1. Doing("Forget") BY <1>5 DEF Forget
    <2>2. Still /\ req' = req /\ Tidy(cache') /\ Becomes({}) BY <1>5, ForgetEffect
    <2> QED BY <1>0, <2>1, <2>2, ShapeKept
  <1>6. CASE SsdBypass
    <2>1. Doing("SsdBypass") BY <1>6 DEF SsdBypass
    <2>2. /\ Still /\ req' = req /\ cache' = cache
          /\ \E new : /\ Becomes(new) /\ \A x \in new : Foreseen(x)'
      <3> DEFINE x == todo[1]
                 e == [step |-> "EvictSsd", need |-> BlockLen[x.val]]
                 w == [step |-> "WriteBypass", key |-> x.key, val |-> x.val]
      <3>1. /\ Still /\ req' = req /\ cache' = cache
            /\ \/ Becomes({}) \/ (~ Indexed(cache, x.key) /\ Becomes({e, w}))
        BY <1>6, SsdBypassEffect
      <3>2. ~ Indexed(cache, x.key) => \A y \in {w} : Foreseen(y)' BY <3>1 DEF Foreseen
      <3>3. \A y \in {e} : Foreseen(y)' BY DEF Foreseen
      <3> HIDE DEF e, w
      <3> QED BY <3>1, <3>2, <3>3
    <2> QED BY <1>0, <2>1, <2>2, ShapeKept
  <1>7. CASE EvictSsd
    <2>1. Doing("EvictSsd") /\ todo[1].step = "EvictSsd" BY <1>7, TopFacts DEF EvictSsd
    <2>2. Still /\ req' = req /\ Tidy(cache')
          /\ (Becomes({}) \/ todo' = todo)
          /\ \A x \in Keys : cache'.disk_index[x] = cache.disk_index[x] \/ cache'.disk_index[x] = None
      BY <1>0, <1>7, EvictSsdEffect DEF Touches, SameEntry
    <2>3. \A x \in OnStack(todo) : Foreseen(x)'
      <3>1. \A x \in OnStack(Tail(todo)) : x \in Step /\ x.step # "PutPmem" /\ Foreseen(x)
        <4>1. Agenda(todo, req.active) /\ todo # <<>> BY <2>1, TopFacts
        <4>2. OnStack(todo) \subseteq Step /\ OnStack(todo) = {todo[1]} \cup OnStack(Tail(todo))
          BY <4>1, UnderTheTop DEF Agenda
        <4> QED BY <2>1, <4>2, TopFacts DEF Shape
      <3>2. ASSUME NEW x \in OnStack(Tail(todo)) PROVE Foreseen(x)'
        <4>1. x.step = "WriteBypass" => x.key \in Keys BY <3>1, StepFacts DEF Carrying
        <4> QED BY <2>2, <3>1, <4>1 DEF Foreseen, Indexed
      <3>3. \A x \in {todo[1]} : Foreseen(x)' BY <2>1 DEF Foreseen
      <3> QED BY <2>1, <3>2, <3>3, TopFacts
    <2>4. CASE todo' = todo BY <2>2, <2>3, <2>4, ShapeRepeats
    <2>5. CASE Becomes({})
      <3>1. OnStack(Tail(todo)) \subseteq OnStack(todo) BY <2>1, TopFacts
      <3> QED BY <1>0, <2>2, <2>3, <2>5, <3>1 DEF Shape, Still, Becomes
    <2> QED BY <2>2, <2>4, <2>5
  <1>8. CASE WriteBypass
    <2>1. Doing("WriteBypass") BY <1>8 DEF WriteBypass
    <2>2. Still /\ req' = req /\ Tidy(cache') /\ Becomes({}) BY <1>0, <1>8, WriteBypassEffect
    <2> QED BY <1>0, <2>1, <2>2, ShapeKept
  <1>9. CASE Sweep \/ Purge
    <2>1. \E step \in {"Sweep", "Purge"} : Doing(step) BY <1>9 DEF Sweep, Purge
    <2>2. PICK step \in {"Sweep", "Purge"} : Doing(step) /\ todo[1].step = step BY <2>1, TopFacts
    <2>3. /\ Still /\ req' = req /\ Tidy(cache') /\ (Becomes({}) \/ todo' = todo)
      BY <1>0, <1>9, SweepEffect DEF Removed
    <2>4. CASE todo' = todo
      <3>1. \A x \in {todo[1]} : Foreseen(x)' BY <2>2 DEF Foreseen
      <3>2. \A x \in OnStack(todo) : Foreseen(x)' BY <2>2, <3>1, TopFacts, Unaffected
      <3> QED BY <2>3, <2>4, <3>2, ShapeRepeats
    <2>5. CASE Becomes({}) BY <1>0, <2>2, <2>3, <2>5, ShapeKept
    <2> QED BY <2>3, <2>4, <2>5
  <1>10. CASE PutMemory
    <2>1. Doing("PutMemory") BY <1>10 DEF PutMemory
    <2> DEFINE p == [step |-> "PutPmem", key |-> req.key, val |-> req.val, fallback |-> TRUE]
               e == [step |-> "EvictMemory"]
    <2>2. /\ Still /\ req' = req /\ Tidy(cache') /\ req.active
          /\ Becomes({}) \/ Becomes({e}) \/ Becomes({p})
      BY <1>10, PutMemoryEffect
    <2>3. \A y \in {e, p} : Foreseen(y)' BY <2>2 DEF Foreseen
    <2> HIDE DEF e, p
    <2>4. PICK new \in {{}, {e}, {p}} : Becomes(new) BY <2>2
    <2> QED BY <1>0, <2>1, <2>2, <2>3, <2>4, ShapeKept
  <1>11. CASE PutPmemPart
    <2>1. Doing("PutPmemPart") BY <1>11 DEF PutPmemPart
    <2> DEFINE p == [step |-> "PutPmem", key |-> req.key, val |-> req.val, fallback |-> FALSE]
    <2>2. /\ Still /\ req' \in Request /\ req'.active /\ SameCall(req') /\ Tidy(cache')
          /\ Becomes({}) \/ Becomes({p})
      BY <1>0, <1>11, PutPmemPartEffect
    <2>3. \A y \in {p} : Foreseen(y)' BY <2>2 DEF Foreseen, SameCall
    <2> HIDE DEF p
    <2>4. PICK new \in {{}, {p}} : Becomes(new) BY <2>2
    <2> QED BY <1>0, <2>1, <2>2, <2>3, <2>4, ShapeKept
  <1>12. CASE PutSsd
    <2>1. Doing("PutSsd") BY <1>12 DEF PutSsd
    <2> DEFINE m == [step |-> "MakeRoom", before |-> None]
               w == [step |-> "WriteSsd"]
    <2>2. /\ Still /\ req' \in Request /\ cache' = cache /\ (Becomes({}) \/ Becomes({m, w}))
      BY <1>12, PutSsdEffect
    <2>3. \A y \in {m, w} : Foreseen(y)' BY DEF Foreseen
    <2> HIDE DEF m, w
    <2>4. PICK new \in {{}, {m, w}} : Becomes(new) BY <2>2
    <2> QED BY <1>0, <2>1, <2>2, <2>3, <2>4, ShapeKept
  <1>13. CASE MakeRoom
    <2>1. Doing("MakeRoom") BY <1>13 DEF MakeRoom
    <2>2. Still /\ req' \in Request /\ cache' = cache BY <1>13, MakeRoomEffect
    <2>3. CASE Becomes({}) BY <1>0, <2>1, <2>2, <2>3, ShapeKept
    <2>4. CASE ~ Becomes({})
      <3>1. PICK n \in Nat, b \in Nat :
               Becomes({[step |-> "EvictSsd", need |-> n], [step |-> "MakeRoom", before |-> b]})
        BY <1>13, <2>4, MakeRoomEffect
      <3>2. \A x \in {[step |-> "EvictSsd", need |-> n], [step |-> "MakeRoom", before |-> b]} :
               Foreseen(x)'
        BY DEF Foreseen
      <3> QED BY <1>0, <2>1, <2>2, <3>1, <3>2, ShapeKept
    <2> QED BY <2>3, <2>4
  <1>14. CASE WriteSsd
    <2>1. Doing("WriteSsd") BY <1>14 DEF WriteSsd
    <2>2. Still /\ req' \in Request /\ Tidy(cache') /\ Becomes({}) BY <1>0, <1>14, WriteSsdEffect
    <2> QED BY <2>1, <2>2, ShapeKept
  <1>15. CASE PutFinish
    <2>1. /\ UNCHANGED <<pins, reclaims, reader>> /\ todo' = <<>> /\ req' = NoReq /\ Tidy(cache')
          /\ req.key \in Keys /\ req.val \in Values
          /\ \E vs \in {allowed[req.key] \cup {req.val}, {req.val}} : Allowing(req.key, vs)
      BY <1>15, PutFinishEffect
    <2>2. allowed' \in [Keys -> SUBSET Values] /\ seen' \in [Readers -> SUBSET Values]
      BY <2>1 DEF Shape, Allowing
    <2>3. req' \in Request /\ req'.active = FALSE BY <2>1 DEF NoReq, Request
    <2>4. Agenda(todo', req'.active) /\ OnStack(todo') = {} BY <2>1, <2>3, EmptyStack
    <2> QED BY <2>1, <2>2, <2>3, <2>4 DEF Shape
  <1> QED BY <1>1, <1>2, <1>3, <1>4, <1>5, <1>6, <1>7, <1>8, <1>9, <1>10, <1>11, <1>12, <1>13,
             <1>14, <1>15 DEF LockHolder

\* The initial states have the shape.
LEMMA ShapeInit == Init => Shape
  <1> SUFFICES ASSUME Init PROVE Shape OBVIOUS
  <1>1. Tidy(cache)
    <2>1. PICK m \in MemoryCapacities, p \in PmemCapacities, s \in SsdCapacities :
             cache = EmptyInner(m, p, s)
      BY DEF Init
    <2>2. m \in Nat /\ p \in Nat /\ s \in Nat BY CacheAssumption
    <2> QED BY <2>1, <2>2, EmptyInnerFields, NothingTidy
  <1>2. MaxPins \in Nat BY CacheAssumption
  <1>3. req \in Request /\ req.active = FALSE BY DEF Init, NoReq, Request
  <1>4. Agenda(todo, req.active) /\ OnStack(todo) = {} BY <1>3, EmptyStack DEF Init
  <1>5. IdleReader \in ReaderState BY DEF IdleReader, ReaderState
  <1> QED BY <1>1, <1>2, <1>3, <1>4, <1>5 DEF Init, Shape

\* What a step that is not the lock holder's has to show: with the lock free
\* nothing is on the stack but what the call puts there.
LEMMA ShapeCalled ==
    ASSUME Shape, Unlocked, Tidy(cache'), pins' \in [Keys -> 0 .. MaxPins],
           reclaims' \in 0 .. MaxPins, req' \in Request, reader' \in [Readers -> ReaderState],
           allowed' \in [Keys -> SUBSET Values], seen' \in [Readers -> SUBSET Values],
           \/ todo' = todo /\ req' = req
           \/ \E new : Begins(new) /\ \A x \in new : Foreseen(x)'
    PROVE  Shape'
  <1>1. /\ Agenda(todo', req'.active) /\ \A x \in OnStack(todo') : Foreseen(x)'
    <2>1. CASE todo' = todo /\ req' = req
      <3>1. OnStack(todo) = {} BY UnlockedFacts
      <3> QED BY <2>1, <3>1 DEF Shape
    <2>2. CASE \E new : Begins(new) /\ \A x \in new : Foreseen(x)'
      BY <2>2 DEF Begins
    <2> QED BY <2>1, <2>2
  <1> QED BY <1>1 DEF Shape

\* The sections of a read keep the shape.
LEMMA ShapeRead ==
    ASSUME Shape, NEW r \in Readers, Read(r)
    PROVE  Shape'
  <1>0. /\ Tidy(cache) /\ pins \in [Keys -> 0 .. MaxPins] /\ reclaims \in 0 .. MaxPins
        /\ req \in Request /\ reader \in [Readers -> ReaderState]
        /\ allowed \in [Keys -> SUBSET Values] /\ seen \in [Readers -> SUBSET Values]
    BY DEF Shape
  <1>1. ASSUME NEW k \in Keys, StartGet(r, k) PROVE Shape'
    <2>1. Unlocked BY <1>1 DEF StartGet
    <2>2. /\ UNCHANGED <<cache, pins, reclaims, todo, req, allowed>>
          /\ reader' \in [Readers -> ReaderState] /\ seen' \in [Readers -> SUBSET Values]
      BY <1>1, StartGetEffect
    <2> QED BY <1>0, <2>1, <2>2, ShapeCalled
  <1>2. CASE RemoveExpired(r)
    <2>1. Unlocked /\ Done(r) /\ UNCHANGED <<pins, reclaims, todo, req, allowed>> /\ Tidy(cache')
      BY <1>0, <1>2, RemoveExpiredEffect DEF Removed
    <2>2. reader' \in [Readers -> ReaderState] /\ seen' \in [Readers -> SUBSET Values]
      BY <2>1, DoneEffect
    <2> QED BY <1>0, <2>1, <2>2, ShapeCalled
  <1>3. CASE ReadSsd(r)
    <2>1. Unlocked /\ UNCHANGED <<pins, reclaims, todo, req, allowed>> /\ Tidy(cache')
      BY <1>0, <1>3, ReadSsdEffect
    <2>2. reader' \in [Readers -> ReaderState] /\ seen' \in [Readers -> SUBSET Values]
      BY <1>0, <1>3, ReadSsdEffect, DoneEffect
    <2> QED BY <1>0, <2>1, <2>2, ShapeCalled
  <1>4. CASE FinishSsd(r)
    <2> DEFINE e == [step |-> "EvictMemory"]
               p == [step |-> "PutPmem", key |-> reader[r].key, val |-> reader[r].val,
                     fallback |-> FALSE]
    <2>1. /\ Unlocked /\ Done(r) /\ UNCHANGED <<pins, reclaims, req, allowed>> /\ Tidy(cache')
          /\ \/ todo' = todo \/ Begins({e})
             \/ SamePmem(cache, cache') /\ ~ InPmem(cache, reader[r].key) /\ Begins({p})
      BY <1>4, FinishSsdEffect DEF Refilling
    <2>2. reader' \in [Readers -> ReaderState] /\ seen' \in [Readers -> SUBSET Values]
      BY <2>1, DoneEffect
    <2>3. \A x \in {e} : Foreseen(x)' BY DEF Foreseen
    <2>4. SamePmem(cache, cache') /\ ~ InPmem(cache, reader[r].key) => \A x \in {p} : Foreseen(x)'
      BY DEF Foreseen, SamePmem, InPmem
    <2> HIDE DEF e, p
    <2>5. \/ todo' = todo /\ req' = req
          \/ \E new : Begins(new) /\ \A x \in new : Foreseen(x)'
      BY <2>1, <2>3, <2>4
    <2> QED BY <1>0, <2>1, <2>2, <2>5, ShapeCalled
  <1>5. CASE Promote(r)
    <2> DEFINE e == [step |-> "EvictMemory"]
    <2>1. /\ Unlocked /\ Done(r) /\ UNCHANGED <<pins, reclaims, req, allowed>> /\ Tidy(cache')
          /\ todo' = todo \/ Begins({e})
      BY <1>5, PromoteEffect
    <2>2. reader' \in [Readers -> ReaderState] /\ seen' \in [Readers -> SUBSET Values]
      BY <2>1, DoneEffect
    <2>3. \A x \in {e} : Foreseen(x)' BY DEF Foreseen
    <2> HIDE DEF e
    <2>5. \/ todo' = todo /\ req' = req
          \/ \E new : Begins(new) /\ \A x \in new : Foreseen(x)'
      BY <2>1, <2>3
    <2> QED BY <1>0, <2>1, <2>2, <2>5, ShapeCalled
  <1> QED BY <1>1, <1>2, <1>3, <1>4, <1>5 DEF Read

\* The steps a call starts with foresee nothing.
LEMMA FirstSteps ==
    ASSUME NEW new \in {{[step |-> "EvictMemory"]}, {[step |-> "EvictPmem"]},
                        {[step |-> "EvictSsd", need |-> 0]}, {[step |-> "Purge"]},
                        {[step |-> "EvictMemory"], [step |-> "EvictPmem"],
                         [step |-> "EvictSsd", need |-> 0]},
                        {[step |-> "Sweep"], [step |-> "PutMemory"], [step |-> "PutPmemPart"],
                         [step |-> "PutSsd"], [step |-> "PutFinish"]}}
    PROVE  \A x \in new : Foreseen(x)' /\ x.step \notin Carrying
  BY DEF Foreseen, Carrying

\* The writes keep the shape.
LEMMA ShapeWrite ==
    ASSUME Shape, Write
    PROVE  Shape'
  <1>0. /\ Tidy(cache) /\ pins \in [Keys -> 0 .. MaxPins] /\ reclaims \in 0 .. MaxPins
        /\ req \in Request /\ reader \in [Readers -> ReaderState]
        /\ allowed \in [Keys -> SUBSET Values] /\ seen \in [Readers -> SUBSET Values]
    BY DEF Shape
  <1>1. ASSUME NEW k \in Keys, NEW v \in Values, NEW heat \in Heats, NEW life \in Lifetimes,
               PutStart(k, v, heat, life)
        PROVE  Shape'
    <2>1. /\ Unlocked /\ UNCHANGED <<cache, pins, reclaims, reader, allowed, seen>>
          /\ req' \in Request
          /\ Begins({[step |-> "Sweep"], [step |-> "PutMemory"], [step |-> "PutPmemPart"],
                      [step |-> "PutSsd"], [step |-> "PutFinish"]})
      BY <1>1, PutStartEffect
    <2>2. \E new : Begins(new) /\ \A x \in new : Foreseen(x)' BY <2>1, FirstSteps
    <2> QED BY <1>0, <2>1, <2>2, ShapeCalled
  <1>2. ASSUME NEW k \in Keys, NEW v \in Values, PutMemoryOnly(k, v) PROVE Shape'
    <2>1. /\ Unlocked /\ UNCHANGED <<pins, reclaims, req, reader>> /\ Tidy(cache')
          /\ Allowing(k, allowed[k] \cup {v})
          /\ Begins({[step |-> "EvictMemory"]}) \/ todo' = todo
      BY <1>2, PutMemoryOnlyEffect
    <2>2. allowed' \in [Keys -> SUBSET Values] /\ seen' \in [Readers -> SUBSET Values]
      BY <1>0, <2>1 DEF Allowing
    <2>3. \/ todo' = todo /\ req' = req
          \/ \E new : Begins(new) /\ \A x \in new : Foreseen(x)'
      BY <2>1, FirstSteps
    <2> QED BY <1>0, <2>1, <2>2, <2>3, ShapeCalled
  <1>3. ASSUME NEW k \in Keys, DropVolatile(k) PROVE Shape'
    <2>1. /\ Unlocked /\ UNCHANGED <<reclaims, todo, req, reader, allowed, seen>>
          /\ Tidy(cache') /\ pins' \in [Keys -> 0 .. MaxPins]
      BY <1>3, DropVolatileEffect DEF Unpinning
    <2> QED BY <1>0, <2>1, ShapeCalled
  <1>4. ASSUME NEW k \in Keys, Invalidate(k) PROVE Shape'
    <2>1. /\ Unlocked /\ UNCHANGED <<reclaims, todo, req, reader>>
          /\ Tidy(cache') /\ pins' \in [Keys -> 0 .. MaxPins] /\ Allowing(k, {})
      BY <1>4, InvalidateEffect DEF Unpinning, Removed
    <2>2. allowed' \in [Keys -> SUBSET Values] /\ seen' \in [Readers -> SUBSET Values]
      BY <1>0, <2>1 DEF Allowing
    <2> QED BY <1>0, <2>1, <2>2, ShapeCalled
  <1>5. CASE Clear
    <2>1. /\ Unlocked /\ UNCHANGED <<reclaims, todo, req, reader, seen>>
          /\ Tidy(cache') /\ pins' \in [Keys -> 0 .. MaxPins]
          /\ allowed' \in {[k \in Keys |-> {}], allowed}
      BY <1>5, ClearEffect
    <2>2. allowed' \in [Keys -> SUBSET Values] BY <1>0, <2>1
    <2> QED BY <1>0, <2>1, <2>2, ShapeCalled
  <1>6. CASE PurgeStart
    <2>1. /\ Unlocked /\ UNCHANGED <<cache, pins, reclaims, req, reader, allowed, seen>>
          /\ Begins({[step |-> "Purge"]})
      BY <1>6, PurgeStartEffect
    <2>2. \E new : Begins(new) /\ \A x \in new : Foreseen(x)' BY <2>1, FirstSteps
    <2> QED BY <1>0, <2>1, <2>2, ShapeCalled
  <1> QED BY <1>1, <1>2, <1>3, <1>4, <1>5, <1>6 DEF Write

\* So do the calls that manage the cache, and the clock.
LEMMA ShapeManage ==
    ASSUME Shape, Manage
    PROVE  Shape'
  <1>0. /\ Tidy(cache) /\ pins \in [Keys -> 0 .. MaxPins] /\ reclaims \in 0 .. MaxPins
        /\ req \in Request /\ reader \in [Readers -> ReaderState]
        /\ allowed \in [Keys -> SUBSET Values] /\ seen \in [Readers -> SUBSET Values]
    BY DEF Shape
  <1>1. CASE \/ \E n \in MemoryCapacities : SetMemoryCapacity(n)
             \/ \E n \in PmemCapacities : SetPmemCapacity(n)
             \/ \E n \in SsdCapacities : SetSsdCapacity(n)
    <2>1. /\ Unlocked /\ UNCHANGED <<pins, reclaims, req, reader, allowed, seen>> /\ Tidy(cache')
          /\ \/ Begins({[step |-> "EvictMemory"]}) \/ Begins({[step |-> "EvictPmem"]})
             \/ Begins({[step |-> "EvictSsd", need |-> 0]})
      BY <1>1, CapacityEffect
    <2>2. \E new : Begins(new) /\ \A x \in new : Foreseen(x)' BY <2>1, FirstSteps
    <2> QED BY <1>0, <2>1, <2>2, ShapeCalled
  <1>2. ASSUME NEW b \in BOOLEAN, SetSsdOnly(b) PROVE Shape'
    <2>1. /\ Unlocked /\ UNCHANGED <<pins, reclaims, todo, req, reader, allowed, seen>>
          /\ Tidy(cache')
      BY <1>2, SetSsdOnlyEffect
    <2> QED BY <1>0, <2>1, ShapeCalled
  <1>3. ASSUME NEW b \in BOOLEAN, SetStarted(b) \/ SetDefaultTtl(b) PROVE Shape'
    <2>1. /\ Unlocked /\ UNCHANGED <<pins, reclaims, todo, req, reader, allowed, seen>>
          /\ Tidy(cache')
      BY <1>3, SwitchEffect
    <2> QED BY <1>0, <2>1, ShapeCalled
  <1>4. ASSUME NEW k \in Keys, Pin(k) \/ Unpin(k) PROVE Shape'
    <2>1. /\ Unlocked /\ UNCHANGED <<cache, todo, req, reader, allowed, seen>>
          /\ pins' \in [Keys -> 0 .. MaxPins] /\ reclaims' \in 0 .. MaxPins
      BY <1>4, PinEffect
    <2> QED BY <1>0, <2>1, ShapeCalled
  <1>5. ASSUME NEW k \in Keys, Lapse(k) PROVE Shape'
    <2>1. /\ Unlocked /\ UNCHANGED <<pins, reclaims, todo, req, reader>> /\ Tidy(cache')
          /\ Allowing(k, {})
      BY <1>5, LapseEffect
    <2>2. allowed' \in [Keys -> SUBSET Values] /\ seen' \in [Readers -> SUBSET Values]
      BY <1>0, <2>1 DEF Allowing
    <2> QED BY <1>0, <2>1, <2>2, ShapeCalled
  <1>6. CASE Reclaim
    <2>1. /\ Unlocked /\ UNCHANGED <<cache, pins, req, reader, allowed, seen>>
          /\ reclaims' \in 0 .. MaxPins
          /\ Begins({[step |-> "EvictMemory"], [step |-> "EvictPmem"],
                      [step |-> "EvictSsd", need |-> 0]})
      BY <1>6, ReclaimEffect
    <2>2. \E new : Begins(new) /\ \A x \in new : Foreseen(x)' BY <2>1, FirstSteps
    <2> QED BY <1>0, <2>1, <2>2, ShapeCalled
  <1> QED BY <1>1, <1>2, <1>3, <1>4, <1>5, <1>6 DEF Manage

\* Every step keeps the shape.
LEMMA ShapeStep == Shape /\ [Next]_vars => Shape'
  <1> SUFFICES ASSUME Shape, [Next]_vars PROVE Shape' OBVIOUS
  <1>1. CASE UNCHANGED vars BY <1>1 DEF vars, Shape, Foreseen
  <1> QED BY <1>1, ShapeLockHolder, ShapeRead, ShapeWrite, ShapeManage DEF Next

\* The shape holds in every reachable state, whatever the capacities, the
\* placement, the faults and the calls are.
THEOREM ShapeInvariant == Spec => []Shape
  BY ShapeInit, ShapeStep, PTL DEF Spec

-----------------------------------------------------------------------------
(* What the shape gives at once.                                           *)

\* Every variable of the cache holds what it is declared to hold: no counter
\* goes below zero, no step is left on the stack without what it needs, no put
\* is recorded without its key and value (CacheInner, put_with_request_inner).
THEOREM TypeCorrect == Spec => []TypeOK
  <1>1. Shape => TypeOK
    <2> SUFFICES ASSUME Shape PROVE TypeOK OBVIOUS
    <2>1. \A i \in DOMAIN todo : todo[i].step \in Steps
      <3>1. todo \in Seq(Step) BY DEF Shape, Agenda, Stacked
      <3>2. \A i \in DOMAIN todo : todo[i] \in Step BY <3>1
      <3> QED BY <3>2, StepFacts
    <2>2. req.active => req.key \in Keys /\ req.val \in Values BY RequestFacts DEF Shape
    <2>3. \A r \in Readers : reader[r].at \in {"idle", "ssd", "refill", "promote", "expired"}
      BY ReaderFacts DEF Shape
    <2> QED BY <2>1, <2>2, <2>3 DEF Shape, Tidy, TypeOK
  <1> QED BY <1>1, ShapeInvariant, PTL

\* Nothing a tier holds is out of the reach of its eviction order, and the SSD
\* order lists the index exactly, also in the middle of a put, an eviction or
\* a half-done clear (make_resident, make_pmem_resident, drop_stale_tier_copy,
\* evict_ssd_for_batch, clear_all_locked).
THEOREM NothingIsOutOfOrder == Spec => []NothingOutOfOrder
  <1>1. Shape => NothingOutOfOrder
    <2> SUFFICES ASSUME Shape PROVE NothingOutOfOrder OBVIOUS
    <2>1. cache.disk_order \subseteq Keys BY DEF Shape, Tidy, Inner
    <2> QED BY <2>1 DEF Shape, Tidy, TidyAt, NothingOutOfOrder
  <1> QED BY <1>1, ShapeInvariant, PTL

\* What no step of the lock holder takes from a pinned entry that is not the
\* one being put.
Spared(k) ==
    todo # <<>> /\ Pinned(k) /\ ~ Expired(cache, k) /\ ~ (req.active /\ req.key = k) =>
        /\ InMemory(cache, k) => cache'.memory[k] = cache.memory[k]
        /\ InPmem(cache, k) => cache'.pmem[k] = cache.pmem[k]
        /\ Indexed(cache, k) => cache'.disk_index[k] = cache.disk_index[k]

\* Eviction, demotion and the sweeps pass over a pinned entry.
LEMMA LockHolderSpares ==
    ASSUME Shape, LockHolder, NEW k \in Keys
    PROVE  Spared(k)
  <1> SUFFICES ASSUME Pinned(k), ~ Expired(cache, k), ~ (req.active /\ req.key = k)
               PROVE  /\ InMemory(cache, k) => cache'.memory[k] = cache.memory[k]
                      /\ InPmem(cache, k) => cache'.pmem[k] = cache.pmem[k]
                      /\ Indexed(cache, k) => cache'.disk_index[k] = cache.disk_index[k]
    BY DEF Spared
  <1> DEFINE Kept == /\ cache'.memory[k] = cache.memory[k] /\ cache'.pmem[k] = cache.pmem[k]
                     /\ cache'.disk_index[k] = cache.disk_index[k]
  <1>0. ASSUME NEW x \in Keys, x # k, Touches(cache, cache', x) PROVE Kept
    BY <1>0 DEF Touches, SameEntry
  <1>1. CASE EvictMemory BY <1>0, <1>1, EvictMemoryEffect
  <1>2. CASE DemoteMemory BY <1>2, DemoteMemoryEffect
  <1>3. CASE PutPmem
    <2>1. /\ todo[1].key \in Keys /\ Touches(cache, cache', todo[1].key) /\ Foreseen(todo[1])
          /\ SameMemory(cache, cache') /\ SameSsd(cache, cache') /\ todo[1].step = "PutPmem"
      BY <1>3, PutPmemEffect
    <2>2. CASE todo[1].key = k
      BY <2>1, <2>2 DEF Foreseen, SameMemory, SameSsd, SameIndex
    <2> QED BY <1>0, <2>1, <2>2
  <1>4. CASE EvictPmem BY <1>0, <1>4, EvictPmemEffect
  <1>5. CASE Forget BY <1>5, ForgetEffect DEF SameMemory, SamePmem, SameSsd, SameIndex
  <1>6. CASE SsdBypass BY <1>6, SsdBypassEffect
  <1>7. CASE EvictSsd BY <1>0, <1>7, EvictSsdEffect
  <1>8. CASE WriteBypass
    <2>1. CASE cache' = cache BY <2>1
    <2>2. CASE cache' # cache
      <3>1. /\ todo[1].key \in Keys /\ ~ Indexed(cache, todo[1].key)
            /\ Touches(cache, cache', todo[1].key)
            /\ SameMemory(cache, cache') /\ SamePmem(cache, cache')
        BY <1>8, <2>2, WriteBypassEffect
      <3> QED BY <1>0, <3>1 DEF SameMemory, SamePmem
    <2> QED BY <2>1, <2>2
  <1>9. CASE Sweep \/ Purge BY <1>0, <1>9, SweepEffect DEF Removed
  <1>10. CASE PutMemory BY <1>0, <1>10, PutMemoryEffect
  <1>11. CASE PutPmemPart BY <1>0, <1>11, PutPmemPartEffect
  <1>12. CASE PutSsd BY <1>12, PutSsdEffect
  <1>13. CASE MakeRoom BY <1>13, MakeRoomEffect
  <1>14. CASE WriteSsd BY <1>0, <1>14, WriteSsdEffect
  <1>15. CASE PutFinish BY <1>0, <1>15, PutFinishEffect
  <1> QED BY <1>1, <1>2, <1>3, <1>4, <1>5, <1>6, <1>7, <1>8, <1>9, <1>10, <1>11, <1>12, <1>13,
             <1>14, <1>15 DEF LockHolder

\* With something on the stack only the lock holder moves.
LEMMA LockHeld == todo # <<>> /\ Next => LockHolder
  BY DEF Next, Read, Write, Manage, Unlocked, StartGet, RemoveExpired, ReadSsd, FinishSsd, Promote,
         PutStart, PutMemoryOnly, DropVolatile, Invalidate, Clear, PurgeStart, SetMemoryCapacity,
         SetPmemCapacity, SetSsdCapacity, SetSsdOnly, SetStarted, SetDefaultTtl, Pin, Unpin, Lapse,
         Reclaim

\* A pinned entry stays where it is while another key's call holds the lock:
\* no eviction, demotion or sweep gives up a tier's copy of it
\* (evict_memory_to_capacity_since, evict_ssd_for_batch, sweep_some_expired).
THEOREM PinnedEntriesStay == Spec => PinnedStays
  <1>1. Shape /\ [Next]_vars => [\A k \in Keys : Spared(k)]_vars
    BY LockHeld, LockHolderSpares DEF Spared
  <1>2. [\A k \in Keys : Spared(k)]_vars =>
          [\A k \in Keys :
             todo # <<>> /\ Pinned(k) /\ ~ Expired(cache, k) /\ ~ (req.active /\ req.key = k) =>
                 /\ InMemory(cache, k) => cache'.memory[k] = cache.memory[k]
                 /\ InPmem(cache, k) => cache'.pmem[k] = cache.pmem[k]
                 /\ Indexed(cache, k) => cache'.disk_index[k] = cache.disk_index[k]]_vars
    BY DEF Spared
  <1> QED BY <1>1, <1>2, ShapeInvariant, PTL DEF Spec, PinnedStays

-----------------------------------------------------------------------------
(* Metadata.                                                               *)

\* What some tier holds has metadata, and so has what the lock holder carries
\* from one tier to another.
Held ==
    /\ \A k \in Keys : InSomeTier(cache, k) => cache.meta[k] # {}
    /\ \A x \in OnStack(todo) : x.step \in Carrying => cache.meta[x.key] # {}

\* A PMEM wipe that fails half-way empties the memory map before it returns,
\* and drops the metadata of entries that the SSD still serves: the runs and
\* the theorem are about caches where that does not happen.
NoHalfClear == "pmemClear" \notin Faults \/ ~ PmemPaths \/ "clear" \notin Calls

\* A step that touches k alone keeps the first half if it keeps it for k.
LEMMA HeldElsewhere ==
    ASSUME Held, NEW k \in Keys, Touches(cache, cache', k),
           InSomeTier(cache', k) => cache'.meta[k] # {}
    PROVE  \A x \in Keys : InSomeTier(cache', x) => cache'.meta[x] # {}
  BY DEF Held, Touches, SameEntry, InSomeTier, InMemory, InPmem, Indexed

\* The steps under the top carry nothing, save an SSD write that waits.
LEMMA NothingCarried ==
    ASSUME Shape, NEW step, Doing(step), step # "EvictSsd", NEW x \in OnStack(Tail(todo))
    PROVE  x.step \notin Carrying
  <1>1. todo # <<>> /\ Stacked(todo) BY TopFacts DEF Agenda
  <1> QED BY <1>1, UnderTheTop, Unaffected DEF Carrying

\* A step of the lock holder other than an SSD eviction keeps both halves if
\* it keeps the first and what it puts on the stack has metadata.
LEMMA HeldKept ==
    ASSUME Shape, NEW step, Doing(step), step # "EvictSsd", NEW new, Becomes(new),
           \A k \in Keys : InSomeTier(cache', k) => cache'.meta[k] # {},
           \A x \in new : x.step \in Carrying => cache'.meta[x.key] # {}
    PROVE  Held'
  <1>1. \A x \in OnStack(Tail(todo)) : x.step \notin Carrying BY NothingCarried
  <1> QED BY <1>1 DEF Held, Becomes

\* The same for a round that will be followed by another.
LEMMA HeldRepeats ==
    ASSUME Shape, NEW step, Doing(step), step \notin Carrying, step # "EvictSsd", todo' = todo,
           \A k \in Keys : InSomeTier(cache', k) => cache'.meta[k] # {}
    PROVE  Held'
  <1>1. \A x \in OnStack(Tail(todo)) : x.step \notin Carrying BY NothingCarried
  <1>2. OnStack(todo) = {todo[1]} \cup OnStack(Tail(todo)) /\ todo[1].step = step BY TopFacts
  <1> QED BY <1>1, <1>2 DEF Held

\* No step of the lock holder loses the metadata of what a tier holds.
LEMMA HeldLockHolder ==
    ASSUME Shape, Held, LockHolder
    PROVE  Held'
  <1>1. CASE EvictMemory
    <2>1. Doing("EvictMemory") /\ todo[1].step = "EvictMemory"
      BY <1>1, TopFacts DEF EvictMemory
    <2>2. CASE cache' = cache /\ Becomes({}) BY <2>1, <2>2, HeldKept DEF Held
    <2>3. CASE ~ (cache' = cache /\ Becomes({}))
      <3>1. PICK k \in Keys :
              /\ Touches(cache, cache', k) /\ SamePmem(cache, cache') /\ SameSsd(cache, cache')
              /\ cache'.memory[k] = None /\ (cache'.meta[k] = {} <=> cache.meta[k] = {})
              /\ \/ cache.memory[k] = None /\ todo' = todo
                 \/ /\ cache.memory[k] \in Values
                    /\ \E again \in {{}, {todo[1]}} :
                          Becomes({[step |-> "DemoteMemory", key |-> k, val |-> cache.memory[k]],
                                   [step |-> "Forget", key |-> k]} \cup again)
        BY <1>1, <2>3, EvictMemoryEffect
      <3>2. InSomeTier(cache', k) => InSomeTier(cache, k)
        BY <3>1 DEF InSomeTier, InMemory, InPmem, Indexed, SamePmem, SameSsd, SameIndex
      <3>3. \A x \in Keys : InSomeTier(cache', x) => cache'.meta[x] # {}
        BY <3>1, <3>2, HeldElsewhere DEF Held
      <3>4. CASE todo' = todo BY <2>1, <3>3, <3>4, HeldRepeats DEF Carrying
      <3>5. CASE ~ (todo' = todo)
        <4>1. cache.memory[k] \in Values /\ cache.meta[k] # {}
          BY <3>1, <3>5, InnerAssumption DEF Held, InSomeTier, InMemory
        <4>2. PICK again \in {{}, {todo[1]}} :
                 Becomes({[step |-> "DemoteMemory", key |-> k, val |-> cache.memory[k]],
                          [step |-> "Forget", key |-> k]} \cup again)
          BY <3>1, <3>5
        <4> DEFINE new == {[step |-> "DemoteMemory", key |-> k, val |-> cache.memory[k]],
                           [step |-> "Forget", key |-> k]} \cup again
        <4>3. \A x \in new : x.step \in Carrying => cache'.meta[x.key] # {}
          BY <2>1, <3>1, <4>1 DEF Carrying
        <4> HIDE DEF new
        <4>4. Becomes(new) BY <4>2 DEF new
        <4> QED BY <2>1, <3>3, <4>3, <4>4, HeldKept
      <3> QED BY <3>4, <3>5
    <2> QED BY <2>2, <2>3
  <1>2. CASE DemoteMemory \/ SsdBypass
    <2>1. PICK step \in {"DemoteMemory", "SsdBypass"} : Doing(step) /\ todo[1].step = step
      BY <1>2, TopFacts DEF DemoteMemory, SsdBypass
    <2>2. cache.meta[todo[1].key] # {} BY <2>1, TopFacts DEF Held, Carrying
    <2>3. /\ cache' = cache
          /\ \E new : /\ Becomes(new)
                      /\ \A x \in new : x.step \in Carrying => x.key = todo[1].key
      <3>1. CASE DemoteMemory BY <3>1, DemoteMemoryEffect
      <3>2. CASE SsdBypass BY <3>2, SsdBypassEffect DEF Carrying
      <3> QED BY <1>2, <3>1, <3>2
    <2> QED BY <2>1, <2>2, <2>3, HeldKept DEF Held
  <1>3. CASE PutPmem
    <2>1. Doing("PutPmem") /\ todo[1].step = "PutPmem" BY <1>3, TopFacts DEF PutPmem
    <2>2. cache.meta[todo[1].key] # {} BY <2>1, TopFacts DEF Held, Carrying
    <2>3. /\ todo[1].key \in Keys /\ Touches(cache, cache', todo[1].key)
          /\ cache'.meta[todo[1].key] = {} <=> cache.meta[todo[1].key] = {}
          /\ \E new \in {{}, {[step |-> "EvictPmem"]}} : Becomes(new)
      BY <1>3, PutPmemEffect
    <2>4. \A x \in Keys : InSomeTier(cache', x) => cache'.meta[x] # {}
      BY <2>2, <2>3, HeldElsewhere
    <2>5. PICK new \in {{}, {[step |-> "EvictPmem"]}} : Becomes(new) BY <2>3
    <2>6. \A x \in new : x.step \notin Carrying BY DEF Carrying
    <2> QED BY <2>1, <2>4, <2>5, <2>6, HeldKept
  <1>4. CASE EvictPmem
    <2>1. Doing("EvictPmem") /\ todo[1].step = "EvictPmem"
      BY <1>4, TopFacts DEF EvictPmem
    <2>2. CASE cache' = cache /\ Becomes({}) BY <2>1, <2>2, HeldKept DEF Held
    <2>3. CASE ~ (cache' = cache /\ Becomes({}))
      <3>1. PICK k \in Keys :
              /\ Touches(cache, cache', k) /\ SameMemory(cache, cache') /\ SameSsd(cache, cache')
              /\ cache'.pmem[k] = None /\ (cache'.meta[k] = {} <=> cache.meta[k] = {})
              /\ \/ cache.pmem[k] = None /\ todo' = todo
                 \/ /\ cache.pmem[k] \in Values
                    /\ \E down \in {{}, {[step |-> "SsdBypass", key |-> k, val |-> cache.pmem[k]]}},
                          again \in {{}, {todo[1]}} :
                          Becomes(down \cup {[step |-> "Forget", key |-> k]} \cup again)
        BY <1>4, <2>3, EvictPmemEffect
      <3>2. InSomeTier(cache', k) => InSomeTier(cache, k)
        BY <3>1 DEF InSomeTier, InMemory, InPmem, Indexed, SameMemory, SameSsd, SameIndex
      <3>3. \A x \in Keys : InSomeTier(cache', x) => cache'.meta[x] # {}
        BY <3>1, <3>2, HeldElsewhere DEF Held
      <3>4. CASE todo' = todo BY <2>1, <3>3, <3>4, HeldRepeats DEF Carrying
      <3>5. CASE ~ (todo' = todo)
        <4>1. cache.pmem[k] \in Values /\ cache.meta[k] # {}
          BY <3>1, <3>5, InnerAssumption DEF Held, InSomeTier, InPmem
        <4>2. PICK down \in {{}, {[step |-> "SsdBypass", key |-> k, val |-> cache.pmem[k]]}},
                   again \in {{}, {todo[1]}} :
                 Becomes(down \cup {[step |-> "Forget", key |-> k]} \cup again)
          BY <3>1, <3>5
        <4> DEFINE new == down \cup {[step |-> "Forget", key |-> k]} \cup again
        <4>3. \A x \in new : x.step \in Carrying => cache'.meta[x.key] # {}
          BY <2>1, <3>1, <4>1 DEF Carrying
        <4> HIDE DEF new
        <4>4. Becomes(new) BY <4>2 DEF new
        <4> QED BY <2>1, <3>3, <4>3, <4>4, HeldKept
      <3> QED BY <3>4, <3>5
    <2> QED BY <2>2, <2>3
  <1>5. CASE Forget
    <2>1. Doing("Forget") BY <1>5 DEF Forget
    <2>2. /\ Becomes({}) /\ todo[1].key \in Keys /\ Touches(cache, cache', todo[1].key)
          /\ SameMemory(cache, cache') /\ SamePmem(cache, cache') /\ SameSsd(cache, cache')
          /\ InSomeTier(cache, todo[1].key) => cache' = cache
      BY <1>5, ForgetEffect
    <2>3. InSomeTier(cache', todo[1].key) => cache'.meta[todo[1].key] # {}
      BY <2>2 DEF Held, InSomeTier, InMemory, InPmem, Indexed, SameMemory, SamePmem, SameSsd, SameIndex
    <2>4. \A x \in Keys : InSomeTier(cache', x) => cache'.meta[x] # {}
      BY <2>2, <2>3, HeldElsewhere
    <2> QED BY <2>1, <2>2, <2>4, HeldKept
  <1>7. CASE EvictSsd
    <2>1. Doing("EvictSsd") /\ todo[1].step = "EvictSsd" BY <1>7, TopFacts DEF EvictSsd
    <2>2. OnStack(Tail(todo)) \subseteq OnStack(todo) /\ OnStack(todo) \subseteq Step
      <3>1. todo # <<>> /\ Stacked(todo) BY <2>1, TopFacts DEF Agenda
      <3> QED BY <3>1, UnderTheTop
    <2>3. CASE cache' = cache /\ Becomes({}) BY <2>2, <2>3 DEF Held, Becomes
    <2>4. CASE ~ (cache' = cache /\ Becomes({}))
      <3>1. PICK k \in Keys :
              /\ Indexed(cache, k) /\ Touches(cache, cache', k)
              /\ SameMemory(cache, cache') /\ SamePmem(cache, cache')
              /\ cache'.disk_index[k] = None
              /\ InMemory(cache, k) \/ InPmem(cache, k) => SameMetadata(cache, cache')
              /\ todo' = todo \/ Becomes({})
        BY <1>7, <2>4, EvictSsdEffect
      <3>2. InSomeTier(cache', k) => InMemory(cache, k) \/ InPmem(cache, k)
        BY <3>1 DEF InSomeTier, InMemory, InPmem, Indexed, SameMemory, SamePmem
      <3>3. \A x \in Keys : InSomeTier(cache', x) => cache'.meta[x] # {}
        BY <3>1, <3>2, HeldElsewhere DEF Held, InSomeTier, SameMetadata
      <3>4. ASSUME NEW x \in OnStack(todo), x.step \in Carrying PROVE cache'.meta[x.key] # {}
        <4>1. x \in OnStack(Tail(todo)) /\ x.step = "WriteBypass"
          <5>1. todo # <<>> /\ Stacked(todo) BY <2>1, TopFacts DEF Agenda
          <5> QED BY <2>1, <3>4, <5>1, UnderTheTop DEF Carrying
        <4>2. x.key \in Keys BY <2>2, <3>4, StepFacts
        <4>3. x.key # k BY <3>1, <3>4, <4>1 DEF Shape, Foreseen
        <4> QED BY <3>1, <3>4, <4>2, <4>3 DEF Held, Touches, SameEntry
      <3> QED BY <2>2, <3>1, <3>3, <3>4 DEF Held, Becomes
    <2> QED BY <2>3, <2>4
  <1>8. CASE WriteBypass
    <2>1. Doing("WriteBypass") /\ todo[1].step = "WriteBypass" BY <1>8, TopFacts DEF WriteBypass
    <2>2. cache.meta[todo[1].key] # {} BY <2>1, TopFacts DEF Held, Carrying
    <2>3. Becomes({}) /\ todo[1].key \in Keys BY <1>8, WriteBypassEffect
    <2>4. CASE cache' = cache BY <2>1, <2>3, <2>4, HeldKept DEF Held
    <2>5. CASE cache' # cache
      <3>1. Touches(cache, cache', todo[1].key) /\ SameMetadata(cache, cache')
        BY <1>8, <2>5, WriteBypassEffect
      <3>2. \A x \in Keys : InSomeTier(cache', x) => cache'.meta[x] # {}
        BY <2>2, <2>3, <3>1, HeldElsewhere DEF SameMetadata
      <3> QED BY <2>1, <2>3, <3>2, HeldKept
    <2> QED BY <2>4, <2>5
  <1>9. CASE Sweep \/ Purge
    <2>1. PICK step \in {"Sweep", "Purge"} : Doing(step) BY <1>9 DEF Sweep, Purge
    <2>2. CASE cache' = cache /\ Becomes({}) BY <2>1, <2>2, HeldKept DEF Held
    <2>3. CASE ~ (cache' = cache /\ Becomes({}))
      <3>1. PICK k \in Keys, ok \in Ok("ssdDelete") : Removed(k, ok) /\ todo' = todo
        BY <1>9, <2>3, SweepEffect
      <3>2. ~ InSomeTier(cache', k) BY <3>1 DEF Removed, InSomeTier, InMemory, InPmem, Indexed
      <3>3. \A x \in Keys : InSomeTier(cache', x) => cache'.meta[x] # {}
        BY <3>1, <3>2, HeldElsewhere DEF Removed
      <3> QED BY <2>1, <3>1, <3>3, HeldRepeats DEF Carrying
    <2> QED BY <2>2, <2>3
  <1>10. CASE PutMemory
    <2>1. Doing("PutMemory") BY <1>10 DEF PutMemory
    <2> DEFINE k == req.key
               p == [step |-> "PutPmem", key |-> k, val |-> req.val, fallback |-> TRUE]
               e == [step |-> "EvictMemory"]
    <2>2. /\ k \in Keys /\ Touches(cache, cache', k)
          /\ SamePmem(cache, cache') /\ SameSsd(cache, cache')
          /\ \/ cache'.meta[k] # {} /\ (Becomes({}) \/ Becomes({e}) \/ Becomes({p}))
             \/ cache' = cache /\ Becomes({})
             \/ /\ cache'.memory[k] = None /\ (cache'.meta[k] = {} <=> cache.meta[k] = {})
                /\ Becomes({})
      BY <1>10, PutMemoryEffect
    <2>3. InSomeTier(cache', k) => cache'.meta[k] # {}
      BY <2>2 DEF Held, InSomeTier, InMemory, InPmem, Indexed, SamePmem, SameSsd, SameIndex
    <2>4. \A x \in Keys : InSomeTier(cache', x) => cache'.meta[x] # {}
      BY <2>2, <2>3, HeldElsewhere
    <2>5. e.step \notin Carrying /\ p.key = k BY DEF Carrying
    <2> HIDE DEF e, p
    <2>6. \E new : /\ Becomes(new)
                   /\ \A x \in new : x.step \in Carrying => cache'.meta[x.key] # {}
      BY <2>2, <2>5
    <2> QED BY <2>1, <2>4, <2>6, HeldKept
  <1>11. CASE PutPmemPart
    <2>1. Doing("PutPmemPart") BY <1>11 DEF PutPmemPart
    <2> DEFINE k == req.key
               p == [step |-> "PutPmem", key |-> k, val |-> req.val, fallback |-> FALSE]
    <2>2. /\ k \in Keys
          /\ \/ Touches(cache, cache', k) /\ cache'.meta[k] # {} /\ Becomes({p})
             \/ cache' = cache /\ Becomes({})
             \/ /\ Touches(cache, cache', k) /\ SameMemory(cache, cache') /\ SameSsd(cache, cache')
                /\ cache'.pmem[k] = None /\ (cache'.meta[k] = {} <=> cache.meta[k] = {})
                /\ Becomes({})
      BY <1>11, PutPmemPartEffect
    <2>3. CASE cache' = cache /\ Becomes({}) BY <2>1, <2>3, HeldKept DEF Held
    <2>4. CASE ~ (cache' = cache /\ Becomes({}))
      <3>1. Touches(cache, cache', k) BY <2>2, <2>4
      <3>2. InSomeTier(cache', k) => cache'.meta[k] # {}
        BY <2>2, <2>4 DEF Held, InSomeTier, InMemory, InPmem, Indexed, SameMemory, SameSsd, SameIndex
      <3>3. \A x \in Keys : InSomeTier(cache', x) => cache'.meta[x] # {}
        BY <2>2, <3>1, <3>2, HeldElsewhere
      <3>4. p.key = k OBVIOUS
      <3> HIDE DEF p
      <3>5. \E new : /\ Becomes(new)
                     /\ \A x \in new : x.step \in Carrying => cache'.meta[x.key] # {}
        BY <2>2, <2>4, <3>4
      <3> QED BY <2>1, <3>3, <3>5, HeldKept
    <2> QED BY <2>3, <2>4
  <1>12. CASE PutSsd
    <2>1. Doing("PutSsd") BY <1>12 DEF PutSsd
    <2>2. /\ cache' = cache
          /\ \E new : Becomes(new) /\ \A x \in new : x.step \notin Carrying
      BY <1>12, PutSsdEffect DEF Carrying
    <2> QED BY <2>1, <2>2, HeldKept DEF Held
  <1>13. CASE MakeRoom
    <2>1. Doing("MakeRoom") BY <1>13 DEF MakeRoom
    <2>2. /\ cache' = cache
          /\ \E new : Becomes(new) /\ \A x \in new : x.step \notin Carrying
      <3>1. cache' = cache BY <1>13, MakeRoomEffect
      <3>2. CASE Becomes({}) BY <3>1, <3>2
      <3>3. CASE ~ Becomes({})
        <4>1. PICK n \in Nat, b \in Nat :
                 Becomes({[step |-> "EvictSsd", need |-> n], [step |-> "MakeRoom", before |-> b]})
          BY <1>13, <3>3, MakeRoomEffect
        <4>2. \A x \in {[step |-> "EvictSsd", need |-> n], [step |-> "MakeRoom", before |-> b]} :
                 x.step \notin Carrying
          BY DEF Carrying
        <4> QED BY <3>1, <4>1, <4>2
      <3> QED BY <3>2, <3>3
    <2> QED BY <2>1, <2>2, HeldKept DEF Held
  <1>14. CASE WriteSsd
    <2>1. Doing("WriteSsd") BY <1>14 DEF WriteSsd
    <2>2. /\ Becomes({}) /\ req.key \in Keys
          /\ \/ cache' = cache
             \/ /\ Touches(cache, cache', req.key)
                /\ SameMemory(cache, cache') /\ SamePmem(cache, cache')
                /\ SameMetadata(cache, cache') /\ SameIndex(cache, cache')
             \/ Touches(cache, cache', req.key) /\ cache'.meta[req.key] # {}
      BY <1>14, WriteSsdEffect
    <2>3. \A x \in Keys : InSomeTier(cache', x) => cache'.meta[x] # {}
      <3>1. CASE cache' = cache BY <3>1 DEF Held
      <3>2. CASE cache' # cache
        <4>1. InSomeTier(cache', req.key) => cache'.meta[req.key] # {}
          BY <2>2, <3>2 DEF Held, InSomeTier, InMemory, InPmem, Indexed, SameMemory, SamePmem,
                            SameIndex, SameMetadata
        <4> QED BY <2>2, <3>2, <4>1, HeldElsewhere
      <3> QED BY <3>1, <3>2
    <2> QED BY <2>1, <2>2, <2>3, HeldKept
  <1>15. CASE PutFinish
    <2> DEFINE k == req.key
    <2>1. /\ todo' = <<>> /\ k \in Keys /\ Touches(cache, cache', k)
          /\ SameMemory(cache, cache') /\ SamePmem(cache, cache')
          /\ \/ SameIndex(cache, cache') /\ cache'.meta[k] = cache.meta[k]
             \/ /\ cache'.disk_index[k] = None
                /\ InMemory(cache, k) \/ InPmem(cache, k) => cache'.meta[k] = cache.meta[k]
             \/ /\ SameSsd(cache, cache')
                /\ InSomeTier(cache, k) => cache'.meta[k] = cache.meta[k]
      BY <1>15, PutFinishEffect
    <2>2. InSomeTier(cache', k) => cache'.meta[k] # {}
      BY <2>1 DEF Held, InSomeTier, InMemory, InPmem, Indexed, SameMemory, SamePmem, SameSsd, SameIndex
    <2>3. \A x \in Keys : InSomeTier(cache', x) => cache'.meta[x] # {}
      BY <2>1, <2>2, HeldElsewhere
    <2> QED BY <2>1, <2>3, EmptyStack DEF Held
  <1> QED BY <1>1, <1>2, <1>3, <1>4, <1>5, <1>7, <1>8, <1>9, <1>10, <1>11, <1>12, <1>13,
             <1>14, <1>15 DEF LockHolder

\* A call that finds the lock free keeps both halves under the same terms.
LEMMA HeldCalled ==
    ASSUME Shape, Unlocked, \A k \in Keys : InSomeTier(cache', k) => cache'.meta[k] # {},
           \/ todo' = todo
           \/ \E new : Begins(new) /\ \A x \in new : x.step \in Carrying => cache'.meta[x.key] # {}
    PROVE  Held'
  BY UnlockedFacts DEF Held, Begins

\* No call loses the metadata of what a tier holds.
LEMMA HeldCalls ==
    ASSUME Shape, Held, NoHalfClear, (\E r \in Readers : Read(r)) \/ Write \/ Manage
    PROVE  Held'
  <1>0. \A k \in Keys : InSomeTier(cache, k) => cache.meta[k] # {} BY DEF Held
  <1>1. ASSUME NEW r \in Readers, NEW k \in Keys, StartGet(r, k) PROVE Held'
    <2>1. Unlocked /\ cache' = cache /\ todo' = todo BY <1>1 DEF StartGet
    <2> QED BY <1>0, <2>1, HeldCalled
  <1>2. ASSUME NEW r \in Readers, RemoveExpired(r) PROVE Held'
    <2> DEFINE k == reader[r].key
    <2>1. /\ Unlocked /\ todo' = todo /\ k \in Keys
          /\ cache' = cache \/ \E ok : Removed(k, ok)
      BY <1>2, RemoveExpiredEffect
    <2>2. CASE cache' = cache BY <1>0, <2>1, <2>2, HeldCalled
    <2>3. CASE \E ok : Removed(k, ok)
      <3>1. ~ InSomeTier(cache', k) /\ Touches(cache, cache', k)
        BY <2>3 DEF Removed, InSomeTier, InMemory, InPmem, Indexed
      <3>2. \A x \in Keys : InSomeTier(cache', x) => cache'.meta[x] # {}
        BY <2>1, <3>1, HeldElsewhere
      <3> QED BY <2>1, <3>2, HeldCalled
    <2> QED BY <2>1, <2>2, <2>3
  <1>3. ASSUME NEW r \in Readers, ReadSsd(r) PROVE Held'
    <2>1. Unlocked /\ todo' = todo /\ (cache' = cache \/ SameEntries(cache, cache'))
      BY <1>3, ReadSsdEffect
    <2>2. \A x \in Keys : InSomeTier(cache', x) => cache'.meta[x] # {}
      BY <1>0, <2>1 DEF SameEntries, SameMemory, SamePmem, SameSsd, SameIndex, SameMetadata,
                        InSomeTier, InMemory, InPmem, Indexed
    <2> QED BY <2>1, <2>2, HeldCalled
  <1>4. ASSUME NEW r \in Readers, FinishSsd(r) PROVE Held'
    <2> DEFINE k == reader[r].key
               e == [step |-> "EvictMemory"]
               p == [step |-> "PutPmem", key |-> k, val |-> reader[r].val, fallback |-> FALSE]
    <2>1. /\ Unlocked /\ k \in Keys /\ Touches(cache, cache', k)
          /\ SamePmem(cache, cache') /\ SameSsd(cache, cache')
          /\ cache.meta[k] # {} => cache'.meta[k] # {}
          /\ \/ SameMemory(cache, cache') /\ todo' = todo
             \/ cache'.meta[k] # {} /\ (Begins({e}) \/ Begins({p}))
      BY <1>4, FinishSsdEffect
    <2>2. InSomeTier(cache', k) => cache'.meta[k] # {}
      BY <1>0, <2>1 DEF SameMemory, SamePmem, SameSsd, SameIndex, InSomeTier, InMemory, InPmem, Indexed
    <2>3. \A x \in Keys : InSomeTier(cache', x) => cache'.meta[x] # {}
      BY <2>1, <2>2, HeldElsewhere
    <2>4. e.step \notin Carrying /\ p.key = k BY DEF Carrying
    <2> HIDE DEF e, p
    <2>5. \/ todo' = todo
          \/ \E new : Begins(new) /\ \A x \in new : x.step \in Carrying => cache'.meta[x.key] # {}
      BY <2>1, <2>4
    <2> QED BY <2>1, <2>3, <2>5, HeldCalled
  <1>5. ASSUME NEW r \in Readers, Promote(r) PROVE Held'
    <2> DEFINE k == reader[r].key
               e == [step |-> "EvictMemory"]
    <2>1. /\ Unlocked /\ k \in Keys /\ Touches(cache, cache', k)
          /\ SamePmem(cache, cache') /\ SameSsd(cache, cache')
          /\ cache.meta[k] # {} => cache'.meta[k] # {}
          /\ \/ cache' = cache /\ todo' = todo
             \/ SameMemory(cache, cache') /\ todo' = todo
             \/ cache'.meta[k] # {} /\ Begins({e})
      BY <1>5, PromoteEffect
    <2>2. InSomeTier(cache', k) => cache'.meta[k] # {}
      BY <1>0, <2>1 DEF SameMemory, SamePmem, SameSsd, SameIndex, InSomeTier, InMemory, InPmem, Indexed
    <2>3. \A x \in Keys : InSomeTier(cache', x) => cache'.meta[x] # {}
      BY <2>1, <2>2, HeldElsewhere
    <2>4. e.step \notin Carrying BY DEF Carrying
    <2> HIDE DEF e
    <2> QED BY <2>1, <2>3, <2>4, HeldCalled
  <1>6. ASSUME NEW k \in Keys, NEW v \in Values, NEW heat \in Heats, NEW life \in Lifetimes,
               PutStart(k, v, heat, life)
        PROVE  Held'
    <2>1. /\ Unlocked /\ cache' = cache
          /\ Begins({[step |-> "Sweep"], [step |-> "PutMemory"], [step |-> "PutPmemPart"],
                      [step |-> "PutSsd"], [step |-> "PutFinish"]})
      BY <1>6, PutStartEffect
    <2>2. \E new : Begins(new) /\ \A x \in new : x.step \notin Carrying BY <2>1, FirstSteps
    <2> QED BY <1>0, <2>1, <2>2, HeldCalled
  <1>7. ASSUME NEW k \in Keys, NEW v \in Values, PutMemoryOnly(k, v) PROVE Held'
    <2>1. /\ Unlocked /\ Touches(cache, cache', k) /\ cache'.meta[k] # {}
          /\ Begins({[step |-> "EvictMemory"]}) \/ todo' = todo
      BY <1>7, PutMemoryOnlyEffect
    <2>2. \/ todo' = todo \/ \E new : Begins(new) /\ \A x \in new : x.step \notin Carrying
      BY <2>1, FirstSteps
    <2>3. \A x \in Keys : InSomeTier(cache', x) => cache'.meta[x] # {}
      BY <2>1, HeldElsewhere
    <2> QED BY <2>1, <2>2, <2>3, HeldCalled
  <1>8. ASSUME NEW k \in Keys, DropVolatile(k) PROVE Held'
    <2>1. /\ Unlocked /\ todo' = todo /\ Touches(cache, cache', k) /\ SameSsd(cache, cache')
          /\ cache'.memory[k] = None /\ cache'.pmem[k] = None
          /\ cache'.meta[k] = {} <=> cache.meta[k] = {}
      BY <1>8, DropVolatileEffect
    <2>2. InSomeTier(cache', k) => cache'.meta[k] # {}
      BY <1>0, <2>1 DEF SameSsd, SameIndex, InSomeTier, InMemory, InPmem, Indexed
    <2>3. \A x \in Keys : InSomeTier(cache', x) => cache'.meta[x] # {}
      BY <2>1, <2>2, HeldElsewhere
    <2> QED BY <2>1, <2>3, HeldCalled
  <1>9. ASSUME NEW k \in Keys, Invalidate(k) PROVE Held'
    <2>1. Unlocked /\ todo' = todo /\ \E ok : Removed(k, ok) BY <1>9, InvalidateEffect
    <2>2. ~ InSomeTier(cache', k) /\ Touches(cache, cache', k)
      BY <2>1 DEF Removed, InSomeTier, InMemory, InPmem, Indexed
    <2>3. \A x \in Keys : InSomeTier(cache', x) => cache'.meta[x] # {}
      BY <2>2, HeldElsewhere
    <2> QED BY <2>1, <2>3, HeldCalled
  <1>10. CASE Clear
    <2>1. Unlocked /\ todo' = todo /\ NothingIn(cache') BY <1>10, ClearEffect DEF NoHalfClear
    <2>2. \A x \in Keys : ~ InSomeTier(cache', x)
      BY <2>1 DEF NothingIn, InSomeTier, InMemory, InPmem, Indexed
    <2> QED BY <2>1, <2>2, HeldCalled
  <1>11. CASE PurgeStart
    <2>1. Unlocked /\ cache' = cache /\ Begins({[step |-> "Purge"]}) BY <1>11, PurgeStartEffect
    <2>2. \E new : Begins(new) /\ \A x \in new : x.step \notin Carrying BY <2>1, FirstSteps
    <2> QED BY <1>0, <2>1, <2>2, HeldCalled
  <1>12. CASE \/ \E n \in MemoryCapacities : SetMemoryCapacity(n)
              \/ \E n \in PmemCapacities : SetPmemCapacity(n)
              \/ \E n \in SsdCapacities : SetSsdCapacity(n)
    <2>1. /\ Unlocked /\ SameEntries(cache, cache')
          /\ \/ Begins({[step |-> "EvictMemory"]}) \/ Begins({[step |-> "EvictPmem"]})
             \/ Begins({[step |-> "EvictSsd", need |-> 0]})
      BY <1>12, CapacityEffect
    <2>2. \E new : Begins(new) /\ \A x \in new : x.step \notin Carrying BY <2>1, FirstSteps
    <2>3. \A x \in Keys : InSomeTier(cache', x) => cache'.meta[x] # {}
      BY <1>0, <2>1 DEF SameEntries, SameMemory, SamePmem, SameSsd, SameIndex, SameMetadata,
                        InSomeTier, InMemory, InPmem, Indexed
    <2> QED BY <2>1, <2>2, <2>3, HeldCalled
  <1>13. ASSUME NEW b \in BOOLEAN, SetSsdOnly(b) PROVE Held'
    <2>1. /\ Unlocked /\ todo' = todo /\ SameSsd(cache, cache')
          /\ \A k \in Keys : cache'.meta[k] = {} <=> cache.meta[k] = {}
          /\ \/ SameEntries(cache, cache')
             \/ \A k \in Keys : cache'.memory[k] = None /\ cache'.pmem[k] = None
      BY <1>13, SetSsdOnlyEffect
    <2>2. \A x \in Keys : InSomeTier(cache', x) => cache'.meta[x] # {}
      BY <1>0, <2>1 DEF SameEntries, SameMemory, SamePmem, SameSsd, SameIndex, SameMetadata,
                        InSomeTier, InMemory, InPmem, Indexed
    <2> QED BY <2>1, <2>2, HeldCalled
  <1>14. ASSUME NEW b \in BOOLEAN, SetStarted(b) \/ SetDefaultTtl(b) PROVE Held'
    <2>1. Unlocked /\ todo' = todo /\ SameEntries(cache, cache') BY <1>14, SwitchEffect
    <2>2. \A x \in Keys : InSomeTier(cache', x) => cache'.meta[x] # {}
      BY <1>0, <2>1 DEF SameEntries, SameMemory, SamePmem, SameSsd, SameIndex, SameMetadata,
                        InSomeTier, InMemory, InPmem, Indexed
    <2> QED BY <2>1, <2>2, HeldCalled
  <1>15. ASSUME NEW k \in Keys, Pin(k) \/ Unpin(k) PROVE Held'
    <2>1. Unlocked /\ todo' = todo /\ cache' = cache BY <1>15, PinEffect
    <2> QED BY <1>0, <2>1, HeldCalled
  <1>16. ASSUME NEW k \in Keys, Lapse(k) PROVE Held'
    <2>1. /\ Unlocked /\ todo' = todo /\ SameMemory(cache, cache') /\ SamePmem(cache, cache')
          /\ SameSsd(cache, cache') /\ cache'.meta = cache.meta
      BY <1>16, LapseEffect
    <2>2. \A x \in Keys : InSomeTier(cache', x) => cache'.meta[x] # {}
      BY <1>0, <2>1 DEF SameMemory, SamePmem, SameSsd, SameIndex, InSomeTier, InMemory, InPmem, Indexed
    <2> QED BY <2>1, <2>2, HeldCalled
  <1>17. CASE Reclaim
    <2>1. /\ Unlocked /\ cache' = cache
          /\ Begins({[step |-> "EvictMemory"], [step |-> "EvictPmem"],
                      [step |-> "EvictSsd", need |-> 0]})
      BY <1>17, ReclaimEffect
    <2>2. \E new : Begins(new) /\ \A x \in new : x.step \notin Carrying BY <2>1, FirstSteps
    <2> QED BY <1>0, <2>1, <2>2, HeldCalled
  <1> QED BY <1>1, <1>2, <1>3, <1>4, <1>5, <1>6, <1>7, <1>8, <1>9, <1>10, <1>11, <1>12, <1>13,
             <1>14, <1>15, <1>16, <1>17 DEF Read, Write, Manage

\* What some tier holds has metadata at every moment, and the metadata of a key
\* is in one home only, the one metadata_of looks in: make_resident,
\* take_resident and their PMEM twins move it along with the value. Excluded: a
\* clear_all_locked whose PMEM wipe fails (NoHalfClear).
THEOREM MetadataIsAtHome ==
    ASSUME NoHalfClear
    PROVE  Spec => []MetadataAtHome
  <1>1. Init => Held
    <2> SUFFICES ASSUME Init PROVE Held OBVIOUS
    <2>1. \A k \in Keys : ~ InSomeTier(cache, k)
      <3>1. PICK m \in MemoryCapacities, p \in PmemCapacities, s \in SsdCapacities :
               cache = EmptyInner(m, p, s)
        BY DEF Init
      <3>2. m \in Nat /\ p \in Nat /\ s \in Nat BY CacheAssumption
      <3>3. NothingIn(cache) BY <3>1, <3>2, EmptyInnerFields
      <3> QED BY <3>3 DEF NothingIn, InSomeTier, InMemory, InPmem, Indexed
    <2> QED BY <2>1, EmptyStack DEF Init, Held
  <1>2. Shape /\ Held /\ [Next]_vars => Held'
    <2> SUFFICES ASSUME Shape, Held, [Next]_vars PROVE Held' OBVIOUS
    <2>1. CASE UNCHANGED vars BY <2>1 DEF vars, Held
    <2> QED BY <2>1, HeldLockHolder, HeldCalls DEF Next
  <1>3. Shape /\ Held => MetadataAtHome
    <2> SUFFICES ASSUME Shape, Held PROVE MetadataAtHome OBVIOUS
    <2>1. ASSUME NEW k \in Keys, cache.meta[k] # {}
          PROVE  Cardinality(cache.meta[k]) = 1 /\ Described(cache, k)
      <3>1. cache.meta[k] = {Home(cache, k)} BY <2>1 DEF Shape, Tidy, TidyAt
      <3>2. Cardinality(cache.meta[k]) = 1 BY <3>1, FS_Singleton
      <3> QED BY <3>1, <3>2 DEF Home, Described
    <2> QED BY <2>1 DEF Held, MetadataAtHome
  <1> QED BY <1>1, <1>2, <1>3, ShapeInvariant, PTL DEF Spec

-----------------------------------------------------------------------------
(* The SSD index.                                                          *)

\* The store answers every call: no SSD write, delete or manifest record fails
\* and nobody stops the cache. With any of these a block can outlive its index
\* entry or the reverse, and the runs of failing writes do not claim this.
SsdReliable == Faults \cap {"ssdWrite", "ssdDelete", "manifest"} = {} /\ "stop" \notin Calls

\* The index entry of k is the length of the block the store would return.
MatchAt(c, k) == c.disk_index[k] = IF c.block[k] = None THEN None ELSE BlockLen[c.block[k]]
Matching == cache.started /\ \A k \in Keys : MatchAt(cache, k)

\* A step that touches k alone keeps the index right if it does so at k.
LEMMA MatchingElsewhere ==
    ASSUME Matching, NEW k \in Keys, Touches(cache, cache', k), MatchAt(cache', k)
    PROVE  Matching'
  BY DEF Matching, MatchAt, Touches, SameSettings, SameEntry

\* A step that touches no block and no index entry keeps it right.
LEMMA MatchingSame ==
    ASSUME Matching, SameSsd(cache, cache'), cache'.started = cache.started
    PROVE  Matching'
  BY DEF Matching, MatchAt, SameSsd, SameIndex

\* A removal takes both the block and the index entry.
LEMMA MatchingRemoved ==
    ASSUME Matching, NEW k \in Keys, SsdReliable, \E ok \in Ok("ssdDelete") : Removed(k, ok)
    PROVE  Matching'
  <1>1. Ok("ssdDelete") = {TRUE} BY Answers DEF SsdReliable, Matching
  <1>2. Touches(cache, cache', k) /\ MatchAt(cache', k) BY <1>1 DEF Removed, MatchAt
  <1> QED BY <1>2, MatchingElsewhere

\* No step parts the index from the store.
LEMMA MatchingStep ==
    ASSUME Shape, Matching, SsdReliable, Next
    PROVE  Matching'
  <1>0. Ok("ssdDelete") = {TRUE} /\ Ok("ssdWrite") = {TRUE} /\ Ok("manifest") = {TRUE}
    BY Answers DEF SsdReliable, Matching
  <1>01. ASSUME cache' = cache PROVE Matching' BY <1>01 DEF Matching, MatchAt
  <1>02. ASSUME NEW k \in Keys, Touches(cache, cache', k), SameSsd(cache, cache') PROVE Matching'
    BY <1>02, MatchingSame DEF Touches, SameSettings
  <1>03. ASSUME SameEntries(cache, cache'), cache'.started = cache.started PROVE Matching'
    BY <1>03, MatchingSame DEF SameEntries
  <1>1. CASE EvictMemory BY <1>1, <1>01, <1>02, EvictMemoryEffect
  <1>2. CASE DemoteMemory \/ SsdBypass \/ PutSsd \/ MakeRoom
    BY <1>2, <1>01, DemoteMemoryEffect, SsdBypassEffect, PutSsdEffect, MakeRoomEffect
  <1>3. CASE PutPmem BY <1>3, <1>02, PutPmemEffect
  <1>4. CASE EvictPmem BY <1>4, <1>01, <1>02, EvictPmemEffect
  <1>5. CASE Forget BY <1>5, <1>02, ForgetEffect
  <1>6. CASE EvictSsd
    <2>1. CASE cache' = cache BY <1>01, <2>1
    <2>2. CASE cache' # cache
      <3>1. PICK k \in Keys : /\ Touches(cache, cache', k)
                              /\ cache'.disk_index[k] = None /\ cache'.block[k] = None
        BY <1>0, <1>6, <2>2, EvictSsdEffect
      <3> QED BY <3>1, MatchingElsewhere DEF MatchAt
    <2> QED BY <2>1, <2>2
  <1>7. CASE WriteBypass
    <2>1. CASE cache' = cache BY <1>01, <2>1
    <2>2. CASE cache' # cache
      <3> DEFINE k == todo[1].key
                 v == todo[1].val
      <3>1. /\ k \in Keys /\ v \in Values /\ Touches(cache, cache', k)
            /\ cache'.block[k] = v /\ cache'.disk_index[k] = BlockLen[v]
        BY <1>0, <1>7, <2>2, WriteBypassEffect DEF SsdReliable
      <3> QED BY <3>1, MatchingElsewhere, InnerAssumption DEF MatchAt
    <2> QED BY <2>1, <2>2
  <1>8. CASE Sweep \/ Purge BY <1>8, <1>01, SweepEffect, MatchingRemoved
  <1>9. CASE PutMemory BY <1>9, <1>02, PutMemoryEffect
  <1>10. CASE PutPmemPart BY <1>10, <1>01, <1>02, PutPmemPartEffect
  <1>11. CASE WriteSsd
    <2>1. CASE cache' = cache BY <1>01, <2>1
    <2>2. CASE cache' # cache
      <3> DEFINE k == req.key
                 v == req.val
      <3>1. /\ k \in Keys /\ v \in Values /\ Touches(cache, cache', k)
            /\ cache'.block[k] = v /\ cache'.disk_index[k] = BlockLen[v]
        BY <1>0, <1>11, <2>2, WriteSsdEffect
      <3> QED BY <3>1, MatchingElsewhere, InnerAssumption DEF MatchAt
    <2> QED BY <2>1, <2>2
  <1>12. CASE PutFinish
    <2> DEFINE k == req.key
    <2>1. /\ k \in Keys /\ Touches(cache, cache', k)
          /\ \/ cache'.disk_index[k] = None /\ cache'.block[k] = None
             \/ SameSsd(cache, cache')
      BY <1>0, <1>12, PutFinishEffect
    <2> QED BY <1>02, <2>1, MatchingElsewhere DEF MatchAt
  <1>13. CASE LockHolder
    BY <1>1, <1>2, <1>3, <1>4, <1>5, <1>6, <1>7, <1>8, <1>9, <1>10, <1>11, <1>12, <1>13
       DEF LockHolder
  <1>14. ASSUME NEW r \in Readers, Read(r) PROVE Matching'
    <2>1. ASSUME NEW k \in Keys, StartGet(r, k) PROVE Matching' BY <2>1, <1>01, StartGetEffect
    <2>2. CASE RemoveExpired(r) BY <2>2, <1>01, RemoveExpiredEffect, MatchingRemoved
    <2>3. CASE ReadSsd(r) BY <2>3, <1>01, <1>03, ReadSsdEffect DEF SameSettings
    <2>4. CASE FinishSsd(r) BY <2>4, <1>02, FinishSsdEffect
    <2>5. CASE Promote(r) BY <2>5, <1>02, PromoteEffect
    <2> QED BY <1>14, <2>1, <2>2, <2>3, <2>4, <2>5 DEF Read
  <1>15. CASE Write
    <2>1. ASSUME NEW k \in Keys, NEW v \in Values, NEW heat \in Heats, NEW life \in Lifetimes,
                 PutStart(k, v, heat, life)
          PROVE  Matching'
      BY <2>1, <1>01, PutStartEffect
    <2>2. ASSUME NEW k \in Keys, NEW v \in Values, PutMemoryOnly(k, v) PROVE Matching'
      BY <2>2, <1>02, PutMemoryOnlyEffect
    <2>3. ASSUME NEW k \in Keys, DropVolatile(k) PROVE Matching' BY <2>3, <1>02, DropVolatileEffect
    <2>4. ASSUME NEW k \in Keys, Invalidate(k) PROVE Matching'
      BY <2>4, InvalidateEffect, MatchingRemoved
    <2>5. CASE Clear
      <3>1. /\ SameSettings(cache, cache')
            /\ \/ NothingIn(cache') /\ \A k \in Keys : cache'.block[k] = None
               \/ SameSsd(cache, cache')
        BY <1>0, <2>5, ClearEffect
      <3>2. CASE SameSsd(cache, cache') BY <3>1, <3>2, MatchingSame DEF SameSettings
      <3>3. CASE NothingIn(cache') /\ \A k \in Keys : cache'.block[k] = None
        BY <3>1, <3>3 DEF NothingIn, Matching, MatchAt, SameSettings
      <3> QED BY <3>1, <3>2, <3>3
    <2>6. CASE PurgeStart BY <2>6, <1>01, PurgeStartEffect
    <2> QED BY <1>15, <2>1, <2>2, <2>3, <2>4, <2>5, <2>6 DEF Write
  <1>16. CASE Manage
    <2>1. CASE \/ \E n \in MemoryCapacities : SetMemoryCapacity(n)
               \/ \E n \in PmemCapacities : SetPmemCapacity(n)
               \/ \E n \in SsdCapacities : SetSsdCapacity(n)
      BY <2>1, <1>03, CapacityEffect
    <2>2. ASSUME NEW b \in BOOLEAN, SetSsdOnly(b) PROVE Matching'
      BY <2>2, MatchingSame, SetSsdOnlyEffect
    <2>3. ASSUME NEW b \in BOOLEAN, SetStarted(b) \/ SetDefaultTtl(b) PROVE Matching'
      <3>1. SameEntries(cache, cache') /\ cache'.started = cache.started
        BY <2>3, SwitchEffect DEF SsdReliable
      <3> QED BY <1>03, <3>1
    <2>4. ASSUME NEW k \in Keys, Pin(k) \/ Unpin(k) PROVE Matching' BY <2>4, <1>01, PinEffect
    <2>5. ASSUME NEW k \in Keys, Lapse(k) PROVE Matching' BY <2>5, <1>02, LapseEffect
    <2>6. CASE Reclaim BY <2>6, <1>01, ReclaimEffect
    <2> QED BY <1>16, <2>1, <2>2, <2>3, <2>4, <2>5, <2>6 DEF Manage
  <1> QED BY <1>13, <1>14, <1>15, <1>16 DEF Next

\* While no SSD operation fails, the index lists exactly the blocks the store
\* would return, with their lengths, at every moment: evict_ssd_for_batch,
\* write_ssd_block and remove_expired_entry change both or neither. Excluded:
\* failing SSD writes, deletes and manifest appends, and a stopped store, which
\* refuses them (SsdReliable).
THEOREM IndexMatches ==
    ASSUME SsdReliable
    PROVE  Spec => []IndexMatchesStore
  <1>1. Init => Matching
    <2> SUFFICES ASSUME Init PROVE Matching OBVIOUS
    <2>1. PICK m \in MemoryCapacities, p \in PmemCapacities, s \in SsdCapacities :
             cache = EmptyInner(m, p, s)
      BY DEF Init
    <2>2. m \in Nat /\ p \in Nat /\ s \in Nat BY CacheAssumption
    <2> QED BY <2>1, <2>2, EmptyInnerFields DEF Matching, MatchAt, NothingIn
  <1>2. Shape /\ Matching /\ [Next]_vars => Matching'
    <2> SUFFICES ASSUME Shape, Matching, [Next]_vars PROVE Matching' OBVIOUS
    <2>1. CASE UNCHANGED vars BY <2>1 DEF vars, Matching, MatchAt
    <2> QED BY <2>1, MatchingStep
  <1>3. Matching => IndexMatchesStore BY DEF Matching, MatchAt, IndexMatchesStore
  <1> QED BY <1>1, <1>2, <1>3, ShapeInvariant, PTL DEF Spec

-----------------------------------------------------------------------------
(* NothingDescribedThatIsGone.                                             *)

\* The lock holder's step leaves what is below it on the stack.
LEMMA StackKept ==
    ASSUME Shape, LockHolder
    PROVE  /\ OnStack(Tail(todo)) \subseteq OnStack(todo')
           /\ OnStack(todo) = {todo[1]} \cup OnStack(Tail(todo))
           /\ UNCHANGED <<pins, reclaims>> /\ todo # <<>>
  <1>1. \E step \in Steps : Doing(step)
    BY DEF LockHolder, Steps, EvictMemory, DemoteMemory, PutPmem, EvictPmem, Forget, SsdBypass,
           EvictSsd, WriteBypass, Sweep, PutMemory, PutPmemPart, PutSsd, MakeRoom, WriteSsd, PutFinish,
           Purge
  <1>2. OnStack(todo) = {todo[1]} \cup OnStack(Tail(todo)) /\ todo # <<>> BY <1>1, TopFacts
  <1>0. ASSUME \E new : Becomes(new) PROVE OnStack(Tail(todo)) \subseteq OnStack(todo')
    BY <1>0 DEF Becomes
  <1>3. CASE EvictMemory BY <1>0, <1>2, <1>3, EvictMemoryEffect DEF Still
  <1>4. CASE DemoteMemory BY <1>0, <1>2, <1>4, DemoteMemoryEffect DEF Still
  <1>5. CASE PutPmem BY <1>0, <1>2, <1>5, PutPmemEffect DEF Still
  <1>6. CASE EvictPmem BY <1>0, <1>2, <1>6, EvictPmemEffect DEF Still
  <1>7. CASE Forget BY <1>0, <1>2, <1>7, ForgetEffect DEF Still
  <1>8. CASE SsdBypass BY <1>0, <1>2, <1>8, SsdBypassEffect DEF Still
  <1>9. CASE EvictSsd BY <1>0, <1>2, <1>9, EvictSsdEffect DEF Still
  <1>10. CASE WriteBypass BY <1>0, <1>2, <1>10, WriteBypassEffect DEF Still
  <1>11. CASE Sweep \/ Purge BY <1>0, <1>2, <1>11, SweepEffect DEF Still
  <1>12. CASE PutMemory BY <1>0, <1>2, <1>12, PutMemoryEffect DEF Still
  <1>13. CASE PutPmemPart BY <1>0, <1>2, <1>13, PutPmemPartEffect DEF Still
  <1>14. CASE PutSsd BY <1>0, <1>2, <1>14, PutSsdEffect DEF Still
  <1>15. CASE MakeRoom BY <1>0, <1>2, <1>15, MakeRoomEffect DEF Still
  <1>16. CASE WriteSsd BY <1>0, <1>2, <1>16, WriteSsdEffect DEF Still
  <1>17. CASE PutFinish
    <2>1. Doing("PutFinish") BY <1>17 DEF PutFinish
    <2>2. Stacked(todo) /\ todo[1].step = "PutFinish" BY <2>1, TopFacts DEF Agenda
    <2>3. Tail(todo) = <<>> BY <1>2, <2>2, LastStep
    <2>4. OnStack(Tail(todo)) = {} BY <2>3, EmptyStack
    <2> QED BY <1>2, <1>17, <2>4, PutFinishEffect
  <1> QED BY <1>3, <1>4, <1>5, <1>6, <1>7, <1>8, <1>9, <1>10, <1>11, <1>12, <1>13, <1>14, <1>15,
             <1>16, <1>17 DEF LockHolder

\* The lock holder has yet to forget k, or to finish its put.
Owed(k) ==
    \/ \E x \in OnStack(todo) : x.step = "Forget" /\ x.key = k
    \/ req.active /\ req.key = k

\* Metadata without an entry is owed a clean-up.
Accounted == \A k \in Keys : cache.meta[k] # {} => InSomeTier(cache, k) \/ Owed(k)

\* No SSD read comes back late, and nobody asks for what leaves metadata behind
\* on purpose: invalidate_memory_only, a refused put_memory_only,
\* set_ssd_instance_only(true), and a clear whose PMEM part fails.
NothingLeftBehind ==
    Readers = {} /\ Calls \cap {"memoryOnly", "ssdOnly"} = {} /\ NoHalfClear

\* A step that touches one key and owes what it owed.
LEMMA AccountedElsewhere ==
    ASSUME Accounted, NEW k \in Keys, Touches(cache, cache', k),
           \A x \in Keys : Owed(x) => Owed(x)' \/ x = k,
           cache'.meta[k] # {} => InSomeTier(cache', k) \/ Owed(k)'
    PROVE  Accounted'
  <1> SUFFICES ASSUME NEW x \in Keys, x # k, cache'.meta[x] # {}
               PROVE  InSomeTier(cache', x) \/ Owed(x)'
    BY DEF Accounted
  <1>1. SameEntry(cache, cache', x) BY DEF Touches
  <1> QED BY <1>1 DEF Accounted, SameEntry, InSomeTier, InMemory, InPmem, Indexed

\* The lock holder cleans up what it leaves nowhere.
LEMMA AccountedLockHolder ==
    ASSUME Shape, Accounted, LockHolder
    PROVE  Accounted'
  <1>0. OnStack(Tail(todo)) \subseteq OnStack(todo') /\ OnStack(todo) = {todo[1]} \cup OnStack(Tail(todo))
    BY StackKept
  <1>01. ASSUME todo[1].step # "Forget", UNCHANGED req PROVE \A x \in Keys : Owed(x) => Owed(x)'
    BY <1>0, <1>01 DEF Owed
  <1>02. ASSUME todo[1].step # "Forget", req.active, req'.active, req'.key = req.key
         PROVE  \A x \in Keys : Owed(x) => Owed(x)'
    BY <1>0, <1>02 DEF Owed
  <1>03. ASSUME cache' = cache, \A x \in Keys : Owed(x) => Owed(x)' PROVE Accounted'
    BY <1>03 DEF Accounted
  <1>1. CASE EvictMemory
    <2>1. todo[1].step = "EvictMemory" /\ UNCHANGED req BY <1>1, TopFacts, EvictMemoryEffect DEF EvictMemory
    <2>2. \A x \in Keys : Owed(x) => Owed(x)' BY <1>01, <2>1
    <2>3. CASE cache' = cache BY <1>03, <2>2, <2>3
    <2>4. CASE cache' # cache
      <3>1. PICK k \in Keys :
               /\ Touches(cache, cache', k) /\ SamePmem(cache, cache') /\ SameSsd(cache, cache')
               /\ cache'.memory[k] = None /\ (cache'.meta[k] = {} <=> cache.meta[k] = {})
               /\ \/ cache.memory[k] = None
                  \/ \E again \in {{}, {todo[1]}} :
                       Becomes({[step |-> "DemoteMemory", key |-> k, val |-> cache.memory[k]],
                                [step |-> "Forget", key |-> k]} \cup again)
        BY <1>1, <2>4, EvictMemoryEffect
      <3>2. CASE cache.memory[k] = None
        <4>1. InSomeTier(cache, k) => InSomeTier(cache', k)
          BY <3>1, <3>2 DEF InSomeTier, InMemory, InPmem, Indexed, SamePmem, SameSsd, SameIndex
        <4> QED BY <2>2, <3>1, <4>1, AccountedElsewhere DEF Accounted
      <3>3. CASE cache.memory[k] # None
        <4> DEFINE f == [step |-> "Forget", key |-> k]
        <4>1. f \in OnStack(todo') BY <3>1, <3>3 DEF Becomes
        <4>2. f.step = "Forget" /\ f.key = k OBVIOUS
        <4> HIDE DEF f
        <4>3. Owed(k)' BY <4>1, <4>2 DEF Owed
        <4> QED BY <2>2, <3>1, <4>3, AccountedElsewhere
      <3> QED BY <3>2, <3>3
    <2> QED BY <2>3, <2>4
  <1>2. CASE DemoteMemory \/ SsdBypass
    <2>1. todo[1].step # "Forget" /\ UNCHANGED req /\ cache' = cache
      BY <1>2, DemoteMemoryEffect, SsdBypassEffect
    <2> QED BY <1>01, <1>03, <2>1
  <1>3. CASE PutPmem
    <2> DEFINE k == todo[1].key
    <2>1. /\ todo[1].step # "Forget" /\ k \in Keys /\ Touches(cache, cache', k)
          /\ SameMemory(cache, cache') /\ SameSsd(cache, cache')
          /\ cache'.meta[k] = {} <=> cache.meta[k] = {}
          /\ req'.active = req.active /\ (req.active => req'.key = req.key)
          /\ cache'.pmem[k] \in Values \/ SamePmem(cache, cache')
      BY <1>3, PutPmemEffect DEF SameCall
    <2>2. \A x \in Keys : Owed(x) => Owed(x)' BY <1>0, <2>1 DEF Owed
    <2>3. InSomeTier(cache, k) => InSomeTier(cache', k)
      BY <2>1, InnerAssumption
         DEF InSomeTier, InMemory, InPmem, Indexed, SamePmem, SameMemory, SameSsd, SameIndex
    <2> HIDE DEF k
    <2> QED BY <2>1, <2>2, <2>3, AccountedElsewhere DEF Accounted
  <1>4. CASE EvictPmem
    <2>1. todo[1].step = "EvictPmem" /\ UNCHANGED req BY <1>4, TopFacts, EvictPmemEffect DEF EvictPmem
    <2>2. \A x \in Keys : Owed(x) => Owed(x)' BY <1>01, <2>1
    <2>3. CASE cache' = cache BY <1>03, <2>2, <2>3
    <2>4. CASE cache' # cache
      <3>1. PICK k \in Keys :
               /\ Touches(cache, cache', k) /\ SameMemory(cache, cache') /\ SameSsd(cache, cache')
               /\ cache'.pmem[k] = None /\ (cache'.meta[k] = {} <=> cache.meta[k] = {})
               /\ \/ cache.pmem[k] = None
                  \/ \E down \in {{}, {[step |-> "SsdBypass", key |-> k, val |-> cache.pmem[k]]}},
                        again \in {{}, {todo[1]}} :
                       Becomes(down \cup {[step |-> "Forget", key |-> k]} \cup again)
        BY <1>4, <2>4, EvictPmemEffect
      <3>2. CASE cache.pmem[k] = None
        <4>1. InSomeTier(cache, k) => InSomeTier(cache', k)
          BY <3>1, <3>2 DEF InSomeTier, InMemory, InPmem, Indexed, SameMemory, SameSsd, SameIndex
        <4> QED BY <2>2, <3>1, <4>1, AccountedElsewhere DEF Accounted
      <3>3. CASE cache.pmem[k] # None
        <4> DEFINE f == [step |-> "Forget", key |-> k]
        <4>1. f \in OnStack(todo') BY <3>1, <3>3 DEF Becomes
        <4>2. f.step = "Forget" /\ f.key = k OBVIOUS
        <4> HIDE DEF f
        <4>3. Owed(k)' BY <4>1, <4>2 DEF Owed
        <4> QED BY <2>2, <3>1, <4>3, AccountedElsewhere
      <3> QED BY <3>2, <3>3
    <2> QED BY <2>3, <2>4
  <1>5. CASE Forget
    <2> DEFINE k == todo[1].key
    <2>1. /\ UNCHANGED req /\ k \in Keys /\ Touches(cache, cache', k)
          /\ InSomeTier(cache, k) => cache' = cache
          /\ ~ InSomeTier(cache, k) => cache'.meta[k] = {}
      BY <1>5, ForgetEffect
    <2>2. \A x \in Keys : Owed(x) => Owed(x)' \/ x = k BY <1>0, <2>1 DEF Owed
    <2> HIDE DEF k
    <2> QED BY <2>1, <2>2, AccountedElsewhere
  <1>6. CASE EvictSsd
    <2>1. todo[1].step = "EvictSsd" /\ UNCHANGED req BY <1>6, TopFacts, EvictSsdEffect DEF EvictSsd
    <2>2. \A x \in Keys : Owed(x) => Owed(x)' BY <1>01, <2>1
    <2>3. CASE cache' = cache BY <1>03, <2>2, <2>3
    <2>4. CASE cache' # cache
      <3>1. PICK k \in Keys :
               /\ Touches(cache, cache', k) /\ SameMemory(cache, cache') /\ SamePmem(cache, cache')
               /\ ~ (InMemory(cache, k) \/ InPmem(cache, k)) => cache'.meta[k] = {}
        BY <1>6, <2>4, EvictSsdEffect
      <3>2. InMemory(cache, k) \/ InPmem(cache, k) => InSomeTier(cache', k)
        BY <3>1 DEF InSomeTier, InMemory, InPmem, SameMemory, SamePmem
      <3> QED BY <2>2, <3>1, <3>2, AccountedElsewhere
    <2> QED BY <2>3, <2>4
  <1>7. CASE WriteBypass
    <2> DEFINE k == todo[1].key
    <2>1. /\ todo[1].step # "Forget" /\ UNCHANGED req /\ k \in Keys BY <1>7, WriteBypassEffect
    <2>2. \A x \in Keys : Owed(x) => Owed(x)' BY <1>01, <2>1
    <2>3. CASE cache' = cache BY <1>03, <2>2, <2>3
    <2>4. CASE cache' # cache
      <3>1. /\ Touches(cache, cache', k) /\ SameMemory(cache, cache') /\ SamePmem(cache, cache')
            /\ SameMetadata(cache, cache') /\ (SameIndex(cache, cache') \/ Indexed(cache', k))
        BY <1>7, <2>4, WriteBypassEffect
      <3>2. InSomeTier(cache, k) => InSomeTier(cache', k)
        BY <3>1 DEF InSomeTier, InMemory, InPmem, Indexed, SamePmem, SameMemory, SameIndex
      <3> HIDE DEF k
      <3> QED BY <2>1, <2>2, <3>1, <3>2, AccountedElsewhere DEF Accounted, SameMetadata
    <2> QED BY <2>3, <2>4
  <1>8. CASE Sweep \/ Purge
    <2>1. todo[1].step \in {"Sweep", "Purge"} /\ UNCHANGED req
      BY <1>8, TopFacts, SweepEffect DEF Sweep, Purge
    <2>2. \A x \in Keys : Owed(x) => Owed(x)' BY <1>01, <2>1
    <2>3. CASE cache' = cache BY <1>03, <2>2, <2>3
    <2>4. CASE cache' # cache
      <3>1. PICK k \in Keys : Touches(cache, cache', k) /\ cache'.meta[k] = {}
        BY <1>8, <2>4, SweepEffect DEF Removed
      <3> QED BY <2>2, <3>1, AccountedElsewhere
    <2> QED BY <2>3, <2>4
  <1>9. CASE PutMemory \/ PutPmemPart \/ PutSsd \/ MakeRoom \/ WriteSsd
    <2>1. todo[1].step # "Forget" /\ req.active /\ req'.active /\ req'.key = req.key
      BY <1>9, PutMemoryEffect, PutPmemPartEffect, PutSsdEffect, MakeRoomEffect, WriteSsdEffect
         DEF SameCall
    <2>2. \A x \in Keys : Owed(x) => Owed(x)' BY <1>02, <2>1
    <2>3. cache' = cache \/ \E k \in Keys : k = req.key /\ Touches(cache, cache', k)
      BY <1>9, PutMemoryEffect, PutPmemPartEffect, PutSsdEffect, MakeRoomEffect, WriteSsdEffect
    <2>4. ASSUME NEW k \in Keys, k = req.key, Touches(cache, cache', k) PROVE Accounted'
      <3>1. Owed(k)' BY <2>1, <2>4 DEF Owed
      <3> QED BY <2>2, <2>4, <3>1, AccountedElsewhere
    <2> QED BY <1>03, <2>2, <2>3, <2>4
  <1>10. CASE PutFinish
    <2> DEFINE k == req.key
    <2>1. /\ k \in Keys /\ Touches(cache, cache', k) /\ req' = NoReq
          /\ OnStack(todo) = {todo[1]} /\ todo[1].step = "PutFinish"
          /\ SameMemory(cache, cache') /\ SamePmem(cache, cache')
      BY <1>10, PutFinishEffect
    <2>2. \A x \in Keys : Owed(x) => x = k BY <2>1 DEF Owed
    <2>3. \/ StaleBlock /\ SameIndex(cache, cache')
          \/ (InMemory(cache, k) \/ InPmem(cache, k))
          \/ cache'.meta[k] = {}
          \/ SameSsd(cache, cache') /\ InSomeTier(cache, k)
      BY <1>10, PutFinishEffect
    <2>4. cache'.meta[k] # {} => InSomeTier(cache', k)
      BY <2>1, <2>3 DEF InSomeTier, InMemory, InPmem, Indexed, SameMemory, SamePmem, SameSsd, SameIndex,
                        StaleBlock
    <2> HIDE DEF k
    <2> QED BY <2>1, <2>2, <2>4, AccountedElsewhere
  <1> QED BY <1>1, <1>2, <1>3, <1>4, <1>5, <1>6, <1>7, <1>8, <1>9, <1>10 DEF LockHolder

\* With no read under way, nothing is described that no tier holds: each
\* eviction round, sweep, invalidation and put forgets the metadata of what it
\* left in no tier (forget_metadata_unless_resident). Excluded: reads, whose
\* record_hit may come after an invalidation, and the calls that leave metadata
\* behind on purpose (NothingLeftBehind).
THEOREM NothingGoneIsDescribed ==
    ASSUME NothingLeftBehind
    PROVE  Spec => []NothingDescribedThatIsGone
  <1>1. Init => Accounted
    <2> SUFFICES ASSUME Init PROVE Accounted OBVIOUS
    <2>1. PICK m \in MemoryCapacities, p \in PmemCapacities, s \in SsdCapacities :
             cache = EmptyInner(m, p, s)
      BY DEF Init
    <2>2. m \in Nat /\ p \in Nat /\ s \in Nat BY CacheAssumption
    <2>3. NothingIn(cache) BY <2>1, <2>2, EmptyInnerFields
    <2> QED BY <2>3 DEF NothingIn, Accounted
  <1>2. Shape /\ Accounted /\ [Next]_vars => Accounted'
    <2> SUFFICES ASSUME Shape, Accounted, [Next]_vars PROVE Accounted' OBVIOUS
    <2>0. Unlocked => \A k \in Keys : ~ Owed(k) BY UnlockedFacts DEF Owed
    <2>01. ASSUME Unlocked, SameEntries(cache, cache') PROVE Accounted'
      BY <2>0, <2>01
         DEF Accounted, SameEntries, SameMemory, SamePmem, SameSsd, SameIndex, SameMetadata, InSomeTier,
             InMemory, InPmem, Indexed
    <2>02. ASSUME Unlocked, NEW k \in Keys, \E ok : Removed(k, ok) PROVE Accounted'
      <3>1. Touches(cache, cache', k) /\ cache'.meta[k] = {} BY <2>02 DEF Removed
      <3> QED BY <2>0, <2>02, <3>1, AccountedElsewhere
    <2>03. ASSUME Unlocked, cache' = cache PROVE Accounted'
      BY <2>01, <2>03 DEF SameEntries, SameMemory, SamePmem, SameSsd, SameIndex, SameMetadata
    <2>1. CASE LockHolder BY <2>1, AccountedLockHolder
    <2>2. CASE Write
      <3>1. ASSUME NEW k \in Keys, NEW v \in Values, NEW heat \in Heats, NEW life \in Lifetimes,
                   PutStart(k, v, heat, life)
            PROVE  Accounted'
        BY <2>03, <3>1, PutStartEffect
      <3>2. ASSUME NEW k \in Keys, NEW v \in Values, PutMemoryOnly(k, v) PROVE FALSE
        BY <3>2 DEF PutMemoryOnly, NothingLeftBehind
      <3>3. ASSUME NEW k \in Keys, DropVolatile(k) PROVE FALSE
        BY <3>3 DEF DropVolatile, NothingLeftBehind
      <3>4. ASSUME NEW k \in Keys, Invalidate(k) PROVE Accounted'
        BY <2>02, <3>4, InvalidateEffect
      <3>5. CASE Clear
        <4>1. NothingIn(cache') BY <3>5, ClearEffect DEF NothingLeftBehind, NoHalfClear
        <4> QED BY <4>1 DEF NothingIn, Accounted
      <3>6. CASE PurgeStart BY <2>03, <3>6, PurgeStartEffect
      <3> QED BY <2>2, <3>1, <3>2, <3>3, <3>4, <3>5, <3>6 DEF Write
    <2>3. CASE Manage
      <3>1. CASE \/ \E n \in MemoryCapacities : SetMemoryCapacity(n)
                 \/ \E n \in PmemCapacities : SetPmemCapacity(n)
                 \/ \E n \in SsdCapacities : SetSsdCapacity(n)
        BY <2>01, <3>1, CapacityEffect
      <3>2. ASSUME NEW b \in BOOLEAN, SetSsdOnly(b) PROVE FALSE
        BY <3>2 DEF SetSsdOnly, NothingLeftBehind
      <3>3. ASSUME NEW b \in BOOLEAN, SetStarted(b) \/ SetDefaultTtl(b) PROVE Accounted'
        BY <2>01, <3>3, SwitchEffect
      <3>4. ASSUME NEW k \in Keys, Pin(k) \/ Unpin(k) PROVE Accounted' BY <2>03, <3>4, PinEffect
      <3>5. ASSUME NEW k \in Keys, Lapse(k) PROVE Accounted'
        BY <2>0, <3>5, LapseEffect
           DEF Accounted, SameMemory, SamePmem, SameSsd, SameIndex, InSomeTier, InMemory, InPmem, Indexed
      <3>6. CASE Reclaim BY <2>03, <3>6, ReclaimEffect
      <3> QED BY <2>3, <3>1, <3>2, <3>3, <3>4, <3>5, <3>6 DEF Manage
    <2>4. ASSUME NEW r \in Readers, Read(r) PROVE FALSE BY DEF NothingLeftBehind
    <2>5. CASE UNCHANGED vars BY <2>5 DEF vars, Accounted, Owed
    <2> QED BY <2>1, <2>2, <2>3, <2>4, <2>5 DEF Next
  <1>3. Shape /\ Accounted => NothingDescribedThatIsGone
    BY UnlockedFacts DEF Accounted, Owed, NothingDescribedThatIsGone
  <1> QED BY <1>1, <1>2, <1>3, ShapeInvariant, PTL DEF Spec
=============================================================================
