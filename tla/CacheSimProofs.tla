--------------------------- MODULE CacheSimProofs ---------------------------
(* Proofs about CacheSim, for every size of cache, every trace and option. *)
EXTENDS CacheSim, TLAPS

\* The ages of the slots of one set.
Ages == [Slots -> Slots]

Permutes(ts) ==
  /\ \A b, c \in Slots : ts[b] = ts[c] => b = c
  /\ \A k \in Slots : \E b \in Slots : ts[b] = k

\* The types of what the proofs are about.
AccessType ==
  /\ access_ts \in [Sets -> Ages]
  /\ i \in 0..NumBlocks
  /\ emptySlot \in Slots \cup {-1}
  /\ addr \in Nat
  /\ useLRU \in BOOLEAN

IInv == AccessType /\ TimestampsPermute
-----------------------------------------------------------------------------
(* getIndex cuts an index into the array of sets from an address. *)
LEMMA IndexInSets == ASSUME NEW a \in Nat PROVE getIndex(a) \in Sets
<1>1. NumSets \in Nat /\ NumSets > 0 /\ BlockSize \in Nat /\ BlockSize > 0
  BY CacheAssumption DEF Accepts
<1>2. a \div BlockSize \in Nat
  BY <1>1
<1>3. \A n \in Nat : n % NumSets \in 0..(NumSets - 1)
  BY <1>1
<1> QED
  BY <1>2, <1>3 DEF getIndex, Sets

(* updateAccessTS makes slot b the newest and shifts exactly the slots that   *)
(* were newer: a permutation of the ages stays one.                           *)
LEMMA TouchedPermutes ==
  ASSUME NEW ts \in Ages, Permutes(ts), NEW b \in Slots
  PROVE  Touched(ts, b) \in Ages /\ Permutes(Touched(ts, b))
<1>0. NumBlocks \in Nat /\ Slots = 0..(NumBlocks - 1) /\ 0 \in Slots
  BY CacheAssumption DEF Slots
<1>1. CASE ts[b] = 0
  BY <1>1 DEF Touched
<1>2. CASE ts[b] # 0
  <2> DEFINE new == Touched(ts, b)
  <2>1. \A j \in Slots : /\ j = b => new[j] = 0
                         /\ j # b /\ ts[j] < ts[b] => new[j] = ts[j] + 1
                         /\ j # b /\ ~(ts[j] < ts[b]) => new[j] = ts[j]
    BY <1>2 DEF Touched
  <2>2. new = [j \in Slots |-> new[j]]
    BY <1>2 DEF Touched
  <2> HIDE DEF new
  <2>3. \A j \in Slots : ts[j] \in Slots /\ ts[j] \in Int
    BY <1>0 DEF Ages
  <2>4. \A j \in Slots : j # b => ts[j] # ts[b]
    BY DEF Permutes
  <2>5. \A j \in Slots : new[j] \in Slots
    BY <1>0, <2>1, <2>3
  <2>6. new \in Ages
    BY <2>2, <2>5 DEF Ages
  <2>7. ASSUME NEW j \in Slots, NEW k \in Slots, new[j] = new[k] PROVE j = k
    <3>1. ts[j] = ts[k] => j = k
      BY DEF Permutes
    <3>2. CASE j # b /\ k # b
      BY <2>1, <2>3, <2>4, <2>7, <3>1, <3>2
    <3>3. CASE j = b /\ k # b
      BY <1>0, <2>1, <2>3, <2>4, <2>7, <3>3
    <3>4. CASE j # b /\ k = b
      BY <1>0, <2>1, <2>3, <2>4, <2>7, <3>4
    <3> QED
      BY <3>2, <3>3, <3>4
  <2>8. ASSUME NEW k \in Slots PROVE \E j \in Slots : new[j] = k
    <3>1. CASE k = 0
      BY <2>1, <3>1
    <3>2. CASE k # 0 /\ k <= ts[b]
      <4>1. k - 1 \in Slots /\ k - 1 < ts[b]
        BY <1>0, <2>3, <3>2
      <4>2. PICK j \in Slots : ts[j] = k - 1
        BY <4>1 DEF Permutes
      <4>3. new[j] = (k - 1) + 1
        BY <2>1, <2>3, <4>1, <4>2
      <4>4. (k - 1) + 1 = k
        BY <1>0
      <4> QED
        BY <4>3, <4>4
    <3>3. CASE k > ts[b]
      <4>1. PICK j \in Slots : ts[j] = k
        BY DEF Permutes
      <4> QED
        BY <1>0, <2>1, <2>3, <3>3, <4>1
    <3> QED
      BY <1>0, <2>3, <3>1, <3>2, <3>3
  <2>9. Permutes(new)
    BY <2>7, <2>8 DEF Permutes
  <2> QED
    BY <2>6, <2>9 DEF new
<1> QED
  BY <1>1, <1>2

(* A permutation has exactly one slot of the highest age. *)
LEMMA OneOldest ==
  ASSUME NEW ts \in Ages, Permutes(ts)
  PROVE  \E b \in Slots : {c \in Slots : ts[c] = NumBlocks - 1} = {b}
<1>1. NumBlocks - 1 \in Slots
  BY CacheAssumption DEF Slots
<1> QED
  BY <1>1 DEF Permutes
-----------------------------------------------------------------------------
(* The invariant says of every set that its ages are a permutation. *)
LEMMA PermutesEverywhere == TimestampsPermute <=> \A s \in Sets : Permutes(access_ts[s])
BY DEF TimestampsPermute, Permutes

(* A miss that replaces or fills a slot has one to replace or fill. *)
LEMMA TargetIsSlot ==
  ASSUME IInv
  PROVE  /\ targetSlot # -1 => targetSlot \in Slots
         /\ useLRU => targetSlot # -1
<1>1. index \in Sets
  BY IndexInSets DEF IInv, AccessType, index
<1>2. access_ts[index] \in Ages /\ Permutes(access_ts[index])
  BY <1>1, PermutesEverywhere DEF IInv, AccessType
<1>3. PICK b \in Slots : Oldest = {b}
  BY <1>2, OneOldest DEF Oldest
<1>4. (CHOOSE d \in Oldest : \A c \in Oldest : c <= d) = b
  BY <1>3, CacheAssumption DEF Slots
<1>5. b # -1 /\ emptySlot \in Slots \cup {-1}
  BY CacheAssumption DEF IInv, AccessType, Slots
<1>6. CASE emptySlot # -1
  BY <1>5, <1>6 DEF targetSlot
<1>7. CASE emptySlot = -1
  BY <1>3, <1>4, <1>5, <1>7 DEF targetSlot
<1> QED
  BY <1>6, <1>7

LEMMA InitInv == Init => IInv
<1> SUFFICES ASSUME Init PROVE IInv
  OBVIOUS
<1>1. NumBlocks \in Nat \ {0}
  BY CacheAssumption
<1>2. AccessType
  <2>1. /\ access_ts = [s \in Sets |-> [b \in Slots |-> b]]
        /\ i = 0 /\ emptySlot = -1 /\ addr = 0 /\ useLRU \in BOOLEAN
    BY DEF Init, ReadOptions
  <2>2. [b \in Slots |-> b] \in Ages
    BY DEF Ages
  <2>3. access_ts \in [Sets -> Ages]
    BY <2>1, <2>2
  <2>4. 0 \in 0..NumBlocks /\ 0 \in Nat
    BY <1>1
  <2> QED
    BY <2>1, <2>3, <2>4 DEF AccessType
<1>3. TimestampsPermute
  BY DEF Init, TimestampsPermute
<1> QED
  BY <1>2, <1>3 DEF IInv

(* An update of the access timestamps keeps them a permutation in every set. *)
LEMMA UpdateKeeps ==
  ASSUME IInv, NEW b \in Slots, UpdateAccessTS(b)
  PROVE  access_ts' \in [Sets -> Ages] /\ TimestampsPermute'
<1>1. index \in Sets
  BY IndexInSets DEF IInv, AccessType, index
<1>2. access_ts \in [Sets -> Ages] /\ \A s \in Sets : Permutes(access_ts[s])
  BY PermutesEverywhere DEF IInv, AccessType
<1>3. Touched(access_ts[index], b) \in Ages /\ Permutes(Touched(access_ts[index], b))
  BY <1>1, <1>2, TouchedPermutes
<1>4. access_ts' = [access_ts EXCEPT ![index] = Touched(access_ts[index], b)]
  BY DEF UpdateAccessTS
<1>5. \A s \in Sets : Permutes(access_ts'[s])
  BY <1>1, <1>2, <1>3, <1>4
<1> QED
  BY <1>1, <1>2, <1>3, <1>4, <1>5 DEF TimestampsPermute, Permutes

LEMMA NextInv == IInv /\ [Next]_vars => IInv'
<1> SUFFICES ASSUME IInv, [Next]_vars PROVE IInv'
  OBVIOUS
<1>0. /\ access_ts \in [Sets -> Ages] /\ i \in 0..NumBlocks
      /\ emptySlot \in Slots \cup {-1} /\ addr \in Nat /\ useLRU \in BOOLEAN
      /\ TimestampsPermute
      /\ NumBlocks \in Nat \ {0} /\ Slots = 0..(NumBlocks - 1)
      /\ Addresses \subseteq Nat
  BY CacheAssumption DEF IInv, AccessType, Slots
\* The three ways an action can keep the invariant.
<1>a. ASSUME access_ts' = access_ts, i' \in 0..NumBlocks,
             emptySlot' \in Slots \cup {-1}, addr' \in Nat, useLRU' = useLRU
      PROVE  IInv'
  BY <1>0, <1>a DEF IInv, AccessType, TimestampsPermute
<1>b. ASSUME NEW b \in Slots, UpdateAccessTS(b), i' \in 0..NumBlocks,
             emptySlot' = emptySlot, addr' = addr, useLRU' = useLRU
      PROVE  IInv'
  <2>1. access_ts' \in [Sets -> Ages] /\ TimestampsPermute'
    BY <1>b, UpdateKeeps
  <2> QED
    BY <1>0, <1>b, <2>1 DEF IInv, AccessType
<1>1. ASSUME NEW t \in Ops, NEW a \in Addresses, BeginAccess(t, a) PROVE IInv'
  <2>1. /\ access_ts' = access_ts /\ i' = 0 /\ emptySlot' = -1 /\ addr' = a
        /\ useLRU' = useLRU
    BY <1>1 DEF BeginAccess, slotVars, options
  <2>2. 0 \in 0..NumBlocks /\ a \in Nat
    BY <1>0
  <2> QED
    BY <1>a, <2>1, <2>2
<1>2. CASE ScanHit
  <2>1. i \in Slots /\ UpdateAccessTS(i) /\ UNCHANGED <<i, emptySlot, addr, useLRU>>
    BY <1>0, <1>2 DEF ScanHit, InLoop, frame, options
  <2> QED
    BY <1>0, <1>b, <2>1
<1>3. CASE ScanOther
  <2>1. /\ i \in Slots /\ UpdateAccessTS(i) /\ UNCHANGED <<emptySlot, addr, useLRU>>
        /\ i' = i + 1
    BY <1>0, <1>3 DEF ScanOther, InLoop, options
  <2>2. i + 1 \in 0..NumBlocks
    BY <1>0, <2>1
  <2> QED
    BY <1>b, <2>1, <2>2
<1>4. CASE ScanEmpty
  <2>1. /\ i \in Slots /\ UNCHANGED <<access_ts, addr, useLRU>>
        /\ i' = i + 1 /\ emptySlot' \in {i, emptySlot}
    BY <1>0, <1>4 DEF ScanEmpty, InLoop, options, slotVars
  <2>2. i + 1 \in 0..NumBlocks
    BY <1>0, <2>1
  <2> QED
    BY <1>0, <1>a, <2>1, <2>2
<1>5. CASE LoadMiss \/ StoreMissAllocate
  <2>1. targetSlot \in Slots
    BY <1>5, TargetIsSlot DEF LoadMiss, StoreMissAllocate
  <2>2. UpdateAccessTS(targetSlot) /\ UNCHANGED <<i, emptySlot, addr, useLRU>>
    BY <1>5 DEF LoadMiss, StoreMissAllocate, Fill, frame, options
  <2> QED
    BY <1>0, <1>b, <2>1, <2>2
<1>6. CASE StoreMissNoAllocate \/ OutOfBounds
  <2>1. UNCHANGED <<access_ts, i, emptySlot, addr, useLRU>>
    BY <1>6 DEF StoreMissNoAllocate, OutOfBounds, slotVars, frame, options
  <2> QED
    BY <1>0, <1>a, <2>1
<1>7. CASE UNCHANGED vars
  <2>1. UNCHANGED <<access_ts, i, emptySlot, addr, useLRU>>
    BY <1>7 DEF vars, slotVars, frame, options
  <2> QED
    BY <1>0, <1>a, <2>1
<1> QED
  BY <1>1, <1>2, <1>3, <1>4, <1>5, <1>6, <1>7 DEF Next

LEMMA Invariance == Spec => []IInv
<1> QED
  BY InitInv, NextInv, PTL DEF Spec

(* The access timestamps of a set are a permutation of 0..NumBlocks-1 at every *)
(* step of every access (updateAccessTS, main.cpp:178-190), although the loop  *)
(* of access changes them slot by slot while it looks for the hit.             *)
THEOREM AgesPermute == Spec => []TimestampsPermute
<1>1. IInv => TimestampsPermute
  BY DEF IInv
<1> QED
  BY <1>1, Invariance, PTL

(* Under "lru" a miss always finds a slot (main.cpp:110-132): slots[-1] is     *)
(* never written, for any size of cache and any trace.                         *)
THEOREM LRUFindsVictim == Spec => []LruFindsVictim
<1>1. Init => LruFindsVictim
  BY DEF Init, LruFindsVictim
<1>2. IInv /\ LruFindsVictim /\ [Next]_vars => LruFindsVictim'
  <2> SUFFICES ASSUME IInv, LruFindsVictim, [Next]_vars, useLRU', pc' = "ub" PROVE FALSE
    BY DEF LruFindsVictim
  <2>1. useLRU
    BY DEF Next, vars, options, BeginAccess, ScanHit, ScanOther, ScanEmpty, LoadMiss,
      StoreMissAllocate, Fill, StoreMissNoAllocate, OutOfBounds
  <2>2. pc # "ub" /\ targetSlot # -1
    BY <2>1, TargetIsSlot DEF LruFindsVictim
  <2> QED
    BY <2>2 DEF Next, vars, BeginAccess, ScanHit, ScanOther, ScanEmpty, LoadMiss,
      StoreMissAllocate, Fill, StoreMissNoAllocate, OutOfBounds
<1> QED
  BY <1>1, <1>2, Invariance, PTL DEF Spec
-----------------------------------------------------------------------------
(* A number is the quotient times the divisor and the rest, and dividing by a  *)
(* product is dividing by its factors.                                         *)
LEMMA Quotient ==
  ASSUME NEW n \in Nat, NEW d \in Nat, d > 0
  PROVE  n \div d \in Nat /\ n % d \in 0..(d - 1) /\ n = (d * (n \div d)) + (n % d)
<1>1. n \div d \in Int
  OBVIOUS
<1>2. n % d \in 0..(d - 1)
  OBVIOUS
<1>3. n = (d * (n \div d)) + (n % d)
  OBVIOUS
<1>4. n \div d \in Nat
  BY <1>1
<1> QED
  BY <1>2, <1>3, <1>4

LEMMA QuotientOfProduct ==
  ASSUME NEW n \in Nat, NEW b \in Nat, NEW s \in Nat, b > 0, s > 0
  PROVE  n \div (b * s) = (n \div b) \div s
<1> DEFINE q == n \div b
           r == n % b
           p == q \div s
           t == q % s
<1>1. q \in Nat /\ r \in 0..(b - 1) /\ n = (b * q) + r
  BY Quotient
<1>2. p \in Nat /\ t \in 0..(s - 1) /\ q = (s * p) + t
  BY <1>1, Quotient
<1>3. p = (n \div b) \div s
  OBVIOUS
<1> HIDE DEF q, r, p, t
<1>4. n = ((b * s) * p) + ((b * t) + r)
  BY <1>1, <1>2
<1>5. (b * t) + r \in 0..((b * s) - 1)
  BY <1>1, <1>2
<1>6. b * s \in Nat /\ b * s > 0
  OBVIOUS
<1>7. n \div (b * s) = p
  BY <1>2, <1>4, <1>5, <1>6
<1> QED
  BY <1>3, <1>7

(* Index and tag of an address determine its block, and nothing else.          *)
LEMMA BlockOfAddress ==
  ASSUME NEW a \in Nat
  PROVE  /\ a \div BlockSize \in Nat
         /\ getIndex(a) = (a \div BlockSize) % NumSets /\ getIndex(a) \in Sets
         /\ getTag(a) = (a \div BlockSize) \div NumSets
<1>1. NumSets \in Nat /\ NumSets > 0 /\ BlockSize \in Nat /\ BlockSize > 0
  BY CacheAssumption DEF Accepts
<1>2. a \div BlockSize \in Nat
  BY <1>1, Quotient
<1>3. a \div (BlockSize * NumSets) = (a \div BlockSize) \div NumSets
  BY <1>1, QuotientOfProduct
<1> QED
  BY <1>2, <1>3, IndexInSets DEF getIndex, getTag

LEMMA SameBlock ==
  ASSUME NEW m \in Nat, NEW n \in Nat,
         m \div NumSets = n \div NumSets, m % NumSets = n % NumSets
  PROVE  m = n
<1>1. NumSets \in Nat /\ NumSets > 0
  BY CacheAssumption
<1>2. /\ m = (NumSets * (m \div NumSets)) + (m % NumSets)
      /\ n = (NumSets * (n \div NumSets)) + (n % NumSets)
  BY <1>1, Quotient
<1> QED
  BY <1>2
-----------------------------------------------------------------------------
HeldType ==
  /\ valid \in [Sets -> [Slots -> BOOLEAN]]
  /\ tag \in [Sets -> [Slots -> Nat]]
  /\ held \in [Sets -> [Slots -> Nat \cup {-1}]]

\* A slot is valid when it holds a block, which its place and its tag determine.
HeldMatches ==
  \A s \in Sets, b \in Slots :
    /\ valid[s][b] <=> held[s][b] # -1
    /\ valid[s][b] => tag[s][b] = held[s][b] \div NumSets /\ held[s][b] % NumSets = s

\* No tag is twice in a set.
TagOnce ==
  \A s \in Sets : \A b, c \in Slots :
    valid[s][b] /\ valid[s][c] /\ tag[s][b] = tag[s][c] => b = c

\* The loop has not passed the slot it looks for.
NotPassed ==
  pc = "scan" =>
    \A j \in 0..(i - 1) : ~(valid[index][j] /\ tag[index][j] = getTag(addr))

BlockInv == HeldType /\ HeldMatches /\ TagOnce /\ NotPassed

HeldInv == IInv /\ BlockInv

LEMMA HeldInit == Init => HeldInv
<1> SUFFICES ASSUME Init PROVE BlockInv
  BY InitInv DEF HeldInv
<1>1. /\ valid = [s \in Sets |-> [b \in Slots |-> FALSE]]
      /\ tag = [s \in Sets |-> [b \in Slots |-> 0]]
      /\ held = [s \in Sets |-> [b \in Slots |-> -1]] /\ pc = "idle"
  BY DEF Init, InEverySlot
<1>2. HeldType
  BY <1>1 DEF HeldType
<1>3. HeldMatches /\ TagOnce /\ NotPassed
  BY <1>1 DEF HeldMatches, TagOnce, NotPassed
<1> QED
  BY <1>2, <1>3 DEF BlockInv

(* A fill, after the whole set has been looked at in vain. *)
LEMMA FillKeeps ==
  ASSUME HeldInv, Missed, NEW b \in Slots, NEW d, Fill(b, d)
  PROVE  BlockInv'
<1> DEFINE blk == addr \div BlockSize
<1>1. /\ HeldType /\ HeldMatches /\ TagOnce /\ addr \in Nat /\ pc = "scan" /\ i = NumBlocks
  BY DEF HeldInv, BlockInv, IInv, AccessType, Missed
<1>2. /\ blk \in Nat /\ index \in Sets /\ index = blk % NumSets
      /\ getTag(addr) = blk \div NumSets
  BY <1>1, BlockOfAddress DEF index
<1>3. getTag(addr) \in Nat
  BY <1>2, Quotient, CacheAssumption
<1>4. \A c \in Slots : ~(valid[index][c] /\ tag[index][c] = getTag(addr))
  BY <1>1 DEF HeldInv, BlockInv, NotPassed, Slots
<1>5. /\ valid' = [valid EXCEPT ![index] = [valid[index] EXCEPT ![b] = TRUE]]
      /\ tag' = [tag EXCEPT ![index] = [tag[index] EXCEPT ![b] = getTag(addr)]]
      /\ held' = [held EXCEPT ![index] = [held[index] EXCEPT ![b] = blk]]
      /\ pc' = "idle"
  BY DEF Fill
<1> HIDE DEF blk
<1>6. HeldType'
  BY <1>1, <1>2, <1>3, <1>5 DEF HeldType
<1>7. ASSUME NEW s \in Sets, NEW c \in Slots
      PROVE  IF s = index /\ c = b
             THEN valid'[s][c] = TRUE /\ tag'[s][c] = getTag(addr) /\ held'[s][c] = blk
             ELSE /\ valid'[s][c] = valid[s][c] /\ tag'[s][c] = tag[s][c]
                  /\ held'[s][c] = held[s][c]
  BY <1>1, <1>2, <1>5 DEF HeldType
<1>8. HeldMatches'
  <2> SUFFICES ASSUME NEW s \in Sets, NEW c \in Slots
               PROVE  /\ valid'[s][c] <=> held'[s][c] # -1
                      /\ valid'[s][c] => /\ tag'[s][c] = held'[s][c] \div NumSets
                                         /\ held'[s][c] % NumSets = s
    BY DEF HeldMatches
  <2>1. CASE s = index /\ c = b
    <3>1. valid'[s][c] /\ held'[s][c] = blk /\ tag'[s][c] = blk \div NumSets
      BY <1>2, <1>7, <2>1
    <3>2. blk # -1
      BY <1>2
    <3> QED
      BY <1>2, <2>1, <3>1, <3>2
  <2>2. CASE ~(s = index /\ c = b)
    <3>1. valid'[s][c] = valid[s][c] /\ tag'[s][c] = tag[s][c] /\ held'[s][c] = held[s][c]
      BY <1>7, <2>2
    <3>2. /\ valid[s][c] <=> held[s][c] # -1
          /\ valid[s][c] => tag[s][c] = held[s][c] \div NumSets /\ held[s][c] % NumSets = s
      BY <1>1 DEF HeldMatches
    <3> QED
      BY <3>1, <3>2
  <2> QED
    BY <2>1, <2>2
<1>9. TagOnce'
  <2> SUFFICES ASSUME NEW s \in Sets, NEW c \in Slots, NEW e \in Slots,
                      valid'[s][c], valid'[s][e], tag'[s][c] = tag'[s][e]
               PROVE  c = e
    BY DEF TagOnce
  <2>1. CASE s = index /\ c = b
    <3>1. tag'[s][c] = getTag(addr)
      BY <1>7, <2>1
    <3>2. ASSUME e # b PROVE FALSE
      BY <1>4, <1>7, <2>1, <3>1, <3>2
    <3> QED
      BY <2>1, <3>2
  <2>2. CASE s = index /\ e = b
    <3>1. tag'[s][e] = getTag(addr)
      BY <1>7, <2>2
    <3>2. ASSUME c # b PROVE FALSE
      BY <1>4, <1>7, <2>2, <3>1, <3>2
    <3> QED
      BY <2>2, <3>2
  <2>3. CASE ~(s = index /\ c = b) /\ ~(s = index /\ e = b)
    <3>1. valid[s][c] /\ valid[s][e] /\ tag[s][c] = tag[s][e]
      BY <1>7, <2>3
    <3> QED
      BY <1>1, <3>1 DEF TagOnce
  <2> QED
    BY <2>1, <2>2, <2>3
<1>10. NotPassed'
  BY <1>5 DEF NotPassed
<1> QED
  BY <1>6, <1>8, <1>9, <1>10 DEF BlockInv

LEMMA HeldNext == HeldInv /\ [Next]_vars => HeldInv'
<1> SUFFICES ASSUME HeldInv, [Next]_vars PROVE BlockInv'
  BY NextInv DEF HeldInv
<1>0. /\ IInv /\ BlockInv /\ NumBlocks \in Nat \ {0} /\ Slots = 0..(NumBlocks - 1)
      /\ i \in 0..NumBlocks
  BY CacheAssumption DEF HeldInv, IInv, AccessType, Slots
\* What leaves the slots alone has to keep NotPassed only.
<1>a. ASSUME UNCHANGED <<valid, tag, held>>, NotPassed' PROVE BlockInv'
  BY <1>0, <1>a DEF BlockInv, HeldType, HeldMatches, TagOnce
<1>1. ASSUME NEW t \in Ops, NEW a \in Addresses, BeginAccess(t, a) PROVE BlockInv'
  <2>1. i' = 0 /\ UNCHANGED <<valid, tag, held>>
    BY <1>1 DEF BeginAccess, slotVars, history
  <2>2. \A j \in 0..(i' - 1) : FALSE
    BY <2>1
  <2> QED
    BY <1>a, <2>1, <2>2 DEF NotPassed
<1>2. CASE ScanHit
  BY <1>2, <1>a DEF ScanHit, NotPassed
<1>3. CASE ScanOther \/ ScanEmpty
  <2>1. /\ i' = i + 1 /\ pc = "scan" /\ UNCHANGED <<valid, tag, held, pc, addr>>
        /\ ~(valid[index][i] /\ tag[index][i] = getTag(addr))
    BY <1>3 DEF ScanOther, ScanEmpty, InLoop, slotVars, history
  <2>2. index' = index
    BY <2>1 DEF index
  <2>3. \A j \in 0..(i' - 1) : j \in 0..(i - 1) \/ j = i
    BY <1>0, <2>1
  <2>4. NotPassed'
    BY <1>0, <2>1, <2>2, <2>3 DEF BlockInv, NotPassed
  <2> QED
    BY <1>a, <2>1, <2>4
<1>4. CASE LoadMiss
  <2>1. targetSlot \in Slots
    BY <1>0, <1>4, TargetIsSlot DEF LoadMiss
  <2> QED
    BY <1>4, <2>1, FillKeeps DEF LoadMiss
<1>5. CASE StoreMissAllocate
  <2>1. targetSlot \in Slots
    BY <1>0, <1>5, TargetIsSlot DEF StoreMissAllocate
  <2> QED
    BY <1>5, <2>1, FillKeeps DEF StoreMissAllocate
<1>6. CASE StoreMissNoAllocate \/ OutOfBounds
  BY <1>6, <1>a DEF StoreMissNoAllocate, OutOfBounds, slotVars, history, NotPassed
<1>7. CASE UNCHANGED vars
  <2>1. UNCHANGED <<valid, tag, held, i, pc, addr>>
    BY <1>7 DEF vars, slotVars, history, frame
  <2>2. NotPassed'
    BY <1>0, <2>1 DEF BlockInv, NotPassed, index
  <2> QED
    BY <1>a, <2>1, <2>2
<1> QED
  BY <1>1, <1>2, <1>3, <1>4, <1>5, <1>6, <1>7 DEF Next

LEMMA HeldIdentifies == HeldInv => HitIsTheBlock
<1> SUFFICES ASSUME HeldInv PROVE HitIsTheBlock
  OBVIOUS
<1> DEFINE blk == addr \div BlockSize
<1>0. HeldType /\ HeldMatches /\ TagOnce /\ addr \in Nat
  BY DEF HeldInv, BlockInv, IInv, AccessType
<1>1. /\ blk \in Nat /\ index \in Sets /\ index = blk % NumSets
      /\ getTag(addr) = blk \div NumSets
  BY <1>0, BlockOfAddress DEF index
<1>2. \A s \in Sets, b \in Slots : held[s][b] # -1 => held[s][b] \in Nat
  BY <1>0 DEF HeldType
<1> HIDE DEF blk
<1>3. ASSUME NEW b \in Slots
      PROVE  valid[index][b] /\ tag[index][b] = getTag(addr) <=> held[index][b] = blk
  <2>1. ASSUME valid[index][b], tag[index][b] = getTag(addr) PROVE held[index][b] = blk
    <3>1. /\ held[index][b] \in Nat /\ held[index][b] \div NumSets = blk \div NumSets
          /\ held[index][b] % NumSets = blk % NumSets
      BY <1>0, <1>1, <1>2, <2>1 DEF HeldMatches
    <3> QED
      BY <1>1, <3>1, SameBlock
  <2>2. ASSUME held[index][b] = blk PROVE valid[index][b] /\ tag[index][b] = getTag(addr)
    <3>1. blk # -1
      BY <1>1
    <3> QED
      BY <1>0, <1>1, <2>2, <3>1 DEF HeldMatches
  <2> QED
    BY <2>1, <2>2
<1>4. ASSUME NEW s \in Sets, NEW r \in Sets, NEW b \in Slots, NEW c \in Slots,
             held[s][b] = held[r][c], held[s][b] # -1
      PROVE  s = r /\ b = c
  <2>1. /\ valid[s][b] /\ valid[r][c] /\ tag[s][b] = tag[r][c]
        /\ held[s][b] % NumSets = s /\ held[r][c] % NumSets = r
    BY <1>0, <1>4 DEF HeldMatches
  <2>2. s = r
    BY <1>4, <2>1
  <2> QED
    BY <1>0, <2>1, <2>2 DEF TagOnce
<1> QED
  BY <1>3, <1>4 DEF HitIsTheBlock, blk

(* Index and tag (main.cpp:165-172) identify the block of memory in a slot, and *)
(* no block is in two slots (main.cpp:84-139), for every size of cache and      *)
(* every trace.                                                                *)
THEOREM HitsAreTrue == Spec => []HitIsTheBlock
<1>1. Spec => []HeldInv
  BY HeldInit, HeldNext, PTL DEF Spec
<1> QED
  BY <1>1, HeldIdentifies, PTL
-----------------------------------------------------------------------------
\* No slot has been used later than now, nor by an access that is in progress.
UseInv ==
  /\ totalLoads \in Nat /\ totalStores \in Nat
  /\ lastUse \in [Sets -> [Slots -> Nat]]
  /\ \A s \in Sets, b \in Slots : lastUse[s][b] <= now
  /\ pc = "scan" => \A s \in Sets, b \in Slots : lastUse[s][b] < now
  /\ JustUsedIsNewest

AgeInv == IInv /\ UseInv

(* The slot that the access in progress uses becomes the newest. *)
LEMMA UseKeeps ==
  ASSUME AgeInv, pc = "scan", NEW b \in Slots, UpdateAccessTS(b),
         UNCHANGED <<totalLoads, totalStores, addr>>, pc' # "scan",
         lastUse' = [lastUse EXCEPT ![index][b] = now]
  PROVE  UseInv'
<1>1. /\ totalLoads \in Nat /\ totalStores \in Nat /\ lastUse \in [Sets -> [Slots -> Nat]]
      /\ \A s \in Sets, c \in Slots : lastUse[s][c] < now
      /\ access_ts \in [Sets -> Ages] /\ index \in Sets
  BY IndexInSets DEF AgeInv, UseInv, IInv, AccessType, index
<1>2. now \in Nat /\ now' = now /\ index' = index
  BY <1>1 DEF now, index
<1>3. lastUse' \in [Sets -> [Slots -> Nat]]
  BY <1>1, <1>2
<1>4. \A s \in Sets, c \in Slots :
        lastUse'[s][c] = IF s = index /\ c = b THEN now ELSE lastUse[s][c]
  BY <1>1
<1>5. \A s \in Sets, c \in Slots :
        /\ lastUse'[s][c] <= now
        /\ s = index /\ lastUse'[s][c] = now => c = b
  BY <1>1, <1>2, <1>4
<1>6. access_ts'[index][b] = 0
  <2>1. access_ts'[index] = Touched(access_ts[index], b)
    BY <1>1 DEF UpdateAccessTS
  <2>2. Touched(access_ts[index], b)[b] = 0
    BY DEF Touched
  <2> QED
    BY <2>1, <2>2
<1>7. JustUsedIsNewest'
  BY <1>1, <1>2, <1>5, <1>6 DEF JustUsedIsNewest
<1> QED
  BY <1>1, <1>2, <1>3, <1>5, <1>7 DEF UseInv

LEMMA AgeInit == Init => AgeInv
<1> SUFFICES ASSUME Init PROVE UseInv
  BY InitInv DEF AgeInv
<1>1. /\ totalLoads = 0 /\ totalStores = 0 /\ pc = "idle"
      /\ lastUse = [s \in Sets |-> [b \in Slots |-> 0]]
  BY DEF Init, InEverySlot
<1>2. now = 0
  BY <1>1 DEF now
<1> QED
  BY <1>1, <1>2 DEF UseInv, JustUsedIsNewest

LEMMA AgeNext == AgeInv /\ [Next]_vars => AgeInv'
<1> SUFFICES ASSUME AgeInv, [Next]_vars PROVE UseInv'
  BY NextInv DEF AgeInv
<1>0. /\ IInv /\ UseInv /\ totalLoads \in Nat /\ totalStores \in Nat
      /\ lastUse \in [Sets -> [Slots -> Nat]]
      /\ NumBlocks \in Nat \ {0} /\ Slots = 0..(NumBlocks - 1) /\ i \in 0..NumBlocks
      /\ index \in Sets
  BY CacheAssumption, IndexInSets DEF AgeInv, UseInv, IInv, AccessType, Slots, index
<1>1. ASSUME NEW t \in Ops, NEW a \in Addresses, BeginAccess(t, a) PROVE UseInv'
  <2>1. /\ lastUse' = lastUse /\ pc' = "scan" /\ t \in {"l", "s"}
        /\ totalLoads' = totalLoads + (IF t = "l" THEN 1 ELSE 0)
        /\ totalStores' = totalStores + (IF t = "s" THEN 1 ELSE 0)
    BY <1>1, CacheAssumption DEF BeginAccess, Count, history
  <2>2. totalLoads' \in Nat /\ totalStores' \in Nat /\ now' = now + 1 /\ now \in Nat
    BY <1>0, <2>1 DEF now
  <2>3. \A s \in Sets, b \in Slots : lastUse[s][b] <= now /\ lastUse[s][b] \in Nat
    BY <1>0 DEF UseInv
  <2>4. \A s \in Sets, b \in Slots : lastUse'[s][b] <= now' /\ lastUse'[s][b] < now'
    BY <2>1, <2>2, <2>3
  <2>5. JustUsedIsNewest'
    BY <2>1 DEF JustUsedIsNewest
  <2> QED
    BY <1>0, <2>1, <2>2, <2>4, <2>5 DEF UseInv
<1>2. CASE ScanHit
  <2>1. /\ i \in Slots /\ UpdateAccessTS(i) /\ UNCHANGED <<totalLoads, totalStores, addr>>
        /\ lastUse' = [lastUse EXCEPT ![index][i] = now] /\ pc = "scan" /\ pc' # "scan"
    BY <1>0, <1>2 DEF ScanHit, InLoop, frame
  <2> QED
    BY <2>1, UseKeeps
<1>3. CASE ScanOther \/ ScanEmpty
  <2>1. pc' = "scan" /\ pc = "scan" /\ UNCHANGED <<lastUse, totalLoads, totalStores>>
    BY <1>3 DEF ScanOther, ScanEmpty, InLoop, counters, history
  <2> QED
    BY <1>0, <2>1 DEF UseInv, JustUsedIsNewest, now
<1>4. CASE LoadMiss \/ StoreMissAllocate
  <2>1. targetSlot \in Slots /\ pc = "scan"
    BY <1>0, <1>4, TargetIsSlot DEF LoadMiss, StoreMissAllocate, Missed
  <2>2. /\ UpdateAccessTS(targetSlot) /\ UNCHANGED <<totalLoads, totalStores, addr>>
        /\ lastUse' = [lastUse EXCEPT ![index][targetSlot] = now] /\ pc' # "scan"
    BY <1>4 DEF LoadMiss, StoreMissAllocate, Fill, frame
  <2> QED
    BY <2>1, <2>2, UseKeeps
<1>5. CASE StoreMissNoAllocate \/ OutOfBounds
  <2>1. /\ pc = "scan" /\ pc' # "scan"
        /\ UNCHANGED <<lastUse, totalLoads, totalStores, addr>>
    BY <1>5 DEF StoreMissNoAllocate, OutOfBounds, Missed, frame, counters, history
  <2>2. \A s \in Sets, b \in Slots : lastUse[s][b] < now /\ lastUse[s][b] \in Nat
    BY <1>0, <2>1 DEF UseInv
  <2>3. now \in Nat /\ now' = now /\ index' = index
    BY <1>0, <2>1 DEF now, index
  <2>4. \A s \in Sets, b \in Slots : lastUse'[s][b] # now' /\ lastUse'[s][b] <= now'
    BY <2>1, <2>2, <2>3
  <2>5. JustUsedIsNewest'
    BY <1>0, <2>3, <2>4 DEF JustUsedIsNewest
  <2> QED
    BY <1>0, <2>1, <2>4, <2>5 DEF UseInv
<1>6. CASE UNCHANGED vars
  <2>1. UNCHANGED <<lastUse, totalLoads, totalStores, pc, access_ts, addr>>
    BY <1>6 DEF vars, slotVars, counters, history, frame
  <2> QED
    BY <1>0, <2>1 DEF UseInv, JustUsedIsNewest, now, index
<1> QED
  BY <1>1, <1>2, <1>3, <1>4, <1>5, <1>6 DEF Next

(* The slot of the access that is just over is the newest of its set            *)
(* (main.cpp:86, 137), although the loop has made others the newest on its way, *)
(* for every size of cache, trace and option.                                  *)
THEOREM NewestIsJustUsed == Spec => []JustUsedIsNewest
<1>1. Spec => []AgeInv
  BY AgeInit, AgeNext, PTL DEF Spec
<1>2. AgeInv => JustUsedIsNewest
  BY DEF AgeInv, UseInv
<1> QED
  BY <1>1, <1>2, PTL
=============================================================================
