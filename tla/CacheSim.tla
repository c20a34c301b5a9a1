------------------------------ MODULE CacheSim ------------------------------
(***************************************************************************)
(* The cache simulator of csf_assign03/main.cpp: a set-associative cache   *)
(* that a trace of loads and stores drives, and the counters it prints.    *)
(* One call of Cache::access is a BeginAccess, one action per iteration of *)
(* its loop over the slots of the set, and, when the loop finds no hit,    *)
(* one action for the miss.                                                *)
(*                                                                         *)
(* MaxAccesses bounds the length of the trace.                             *)
(***************************************************************************)
EXTENDS Integers, FiniteSets

CONSTANTS
  NumSets,
  NumBlocks,    \* slots in a set
  BlockSize,    \* bytes in a block
  Addresses,    \* the addresses of the trace
  Ops,          \* the operation letters of the trace
  MaxAccesses

\* What main accepts; it does not look at the number of blocks, and with none
\* every access is out of bounds.  A trace has loads and stores only.
isPowerOfTwo(n) == \E k \in 0..30 : n = 2^k

\* The checks of main on the sizes.
Accepts(sets, size) == isPowerOfTwo(sets) /\ size >= 4 /\ isPowerOfTwo(size)

ASSUME CacheAssumption ==
  /\ NumSets \in Nat \ {0} /\ BlockSize \in Nat /\ Accepts(NumSets, BlockSize)
  /\ NumBlocks \in Nat \ {0}
  /\ Addresses \subseteq Nat
  /\ Ops \subseteq {"l", "s"}
  /\ MaxAccesses \in Nat

Sets == 0..(NumSets - 1)
Slots == 0..(NumBlocks - 1)

\* The code shifts and masks by the logarithms of the two powers of two.
getIndex(a) == (a \div BlockSize) % NumSets
\* Mistake: tag_offset is one too large.
getTagShort(a) == a \div (BlockSize * NumSets * 2)

getTag(a) == a \div (BlockSize * NumSets)

VARIABLES
  writeAllocate, writeThrough, useLRU,       \* the options
  valid, dirty, tag, access_ts, load_ts,     \* each [Sets -> [Slots -> ...]]
  totalLoads, totalStores, loadHits, loadMisses, storeHits, storeMisses,
  totalCycles,
  pc,         \* "idle" between accesses, "scan" in one, "ub" after slots[-1]
  op, addr,   \* the access in progress
  i,          \* the loop counter
  emptySlot,
  lastUse,    \* history: lastUse[s][b], the number of the access that last used it
  held        \* history: held[s][b], the block of memory in it

options  == <<writeAllocate, writeThrough, useLRU>>
slotVars == <<valid, dirty, tag, access_ts, load_ts>>
counters == <<totalLoads, totalStores, loadHits, loadMisses, storeHits, storeMisses>>
frame    == <<op, addr, i, emptySlot>>
history  == <<lastUse, held>>
vars == <<options, slotVars, counters, totalCycles, pc, frame, history>>

InEverySlot(v) == [s \in Sets |-> [b \in Slots |-> v]]

\* The option words.  One that is not the expected one means the other choice, so
\* that main rejects no-write-allocate with write-back only when both are spelt out.
ReadOptions(allocate, through, order) ==
  /\ ~(allocate = "no-write-allocate" /\ through = "write-back")
  /\ writeAllocate = (allocate = "write-allocate")
  /\ writeThrough = (through = "write-through")
  /\ useLRU = (order = "lru")

Init ==
  /\ \E allocate \in {"write-allocate", "no-write-allocate", ""},
        through \in {"write-through", "write-back", ""}, order \in {"lru", "fifo"} :
       ReadOptions(allocate, through, order)
  /\ valid = InEverySlot(FALSE) /\ dirty = InEverySlot(FALSE)
  /\ tag = InEverySlot(0) /\ load_ts = InEverySlot(0)
  /\ access_ts = [s \in Sets |-> [b \in Slots |-> b]]
  /\ totalLoads = 0 /\ totalStores = 0 /\ totalCycles = 0
  /\ loadHits = 0 /\ loadMisses = 0 /\ storeHits = 0 /\ storeMisses = 0
  /\ pc = "idle" /\ op = "" /\ addr = 0 /\ i = 0 /\ emptySlot = -1
  /\ lastUse = InEverySlot(0) /\ held = InEverySlot(-1)
-----------------------------------------------------------------------------
index == getIndex(addr)
now == totalLoads + totalStores

\* loadWriteMemory
MemoryCycles == (BlockSize \div 4) * 100

\* Mistake: no other slot ages.
TouchedAgingNone(ts, b) == [ts EXCEPT ![b] = 0]

\* updateAccessTS and updateLoadTS do the same to their field: slot b becomes
\* the newest, the slots that were newer than b age by one.
Touched(ts, b) ==
  IF ts[b] = 0 THEN ts
  ELSE [j \in Slots |-> CASE j = b -> 0
                          [] j # b /\ ts[j] < ts[b] -> ts[j] + 1
                          [] OTHER -> ts[j]]

TouchCycles(ts, b) == IF ts[b] = 0 THEN 0 ELSE NumBlocks

UpdateAccessTS(b) == access_ts' = [access_ts EXCEPT ![index] = Touched(@, b)]

Count(counter, yes) == counter' = counter + (IF yes THEN 1 ELSE 0)

BeginAccess(t, a) ==
  /\ pc = "idle"
  /\ now < MaxAccesses
  /\ op' = t /\ addr' = a /\ i' = 0 /\ emptySlot' = -1
  /\ Count(totalLoads, t = "l") /\ Count(totalStores, t = "s")
  /\ pc' = "scan"
  /\ UNCHANGED <<options, slotVars, loadHits, loadMisses, storeHits, storeMisses,
                 totalCycles, history>>

InLoop == pc = "scan" /\ i < NumBlocks

\* The timestamp of every valid slot the loop passes is updated, not only that
\* of the slot that hits.
ScanHit ==
  /\ InLoop
  /\ valid[index][i] /\ tag[index][i] = getTag(addr)
  /\ UpdateAccessTS(i)
  /\ dirty' = [dirty EXCEPT ![index][i] = @ \/ (op = "s" /\ ~writeThrough)]
  /\ Count(storeHits, op = "s") /\ Count(loadHits, op # "s")
  /\ totalCycles' = totalCycles + TouchCycles(access_ts[index], i) + 1
       + (IF op = "s" /\ writeAllocate THEN MemoryCycles ELSE 0)
       + (IF op = "s" /\ writeThrough THEN MemoryCycles ELSE 0)
  /\ pc' = "idle"
  /\ lastUse' = [lastUse EXCEPT ![index][i] = now]
  /\ UNCHANGED <<options, valid, tag, load_ts, totalLoads, totalStores, loadMisses,
                 storeMisses, frame, held>>

ScanOther ==
  /\ InLoop
  /\ valid[index][i] /\ tag[index][i] # getTag(addr)
  /\ UpdateAccessTS(i)
  /\ totalCycles' = totalCycles + TouchCycles(access_ts[index], i)
  /\ i' = i + 1
  /\ UNCHANGED <<options, valid, dirty, tag, load_ts, counters, pc, op, addr,
                 emptySlot, history>>

ScanEmpty ==
  /\ InLoop
  /\ ~valid[index][i]
  /\ emptySlot' = IF emptySlot = -1 THEN i ELSE emptySlot
  /\ i' = i + 1
  /\ UNCHANGED <<options, slotVars, counters, totalCycles, pc, op, addr, history>>
-----------------------------------------------------------------------------
Missed == pc = "scan" /\ i = NumBlocks

Oldest == {b \in Slots : access_ts[index][b] = NumBlocks - 1}

\* -1 when there is no empty slot and no oldest one: main has no other policy
\* than LRU, although it accepts every word but "lru" as another policy.
targetSlot ==
  IF emptySlot # -1 THEN emptySlot
  ELSE IF useLRU /\ Oldest # {} THEN CHOOSE b \in Oldest : \A c \in Oldest : c <= b
  ELSE -1

\* Mistake: a filled slot keeps its age.
FillUntouched(b, isDirty) ==
  /\ pc' = "idle"
  /\ valid' = [valid EXCEPT ![index][b] = TRUE]
  /\ tag' = [tag EXCEPT ![index][b] = getTag(addr)]
  /\ dirty' = [dirty EXCEPT ![index][b] = isDirty]
  /\ lastUse' = [lastUse EXCEPT ![index][b] = now]
  /\ held' = [held EXCEPT ![index][b] = addr \div BlockSize]
  /\ UNCHANGED <<options, access_ts, load_ts, totalLoads, totalStores, loadHits,
                 storeHits, frame>>

\* A load or an allocating store fills the target slot.
Fill(b, isDirty) ==
  /\ pc' = "idle"
  /\ valid' = [valid EXCEPT ![index][b] = TRUE]
  /\ tag' = [tag EXCEPT ![index][b] = getTag(addr)]
  /\ dirty' = [dirty EXCEPT ![index][b] = isDirty]
  /\ UpdateAccessTS(b)
  /\ load_ts' = [load_ts EXCEPT ![index] = Touched(@, b)]
  /\ lastUse' = [lastUse EXCEPT ![index][b] = now]
  /\ held' = [held EXCEPT ![index][b] = addr \div BlockSize]
  /\ UNCHANGED <<options, totalLoads, totalStores, loadHits, storeHits, frame>>

FillCycles(b) ==
  MemoryCycles + TouchCycles(access_ts[index], b) + TouchCycles(load_ts[index], b) + 1

LoadMiss ==
  /\ Missed /\ op = "l" /\ targetSlot # -1
  /\ Fill(targetSlot, FALSE)
  /\ loadMisses' = loadMisses + 1
  /\ totalCycles' = totalCycles + FillCycles(targetSlot)
  /\ UNCHANGED storeMisses

StoreMissAllocate ==
  /\ Missed /\ op = "s" /\ writeAllocate /\ targetSlot # -1
  /\ Fill(targetSlot, TRUE)
  /\ storeMisses' = storeMisses + 1
  /\ totalCycles' = totalCycles + FillCycles(targetSlot)
       + (IF writeThrough \/ dirty[index][targetSlot] THEN MemoryCycles ELSE 0)
  /\ UNCHANGED loadMisses

StoreMissNoAllocate ==
  /\ Missed /\ op = "s" /\ ~writeAllocate
  /\ pc' = "idle"
  /\ storeMisses' = storeMisses + 1
  /\ totalCycles' = totalCycles + (IF writeThrough THEN MemoryCycles ELSE 0)
  /\ UNCHANGED <<options, slotVars, totalLoads, totalStores, loadHits, loadMisses,
                 storeHits, frame, history>>

\* slots[-1] is written: undefined behaviour, no state of the program after it.
OutOfBounds ==
  /\ Missed /\ (op = "l" \/ (op = "s" /\ writeAllocate)) /\ targetSlot = -1
  /\ pc' = "ub"
  /\ UNCHANGED <<options, slotVars, counters, totalCycles, frame, history>>

Next ==
  \/ \E t \in Ops, a \in Addresses : BeginAccess(t, a)
  \/ ScanHit \/ ScanOther \/ ScanEmpty
  \/ LoadMiss \/ StoreMissAllocate \/ StoreMissNoAllocate \/ OutOfBounds

Spec == Init /\ [][Next]_vars
-----------------------------------------------------------------------------
\* The access timestamps of a set are a permutation of 0..NumBlocks-1 through
\* every step of every access, so that exactly one slot is the oldest one
\* (main.cpp:110-116).
TimestampsPermute ==
  \A s \in Sets :
    /\ \A b, c \in Slots : access_ts[s][b] = access_ts[s][c] => b = c
    /\ \A k \in Slots : \E b \in Slots : access_ts[s][b] = k

\* A slot of a set is a hit exactly when it holds the block of memory that
\* contains the address, and no other slot holds that block: getIndex and getTag
\* lose nothing of the address, and no stale tag is taken for the block.
HitIsTheBlock ==
  /\ pc = "scan" => \A b \in Slots :
       valid[index][b] /\ tag[index][b] = getTag(addr)
         <=> held[index][b] = addr \div BlockSize
  /\ \A s, r \in Sets : \A b, c \in Slots :
       held[s][b] = held[r][c] /\ held[s][b] # -1 => s = r /\ b = c

\* When an access is over the block it used is the newest of its set, although
\* the loop has changed the timestamps of other slots on the way.
JustUsedIsNewest ==
  pc = "idle" => \A b \in Slots :
    now > 0 /\ lastUse[index][b] = now => access_ts[index][b] = 0

\* Under "lru" a miss always has a slot to fill: slots[-1] is never written.
LruFindsVictim == useLRU => pc # "ub"

\* "LRU policy" (2.cpp:116, for the option "lru" of main.cpp:251): the slot of a full
\* set that is given up is one that no other slot was used before.
LruReplacesLeastRecentlyUsed ==
  Missed /\ useLRU /\ emptySlot = -1 =>
    \A b \in Slots : lastUse[index][targetSlot] <= lastUse[index][b]
=============================================================================
