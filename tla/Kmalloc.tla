------------------------------ MODULE Kmalloc -------------------------------
(***************************************************************************)
(* The heap allocator.  kmalloc and kfree run in a critical region: each   *)
(* is one action, and kmalloc is the disjunction of the steps that         *)
(* allocateChunk tries in order.                                           *)
(*                                                                         *)
(* A chunk is named by its address, counted in double words from the base  *)
(* of the heap, and sizes are in double words.  A double word of the heap  *)
(* holds a tag only where a chunk starts (its header, in hdr) or ends (its *)
(* footer, in ftr): no step leaves a stale tag behind.  The tag's pid, the *)
(* counters that only grow, and the chunk's list pointers (a list is a     *)
(* sequence of chunks) are left out.                                       *)
(***************************************************************************)
EXTENDS Integers, Sequences, FiniteSets, SequencesExt

CONSTANTS
  HeapUnits,           \* totalRAM
  MaxBins, MaxFastBin, MaxRangeBin, MaxPreAllocations,
  WordUnits,           \* 2^32 bytes: arithmetic on sizes wraps there
  Requests             \* the sizes in bytes that callers ask for

MinUnits == 2          \* MIN_ALLOC_BYTES

(* The size with its two tags, padded to double words.  In 32 bits the sums wrap
   for a size within 15 bytes of 2^32; no caller passes such a size, and
   KmallocAssumption asks it of Requests. *)
chunkUnits(bytes) ==
  LET n == (bytes + 8 + 7) \div 8 IN IF n < MinUnits THEN MinUnits ELSE n

getBinIndex(n) ==
  1 + IF n < MaxFastBin THEN n - MinUnits
      ELSE (((MaxBins - 2) * (n - MinUnits)) % WordUnits)
             \div (MaxRangeBin - MinUnits)

Bins == 1 .. MaxBins - 1

ASSUME KmallocAssumption ==
  /\ HeapUnits \in Nat /\ HeapUnits >= MinUnits
  /\ MaxBins \in Nat /\ MaxPreAllocations \in Nat
  /\ \A n \in MinUnits .. HeapUnits : getBinIndex(n) \in Bins
  /\ Requests \subseteq Nat
  /\ \A bytes \in Requests : bytes + 15 < 8 * WordUnits
  /\ \A bytes \in Requests : getBinIndex(chunkUnits(bytes)) \in Bins

VARIABLES
  hdr, ftr,            \* header and footer tags, where there is one
  recent, remainder,   \* RECENT_CHUNK_BIN, REMAINDER_CHUNK_BIN
  dirty, clean,        \* the lists of the bins 1 .. MAX_BINS - 1
  bitmap,              \* the <<byte, bit>> pairs that are set
  lastAllocSize, allocInUse, allocFree, allocPM,
  owned                \* allocated chunk -> the bytes its owner asked for

tags  == <<hdr, ftr>>
lists == <<recent, remainder, dirty, clean>>
stats == <<allocInUse, allocFree, allocPM>>
vars  == <<tags, lists, bitmap, lastAllocSize, stats, owned>>

Tag(n) == [size |-> n, free |-> TRUE]

(* initRam: the whole heap is one clean chunk in the last bin. *)
Init ==
  /\ hdr = [c \in {0} |-> Tag(HeapUnits)]
  /\ ftr = [c \in {HeapUnits - 1} |-> Tag(HeapUnits)]
  /\ recent = <<>> /\ remainder = <<>>
  /\ dirty = [b \in Bins |-> <<>>]
  /\ clean = [b \in Bins |-> IF b = MaxBins - 1 THEN <<0>> ELSE <<>>]
  /\ bitmap = {} /\ lastAllocSize = 0
  /\ allocInUse = 0 /\ allocFree = HeapUnits /\ allocPM = 0
  /\ owned = <<>>

-----------------------------------------------------------------------------
getSize(c)   == hdr[c].size
getFooterMutant(c) == c + getSize(c)
getFooter(c) == c + getSize(c) - 1
getSucc(c)   == c + getSize(c)
getTagPred(c) == ftr[c - 1]
getPred(c)   == c - getTagPred(c).size

(* The bitmap has a bit for every 16 bytes; byte 8 * c + 4 is the payload. *)
getAddrBitmapOffsetMutant(addr) == addr \div (16 * MinUnits)
getAddrBitmapOffset(addr) == addr \div (8 * MinUnits)
bitOf(addr) == LET off == getAddrBitmapOffset(addr)
               IN  <<off \div 8, 7 - (off % 8)>>
getPayload(c) == 8 * c + 4

(* The unsigned difference of a chunk that is too small is huge. *)
isExactMatchMutant(c, n) == getSize(c) - n \in -MinUnits .. MinUnits
isExactMatch(c, n) == getSize(c) - n \in 0 .. MinUnits

exactFit(list, n) == SelectInSeq(list, LAMBDA c : isExactMatch(c, n))
firstFit(list, n) == SelectInSeq(list, LAMBDA c : getSize(c) >= n)

(* binChunk(BinDirty): before the first chunk at a higher address. *)
binDirty(bins, c) ==
  LET b == getBinIndex(getSize(c))
      i == SelectInSeq(bins[b], LAMBDA d : c < d)
  IN  [bins EXCEPT ![b] = IF i = 0 THEN Append(@, c) ELSE InsertAt(@, i, c)]

(* The dirty lists after the given chunks were binned, one after the other. *)
rebinned(chunks) ==
  LET after[i \in 0 .. Len(chunks)] ==
        IF i = 0 THEN dirty ELSE binDirty(after[i - 1], chunks[i])
  IN  after[Len(chunks)]

(* The end of __kmalloc: chunk c, whose tags are now in H and F, is given
   to a caller that asked for the given bytes. *)
give(c, bytes, H, F) ==
  /\ hdr' = [H EXCEPT ![c].free = FALSE]
  /\ ftr' = [F EXCEPT ![c + H[c].size - 1].free = FALSE]
  /\ bitmap' = bitmap \cup {bitOf(getPayload(c))}
  /\ lastAllocSize' = H[c].size
  /\ allocInUse' = allocInUse + H[c].size
  /\ allocFree' = allocFree - H[c].size
  /\ allocPM' = allocPM + 1
  /\ owned' = [d \in DOMAIN owned \cup {c} |-> IF d = c THEN bytes ELSE owned[d]]

(* How many more chunks of the request's size the loop after a split takes
   from what is left: only if the last request was of that size too. *)
preAllocations(size, n) ==
  IF lastAllocSize # n THEN 0
  ELSE LET most == (size - n - MinUnits) \div n
       IN  IF most < MaxPreAllocations THEN most ELSE MaxPreAllocations

(* What is left of a chunk of that size for the remainder. *)
leftOverMutant(size, n) == size - n
leftOver(size, n) == size - (preAllocations(size, n) + 1) * n

(* The tags T with free tags of size n written at the given places. *)
tagged(T, at, n) ==
  [x \in DOMAIN T \cup at |-> IF x \in at THEN Tag(n) ELSE T[x]]

(* From the label split: chunk c gives n double words to the caller, then
   the preallocated chunks to the recent list, and the rest becomes the
   remainder, which must be empty (binChunk asserts it).  kept and others
   are the recent list and the remainder without c. *)
split(c, n, bytes, kept, others) ==
  LET size == getSize(c)
      pre  == preAllocations(size, n)
      rest == c + (pre + 1) * n
      left == leftOver(size, n)
  IN  IF size - n < MinUnits
      THEN recent' = kept /\ remainder' = others /\ give(c, bytes, hdr, ftr)
      ELSE /\ recent' = [i \in 1..pre |-> c + (pre + 1 - i) * n] \o kept
           /\ remainder' = <<rest>>
           /\ give(c, bytes,
                tagged(tagged(hdr, {rest}, left), {c + i * n : i \in 0..pre}, n),
                tagged(tagged(ftr, {c + size - 1}, left),
                       {c + i * n - 1 : i \in 1..pre + 1}, n))

-----------------------------------------------------------------------------
(* allocateChunk.  Step 1: the chunk freed last. *)
takeLastFreed(n, bytes) ==
  /\ exactFit(recent, n) = 1
  /\ recent' = Tail(recent) /\ UNCHANGED <<remainder, dirty, clean>>
  /\ give(Head(recent), bytes, hdr, ftr)

(* Step 2: a chunk of the dirty list of the size's bin. *)
takeDirty(n, bytes) ==
  LET b == getBinIndex(n)
      i == exactFit(dirty[b], n)
  IN  /\ exactFit(recent, n) # 1 /\ i # 0
      /\ dirty' = [dirty EXCEPT ![b] = RemoveAt(@, i)]
      /\ UNCHANGED <<recent, remainder, clean>>
      /\ give(dirty[b][i], bytes, hdr, ftr)

noDirty(n) == exactFit(dirty[getBinIndex(n)], n) = 0

(* Step 3: any recent chunk; those before it go to dirty lists. *)
takeRecent(n, bytes) ==
  LET i == exactFit(recent, n)
  IN  /\ i > 1 /\ noDirty(n)
      /\ dirty' = rebinned(SubSeq(recent, 1, i - 1))
      /\ recent' = SubSeq(recent, i + 1, Len(recent))
      /\ UNCHANGED <<remainder, clean>>
      /\ give(recent[i], bytes, hdr, ftr)

noExact(n) == exactFit(recent, n) = 0 /\ noDirty(n)

(* Step 4: the remainder of the last split. *)
takeRemainder(n, bytes) ==
  /\ noExact(n) /\ firstFit(remainder, n) # 0
  /\ dirty' = rebinned(recent) /\ UNCHANGED clean
  /\ split(remainder[1], n, bytes, <<>>, Tail(remainder))

(* Steps 5 and 6: the clean lists, from the size's bin up.  The coalescing
   of step 7 is commented out, which leaves the search of step 6 again. *)
cleanFits(n) == {b \in getBinIndex(n) .. MaxBins - 1 : firstFit(clean[b], n) # 0}

takeCleanMutant(n, bytes) ==
  /\ noExact(n) /\ firstFit(remainder, n) = 0
  /\ \E b \in cleanFits(n) :
       /\ UNCHANGED clean
       /\ dirty' = rebinned(recent)
       /\ split(clean[b][1], n, bytes, <<>>, remainder)

takeClean(n, bytes) ==
  /\ noExact(n) /\ firstFit(remainder, n) = 0
  /\ \E b \in cleanFits(n) :
       /\ \A d \in cleanFits(n) : b <= d
       /\ LET i == firstFit(clean[b], n)
          IN  /\ clean' = [clean EXCEPT ![b] = RemoveAt(@, i)]
              /\ dirty' = rebinned(recent)
              /\ split(clean[b][i], n, bytes, <<>>, remainder)

(* Step 8: ENOMEM, the recent chunks moved to dirty lists all the same. *)
noMemory(n) == noExact(n) /\ firstFit(remainder, n) = 0 /\ cleanFits(n) = {}

fail(n) ==
  /\ noMemory(n)
  /\ dirty' = rebinned(recent) /\ recent' = <<>>
  /\ UNCHANGED <<remainder, clean, tags, bitmap, lastAllocSize, stats, owned>>

kmalloc(bytes) ==
  LET n == chunkUnits(bytes)
  IN  \/ takeLastFreed(n, bytes) \/ takeDirty(n, bytes) \/ takeRecent(n, bytes)
      \/ takeRemainder(n, bytes) \/ takeClean(n, bytes) \/ fail(n)

kfree(c) ==
  /\ c \in DOMAIN owned
  /\ hdr' = [hdr EXCEPT ![c].free = TRUE]
  /\ ftr' = [ftr EXCEPT ![getFooter(c)].free = TRUE]
  /\ bitmap' = bitmap \ {bitOf(getPayload(c))}
  /\ allocInUse' = allocInUse - getSize(c)
  /\ allocFree' = allocFree + getSize(c)
  /\ allocPM' = allocPM - 1
  /\ recent' = <<c>> \o recent
  /\ owned' = [d \in DOMAIN owned \ {c} |-> owned[d]]
  /\ UNCHANGED <<remainder, dirty, clean, lastAllocSize>>

Next == \/ \E bytes \in Requests : kmalloc(bytes)
        \/ \E c \in DOMAIN owned : kfree(c)

Spec == Init /\ [][Next]_vars

-----------------------------------------------------------------------------
(* What each variable may hold. *)
Chunks == 0 .. HeapUnits - 1
TypeOK ==
  /\ \A tag \in {hdr, ftr} :
       /\ DOMAIN tag \subseteq Chunks
       /\ tag \in [DOMAIN tag -> [size : MinUnits .. HeapUnits, free : BOOLEAN]]
  /\ recent \in Seq(Chunks) /\ remainder \in Seq(Chunks)
  /\ dirty \in [Bins -> Seq(Chunks)] /\ clean \in [Bins -> Seq(Chunks)]
  /\ bitmap \subseteq Nat \X (0..7)
  /\ lastAllocSize \in 0 .. HeapUnits
  /\ allocInUse \in Nat /\ allocFree \in Nat /\ allocPM \in Nat
  /\ DOMAIN owned \subseteq Chunks /\ owned \in [DOMAIN owned -> Requests]

(* The asserts of assertChunk about the neighbour d of the chunk being
   freed, whose tag as seen from that chunk is t. *)
assertNeighbour(d, t) ==
  /\ d \in DOMAIN hdr /\ getFooter(d) \in DOMAIN ftr
  /\ getSize(d) = ftr[getFooter(d)].size /\ getSize(d) = t.size
  /\ hdr[d].free = ftr[getFooter(d)].free /\ hdr[d].free = t.free
  /\ t.free \/ bitOf(getPayload(d)) \in bitmap

assertChunk(c) ==
  /\ c # 0 => c - 1 \in DOMAIN ftr /\ assertNeighbour(getPred(c), getTagPred(c))
  /\ getSucc(c) # HeapUnits =>
       getSucc(c) \in DOMAIN hdr /\ assertNeighbour(getSucc(c), hdr[getSucc(c)])

(* Freeing any block passes every check of __kfree and assertChunk: its bit
   is set, its own tags agree, and so do its neighbours' tags and bits. *)
FreeIsAccepted ==
  \A c \in DOMAIN owned :
    /\ bitOf(getPayload(c)) \in bitmap
    /\ c \in DOMAIN hdr /\ ~hdr[c].free
    /\ getFooter(c) \in DOMAIN ftr /\ ftr[getFooter(c)] = hdr[c]
    /\ assertChunk(c)

(* The chunks tile the heap: walking it by sizes, as kmallocDump does, meets
   every chunk and ends at the top of memory. *)
HeapIsTiled ==
  /\ 0 \in DOMAIN hdr
  /\ \A c \in DOMAIN hdr : /\ getSucc(c) \in DOMAIN hdr \cup {HeapUnits}
                           /\ \A d \in c + 1 .. getSucc(c) - 1 : d \notin DOMAIN hdr
  /\ DOMAIN ftr = {getFooter(c) : c \in DOMAIN hdr}

(* No memory is lost and none is on two lists: every free chunk is on
   exactly one list, once, and no allocated chunk is on any.  A dirty chunk
   is in the bin of its size, and the dirty lists are in address order. *)
allLists == <<recent, remainder>> \o dirty \o clean
FreeIsListedOnce ==
  /\ \A c \in DOMAIN hdr :
       hdr[c].free <=> \E k \in DOMAIN allLists : Contains(allLists[k], c)
  /\ \A k, m \in DOMAIN allLists :
       \A i \in DOMAIN allLists[k], j \in DOMAIN allLists[m] :
         allLists[k][i] = allLists[m][j] => k = m /\ i = j
  /\ \A b \in Bins : /\ IsSorted(dirty[b], LAMBDA x, y : x < y)
                      /\ \A c \in ToSet(dirty[b]) : getBinIndex(getSize(c)) = b

(* The bitmap has a bit of its own for every block, and __kmalloc's check of
   every 16 bytes of a block cannot meet the bit of another. *)
strides(c) == {bitOf(getPayload(c) + 16 * i) : i \in 0 .. (owned[c] - 1) \div 16}
BitmapIsExact ==
  /\ bitmap = {bitOf(getPayload(c)) : c \in DOMAIN owned}
  /\ \A c, d \in DOMAIN owned :
       c # d => bitOf(getPayload(c)) \notin strides(d) \cup {bitOf(getPayload(d))}

(* A split never finds a remainder in its way (the assert in binChunk): a
   remainder exists only once the one clean chunk is gone. *)
SplitFindsNoRemainder ==
  \A bytes \in Requests :
    LET n == chunkUnits(bytes)
    IN  firstFit(remainder, n) = 0 /\ cleanFits(n) # {} => remainder = <<>>

(* The counters tell what is allocated and what is free. *)
CountersAgree ==
  /\ allocInUse = Cardinality(UNION {c .. getSucc(c) - 1 : c \in DOMAIN owned})
  /\ allocInUse + allocFree = HeapUnits
  /\ allocPM = Cardinality(DOMAIN owned)

(* A caller that stays inside the bytes it asked for touches no tag. *)
PayloadsHoldNoTag ==
  \A c \in DOMAIN owned :
    LET first == getPayload(c)
        past  == first + owned[c]
    IN  /\ \A d \in DOMAIN hdr : 8 * d >= past \/ 8 * d + 4 <= first
        /\ \A d \in DOMAIN ftr : 8 * d + 4 >= past \/ 8 * d + 8 <= first

(* After any calls of kmalloc and kfree tags, lists and counters still describe
   one heap (splitChunk, binChunk, unlinkChunk, __kmalloc, __kfree). *)
HeapIsSound ==
  TypeOK /\ HeapIsTiled /\ FreeIsListedOnce /\ CountersAgree /\ PayloadsHoldNoTag

(* kmalloc and kfree implement Heap: aligned blocks that never overlap. *)
BlockAt(a) == (a - 4) \div 8
Abstract == INSTANCE Heap WITH
  Bytes <- 8 * HeapUnits, Offset <- 4,
  blocks <- [a \in {getPayload(c) : c \in DOMAIN owned} |-> owned[BlockAt(a)]]
ImplementsHeap == Abstract!Spec

(* "all bins can be used if an 'exact' chunk isn't located": a request fails
   only if no free chunk is large enough for it. *)
AllBinsCanBeUsed ==
  \A bytes \in Requests :
    noMemory(chunkUnits(bytes)) =>
      \A c \in DOMAIN hdr : hdr[c].free => getSize(c) < chunkUnits(bytes)
=============================================================================
