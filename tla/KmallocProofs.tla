--------------------------- MODULE KmallocProofs ----------------------------
(***************************************************************************)
(* Proofs about the heap allocator, for every size of the heap, every bin  *)
(* table that has a bin for each size, and every set of requests: the      *)
(* chunks always tile the heap, every free chunk is on exactly one list,   *)
(* the bitmap and the counters are exact, no check of __kfree fails for a  *)
(* block in use, and kmalloc and kfree implement Heap.                     *)
(*                                                                         *)
(* The argument: Tiled is about tags alone, and is kept by the two ways of *)
(* writing tags (CutTiles, MarkTiles); Listed is about the lists alone,    *)
(* and rests on what moving a chunk to its dirty list does (BinDirtyIs,    *)
(* RebinnedIs, UnbinIs); Owned ties the owners, the bitmap and the         *)
(* counters to the tags.  Together they are the inductive invariant        *)
(* HeapInv.                                                                *)
(***************************************************************************)
EXTENDS Kmalloc, FiniteSetTheorems, WellFoundedInduction, TLAPS

(* What a tag holds. *)
TagType == [size : MinUnits .. HeapUnits, free : BOOLEAN]

(* H and F are the header and the footer tags of chunks that tile the heap. *)
Tiled(H, F) ==
  /\ 0 \in DOMAIN H /\ DOMAIN H \subseteq Chunks /\ DOMAIN F \subseteq Chunks
  /\ H \in [DOMAIN H -> TagType] /\ F \in [DOMAIN F -> TagType]
  /\ \A c \in DOMAIN H : c + H[c].size \in DOMAIN H \cup {HeapUnits}
  /\ \A c, d \in DOMAIN H : c < d => c + H[c].size <= d
  /\ \A c \in DOMAIN H : c + H[c].size - 1 \in DOMAIN F /\ F[c + H[c].size - 1] = H[c]
  /\ \A x \in DOMAIN F : \E c \in DOMAIN H : x = c + H[c].size - 1
  /\ \A c \in DOMAIN H : c # 0 => c - 1 \in DOMAIN F

(* Adjacent chunks of n double words, from c up to rest. *)
Pieces(K, c, n, rest) ==
  /\ K \subseteq Nat /\ c \in K
  /\ \A x \in K : c <= x /\ x + n <= rest /\ x + n \in K \cup {rest}
  /\ \A x \in K : x # c => x - n \in K
  /\ rest - n \in K
  /\ \A x, y \in K : x < y => x + n <= y
-----------------------------------------------------------------------------
(* The chunks that split writes, one every n double words. *)
LEMMA PiecesAre ==
  ASSUME NEW c \in Nat, NEW n \in Nat, n >= MinUnits, NEW pre \in Nat
  PROVE  /\ Pieces({c + i * n : i \in 0..pre}, c, n, c + (pre + 1) * n)
         /\ {c + i * n - 1 : i \in 1..pre + 1} = {x + n - 1 : x \in {c + i * n : i \in 0..pre}}
<1> DEFINE K == {c + i * n : i \in 0..pre}
           rest == c + (pre + 1) * n
<1>1. \A i \in Nat : i * n \in Nat /\ (i + 1) * n = i * n + n
  OBVIOUS
<1>2. \A i, j \in Nat : i < j => i * n + n <= j * n
  OBVIOUS
<1>3. K \subseteq Nat
  BY <1>1
<1>4. c \in K
  BY 0 \in 0..pre, c + 0 * n = c
<1>5. ASSUME NEW i \in 0..pre
      PROVE  /\ c <= c + i * n /\ (c + i * n) + n <= rest
             /\ (c + i * n) + n \in K \cup {rest}
             /\ c + i * n # c => (c + i * n) - n \in K
  <2>1. i \in Nat /\ pre + 1 \in Nat /\ i < pre + 1
    OBVIOUS
  <2>2. c <= c + i * n /\ (c + i * n) + n <= rest
    BY <1>1, <1>2, <2>1
  <2>3. (c + i * n) + n = c + (i + 1) * n
    BY <1>1, <2>1
  <2>4. CASE i = pre
    BY <2>2, <2>3, <2>4
  <2>5. CASE i # pre
    <3>1. i + 1 \in 0..pre
      BY <2>5
    <3> QED BY <2>3, <3>1
  <2>6. ASSUME c + i * n # c PROVE (c + i * n) - n \in K
    <3>1. i # 0
      BY <2>6
    <3>2. i - 1 \in 0..pre /\ i - 1 \in Nat /\ i = (i - 1) + 1
      BY <3>1
    <3>3. (c + i * n) - n = c + (i - 1) * n
      BY <1>1, <3>2
    <3> QED BY <3>2, <3>3
  <2> QED BY <2>2, <2>4, <2>5, <2>6
<1>6. rest - n \in K
  <2>1. pre \in 0..pre /\ rest - n = c + pre * n
    BY <1>1
  <2> QED BY <2>1
<1>7. ASSUME NEW i \in 0..pre, NEW j \in 0..pre, c + i * n < c + j * n
      PROVE  (c + i * n) + n <= c + j * n
  <2>1. i * n \in Nat /\ j * n \in Nat
    BY <1>1
  <2>2. i < j
    <3>1. j < i => j * n + n <= i * n
      BY <1>2
    <3> QED BY <1>7, <2>1, <3>1
  <2> QED BY <1>2, <2>1, <2>2
<1>8. Pieces(K, c, n, rest)
  BY <1>3, <1>4, <1>5, <1>6, <1>7 DEF Pieces
<1>9. {c + i * n - 1 : i \in 1..pre + 1} = {x + n - 1 : x \in K}
  <2>1. ASSUME NEW i \in 1..pre + 1 PROVE c + i * n - 1 \in {x + n - 1 : x \in K}
    <3>1. i - 1 \in 0..pre /\ i - 1 \in Nat /\ i = (i - 1) + 1
      OBVIOUS
    <3>2. c + i * n - 1 = (c + (i - 1) * n) + n - 1
      BY <1>1, <3>1
    <3> QED BY <3>1, <3>2
  <2>2. ASSUME NEW i \in 0..pre PROVE (c + i * n) + n - 1 \in {c + k * n - 1 : k \in 1..pre + 1}
    <3>1. i + 1 \in 1..pre + 1 /\ i \in Nat
      OBVIOUS
    <3>2. (c + i * n) + n - 1 = c + (i + 1) * n - 1
      BY <1>1, <3>1
    <3> QED BY <3>1, <3>2
  <2> QED BY <2>1, <2>2
<1> QED BY <1>8, <1>9

(* The tags when the chunks of K and the rest have been written. *)
CutHeaders(H, K, n, rest, left) == tagged(tagged(H, {rest}, left), K, n)
CutFooters(F, K, n, rest, left) ==
  tagged(tagged(F, {rest + left - 1}, left), {x + n - 1 : x \in K}, n)

(* A free chunk c that is cut into pieces of n double words and a rest. *)
Cuts(H, F, K, c, n, rest, left) ==
  /\ Tiled(H, F) /\ c \in DOMAIN H /\ H[c].free /\ Pieces(K, c, n, rest)
  /\ n \in Nat /\ n >= MinUnits /\ left \in Nat /\ left >= MinUnits
  /\ rest \in Nat /\ rest + left = c + H[c].size

(* What the cut leaves: a tiled heap, the pieces and the rest free, every other
   chunk as it was. *)
HasCut(H2, F2, H, K, c, n, rest, left) ==
  /\ Tiled(H2, F2) /\ DOMAIN H2 = DOMAIN H \cup K \cup {rest}
  /\ \A x \in K : H2[x].size = n /\ H2[x].free
  /\ H2[rest].size = left /\ H2[rest].free
  /\ \A d \in DOMAIN H \ {c} : d \notin K \cup {rest} /\ H2[d] = H[d]

(* splitChunk and the loop after it, in terms of tags. *)
LEMMA CutTiles ==
  ASSUME NEW H, NEW F, NEW K, NEW c, NEW n, NEW rest, NEW left, Cuts(H, F, K, c, n, rest, left)
  PROVE  HasCut(CutHeaders(H, K, n, rest, left), CutFooters(F, K, n, rest, left),
                H, K, c, n, rest, left)
<1> DEFINE H2 == tagged(tagged(H, {rest}, left), K, n)
           F2 == tagged(tagged(F, {rest + left - 1}, left), {x + n - 1 : x \in K}, n)
           size == H[c].size
<1>0. /\ Tiled(H, F) /\ c \in DOMAIN H /\ H[c].free /\ Pieces(K, c, n, rest)
      /\ n \in Nat /\ n >= MinUnits /\ left \in Nat /\ left >= MinUnits
      /\ rest \in Nat /\ rest + left = c + H[c].size
  BY DEF Cuts
<1> USE <1>0
<1> USE DEF MinUnits
<1>1. /\ HeapUnits \in Nat /\ c \in Nat /\ size \in MinUnits..HeapUnits /\ c + size <= HeapUnits
      /\ \A d \in DOMAIN H : d \in Nat /\ H[d].size \in MinUnits..HeapUnits
                             /\ H[d] \in TagType /\ d + H[d].size <= HeapUnits
  BY KmallocAssumption DEF Tiled, TagType, Chunks
<1>2. /\ K \subseteq Nat /\ c \in K /\ rest \notin K
      /\ \A x \in K : x \in Nat /\ c <= x /\ x + n <= rest
      /\ c + n <= rest
  <2>1. K \subseteq Nat /\ c \in K /\ \A x \in K : c <= x /\ x + n <= rest
    BY DEF Pieces
  <2>2. \A x \in K : x # rest
    BY <2>1
  <2> QED BY <2>1, <2>2
<1>3. \A d \in DOMAIN H \ {c} : d + H[d].size <= c \/ d >= c + size
  BY <1>1 DEF Tiled
<1>4. \A d \in DOMAIN H \ {c} : d \notin K /\ d # rest
  BY <1>1, <1>2, <1>3
<1>5. DOMAIN H2 = DOMAIN H \cup K \cup {rest}
  BY DEF tagged
<1>6. \A x \in K : H2[x] = Tag(n)
  BY DEF tagged
<1>7. H2[rest] = Tag(left)
  BY <1>2 DEF tagged
<1>8. \A d \in DOMAIN H \ {c} : H2[d] = H[d]
  BY <1>4 DEF tagged
<1>9. Tag(n) \in TagType /\ Tag(left) \in TagType /\ Tag(n).size = n /\ Tag(left).size = left
      /\ Tag(n).free /\ Tag(left).free
  BY <1>1, <1>2 DEF Tag, TagType
<1> DEFINE E == {x + n - 1 : x \in K}
           top == rest + left - 1
<1>10. /\ DOMAIN F2 = DOMAIN F \cup {top} \cup E
       /\ \A x \in K : F2[x + n - 1] = Tag(n)
       /\ top \notin E /\ F2[top] = Tag(left)
       /\ \A x \in DOMAIN F \ ({top} \cup E) : F2[x] = F[x]
  <2>1. \A x \in E : x < rest
    BY <1>2
  <2>2. top \notin E
    BY <2>1
  <2> QED BY <2>2 DEF tagged
<1>11. \A d \in DOMAIN H \ {c} : d + H[d].size - 1 \notin E \cup {top}
  BY <1>1, <1>2, <1>3
<1> HIDE DEF H2, F2
<1>12. \A d \in DOMAIN H2 : d \in K \/ d = rest \/ d \in DOMAIN H \ {c}
  BY <1>2, <1>5
<1>13. DOMAIN H2 \subseteq Chunks /\ 0 \in DOMAIN H2
  BY <1>1, <1>2, <1>5 DEF Chunks, Tiled
<1>14. DOMAIN F2 \subseteq Chunks
  BY <1>1, <1>2, <1>10 DEF Chunks, Tiled
<1>15. \A d \in DOMAIN H2 : H2[d] \in TagType
  BY <1>1, <1>6, <1>7, <1>8, <1>9, <1>12
<1>16. H2 = [d \in DOMAIN H2 |-> H2[d]] /\ F2 = [d \in DOMAIN F2 |-> F2[d]]
  BY DEF H2, F2, tagged
<1>17. \A x \in DOMAIN F2 : F2[x] \in TagType
  <2>1. \A x \in E : F2[x] = Tag(n)
    BY <1>10
  <2> QED BY <1>9, <1>10, <2>1 DEF Tiled
<1>18. \A d \in DOMAIN H2 : d + H2[d].size \in DOMAIN H2 \cup {HeapUnits}
  <2>1. c + size \in DOMAIN H2 \cup {HeapUnits}
    BY <1>5 DEF Tiled
  <2>2. \A x \in K : x + n \in DOMAIN H2
    BY <1>5 DEF Pieces
  <2>3. \A d \in DOMAIN H \ {c} : d + H[d].size \in DOMAIN H2 \cup {HeapUnits}
    BY <1>5 DEF Tiled
  <2> QED BY <1>6, <1>7, <1>8, <1>9, <1>12, <2>1, <2>2, <2>3
<1>19. \A d, e \in DOMAIN H2 : d < e => d + H2[d].size <= e
  <2> SUFFICES ASSUME NEW d \in DOMAIN H2, NEW e \in DOMAIN H2, d < e
               PROVE  d + H2[d].size <= e
    OBVIOUS
  <2>1. CASE d \in K
    <3>1. H2[d].size = n
      BY <1>6, <1>9, <2>1
    <3>2. CASE e \in K
      BY <2>1, <3>1, <3>2 DEF Pieces
    <3>3. CASE e = rest
      BY <1>2, <2>1, <3>1, <3>3
    <3>4. CASE e \in DOMAIN H \ {c}
      <4>1. d < rest /\ d >= c /\ d + n <= rest /\ rest <= c + size /\ d \in Nat /\ e \in Nat
        <5>1. d \in Nat /\ c <= d /\ d + n <= rest
          BY <1>2, <2>1
        <5>2. e \in Nat
          BY <1>1, <3>4
        <5> QED BY <1>1, <5>1, <5>2
      <4>2. e + H[e].size <= c \/ e >= c + size
        BY <1>3, <3>4
      <4> QED BY <1>1, <3>1, <3>4, <4>1, <4>2
    <3> QED BY <1>12, <3>2, <3>3, <3>4
  <2>2. CASE d = rest
    <3>1. e \in DOMAIN H \ {c}
      <4>1. \A x \in K : x < rest
        BY <1>2
      <4>2. e # rest /\ ~(e < rest)
        <5>1. e \in Nat
          BY <1>1, <1>2, <1>12
        <5> QED BY <2>2, <5>1
      <4> QED BY <1>12, <4>1, <4>2
    <3>2. e + H[e].size <= c \/ e >= c + size
      BY <1>3, <3>1
    <3> QED BY <1>1, <1>2, <1>7, <1>9, <2>2, <3>1, <3>2
  <2>3. CASE d \in DOMAIN H \ {c}
    <3>1. H2[d].size = H[d].size
      BY <1>8, <2>3
    <3>2. CASE e \in DOMAIN H
      BY <2>3, <3>1, <3>2 DEF Tiled
    <3>3. CASE e \in K \cup {rest}
      <4>1. c <= e /\ e < c + size /\ e \in Nat
        <5>1. c <= e /\ e <= rest /\ e \in Nat
          <6>1. CASE e = rest
            BY ONLY <1>0, <1>1, <1>2, <6>1
          <6>2. CASE e \in K
            <7>1. e \in Nat /\ c <= e /\ e + n <= rest
              BY ONLY <1>2, <6>2
            <7>2. n \in Nat /\ rest \in Nat
              OBVIOUS
            <7> QED BY ONLY <7>1, <7>2
          <6> QED BY <3>3, <6>1, <6>2
        <5>2. rest < c + size
          OBVIOUS
        <5> QED BY <1>1, <5>1, <5>2
      <4>2. d + H[d].size <= c \/ d >= c + size
        BY <1>3, <2>3
      <4> QED BY <1>1, <2>3, <3>1, <4>1, <4>2
    <3> QED BY <1>5, <3>2, <3>3
  <2> QED BY <1>12, <2>1, <2>2, <2>3
<1>20. \A d \in DOMAIN H2 : d + H2[d].size - 1 \in DOMAIN F2 /\ F2[d + H2[d].size - 1] = H2[d]
  <2>1. \A d \in DOMAIN H \ {c} : d + H[d].size - 1 \in DOMAIN F2 /\ F2[d + H[d].size - 1] = H[d]
    BY <1>10, <1>11 DEF Tiled
  <2> QED BY <1>6, <1>7, <1>8, <1>9, <1>10, <1>12, <2>1
<1>21. \A x \in DOMAIN F2 : \E d \in DOMAIN H2 : x = d + H2[d].size - 1
  <2> SUFFICES ASSUME NEW x \in DOMAIN F2 PROVE \E d \in DOMAIN H2 : x = d + H2[d].size - 1
    OBVIOUS
  <2>1. CASE x = top
    BY <1>5, <1>7, <1>9, <2>1
  <2>2. CASE x \in E
    BY <1>5, <1>6, <1>9, <2>2
  <2>3. CASE x \in DOMAIN F /\ x # top
    <3>1. PICK d \in DOMAIN H : x = d + H[d].size - 1
      BY <2>3 DEF Tiled
    <3>2. d # c
      BY <1>1, <2>3, <3>1
    <3> QED BY <1>5, <1>8, <3>1, <3>2
  <2> QED BY <1>10, <2>1, <2>2, <2>3
<1>22. \A d \in DOMAIN H2 : d # 0 => d - 1 \in DOMAIN F2
  <2> SUFFICES ASSUME NEW d \in DOMAIN H2, d # 0 PROVE d - 1 \in DOMAIN F2
    OBVIOUS
  <2>1. CASE d \in DOMAIN H
    BY <1>10, <2>1 DEF Tiled
  <2>2. CASE d \in K /\ d # c
    <3>1. d - n \in K /\ d - 1 = (d - n) + n - 1
      <4>1. d \in Nat
        BY <1>2, <2>2
      <4>2. d - n \in K
        BY <2>2 DEF Pieces
      <4> QED BY <4>1, <4>2
    <3> QED BY <1>10, <3>1
  <2>3. CASE d = rest
    <3>1. d - n \in K /\ d - 1 = (d - n) + n - 1
      BY <1>2, <2>3 DEF Pieces
    <3> QED BY <1>10, <3>1
  <2> QED BY <1>12, <2>1, <2>2, <2>3
<1>23. Tiled(H2, F2)
  BY <1>13, <1>14, <1>15, <1>16, <1>17, <1>18, <1>19, <1>20, <1>21, <1>22 DEF Tiled
<1>24. HasCut(H2, F2, H, K, c, n, rest, left)
  BY <1>4, <1>5, <1>6, <1>7, <1>8, <1>9, <1>23 DEF HasCut
<1> QED BY <1>24, Zenon DEF H2, F2, CutHeaders, CutFooters

(* The tags once chunk c alone is marked free (b) or in use (not b). *)
IsMarked(H2, F2, H, c, b) ==
  /\ Tiled(H2, F2) /\ DOMAIN H2 = DOMAIN H
  /\ \A d \in DOMAIN H : H2[d].size = H[d].size
  /\ H2[c].free = b /\ \A d \in DOMAIN H \ {c} : H2[d] = H[d]

(* Giving a chunk to a caller, or taking it back, changes its two tags and  *)
(* keeps the tiling.                                                       *)
LEMMA MarkTiles ==
  ASSUME NEW H, NEW F, Tiled(H, F), NEW c \in DOMAIN H, NEW b \in BOOLEAN
  PROVE  IsMarked([H EXCEPT ![c].free = b], [F EXCEPT ![c + H[c].size - 1].free = b], H, c, b)
<1> DEFINE H2 == [H EXCEPT ![c].free = b]
           e == c + H[c].size - 1
           F2 == [F EXCEPT ![e].free = b]
<1>1. /\ \A d \in DOMAIN H : d \in Nat /\ H[d] \in TagType /\ H[d].size \in Nat /\ H[d].size >= 2
      /\ e \in DOMAIN F /\ F[e] = H[c] /\ HeapUnits \in Nat
  BY KmallocAssumption DEF Tiled, TagType, Chunks, MinUnits
<1>2. DOMAIN H2 = DOMAIN H /\ DOMAIN F2 = DOMAIN F
  OBVIOUS
<1>3. H2[c] \in TagType /\ H2[c].size = H[c].size /\ H2[c].free = b
  BY <1>1 DEF TagType
<1>4. \A d \in DOMAIN H \ {c} : H2[d] = H[d]
  OBVIOUS
<1>5. F2[e] = H2[c]
  BY <1>1
<1>6. \A x \in DOMAIN F \ {e} : F2[x] = F[x]
  OBVIOUS
<1>7. \A d \in DOMAIN H \ {c} : d + H[d].size - 1 # e
  <2> SUFFICES ASSUME NEW d \in DOMAIN H \ {c} PROVE d + H[d].size - 1 # e
    OBVIOUS
  <2>1. d < c => d + H[d].size <= c
    BY DEF Tiled
  <2>2. c < d => c + H[c].size <= d
    BY DEF Tiled
  <2> QED BY <1>1, <2>1, <2>2
<1>8. H2 \in [DOMAIN H2 -> TagType]
  BY <1>1, <1>3, <1>4
<1>9. F2 \in [DOMAIN F2 -> TagType]
  <2>1. \A x \in DOMAIN F : F2[x] \in TagType
    BY <1>3, <1>5, <1>6 DEF Tiled
  <2> QED BY <1>2, <2>1
<1> HIDE DEF H2, F2, e
<1>10. \A d \in DOMAIN H : H2[d].size = H[d].size
  BY <1>3, <1>4
<1>11. \A d \in DOMAIN H : d + H2[d].size - 1 \in DOMAIN F2 /\ F2[d + H2[d].size - 1] = H2[d]
  <2>1. e = c + H2[c].size - 1
    BY <1>3 DEF e
  <2> QED BY <1>1, <1>2, <1>4, <1>5, <1>6, <1>7, <1>10, <2>1 DEF Tiled
<1>12. Tiled(H2, F2)
  <2>1. /\ 0 \in DOMAIN H2 /\ DOMAIN H2 \subseteq Chunks /\ DOMAIN F2 \subseteq Chunks
        /\ \A d \in DOMAIN H2 : d # 0 => d - 1 \in DOMAIN F2
    BY <1>2 DEF Tiled
  <2>2. /\ \A d \in DOMAIN H2 : d + H2[d].size \in DOMAIN H2 \cup {HeapUnits}
        /\ \A x, y \in DOMAIN H2 : x < y => x + H2[x].size <= y
    BY <1>2, <1>10 DEF Tiled
  <2>3. \A x \in DOMAIN F2 : \E d \in DOMAIN H2 : x = d + H2[d].size - 1
    BY <1>2, <1>10 DEF Tiled
  <2>4. \A d \in DOMAIN H2 : d + H2[d].size - 1 \in DOMAIN F2 /\ F2[d + H2[d].size - 1] = H2[d]
    BY <1>2, <1>11
  <2> QED BY ONLY <1>8, <1>9, <2>1, <2>2, <2>3, <2>4 DEF Tiled
<1>13. IsMarked(H2, F2, H, c, b)
  BY <1>2, <1>3, <1>4, <1>10, <1>12 DEF IsMarked
<1> QED BY <1>13, Zenon DEF H2, F2, e
-----------------------------------------------------------------------------
(***************************************************************************)
(* Lists.                                                                  *)
(***************************************************************************)
Distinct(s) == \A i, j \in 1..Len(s) : s[i] = s[j] => i = j

(* The dirty lists D hold the chunks of X, each in the bin of its size, in the
   order of their addresses. *)
Binned(D, H, X) ==
  /\ D \in [Bins -> Seq(Chunks)]
  /\ \A b \in Bins : \A i, j \in 1..Len(D[b]) : i < j => D[b][i] < D[b][j]
  /\ \A b \in Bins : \A i \in 1..Len(D[b]) : D[b][i] \in X /\ getBinIndex(H[D[b][i]].size) = b
  /\ \A x \in X : /\ getBinIndex(H[x].size) \in Bins
                  /\ \E i \in 1..Len(D[getBinIndex(H[x].size)]) : D[getBinIndex(H[x].size)][i] = x

(* Induction over the natural numbers, with a set for what holds. *)
LEMMA NatSetInduction ==
  ASSUME NEW S, 0 \in S, \A m \in Nat : m \in S => m + 1 \in S
  PROVE  Nat \subseteq S
<1> SUFFICES ASSUME Nat \ S # {} PROVE FALSE
  OBVIOUS
<1>1. PICK k \in Nat \ S : \A y \in Nat \ S : ~ (<<y, k>> \in OpToRel(<, Nat))
  BY WFMin, NatLessThanWellFounded, Zenon
<1>2. \A y \in Nat \ S : ~ (y < k)
  BY <1>1, Zenon DEF OpToRel
<1>3. k # 0 /\ k - 1 \in Nat /\ k - 1 < k
  BY k \in Nat \ S
<1> QED BY <1>2, <1>3

(* What SelectInSeq returns. *)
LEMMA MinIs ==
  ASSUME NEW S \in SUBSET Nat, S # {}
  PROVE  Min(S) \in S /\ \A y \in S : Min(S) <= y
<1>1. PICK k \in S : \A y \in S : ~ (<<y, k>> \in OpToRel(<, Nat))
  BY WFMin, NatLessThanWellFounded, Zenon
<1>2. \A y \in S : ~ (y < k)
  BY <1>1, Zenon DEF OpToRel
<1>3. \A y \in S : k <= y
  BY <1>2
<1>4. Min(S) = CHOOSE x \in S : \A y \in S : x <= y
  BY DEF Min
<1> QED BY <1>3, <1>4, Zenon

(* The elements of two sequences, one behind the other. *)
LEMMA ConcatIs ==
  ASSUME NEW S, NEW s \in Seq(S), NEW t \in Seq(S)
  PROVE  /\ s \o t \in Seq(S) /\ Len(s \o t) = Len(s) + Len(t)
         /\ Len(s) \in Nat /\ Len(t) \in Nat
         /\ \A j \in 1..(Len(s) + Len(t)) :
              (s \o t)[j] = IF j <= Len(s) THEN s[j] ELSE t[j - Len(s)]
  OBVIOUS

(* s with e inserted at position i, and without the element at position i. *)
LEMMA InsertIs ==
  ASSUME NEW S, NEW s \in Seq(S), NEW e \in S, NEW i \in 1..Len(s)
  PROVE  LET t == InsertAt(s, i, e)
         IN  /\ t \in Seq(S) /\ Len(t) = Len(s) + 1
             /\ \A j \in 1..Len(t) : t[j] = IF j < i THEN s[j] ELSE IF j = i THEN e ELSE s[j - 1]
<1> DEFINE a == SubSeq(s, 1, i - 1)
           b == SubSeq(s, i, Len(s))
           t == InsertAt(s, i, e)
<1>1. Len(s) \in Nat /\ i \in Nat
  OBVIOUS
<1>2. a \in Seq(S) /\ Len(a) = i - 1 /\ \A j \in 1..(i - 1) : a[j] = s[j]
  OBVIOUS
<1>3. b \in Seq(S) /\ Len(b) = Len(s) - i + 1 /\ \A j \in 1..(Len(s) - i + 1) : b[j] = s[i + j - 1]
  OBVIOUS
<1>4. t = (a \o <<e>>) \o b
  BY DEF InsertAt
<1>5. <<e>> \in Seq(S) /\ Len(<<e>>) = 1 /\ <<e>>[1] = e
  OBVIOUS
<1> HIDE DEF a, b, t
<1>6. a \o <<e>> \in Seq(S) /\ Len(a \o <<e>>) = i
      /\ \A j \in 1..i : (a \o <<e>>)[j] = IF j < i THEN s[j] ELSE e
  BY <1>1, <1>2, <1>5
<1> DEFINE ae == a \o <<e>>
<1> HIDE DEF ae
<1>7. t \in Seq(S) /\ Len(t) = Len(s) + 1
      /\ \A j \in 1..(Len(s) + 1) : t[j] = IF j <= i THEN ae[j] ELSE b[j - i]
  <2>1. ae \in Seq(S) /\ Len(ae) = i /\ t = ae \o b
    BY <1>4, <1>6 DEF ae
  <2>2. /\ ae \o b \in Seq(S) /\ Len(ae \o b) = Len(ae) + Len(b)
        /\ \A j \in 1..(Len(ae) + Len(b)) :
             (ae \o b)[j] = IF j <= Len(ae) THEN ae[j] ELSE b[j - Len(ae)]
    BY <1>3, <2>1, ConcatIs
  <2>3. Len(ae) + Len(b) = Len(s) + 1
    BY <1>1, <1>3, <2>1
  <2> QED BY <2>1, <2>2, <2>3
<1>8. \A j \in 1..(Len(s) + 1) : j > i => b[j - i] = s[j - 1]
  BY <1>1, <1>3
<1>9. \A j \in 1..(Len(s) + 1) : t[j] = IF j < i THEN s[j] ELSE IF j = i THEN e ELSE s[j - 1]
  <2>1. \A j \in 1..i : ae[j] = IF j < i THEN s[j] ELSE e
    BY <1>6 DEF ae
  <2> QED BY <1>1, <1>7, <1>8, <2>1
<1>10. /\ t \in Seq(S) /\ Len(t) = Len(s) + 1
       /\ \A j \in 1..Len(t) : t[j] = IF j < i THEN s[j] ELSE IF j = i THEN e ELSE s[j - 1]
  BY <1>7, <1>9
<1> QED BY <1>10 DEF t

(* What unlinkChunk leaves of a list. *)
LEMMA RemoveIs ==
  ASSUME NEW S, NEW s \in Seq(S), NEW i \in 1..Len(s)
  PROVE  LET t == RemoveAt(s, i)
         IN  /\ t \in Seq(S) /\ Len(t) = Len(s) - 1
             /\ \A j \in 1..Len(t) : t[j] = IF j < i THEN s[j] ELSE s[j + 1]
<1> DEFINE a == SubSeq(s, 1, i - 1)
           b == SubSeq(s, i + 1, Len(s))
           t == RemoveAt(s, i)
<1>1. Len(s) \in Nat /\ i \in Nat
  OBVIOUS
<1>2. a \in Seq(S) /\ Len(a) = i - 1 /\ \A j \in 1..(i - 1) : a[j] = s[j]
  OBVIOUS
<1>3. b \in Seq(S) /\ Len(b) = Len(s) - i /\ \A j \in 1..(Len(s) - i) : b[j] = s[i + j]
  OBVIOUS
<1>4. t = a \o b
  BY DEF RemoveAt
<1> HIDE DEF a, b, t
<1>5. t \in Seq(S) /\ Len(t) = Len(s) - 1
      /\ \A j \in 1..(Len(s) - 1) : t[j] = IF j < i THEN a[j] ELSE b[j - (i - 1)]
  <2>1. /\ a \o b \in Seq(S) /\ Len(a \o b) = Len(a) + Len(b)
        /\ \A j \in 1..(Len(a) + Len(b)) :
             (a \o b)[j] = IF j <= Len(a) THEN a[j] ELSE b[j - Len(a)]
    BY <1>2, <1>3, ConcatIs
  <2>2. Len(a) + Len(b) = Len(s) - 1 /\ Len(a) = i - 1
    BY <1>1, <1>2, <1>3
  <2>3. \A j \in 1..(Len(s) - 1) : t[j] = IF j <= i - 1 THEN a[j] ELSE b[j - (i - 1)]
    BY <1>4, <2>1, <2>2
  <2> QED BY <1>1, <1>4, <2>1, <2>2, <2>3
<1>6. \A j \in 1..(Len(s) - 1) : t[j] = IF j < i THEN s[j] ELSE s[j + 1]
  <2> SUFFICES ASSUME NEW j \in 1..(Len(s) - 1)
               PROVE  t[j] = IF j < i THEN s[j] ELSE s[j + 1]
    OBVIOUS
  <2>1. CASE j < i
    BY <1>1, <1>2, <1>5, <2>1
  <2>2. CASE ~(j < i)
    <3>1. j - (i - 1) \in 1..(Len(s) - i) /\ i + (j - (i - 1)) = j + 1
      BY <1>1, <2>2
    <3> QED BY <1>3, <1>5, <2>2, <3>1
  <2> QED BY <2>1, <2>2
<1>7. /\ t \in Seq(S) /\ Len(t) = Len(s) - 1
      /\ \A j \in 1..Len(t) : t[j] = IF j < i THEN s[j] ELSE s[j + 1]
  BY <1>5, <1>6
<1> QED BY <1>7 DEF t

(* In address order. *)
Sorted(s) == \A i, j \in 1..Len(s) : i < j => s[i] < s[j]

(* The elements of t are those of s and c. *)
Gains(t, s, c) ==
  /\ \A j \in 1..Len(t) : t[j] = c \/ \E k \in 1..Len(s) : t[j] = s[k]
  /\ \E j \in 1..Len(t) : t[j] = c
  /\ \A k \in 1..Len(s) : \E j \in 1..Len(t) : t[j] = s[k]

(* What the search of binChunk finds is where c belongs. *)
LEMMA SortedInsert ==
  ASSUME NEW s \in Seq(Chunks), Sorted(s), NEW c \in Chunks,
         \A k \in 1..Len(s) : s[k] # c
  PROVE  LET i == SelectInSeq(s, LAMBDA d : c < d)
             t == IF i = 0 THEN Append(s, c) ELSE InsertAt(s, i, c)
         IN  t \in Seq(Chunks) /\ Sorted(t) /\ Gains(t, s, c)
<1> DEFINE I == {k \in 1..Len(s) : c < s[k]}
           i == SelectInSeq(s, LAMBDA d : c < d)
           t == IF i = 0 THEN Append(s, c) ELSE InsertAt(s, i, c)
<1>1. i = IF I # {} THEN Min(I) ELSE 0
  BY DEF SelectInSeq
<1>2. c \in Nat /\ Len(s) \in Nat /\ \A k \in 1..Len(s) : s[k] \in Nat
  BY KmallocAssumption DEF Chunks
<1> HIDE DEF i
<1>3. CASE I = {}
  <2>1. i = 0 /\ t = Append(s, c)
    BY <1>1, <1>3
  <2>2. /\ t \in Seq(Chunks) /\ Len(t) = Len(s) + 1 /\ t[Len(s) + 1] = c
        /\ \A k \in 1..Len(s) : t[k] = s[k]
    BY <2>1
  <2> HIDE DEF t
  <2>3. \A k \in 1..Len(s) : s[k] < c
    BY <1>2, <1>3
  <2>4. Sorted(t)
    <3> SUFFICES ASSUME NEW k \in 1..Len(t), NEW m \in 1..Len(t), k < m PROVE t[k] < t[m]
      BY DEF Sorted
    <3>1. k \in 1..Len(s)
      BY <1>2, <2>2
    <3>2. m = Len(s) + 1 \/ m \in 1..Len(s)
      BY <1>2, <2>2
    <3> QED BY <2>2, <2>3, <3>1, <3>2 DEF Sorted
  <2>5. Gains(t, s, c)
    <3>1. \A k \in 1..Len(t) : k = Len(s) + 1 \/ k \in 1..Len(s)
      BY <1>2, <2>2
    <3>2. Len(s) + 1 \in 1..Len(t) /\ \A k \in 1..Len(s) : k \in 1..Len(t)
      BY <1>2, <2>2
    <3> QED BY <2>2, <3>1, <3>2 DEF Gains
  <2> QED BY <2>2, <2>4, <2>5 DEF t, i
<1>4. CASE I # {}
  <2>1. i = Min(I) /\ I \in SUBSET Nat
    BY <1>1, <1>4
  <2>2. i \in I /\ \A k \in I : i <= k
    BY <1>4, <2>1, MinIs
  <2>3. i \in 1..Len(s) /\ c < s[i] /\ i \in Nat /\ i # 0
    BY <1>2, <2>2
  <2>4. /\ t \in Seq(Chunks) /\ Len(t) = Len(s) + 1
        /\ \A j \in 1..Len(t) : t[j] = IF j < i THEN s[j] ELSE IF j = i THEN c ELSE s[j - 1]
    BY <2>3, InsertIs
  <2> HIDE DEF t
  <2>5. \A k \in 1..Len(s) : k < i => s[k] < c
    BY <1>2, <2>2, <2>3
  <2>6. \A k \in 1..Len(s) : k >= i => c < s[k]
    <3> SUFFICES ASSUME NEW k \in 1..Len(s), k >= i PROVE c < s[k]
      OBVIOUS
    <3>1. k = i \/ s[i] < s[k]
      BY <2>3 DEF Sorted
    <3> QED BY <1>2, <2>3, <3>1
  <2>7. Sorted(t)
    <3> SUFFICES ASSUME NEW k \in 1..Len(t), NEW m \in 1..Len(t), k < m PROVE t[k] < t[m]
      BY DEF Sorted
    <3>1. k < i => k \in 1..Len(s) /\ t[k] = s[k]
      BY <1>2, <2>3, <2>4
    <3>2. k > i => k - 1 \in 1..Len(s) /\ k - 1 >= i /\ t[k] = s[k - 1]
      BY <1>2, <2>3, <2>4
    <3>3. m < i => m \in 1..Len(s) /\ t[m] = s[m]
      BY <1>2, <2>3, <2>4
    <3>4. m > i => m - 1 \in 1..Len(s) /\ m - 1 >= i /\ t[m] = s[m - 1]
      BY <1>2, <2>3, <2>4
    <3>5. t[i] = c
      BY <1>2, <2>3, <2>4
    <3>6. CASE m < i
      BY <2>3, <3>1, <3>3, <3>6 DEF Sorted
    <3>7. CASE m = i
      BY <2>3, <2>5, <3>1, <3>5, <3>7
    <3>8. CASE m > i /\ k = i
      BY <2>6, <3>4, <3>5, <3>8
    <3>9. CASE m > i /\ k < i
      <4>1. k < m - 1
        BY <2>3, <3>9, <3>1, <3>4
      <4> QED BY <3>1, <3>4, <3>9, <4>1 DEF Sorted
    <3>10. CASE k > i
      <4>1. m > i /\ k - 1 < m - 1
        BY <2>3, <3>10
      <4> QED BY <3>2, <3>4, <3>10, <4>1 DEF Sorted
    <3> QED BY <2>3, <3>6, <3>7, <3>8, <3>9, <3>10
  <2>8. Gains(t, s, c)
    <3>1. i \in 1..Len(t) /\ t[i] = c
      BY <1>2, <2>3, <2>4
    <3>2. ASSUME NEW j \in 1..Len(t) PROVE t[j] = c \/ \E k \in 1..Len(s) : t[j] = s[k]
      <4>1. j < i => j \in 1..Len(s) /\ t[j] = s[j]
        BY <1>2, <2>3, <2>4
      <4>2. j > i => j - 1 \in 1..Len(s) /\ t[j] = s[j - 1]
        BY <1>2, <2>3, <2>4
      <4>3. j < i \/ j = i \/ j > i
        BY <2>3
      <4> QED BY <3>1, <4>1, <4>2, <4>3
    <3>3. ASSUME NEW k \in 1..Len(s) PROVE \E j \in 1..Len(t) : t[j] = s[k]
      <4>1. k < i => k \in 1..Len(t) /\ t[k] = s[k]
        BY <1>2, <2>3, <2>4
      <4>2. k >= i => k + 1 \in 1..Len(t) /\ t[k + 1] = s[k]
        <5> SUFFICES ASSUME k >= i PROVE k + 1 \in 1..Len(t) /\ t[k + 1] = s[k]
          OBVIOUS
        <5>1. k + 1 \in 1..Len(t) /\ ~(k + 1 < i) /\ k + 1 # i /\ (k + 1) - 1 = k
          BY <1>2, <2>3, <2>4
        <5> QED BY <2>4, <5>1
      <4>3. k < i \/ k >= i
        BY <2>3
      <4> QED BY <4>1, <4>2, <4>3
    <3> QED BY <3>1, <3>2, <3>3 DEF Gains
  <2> QED BY <2>4, <2>7, <2>8 DEF t, i
<1> QED BY <1>3, <1>4

(* binChunk(BinDirty): one more chunk on the dirty lists. *)
LEMMA BinDirtyIs ==
  ASSUME NEW D, NEW X \in SUBSET Chunks, Binned(D, hdr, X),
         NEW c \in Chunks \ X, getBinIndex(hdr[c].size) \in Bins
  PROVE  Binned(binDirty(D, c), hdr, X \cup {c})
<1> DEFINE b == getBinIndex(hdr[c].size)
           i == SelectInSeq(D[b], LAMBDA d : c < d)
           t == IF i = 0 THEN Append(D[b], c) ELSE InsertAt(D[b], i, c)
           E == binDirty(D, c)
           bin(x) == getBinIndex(hdr[x].size)
<1>1. D[b] \in Seq(Chunks) /\ Sorted(D[b]) /\ \A k \in 1..Len(D[b]) : D[b][k] # c
  BY DEF Binned, Sorted
<1>2. t \in Seq(Chunks) /\ Sorted(t) /\ Gains(t, D[b], c)
  BY <1>1, SortedInsert
<1>3. E = [D EXCEPT ![b] = t]
  BY DEF binDirty, getSize
<1> HIDE DEF t, i, E
<1>4. E \in [Bins -> Seq(Chunks)] /\ E[b] = t /\ \A d \in Bins \ {b} : E[d] = D[d]
  BY <1>2, <1>3 DEF Binned
<1>5. \A d \in Bins : Sorted(E[d])
  BY <1>2, <1>4 DEF Binned, Sorted
<1>6. ASSUME NEW d \in Bins, NEW k \in 1..Len(E[d]) PROVE E[d][k] \in X \cup {c} /\ bin(E[d][k]) = d
  <2>1. CASE d = b
    <3>1. E[d][k] = c \/ \E m \in 1..Len(D[b]) : E[d][k] = D[b][m]
      BY <1>2, <1>4, <1>6, <2>1 DEF Gains
    <3> QED BY <2>1, <3>1 DEF Binned
  <2>2. CASE d # b
    BY <1>4, <1>6, <2>2 DEF Binned
  <2> QED BY <2>1, <2>2
<1>7. ASSUME NEW x \in X \cup {c} PROVE bin(x) \in Bins /\ \E k \in 1..Len(E[bin(x)]) : E[bin(x)][k] = x
  <2>1. CASE x = c
    BY <1>2, <1>4, <2>1 DEF Gains
  <2>2. CASE x # c /\ bin(x) = b
    <3>1. PICK k \in 1..Len(D[b]) : D[b][k] = x
      BY <2>2 DEF Binned
    <3>2. \E j \in 1..Len(t) : t[j] = D[b][k]
      BY <1>2 DEF Gains
    <3> QED BY <1>4, <2>2, <3>1, <3>2
  <2>3. CASE x # c /\ bin(x) # b
    BY <1>4, <2>3 DEF Binned
  <2> QED BY <2>1, <2>2, <2>3
<1> QED BY <1>4, <1>5, <1>6, <1>7 DEF Binned, Sorted, E

(* A chunk taken from its dirty list. *)
LEMMA UnbinIs ==
  ASSUME NEW D, NEW X \in SUBSET Chunks, Binned(D, hdr, X),
         NEW b \in Bins, NEW i \in 1..Len(D[b])
  PROVE  Binned([D EXCEPT ![b] = RemoveAt(@, i)], hdr, X \ {D[b][i]})
<1> DEFINE s == D[b]
           c == s[i]
           t == RemoveAt(s, i)
           E == [D EXCEPT ![b] = t]
           bin(x) == getBinIndex(hdr[x].size)
<1>1. s \in Seq(Chunks) /\ Sorted(s) /\ \A k \in 1..Len(s) : s[k] \in X /\ bin(s[k]) = b
  BY DEF Binned, Sorted
<1>2. Len(s) \in Nat /\ i \in Nat /\ \A k \in 1..Len(s) : s[k] \in Nat
  BY <1>1, KmallocAssumption DEF Chunks
<1>3. /\ t \in Seq(Chunks) /\ Len(t) = Len(s) - 1
      /\ \A j \in 1..Len(t) : t[j] = IF j < i THEN s[j] ELSE s[j + 1]
  BY <1>1, RemoveIs
<1> HIDE DEF t
<1>4. E \in [Bins -> Seq(Chunks)] /\ E[b] = t /\ \A d \in Bins \ {b} : E[d] = D[d]
  BY <1>3 DEF Binned
<1> HIDE DEF E
<1>5. Sorted(t)
  <2> SUFFICES ASSUME NEW k \in 1..Len(t), NEW m \in 1..Len(t), k < m PROVE t[k] < t[m]
    BY DEF Sorted
  <2>1. k \in 1..Len(s) /\ k + 1 \in 1..Len(s) /\ m \in 1..Len(s) /\ m + 1 \in 1..Len(s)
    BY <1>2, <1>3
  <2>2. s[k] < s[m] /\ s[k] < s[m + 1] /\ s[k + 1] < s[m + 1]
    BY <1>1, <2>1 DEF Sorted
  <2> QED BY <1>2, <1>3, <2>2
<1>6. \A k \in 1..Len(s) : k # i => s[k] # c
  BY <1>1, <1>2 DEF Sorted
<1>7. \A j \in 1..Len(t) : \E k \in 1..Len(s) : k # i /\ t[j] = s[k]
  <2> SUFFICES ASSUME NEW j \in 1..Len(t) PROVE \E k \in 1..Len(s) : k # i /\ t[j] = s[k]
    OBVIOUS
  <2>1. j \in 1..Len(s) /\ j + 1 \in 1..Len(s)
    BY <1>2, <1>3
  <2> QED BY <1>2, <1>3, <2>1
<1>8. \A k \in 1..Len(s) : k # i => \E j \in 1..Len(t) : t[j] = s[k]
  <2> SUFFICES ASSUME NEW k \in 1..Len(s), k # i PROVE \E j \in 1..Len(t) : t[j] = s[k]
    OBVIOUS
  <2>1. CASE k < i
    <3>1. k \in 1..Len(t)
      BY <1>2, <1>3, <2>1
    <3> QED BY <1>3, <2>1, <3>1
  <2>2. CASE k > i
    <3>1. k - 1 \in 1..Len(t) /\ ~(k - 1 < i) /\ (k - 1) + 1 = k
      BY <1>2, <1>3, <2>2
    <3> QED BY <1>3, <3>1
  <2> QED BY <1>2, <2>1, <2>2
<1>9. ASSUME NEW d \in Bins, NEW k \in 1..Len(E[d]) PROVE E[d][k] \in X \ {c} /\ bin(E[d][k]) = d
  <2>1. CASE d = b
    <3>1. PICK m \in 1..Len(s) : m # i /\ E[d][k] = s[m]
      BY <1>4, <1>7, <1>9, <2>1
    <3> QED BY <1>1, <1>6, <2>1, <3>1
  <2>2. CASE d # b
    <3>1. E[d][k] \in X /\ bin(E[d][k]) = d
      BY <1>4, <1>9, <2>2 DEF Binned
    <3> QED BY <1>1, <2>2, <3>1
  <2> QED BY <2>1, <2>2
<1>10. ASSUME NEW x \in X \ {c} PROVE bin(x) \in Bins /\ \E k \in 1..Len(E[bin(x)]) : E[bin(x)][k] = x
  <2>1. CASE bin(x) = b
    <3>1. PICK k \in 1..Len(s) : s[k] = x
      BY <2>1 DEF Binned
    <3>2. k # i
      BY <1>10, <3>1
    <3>3. PICK j \in 1..Len(t) : t[j] = s[k]
      BY <1>8, <3>2
    <3>4. j \in 1..Len(E[bin(x)]) /\ E[bin(x)][j] = x
      BY <1>4, <2>1, <3>1, <3>3
    <3> QED BY <2>1, <3>4
  <2>2. CASE bin(x) # b
    BY <1>4, <2>2 DEF Binned
  <2> QED BY <2>1, <2>2
<1>11. Binned(E, hdr, X \ {c})
  BY <1>4, <1>5, <1>9, <1>10 DEF Binned, Sorted
<1> QED BY <1>11 DEF E, t

(* The dirty lists when a list of chunks has been moved there. *)
LEMMA RebinnedIs ==
  ASSUME NEW X \in SUBSET Chunks, Binned(dirty, hdr, X),
         NEW q \in Seq(Chunks), Distinct(q),
         \A i \in 1..Len(q) : q[i] \notin X /\ getBinIndex(hdr[q[i]].size) \in Bins
  PROVE  Binned(rebinned(q), hdr, X \cup {q[i] : i \in 1..Len(q)})
<1> DEFINE n == Len(q)
           step(g, m) == [i \in 0..m |-> IF i = 0 THEN dirty ELSE binDirty(g[i - 1], q[i])]
           after == CHOOSE g : g = step(g, n)
<1>1. n \in Nat
  OBVIOUS
<1>2. \E g : g = step(g, n)
  <2> DEFINE S == {m \in Nat : \E g : g = step(g, m)}
  <2>1. 0 \in S
    <3>1. [i \in 0..0 |-> dirty] = step([i \in 0..0 |-> dirty], 0)
      OBVIOUS
    <3> QED BY <3>1
  <2>2. ASSUME NEW m \in Nat, m \in S PROVE m + 1 \in S
    <3>1. PICK g : g = step(g, m)
      BY <2>2
    <3> DEFINE h == [i \in 0..(m + 1) |-> IF i <= m THEN g[i] ELSE binDirty(g[m], q[m + 1])]
    <3>2. \A i \in 0..m : h[i] = g[i]
      OBVIOUS
    <3>3. \A i \in 0..(m + 1) : h[i] = IF i = 0 THEN dirty ELSE binDirty(h[i - 1], q[i])
      <4> SUFFICES ASSUME NEW i \in 0..(m + 1)
                   PROVE  h[i] = IF i = 0 THEN dirty ELSE binDirty(h[i - 1], q[i])
        OBVIOUS
      <4>1. CASE i = m + 1
        <5>1. i # 0 /\ i - 1 = m /\ m \in 0..m /\ ~(i <= m)
          BY <4>1
        <5>2. h[i] = binDirty(g[m], q[i])
          BY <4>1, <5>1
        <5>3. h[i - 1] = g[m]
          BY <3>2, <5>1
        <5> HIDE DEF h
        <5> QED BY <5>1, <5>2, <5>3
      <4>2. CASE i # m + 1
        <5>1. i \in 0..m /\ (i # 0 => i - 1 \in 0..m)
          BY <4>2
        <5>2. g[i] = IF i = 0 THEN dirty ELSE binDirty(g[i - 1], q[i])
          BY <3>1, <5>1
        <5> QED BY <3>2, <5>1, <5>2
      <4> QED BY <4>1, <4>2
    <3>4. h = [i \in 0..(m + 1) |-> h[i]]
      OBVIOUS
    <3>5. h = step(h, m + 1)
      <4> HIDE DEF h
      <4> QED BY <3>3, <3>4
    <3>6. m + 1 \in Nat
      OBVIOUS
    <3> HIDE DEF step, h
    <3> QED BY <3>5, <3>6
  <2> HIDE DEF S
  <2>3. Nat \subseteq S
    BY <2>1, <2>2, NatSetInduction
  <2> QED BY <1>1, <2>3 DEF S
<1>3. after = step(after, n)
  BY <1>2
<1>4. rebinned(q) = after[n]
  BY DEF rebinned
<1> HIDE DEF after
<1> DEFINE Y(m) == X \cup {q[i] : i \in 1..m}
           T == {m \in Nat : m <= n => Binned(after[m], hdr, Y(m))}
<1>5. 0 \in T
  <2>1. after[0] = dirty
    BY <1>1, <1>3
  <2>2. Y(0) = X
    OBVIOUS
  <2> HIDE DEF Y
  <2> QED BY <2>1, <2>2
<1>6. ASSUME NEW m \in Nat, m \in T PROVE m + 1 \in T
  <2> SUFFICES ASSUME m + 1 <= n PROVE Binned(after[m + 1], hdr, Y(m + 1))
    OBVIOUS
  <2>1. m + 1 \in 0..n /\ m + 1 # 0 /\ (m + 1) - 1 = m /\ m + 1 \in 1..n /\ m <= n
    BY <1>1
  <2>2. after[m + 1] = binDirty(after[m], q[m + 1])
    BY <1>3, <2>1
  <2>3. Binned(after[m], hdr, Y(m))
    BY <1>6, <2>1
  <2>4. q[m + 1] \in Chunks \ Y(m) /\ getBinIndex(hdr[q[m + 1]].size) \in Bins
    <3>1. \A i \in 1..m : i \in 1..n /\ i # m + 1
      BY <2>1
    <3>2. q[m + 1] \notin {q[i] : i \in 1..m}
      BY <2>1, <3>1 DEF Distinct
    <3> QED BY <2>1, <3>2
  <2>5. Y(m) \in SUBSET Chunks
    <3>1. \A i \in 1..m : i \in 1..n
      BY <2>1
    <3> QED BY <3>1
  <2>6. Y(m + 1) = Y(m) \cup {q[m + 1]}
    <3>1. 1..(m + 1) = 1..m \cup {m + 1}
      OBVIOUS
    <3> QED BY <3>1
  <2> HIDE DEF Y
  <2>7. Binned(binDirty(after[m], q[m + 1]), hdr, Y(m) \cup {q[m + 1]})
    BY <2>3, <2>4, <2>5, BinDirtyIs
  <2> QED BY <2>2, <2>6, <2>7
<1> HIDE DEF T
<1>7. n \in T
  BY <1>1, <1>5, <1>6, NatSetInduction
<1> QED BY <1>4, <1>7 DEF T

(* The searches of allocateChunk find a chunk of the list that is large enough. *)
LEMMA ExactFitIs ==
  ASSUME NEW s \in Seq(Chunks), NEW n \in Nat, exactFit(s, n) # 0
  PROVE  exactFit(s, n) \in 1..Len(s) /\ isExactMatch(s[exactFit(s, n)], n)
<1> DEFINE I == {k \in 1..Len(s) : isExactMatch(s[k], n)}
<1>1. exactFit(s, n) = IF I # {} THEN Min(I) ELSE 0
  BY DEF exactFit, SelectInSeq
<1>2. I # {} /\ I \in SUBSET Nat
  BY <1>1
<1>3. Min(I) \in I
  BY <1>2, MinIs
<1> QED BY <1>1, <1>2, <1>3

(* The same for the searches that take any chunk that is large enough. *)
LEMMA FirstFitIs ==
  ASSUME NEW s \in Seq(Chunks), NEW n \in Nat, firstFit(s, n) # 0
  PROVE  firstFit(s, n) \in 1..Len(s) /\ getSize(s[firstFit(s, n)]) >= n
<1> DEFINE I == {k \in 1..Len(s) : getSize(s[k]) >= n}
<1>1. firstFit(s, n) = IF I # {} THEN Min(I) ELSE 0
  BY DEF firstFit, SelectInSeq
<1>2. I # {} /\ I \in SUBSET Nat
  BY <1>1
<1>3. Min(I) \in I
  BY <1>2, MinIs
<1> QED BY <1>1, <1>2, <1>3
-----------------------------------------------------------------------------
(***************************************************************************)
(* The inductive invariant.                                                *)
(***************************************************************************)
FreeOf(H) == {c \in DOMAIN H : H[c].free}

(* The clean lists before the first split, and after it. *)
CleanHeap == [b \in Bins |-> IF b = MaxBins - 1 THEN <<0>> ELSE <<>>]
NoChunks  == [b \in Bins |-> <<>>]

(* Until the first split the heap is one clean chunk and every other list is
   empty; after it there are no clean chunks. *)
Listed(H, rec, rem, D, cl) ==
  /\ rec \in Seq(Chunks) /\ Distinct(rec) /\ rem \in Seq(Chunks) /\ Len(rem) <= 1
  /\ ToSet(rec) \cap ToSet(rem) = {}
  /\ \/ /\ cl = CleanHeap /\ rec = <<>> /\ rem = <<>> /\ Binned(D, H, {})
        /\ DOMAIN H = {0} /\ H[0].free
     \/ /\ cl = NoChunks /\ ToSet(rec) \cup ToSet(rem) \subseteq FreeOf(H)
        /\ Binned(D, H, FreeOf(H) \ (ToSet(rec) \cup ToSet(rem)))

(* The double words of the chunks in S. *)
WordsOf(H, S) == UNION {c .. c + H[c].size - 1 : c \in S}

(* The owners' blocks, the bitmap and the counters are those of the chunks that
   are not free. *)
Owned(H) ==
  /\ owned \in [DOMAIN owned -> Requests] /\ DOMAIN owned = DOMAIN H \ FreeOf(H)
  /\ \A c \in DOMAIN owned : chunkUnits(owned[c]) <= H[c].size
  /\ bitmap = {bitOf(getPayload(c)) : c \in DOMAIN owned}
  /\ lastAllocSize \in 0 .. HeapUnits
  /\ allocInUse = Cardinality(WordsOf(H, DOMAIN owned))
  /\ allocInUse \in Nat /\ allocFree \in Nat /\ allocInUse + allocFree = HeapUnits
  /\ allocPM = Cardinality(DOMAIN owned) /\ allocPM \in Nat

(* The inductive invariant.  The properties that the runs check are not inductive:
   they do not say that chunks and tags tile the heap in both directions, nor when
   a clean chunk and a remainder exist together. *)
HeapInv ==
  /\ Tiled(hdr, ftr)
  /\ Listed(hdr, recent, remainder, dirty, clean)
  /\ Owned(hdr)
-----------------------------------------------------------------------------
(* As many double words as a chunk says it has. *)
LEMMA IntervalCount ==
  ASSUME NEW a \in Int, NEW n \in Nat
  PROVE  IsFiniteSet(a .. a + n - 1) /\ Cardinality(a .. a + n - 1) = n
<1>1. a + n - 1 \in Int
  OBVIOUS
<1>2. /\ IsFiniteSet(a .. a + n - 1)
      /\ Cardinality(a .. a + n - 1) = IF a > a + n - 1 THEN 0 ELSE (a + n - 1) - a + 1
  BY <1>1, FS_Interval, Zenon
<1>3. n = IF a > a + n - 1 THEN 0 ELSE (a + n - 1) - a + 1
  OBVIOUS
<1> QED BY <1>2, <1>3

(* A chunk more or less is its size more or less in use. *)
LEMMA ChunkCounts ==
  ASSUME NEW H, NEW F, Tiled(H, F), NEW S \in SUBSET DOMAIN H
  PROVE  /\ IsFiniteSet(S) /\ IsFiniteSet(WordsOf(H, S))
         /\ Cardinality(S) \in Nat /\ Cardinality(WordsOf(H, S)) \in 0..HeapUnits
         /\ \A c \in DOMAIN H \ S :
              /\ Cardinality(S \cup {c}) = Cardinality(S) + 1
              /\ Cardinality(WordsOf(H, S \cup {c})) = Cardinality(WordsOf(H, S)) + H[c].size
<1>1. HeapUnits \in Nat
  BY KmallocAssumption
<1>2. \A c \in DOMAIN H : c \in Nat /\ H[c].size \in Nat /\ c + H[c].size <= HeapUnits
  BY <1>1 DEF Tiled, TagType, Chunks, MinUnits
<1>3. IsFiniteSet(Chunks) /\ Cardinality(Chunks) = HeapUnits
  <2>1. Chunks = 0 .. 0 + HeapUnits - 1
    BY <1>1 DEF Chunks
  <2> QED BY <1>1, <2>1, 0 \in Int, IntervalCount, Zenon
<1>4. IsFiniteSet(S)
  <2>1. S \subseteq Chunks
    BY DEF Tiled
  <2> QED BY <1>3, <2>1, FS_Subset, Zenon
<1>5. ASSUME NEW T \in SUBSET DOMAIN H
      PROVE  /\ IsFiniteSet(WordsOf(H, T)) /\ Cardinality(WordsOf(H, T)) \in Nat
             /\ Cardinality(WordsOf(H, T)) <= HeapUnits
  <2>1. WordsOf(H, T) \subseteq Chunks
    BY <1>1, <1>2 DEF WordsOf, Chunks
  <2>2. IsFiniteSet(WordsOf(H, T)) /\ Cardinality(WordsOf(H, T)) <= Cardinality(Chunks)
    BY <1>3, <2>1, FS_Subset, Zenon
  <2>3. Cardinality(WordsOf(H, T)) \in Nat
    BY <2>2, FS_CardinalityType, Zenon
  <2> QED BY <1>3, <2>2, <2>3
<1>6. ASSUME NEW c \in DOMAIN H \ S
      PROVE  /\ Cardinality(S \cup {c}) = Cardinality(S) + 1
             /\ Cardinality(WordsOf(H, S \cup {c})) = Cardinality(WordsOf(H, S)) + H[c].size
  <2> DEFINE W == WordsOf(H, S)
             V == c .. c + H[c].size - 1
  <2>1. WordsOf(H, S \cup {c}) = W \cup V
    BY DEF WordsOf
  <2>2. W \cap V = {}
    <3> SUFFICES ASSUME NEW d \in S, NEW x \in d .. d + H[d].size - 1, x \in V PROVE FALSE
      BY DEF WordsOf
    <3>1. d \in DOMAIN H /\ d # c
      BY <1>6
    <3>2. (d < c => d + H[d].size <= c) /\ (c < d => c + H[c].size <= d)
      BY <3>1 DEF Tiled
    <3> QED BY <1>2, <3>1, <3>2
  <2>3. IsFiniteSet(V) /\ Cardinality(V) = H[c].size
    <3>1. c \in Int /\ H[c].size \in Nat
      BY <1>2, <1>6
    <3> QED BY <3>1, IntervalCount
  <2>4. IsFiniteSet(W) /\ Cardinality(W) \in Nat
    BY <1>5
  <2> HIDE DEF V, W
  <2>5. Cardinality(W \cap V) = 0
    BY <2>2, FS_EmptySet, Zenon
  <2>6. Cardinality(W \cup V) = Cardinality(W) + Cardinality(V) - Cardinality(W \cap V)
    BY <2>3, <2>4, FS_Union, Zenon
  <2>7. Cardinality(W \cup V) = Cardinality(W) + H[c].size
    BY <1>2, <2>3, <2>4, <2>5, <2>6
  <2>8. Cardinality(S \cup {c}) = Cardinality(S) + 1
    BY <1>4, <1>6, FS_AddElement
  <2> QED BY <2>1, <2>7, <2>8 DEF W
<1>7. Cardinality(S) \in Nat
  BY <1>4, FS_CardinalityType, Zenon
<1> QED BY <1>1, <1>4, <1>5, <1>6, <1>7

(* The end of __kmalloc. *)
LEMMA GiveKeeps ==
  ASSUME NEW H, NEW F, Tiled(H, F), Owned(H), NEW c \in FreeOf(H),
         NEW bytes \in Requests, chunkUnits(bytes) <= H[c].size, give(c, bytes, H, F)
  PROVE  /\ Tiled(hdr', ftr') /\ DOMAIN hdr' = DOMAIN H /\ FreeOf(hdr') = FreeOf(H) \ {c}
         /\ \A d \in DOMAIN H : hdr'[d].size = H[d].size
         /\ Owned(hdr)'
<1>1. c \in DOMAIN H /\ H[c].free /\ c \notin DOMAIN owned
  BY DEF FreeOf, Owned
<1>2. /\ hdr' = [H EXCEPT ![c].free = FALSE]
      /\ ftr' = [F EXCEPT ![c + H[c].size - 1].free = FALSE]
      /\ bitmap' = bitmap \cup {bitOf(getPayload(c))}
      /\ lastAllocSize' = H[c].size
      /\ allocInUse' = allocInUse + H[c].size /\ allocFree' = allocFree - H[c].size
      /\ allocPM' = allocPM + 1
      /\ owned' = [d \in DOMAIN owned \cup {c} |-> IF d = c THEN bytes ELSE owned[d]]
  BY DEF give
<1>3. /\ Tiled(hdr', ftr') /\ DOMAIN hdr' = DOMAIN H
      /\ \A d \in DOMAIN H : hdr'[d].size = H[d].size
      /\ ~ hdr'[c].free /\ \A d \in DOMAIN H \ {c} : hdr'[d] = H[d]
  <2>1. IsMarked(hdr', ftr', H, c, FALSE)
    BY <1>1, <1>2, MarkTiles
  <2> QED BY <2>1 DEF IsMarked
<1>4. FreeOf(hdr') = FreeOf(H) \ {c}
  BY <1>3 DEF FreeOf
<1>5. /\ DOMAIN owned' = DOMAIN owned \cup {c} /\ owned'[c] = bytes
      /\ \A d \in DOMAIN owned : owned'[d] = owned[d]
  BY <1>1, <1>2
<1>6. owned' \in [DOMAIN owned' -> Requests]
  BY <1>2, <1>5 DEF Owned
<1>7. DOMAIN owned' = DOMAIN hdr' \ FreeOf(hdr')
  BY <1>1, <1>3, <1>4, <1>5 DEF Owned, FreeOf
<1>8. \A d \in DOMAIN owned' : chunkUnits(owned'[d]) <= hdr'[d].size
  BY <1>1, <1>3, <1>5 DEF Owned
<1>9. bitmap' = {bitOf(getPayload(d)) : d \in DOMAIN owned'}
  BY <1>2, <1>5 DEF Owned
<1>10. /\ HeapUnits \in Nat /\ H[c].size \in Nat /\ H[c].size <= HeapUnits
       /\ DOMAIN owned \in SUBSET DOMAIN H /\ DOMAIN owned' \in SUBSET DOMAIN H
  BY <1>1, <1>5, KmallocAssumption DEF Tiled, TagType, MinUnits, Owned
<1>11. /\ Cardinality(DOMAIN owned) \in Nat
       /\ Cardinality(DOMAIN owned') = Cardinality(DOMAIN owned) + 1
       /\ Cardinality(WordsOf(H, DOMAIN owned)) \in 0..HeapUnits
       /\ Cardinality(WordsOf(H, DOMAIN owned')) = Cardinality(WordsOf(H, DOMAIN owned)) + H[c].size
  BY <1>1, <1>5, <1>10, ChunkCounts
<1>12. Cardinality(WordsOf(H, DOMAIN owned')) \in 0..HeapUnits
  BY <1>10, ChunkCounts
<1>13. WordsOf(hdr', DOMAIN owned') = WordsOf(H, DOMAIN owned')
  BY <1>3, <1>10 DEF WordsOf
<1>14. allocInUse' = Cardinality(WordsOf(hdr', DOMAIN owned')) /\ allocInUse' \in 0..HeapUnits
  BY <1>2, <1>11, <1>12, <1>13 DEF Owned
<1>15. allocInUse' + allocFree' = HeapUnits /\ allocFree' \in Nat /\ allocInUse' \in Nat
  BY <1>2, <1>10, <1>14 DEF Owned
<1>16. allocPM' = Cardinality(DOMAIN owned') /\ allocPM' \in Nat
  BY <1>2, <1>11 DEF Owned
<1>17. lastAllocSize' \in 0..HeapUnits
  BY <1>2, <1>10
<1>18. Owned(hdr)'
  BY <1>6, <1>7, <1>8, <1>9, <1>14, <1>15, <1>16, <1>17, Zenon DEF Owned
<1> QED BY <1>3, <1>4, <1>18

(* __kfree takes a block back. *)
LEMMA TakeBackKeeps ==
  ASSUME Tiled(hdr, ftr), Owned(hdr), NEW c \in DOMAIN owned, kfree(c)
  PROVE  /\ Tiled(hdr', ftr') /\ DOMAIN hdr' = DOMAIN hdr /\ FreeOf(hdr') = FreeOf(hdr) \cup {c}
         /\ c \notin FreeOf(hdr)
         /\ \A d \in DOMAIN hdr : hdr'[d].size = hdr[d].size
         /\ Owned(hdr)'
<1>1. c \in DOMAIN hdr /\ c \notin FreeOf(hdr)
  BY DEF FreeOf, Owned
<1>2. /\ hdr' = [hdr EXCEPT ![c].free = TRUE]
      /\ ftr' = [ftr EXCEPT ![c + hdr[c].size - 1].free = TRUE]
      /\ bitmap' = bitmap \ {bitOf(getPayload(c))}
      /\ lastAllocSize' = lastAllocSize
      /\ allocInUse' = allocInUse - hdr[c].size /\ allocFree' = allocFree + hdr[c].size
      /\ allocPM' = allocPM - 1
      /\ owned' = [d \in DOMAIN owned \ {c} |-> owned[d]]
  BY DEF kfree, getSize, getFooter
<1>3. /\ Tiled(hdr', ftr') /\ DOMAIN hdr' = DOMAIN hdr
      /\ \A d \in DOMAIN hdr : hdr'[d].size = hdr[d].size
      /\ hdr'[c].free /\ \A d \in DOMAIN hdr \ {c} : hdr'[d] = hdr[d]
  <2>1. IsMarked(hdr', ftr', hdr, c, TRUE)
    BY <1>1, <1>2, MarkTiles
  <2> QED BY <2>1 DEF IsMarked
<1>4. FreeOf(hdr') = FreeOf(hdr) \cup {c}
  BY <1>1, <1>3 DEF FreeOf
<1>5. DOMAIN owned' = DOMAIN owned \ {c} /\ \A d \in DOMAIN owned \ {c} : owned'[d] = owned[d]
  BY <1>2
<1>6. owned' \in [DOMAIN owned' -> Requests]
  BY <1>2, <1>5 DEF Owned
<1>7. DOMAIN owned' = DOMAIN hdr' \ FreeOf(hdr')
  BY <1>1, <1>3, <1>4, <1>5 DEF Owned, FreeOf
<1>8. \A d \in DOMAIN owned' : chunkUnits(owned'[d]) <= hdr'[d].size
  BY <1>3, <1>5 DEF Owned
<1>9. bitmap' = {bitOf(getPayload(d)) : d \in DOMAIN owned'}
  <2>1. \A d \in DOMAIN owned : d # c => bitOf(getPayload(d)) # bitOf(getPayload(c))
    <3> SUFFICES ASSUME NEW d \in DOMAIN owned, d # c
                 PROVE  bitOf(getPayload(d)) # bitOf(getPayload(c))
      OBVIOUS
    <3>1. d \in DOMAIN hdr /\ c \in Nat /\ d \in Nat /\ hdr[c].size >= 2 /\ hdr[d].size >= 2
          /\ hdr[c].size \in Nat /\ hdr[d].size \in Nat
      BY <1>1, KmallocAssumption DEF Owned, Tiled, TagType, MinUnits, Chunks
    <3>2. (c < d => c + hdr[c].size <= d) /\ (d < c => d + hdr[d].size <= c)
      BY <1>1, <3>1 DEF Tiled
    <3>3. c + 2 <= d \/ d + 2 <= c
      BY <3>1, <3>2
    <3> DEFINE o == (8 * c + 4) \div 16
               p == (8 * d + 4) \div 16
    <3>4. o \in Nat /\ p \in Nat /\ o # p
      BY <3>1, <3>3
    <3> HIDE DEF o, p
    <3>5. <<o \div 8, 7 - (o % 8)>> # <<p \div 8, 7 - (p % 8)>>
      BY <3>4
    <3>6. bitOf(getPayload(c)) = <<o \div 8, 7 - (o % 8)>> /\ bitOf(getPayload(d)) = <<p \div 8, 7 - (p % 8)>>
      BY DEF bitOf, getPayload, getAddrBitmapOffset, MinUnits, o, p
    <3> QED BY <3>5, <3>6
  <2> QED BY <1>2, <1>5, <2>1 DEF Owned
<1>10. /\ HeapUnits \in Nat /\ hdr[c].size \in Nat
       /\ DOMAIN owned' \in SUBSET DOMAIN hdr /\ DOMAIN owned \in SUBSET DOMAIN hdr
       /\ c \in DOMAIN hdr \ DOMAIN owned' /\ DOMAIN owned = DOMAIN owned' \cup {c}
  BY <1>1, <1>5, KmallocAssumption DEF Tiled, TagType, MinUnits, Owned
<1>11. /\ Cardinality(DOMAIN owned') \in Nat
       /\ Cardinality(DOMAIN owned) = Cardinality(DOMAIN owned') + 1
       /\ Cardinality(WordsOf(hdr, DOMAIN owned')) \in 0..HeapUnits
       /\ Cardinality(WordsOf(hdr, DOMAIN owned)) = Cardinality(WordsOf(hdr, DOMAIN owned')) + hdr[c].size
  BY <1>10, ChunkCounts
<1>12. WordsOf(hdr', DOMAIN owned') = WordsOf(hdr, DOMAIN owned')
  BY <1>3, <1>10 DEF WordsOf
<1>13. allocInUse' = Cardinality(WordsOf(hdr', DOMAIN owned')) /\ allocInUse' \in 0..HeapUnits
  BY <1>2, <1>10, <1>11, <1>12 DEF Owned
<1>14. allocInUse' + allocFree' = HeapUnits /\ allocFree' \in Nat /\ allocInUse' \in Nat
  BY <1>2, <1>10, <1>13 DEF Owned
<1>15. allocPM' = Cardinality(DOMAIN owned') /\ allocPM' \in Nat
  BY <1>2, <1>11 DEF Owned
<1>16. lastAllocSize' \in 0..HeapUnits
  BY <1>2 DEF Owned
<1>17. Owned(hdr)'
  BY <1>6, <1>7, <1>8, <1>9, <1>13, <1>14, <1>15, <1>16, Zenon DEF Owned
<1> QED BY <1>1, <1>3, <1>4, <1>17
-----------------------------------------------------------------------------
(***************************************************************************)
(* What each step does to the lists.                                       *)
(***************************************************************************)
LEMMA TailIs ==
  ASSUME NEW S, NEW s \in Seq(S), Distinct(s), Len(s) >= 1
  PROVE  /\ Tail(s) \in Seq(S) /\ Distinct(Tail(s)) /\ Head(s) = s[1] /\ Head(s) \in ToSet(s)
         /\ ToSet(Tail(s)) = ToSet(s) \ {Head(s)} /\ Len(Tail(s)) = Len(s) - 1
<1> DEFINE t == Tail(s)
<1>1. /\ t \in Seq(S) /\ Len(s) \in Nat /\ s # <<>> /\ Len(t) = Len(s) - 1
      /\ DOMAIN s = 1..Len(s) /\ DOMAIN t = 1..(Len(s) - 1)
      /\ \A i \in 1..(Len(s) - 1) : t[i] = s[i + 1]
      /\ Head(s) = s[1]
  OBVIOUS
<1> HIDE DEF t
<1>2. Distinct(t)
  BY <1>1 DEF Distinct
<1>3. 1 \in DOMAIN s /\ \A i \in DOMAIN t : i + 1 \in DOMAIN s /\ s[i + 1] # s[1]
  BY <1>1 DEF Distinct
<1>4. \A i \in DOMAIN s : i = 1 \/ (i - 1 \in DOMAIN t /\ t[i - 1] = s[i])
  BY <1>1
<1>5. ToSet(t) = ToSet(s) \ {s[1]}
  <2>1. ASSUME NEW x \in ToSet(t) PROVE x \in ToSet(s) \ {s[1]}
    BY <1>1, <1>3 DEF ToSet
  <2>2. ASSUME NEW x \in ToSet(s) \ {s[1]} PROVE x \in ToSet(t)
    BY <1>4 DEF ToSet
  <2> QED BY <2>1, <2>2
<1> QED BY <1>1, <1>2, <1>3, <1>5 DEF t, ToSet

(* A chunk put first on the recent list. *)
LEMMA ConsIs ==
  ASSUME NEW S, NEW s \in Seq(S), Distinct(s), NEW c \in S, c \notin ToSet(s)
  PROVE  /\ <<c>> \o s \in Seq(S) /\ Distinct(<<c>> \o s)
         /\ ToSet(<<c>> \o s) = ToSet(s) \cup {c}
<1> DEFINE t == <<c>> \o s
<1>1. /\ t \in Seq(S) /\ Len(s) \in Nat /\ Len(t) = Len(s) + 1
      /\ DOMAIN s = 1..Len(s) /\ DOMAIN t = 1..(Len(s) + 1)
      /\ t[1] = c /\ \A i \in 2..(Len(s) + 1) : t[i] = s[i - 1]
  OBVIOUS
<1> HIDE DEF t
<1>2. \A i \in DOMAIN t : i = 1 \/ (i - 1 \in DOMAIN s /\ t[i] = s[i - 1])
  BY <1>1
<1>3. \A i \in DOMAIN s : i + 1 \in DOMAIN t /\ t[i + 1] = s[i] /\ s[i] # c
  BY <1>1 DEF ToSet
<1>4. Distinct(t)
  <2> SUFFICES ASSUME NEW i \in 1..Len(t), NEW j \in 1..Len(t), t[i] = t[j] PROVE i = j
    BY DEF Distinct
  <2>0. i \in DOMAIN t /\ j \in DOMAIN t
    BY <1>1
  <2>1. CASE i = 1
    <3>1. t[j] = c
      BY <1>1, <2>1
    <3> QED BY <1>2, <1>3, <2>0, <2>1, <3>1
  <2>2. CASE j = 1
    <3>1. t[i] = c
      BY <1>1, <2>2
    <3> QED BY <1>2, <1>3, <2>0, <2>2, <3>1
  <2>3. CASE i # 1 /\ j # 1
    <3>1. /\ i - 1 \in DOMAIN s /\ j - 1 \in DOMAIN s /\ s[i - 1] = s[j - 1]
      BY <1>2, <2>0, <2>3
    <3>2. i - 1 = j - 1
      BY <1>1, <3>1 DEF Distinct
    <3> QED BY <1>1, <2>0, <3>2
  <2> QED BY <2>1, <2>2, <2>3
<1>5. ToSet(t) = ToSet(s) \cup {c}
  <2>1. ASSUME NEW i \in DOMAIN t PROVE t[i] \in ToSet(s) \cup {c}
    <3>1. CASE i = 1
      BY <1>1, <3>1
    <3>2. CASE i # 1
      BY <1>2, <3>2 DEF ToSet
    <3> QED BY <3>1, <3>2
  <2>2. c \in ToSet(t)
    BY <1>1, 1 \in DOMAIN t DEF ToSet
  <2>3. ASSUME NEW i \in DOMAIN s PROVE s[i] \in ToSet(t)
    BY <1>3 DEF ToSet
  <2> QED BY <2>1, <2>2, <2>3 DEF ToSet
<1> QED BY <1>1, <1>4, <1>5 DEF t

(* The chunks before and behind the i-th. *)
LEMMA PartsAre ==
  ASSUME NEW S, NEW s \in Seq(S), Distinct(s), NEW i \in 1..Len(s)
  PROVE  LET a == SubSeq(s, 1, i - 1)
             b == SubSeq(s, i + 1, Len(s))
         IN  /\ a \in Seq(S) /\ Distinct(a) /\ b \in Seq(S) /\ Distinct(b)
             /\ ToSet(s) = ToSet(a) \cup ToSet(b) \cup {s[i]} /\ ToSet(a) \cap ToSet(b) = {}
             /\ s[i] \notin ToSet(a) \cup ToSet(b)
<1> DEFINE a == SubSeq(s, 1, i - 1)
           b == SubSeq(s, i + 1, Len(s))
<1>1. Len(s) \in Nat /\ i \in Nat /\ DOMAIN s = 1..Len(s)
  OBVIOUS
<1>2. a \in Seq(S) /\ Len(a) = i - 1 /\ DOMAIN a = 1..(i - 1) /\ \A j \in 1..(i - 1) : a[j] = s[j]
  OBVIOUS
<1>3. /\ b \in Seq(S) /\ Len(b) = Len(s) - i /\ DOMAIN b = 1..(Len(s) - i)
      /\ \A j \in 1..(Len(s) - i) : b[j] = s[i + j]
  OBVIOUS
<1> HIDE DEF a, b
<1>4. Distinct(a) /\ Distinct(b)
  BY <1>1, <1>2, <1>3 DEF Distinct
<1>5. \A j \in DOMAIN a : j \in DOMAIN s /\ j < i /\ a[j] = s[j]
  BY <1>1, <1>2
<1>6. \A j \in DOMAIN b : i + j \in DOMAIN s /\ i + j > i /\ b[j] = s[i + j]
  BY <1>1, <1>3
<1>7. \A j \in DOMAIN s : j \in DOMAIN a \/ j = i \/ (j - i \in DOMAIN b /\ i + (j - i) = j)
  BY <1>1, <1>2, <1>3
<1>8. ToSet(s) = ToSet(a) \cup ToSet(b) \cup {s[i]}
  <2>1. ASSUME NEW j \in DOMAIN s PROVE s[j] \in ToSet(a) \cup ToSet(b) \cup {s[i]}
    BY <1>5, <1>6, <1>7 DEF ToSet
  <2>2. ToSet(a) \subseteq ToSet(s) /\ ToSet(b) \subseteq ToSet(s) /\ s[i] \in ToSet(s)
    BY <1>1, <1>5, <1>6 DEF ToSet
  <2> QED BY <2>1, <2>2 DEF ToSet
<1>9. ToSet(a) \cap ToSet(b) = {}
  <2> SUFFICES ASSUME NEW j \in DOMAIN a, NEW k \in DOMAIN b, a[j] = b[k] PROVE FALSE
    BY DEF ToSet
  <2> QED BY <1>1, <1>5, <1>6 DEF Distinct
<1>10. s[i] \notin ToSet(a) \cup ToSet(b)
  BY <1>1, <1>5, <1>6 DEF Distinct, ToSet
<1> QED BY <1>2, <1>3, <1>4, <1>8, <1>9, <1>10 DEF a, b

-----------------------------------------------------------------------------
(***************************************************************************)
(* Splitting a chunk.                                                      *)
(***************************************************************************)
(* Chunks that keep their sizes stay in their bins. *)
LEMMA BinnedCarries ==
  ASSUME NEW D, NEW H, NEW H2, NEW X, Binned(D, H, X), \A x \in X : H2[x].size = H[x].size
  PROVE  Binned(D, H2, X)
  BY DEF Binned

(* The chunk for a request holds a tag at either end and the bytes asked for. *)
LEMMA RequestIs ==
  ASSUME NEW bytes \in Requests
  PROVE  /\ chunkUnits(bytes) \in Nat /\ chunkUnits(bytes) >= MinUnits
         /\ getBinIndex(chunkUnits(bytes)) \in Bins
         /\ bytes \in Nat /\ bytes + 8 <= 8 * chunkUnits(bytes)
<1>1. bytes \in Nat /\ getBinIndex(chunkUnits(bytes)) \in Bins
  BY KmallocAssumption
<1> DEFINE n == (bytes + 8 + 7) \div 8
<1>2. n \in Nat /\ bytes + 8 <= 8 * n
  BY <1>1
<1>3. chunkUnits(bytes) = IF n < 2 THEN 2 ELSE n
  BY DEF chunkUnits, MinUnits
<1> HIDE DEF n
<1> QED BY <1>1, <1>2, <1>3 DEF MinUnits

(* What the loop after a split takes leaves a chunk of at least the least size. *)
LEMMA PreIs ==
  ASSUME NEW size \in Nat, NEW n \in Nat, n >= MinUnits, size - n >= MinUnits
  PROVE  /\ preAllocations(size, n) \in Nat
         /\ leftOver(size, n) \in Nat /\ leftOver(size, n) >= MinUnits
         /\ (preAllocations(size, n) + 1) * n \in Nat
         /\ (preAllocations(size, n) + 1) * n + leftOver(size, n) = size
<1> DEFINE pre == preAllocations(size, n)
           a == size - n - MinUnits
           most == a \div n
<1>1. a \in Nat /\ n > 0
  BY DEF MinUnits
<1> HIDE DEF a
<1>2. most \in Nat /\ most * n <= a
  BY <1>1
<1> HIDE DEF most
<1>3. pre \in Nat /\ pre <= most
  BY <1>2, KmallocAssumption DEF preAllocations, a, most
<1> HIDE DEF pre
<1>4. pre * n <= most * n /\ pre * n \in Nat /\ most * n \in Nat
  BY <1>2, <1>3
<1>5. (pre + 1) * n = pre * n + n
  BY <1>3
<1>6. pre * n <= a
  BY <1>1, <1>2, <1>4
<1>7. leftOver(size, n) = size - (pre + 1) * n
  BY DEF leftOver, pre
<1> DEFINE p == pre * n
<1>8. p \in Nat /\ p <= size - n - 2 /\ leftOver(size, n) = size - (p + n) /\ (pre + 1) * n = p + n
  BY <1>4, <1>5, <1>6, <1>7 DEF a, MinUnits
<1> HIDE DEF p
<1>9. /\ leftOver(size, n) \in Nat /\ leftOver(size, n) >= MinUnits
      /\ (p + n) \in Nat /\ (p + n) + leftOver(size, n) = size
  BY <1>8 DEF MinUnits
<1> QED BY <1>3, <1>8, <1>9 DEF pre

(* The preallocated chunks, the last one first. *)
LEMMA RecentAfterSplit ==
  ASSUME NEW c \in Nat, NEW n \in Nat, n >= MinUnits, NEW pre \in Nat,
         {c + i * n : i \in 0..pre} \subseteq Chunks
  PROVE  LET q == [i \in 1..pre |-> c + (pre + 1 - i) * n] \o <<>>
         IN  /\ q \in Seq(Chunks) /\ Distinct(q)
             /\ ToSet(q) = {c + i * n : i \in 0..pre} \ {c}
<1> DEFINE K == {c + i * n : i \in 0..pre}
           p == [i \in 1..pre |-> c + (pre + 1 - i) * n]
           q == p \o <<>>
<1>1. \A i \in 1..pre : pre + 1 - i \in 0..pre /\ pre + 1 - i \in Nat
  OBVIOUS
<1>2. \A i \in 1..pre : p[i] \in Chunks
  BY <1>1
<1>3. p \in Seq(Chunks) /\ Len(p) = pre
  BY <1>2
<1>4. q \in Seq(Chunks) /\ Len(q) = pre /\ DOMAIN q = 1..pre /\ \A i \in 1..pre : q[i] = p[i]
  <2> HIDE DEF p
  <2> QED BY <1>3
<1>5. \A i \in 1..pre : q[i] = c + (pre + 1 - i) * n
  BY <1>4
<1> HIDE DEF p, q
<1>6. \A i, j \in Nat : i < j => i * n < j * n
  BY DEF MinUnits
<1>7. \A i \in Nat : i * n \in Nat
  OBVIOUS
<1>8. Distinct(q)
  <2> SUFFICES ASSUME NEW i \in 1..pre, NEW j \in 1..pre, q[i] = q[j] PROVE i = j
    BY <1>4 DEF Distinct
  <2> DEFINE k == pre + 1 - i
             m == pre + 1 - j
  <2>1. k \in Nat /\ m \in Nat /\ c + k * n = c + m * n
    BY <1>1, <1>5
  <2>2. k = m => i = j
    OBVIOUS
  <2> HIDE DEF k, m
  <2>3. k * n = m * n
    BY <1>7, <2>1
  <2>4. ~(k < m) /\ ~(m < k)
    BY <1>6, <1>7, <2>1, <2>3
  <2> QED BY <2>1, <2>2, <2>4
<1>9. ToSet(q) = K \ {c}
  <2>1. ASSUME NEW i \in 1..pre PROVE q[i] \in K \ {c}
    <3> DEFINE k == pre + 1 - i
    <3>1. k \in 0..pre /\ k \in Nat /\ 0 < k /\ q[i] = c + k * n
      BY <1>1, <1>5
    <3> HIDE DEF k
    <3>2. 0 * n < k * n /\ k * n \in Nat /\ 0 * n = 0
      BY <1>6, <1>7, <3>1
    <3> QED BY <3>1, <3>2
  <2>2. ASSUME NEW i \in 0..pre, c + i * n # c PROVE c + i * n \in ToSet(q)
    <3>1. i # 0
      BY <2>2
    <3>2. pre + 1 - i \in 1..pre /\ pre + 1 - (pre + 1 - i) = i
      BY <3>1
    <3>3. q[pre + 1 - i] = c + i * n
      BY <1>5, <3>2
    <3> QED BY <1>4, <3>2, <3>3 DEF ToSet
  <2>3. ToSet(q) \subseteq K \ {c}
    BY <1>4, <2>1 DEF ToSet
  <2>4. K \ {c} \subseteq ToSet(q)
    BY <2>2
  <2> QED BY ONLY <2>3, <2>4
<1> QED BY <1>4, <1>8, <1>9 DEF q, p

(* A free chunk lies in the heap and has a bin. *)
LEMMA FreeChunk ==
  ASSUME NEW H, NEW F, Tiled(H, F), NEW c \in FreeOf(H)
  PROVE  /\ c \in DOMAIN H /\ c \in Nat /\ c \in Chunks /\ H[c].free = TRUE
         /\ H[c].size \in Nat /\ H[c].size >= MinUnits /\ getBinIndex(H[c].size) \in Bins
         /\ c + H[c].size <= HeapUnits /\ HeapUnits \in Nat
<1>1. c \in DOMAIN H /\ H[c].free
  BY DEF FreeOf
<1>2. c \in Chunks /\ H[c] \in TagType
  BY <1>1 DEF Tiled
<1>3. HeapUnits \in Nat
  BY KmallocAssumption
<1>4. c \in Nat
  BY <1>2, <1>3 DEF Chunks
<1>5. H[c].size \in MinUnits .. HeapUnits /\ H[c].free \in BOOLEAN
  BY <1>2 DEF TagType
<1>6. getBinIndex(H[c].size) \in Bins
  BY <1>5, KmallocAssumption
<1>7. H[c].size \in Nat /\ H[c].size >= MinUnits
  BY <1>3, <1>5 DEF MinUnits
<1>8. H[c].free = TRUE
  BY <1>1, <1>5
<1>9. c + H[c].size <= HeapUnits
  <2>1. c + H[c].size \in Chunks \cup {HeapUnits}
    BY <1>1 DEF Tiled
  <2> QED BY <1>3, <2>1 DEF Chunks
<1> QED BY <1>1, <1>2, <1>3, <1>4, <1>6, <1>7, <1>8, <1>9

(* Where the rest of a chunk starts and ends. *)
LEMMA RestIs ==
  ASSUME NEW c \in Nat, NEW r \in Nat, NEW left \in Nat, NEW size, r + left = size
  PROVE  c + r \in Nat /\ c + r + left = c + size /\ c + size - 1 = c + r + left - 1
  OBVIOUS

(* A free chunk cut into pieces, of which the first is given away. *)
LEMMA CutKeeps ==
  ASSUME Tiled(hdr, ftr), Owned(hdr), NEW c \in FreeOf(hdr),
         NEW bytes \in Requests, NEW n \in Nat, n >= MinUnits, n = chunkUnits(bytes),
         NEW rest \in Nat, NEW K, Pieces(K, c, n, rest),
         NEW left \in Nat, left >= MinUnits, rest + left = c + hdr[c].size,
         NEW H2, H2 = CutHeaders(hdr, K, n, rest, left),
         NEW F2, F2 = CutFooters(ftr, K, n, rest, left),
         NEW q \in Seq(Chunks), Distinct(q), ToSet(q) = K \ {c},
         Binned(dirty', hdr, FreeOf(hdr) \ {c}), clean' = NoChunks,
         recent' = q, remainder' = <<rest>>, give(c, bytes, H2, F2)
  PROVE  HeapInv'
<1> DEFINE X == FreeOf(hdr) \ {c}
<1>1. c \in DOMAIN hdr /\ hdr[c].free = TRUE
  BY FreeChunk
<1>2. /\ Tiled(H2, F2) /\ DOMAIN H2 = DOMAIN hdr \cup K \cup {rest}
      /\ \A x \in K : H2[x].size = n /\ H2[x].free
      /\ H2[rest].size = left /\ H2[rest].free
      /\ \A d \in DOMAIN hdr \ {c} : d \notin K \cup {rest} /\ H2[d] = hdr[d]
  <2>1. /\ n \in Nat /\ rest \in Nat /\ left \in Nat /\ n >= MinUnits /\ left >= MinUnits
        /\ Pieces(K, c, n, rest) /\ rest + left = c + hdr[c].size
    OBVIOUS
  <2>2. H2 = CutHeaders(hdr, K, n, rest, left) /\ F2 = CutFooters(ftr, K, n, rest, left)
    OBVIOUS
  <2>3. Tiled(hdr, ftr)
    OBVIOUS
  <2>4. c \in DOMAIN hdr /\ hdr[c].free
    BY <1>1
  <2>5. Cuts(hdr, ftr, K, c, n, rest, left)
    BY ONLY <2>1, <2>3, <2>4 DEF Cuts
  <2>6. HasCut(H2, F2, hdr, K, c, n, rest, left)
    BY ONLY <2>2, <2>5, CutTiles
  <2> QED BY ONLY <2>6 DEF HasCut
<1>3. c \in K /\ rest \notin K
  <2>1. c \in K /\ \A x \in K : x \in Nat /\ x + n <= rest
    BY DEF Pieces
  <2>2. \A x \in K : x # rest
    BY <2>1 DEF MinUnits
  <2> QED BY <2>1, <2>2
<1>4. K \subseteq Chunks /\ rest \in Chunks
  BY <1>2 DEF Tiled
<1>5. FreeOf(H2) = X \cup K \cup {rest}
  <2>1. ASSUME NEW d \in FreeOf(H2) PROVE d \in X \cup K \cup {rest}
    BY <1>2, <1>3, <2>1 DEF FreeOf
  <2>2. ASSUME NEW d \in X PROVE d \in FreeOf(H2)
    BY <1>2, <2>2 DEF FreeOf
  <2>3. K \subseteq FreeOf(H2) /\ rest \in FreeOf(H2)
    BY <1>2 DEF FreeOf
  <2> QED BY <2>1, <2>2, <2>3
<1>6. \A d \in DOMAIN owned : d \in DOMAIN hdr \ {c} /\ H2[d] = hdr[d] /\ d \notin FreeOf(hdr)
  BY <1>2 DEF Owned
<1>7. DOMAIN owned = DOMAIN H2 \ FreeOf(H2)
  <2>1. ASSUME NEW d \in DOMAIN owned PROVE d \in DOMAIN H2 \ FreeOf(H2)
    BY <1>2, <1>5, <1>6, <2>1
  <2>2. ASSUME NEW d \in DOMAIN H2 \ FreeOf(H2) PROVE d \in DOMAIN owned
    BY <1>2, <1>3, <1>5, <2>2 DEF Owned
  <2> QED BY <2>1, <2>2
<1>8. Owned(H2)
  <2>1. WordsOf(H2, DOMAIN owned) = WordsOf(hdr, DOMAIN owned)
    BY <1>6 DEF WordsOf
  <2>2. \A d \in DOMAIN owned : chunkUnits(owned[d]) <= H2[d].size
    BY <1>6 DEF Owned
  <2> QED BY <1>7, <2>1, <2>2 DEF Owned
<1>9. c \in FreeOf(H2) /\ chunkUnits(bytes) <= H2[c].size
  <2>1. c \in FreeOf(H2) /\ H2[c].size = n
    BY <1>2, <1>3, <1>5
  <2> QED BY <2>1
<1>10. /\ Tiled(hdr', ftr') /\ DOMAIN hdr' = DOMAIN H2 /\ FreeOf(hdr') = FreeOf(H2) \ {c}
       /\ \A d \in DOMAIN H2 : hdr'[d].size = H2[d].size
       /\ Owned(hdr)'
  <2>1. bytes \in Requests /\ give(c, bytes, H2, F2)
    OBVIOUS
  <2> QED BY ONLY <1>2, <1>8, <1>9, <2>1, GiveKeeps
<1>11. \A d \in X : d \in DOMAIN hdr \ {c} /\ hdr'[d].size = hdr[d].size
  <2> SUFFICES ASSUME NEW d \in X
               PROVE  d \in DOMAIN hdr \ {c} /\ hdr'[d].size = hdr[d].size
    OBVIOUS
  <2>1. d \in DOMAIN hdr \ {c} /\ d \in DOMAIN H2
    BY <1>2 DEF FreeOf
  <2>2. H2[d] = hdr[d] /\ hdr'[d].size = H2[d].size
    BY <1>2, <1>10, <2>1, Zenon
  <2> QED BY <2>1, <2>2
<1>12. Binned(dirty', hdr', X)
  BY <1>11, BinnedCarries
<1>13. <<rest>> \in Seq(Chunks) /\ Len(<<rest>>) <= 1 /\ ToSet(<<rest>>) = {rest}
  BY <1>4 DEF ToSet
<1>14. FreeOf(hdr') \ (ToSet(q) \cup {rest}) = X /\ ToSet(q) \cup {rest} \subseteq FreeOf(hdr')
  <2>1. \A d \in X : d \notin K /\ d # rest
    BY <1>2, <1>11
  <2>2. FreeOf(hdr') = (X \cup K \cup {rest}) \ {c}
    BY <1>5, <1>10
  <2>3. c \notin X
    OBVIOUS
  <2> HIDE DEF X
  <2> QED BY <1>3, <2>1, <2>2, <2>3
<1>15. Listed(hdr', recent', remainder', dirty', clean')
  <2>1. ToSet(q) \cap {rest} = {}
    BY <1>3
  <2> HIDE DEF X
  <2> QED BY <1>12, <1>13, <1>14, <2>1 DEF Listed
<1> QED BY <1>10, <1>15 DEF HeapInv

(* From the label split, for a chunk that the step before took from its list. *)
LEMMA SplitKeeps ==
  ASSUME Tiled(hdr, ftr), Owned(hdr), NEW c \in FreeOf(hdr),
         NEW bytes \in Requests, NEW n, n = chunkUnits(bytes), n <= hdr[c].size,
         Binned(dirty', hdr, FreeOf(hdr) \ {c}), clean' = NoChunks,
         split(c, n, bytes, <<>>, <<>>)
  PROVE  HeapInv'
<1> DEFINE size == hdr[c].size
           X == FreeOf(hdr) \ {c}
<1>1. c \in DOMAIN hdr /\ c \in Nat /\ size \in Nat
  BY FreeChunk
<1>2. n \in Nat /\ n >= MinUnits
  BY RequestIs
<1>3. <<>> \in Seq(Chunks) /\ Distinct(<<>>) /\ ToSet(<<>>) = {} /\ Len(<<>>) <= 1
  BY DEF Distinct, ToSet
<1>4. CASE size - n < MinUnits
  <2>1. recent' = <<>> /\ remainder' = <<>> /\ give(c, bytes, hdr, ftr)
    BY <1>4 DEF split, getSize
  <2>2. /\ Tiled(hdr', ftr') /\ DOMAIN hdr' = DOMAIN hdr /\ FreeOf(hdr') = X
        /\ \A d \in DOMAIN hdr : hdr'[d].size = hdr[d].size
        /\ Owned(hdr)'
    BY <2>1, GiveKeeps
  <2>3. \A d \in X : hdr'[d].size = hdr[d].size
    BY <2>2 DEF FreeOf
  <2>4. Binned(dirty', hdr', X)
    BY <2>3, BinnedCarries
  <2>5. Listed(hdr', recent', remainder', dirty', clean')
    <3>1. X \ (ToSet(recent') \cup ToSet(remainder')) = X
      BY <1>3, <2>1
    <3> HIDE DEF X
    <3> QED BY <1>3, <2>1, <2>2, <2>4, <3>1 DEF Listed
  <2> QED BY <2>2, <2>5 DEF HeapInv
<1>5. CASE ~(size - n < MinUnits)
  <2> DEFINE pre == preAllocations(size, n)
             left == leftOver(size, n)
             r == (pre + 1) * n
             rest == c + r
             K == {c + i * n : i \in 0..pre}
             E == {x + n - 1 : x \in K}
             top == c + size - 1
             H2 == tagged(tagged(hdr, {rest}, left), K, n)
             F2 == tagged(tagged(ftr, {top}, left), {c + i * n - 1 : i \in 1..pre + 1}, n)
             q == [i \in 1..pre |-> c + (pre + 1 - i) * n] \o <<>>
  <2>1. recent' = q /\ remainder' = <<rest>> /\ give(c, bytes, H2, F2)
    BY <1>5 DEF split, getSize
  <2>2. /\ pre \in Nat /\ left \in Nat /\ left >= MinUnits /\ r \in Nat /\ r + left = size
    <3>1. size - n >= MinUnits
      BY <1>1, <1>2, <1>5 DEF MinUnits
    <3> HIDE DEF size
    <3> QED BY <1>1, <1>2, <3>1, PreIs
  <2> HIDE DEF pre, left, size
  <2>3. Pieces(K, c, n, rest) /\ {c + i * n - 1 : i \in 1..pre + 1} = E
    <3>1. c \in Nat /\ n \in Nat /\ n >= MinUnits /\ pre \in Nat
      BY ONLY <1>1, <1>2, <2>2
    <3> QED BY ONLY <3>1, PiecesAre
  <2>4. rest \in Nat /\ rest + left = c + size /\ top = rest + left - 1
    <3> HIDE DEF r
    <3>1. c \in Nat /\ r \in Nat /\ left \in Nat /\ r + left = size
      BY ONLY <1>1, <2>2
    <3>2. c + r \in Nat
      BY ONLY <3>1
    <3>3. c + r + left = c + size
      BY ONLY <3>1
    <3>4. c + size - 1 = c + r + left - 1
      BY ONLY <3>1
    <3> QED BY ONLY <3>2, <3>3, <3>4
  <2> HIDE DEF r, rest
  <2>5. H2 = CutHeaders(hdr, K, n, rest, left) /\ F2 = CutFooters(ftr, K, n, rest, left)
    BY ONLY <2>3, <2>4 DEF CutHeaders, CutFooters
  <2>6. K \subseteq Chunks
    <3> HIDE DEF K
    <3>1. c + size <= HeapUnits /\ HeapUnits \in Nat
      BY FreeChunk DEF size
    <3>2. \A x \in K : x \in Nat /\ x + n <= rest
      BY ONLY <2>3 DEF Pieces
    <3>3. rest <= HeapUnits
      BY ONLY <1>1, <2>2, <2>4, <3>1
    <3>4. n \in Nat /\ n >= 2 /\ rest \in Nat /\ HeapUnits \in Nat
      BY ONLY <1>2, <2>4, <3>1 DEF MinUnits
    <3> QED BY ONLY <3>2, <3>3, <3>4 DEF Chunks
  <2>7. q \in Seq(Chunks) /\ Distinct(q) /\ ToSet(q) = K \ {c}
    <3>1. c \in Nat /\ n \in Nat /\ n >= MinUnits /\ pre \in Nat
      BY ONLY <1>1, <1>2, <2>2
    <3> QED BY ONLY <2>6, <3>1, RecentAfterSplit
  <2> HIDE DEF K, q, H2, F2
  <2>8. rest + left = c + hdr[c].size
    BY <2>4 DEF size
  <2> QED BY <1>2, <2>1, <2>2, <2>3, <2>4, <2>5, <2>7, <2>8, CutKeeps
<1> QED BY <1>4, <1>5

-----------------------------------------------------------------------------
(***************************************************************************)
(* The steps of kmalloc and kfree keep the invariant.                      *)
(***************************************************************************)

(* After the first split or the first exact fit of the whole heap. *)
Late ==
  /\ clean = NoChunks /\ ToSet(recent) \cup ToSet(remainder) \subseteq FreeOf(hdr)
  /\ Binned(dirty, hdr, FreeOf(hdr) \ (ToSet(recent) \cup ToSet(remainder)))

(* Before it. *)
Fresh ==
  /\ clean = CleanHeap /\ recent = <<>> /\ remainder = <<>> /\ Binned(dirty, hdr, {})
  /\ DOMAIN hdr = {0} /\ hdr[0].free

(* The empty list. *)
LEMMA EmptyIs == <<>> \in Seq(Chunks) /\ Distinct(<<>>) /\ ToSet(<<>>) = {} /\ Len(<<>>) = 0
  BY DEF Distinct, ToSet

(* The parts of the invariant. *)
LEMMA HeapInvIs ==
  ASSUME HeapInv
  PROVE  /\ Tiled(hdr, ftr) /\ Owned(hdr) /\ (Fresh \/ Late)
         /\ recent \in Seq(Chunks) /\ Distinct(recent)
         /\ remainder \in Seq(Chunks) /\ Len(remainder) <= 1
         /\ ToSet(recent) \cap ToSet(remainder) = {}
  BY DEF HeapInv, Listed, Fresh, Late

(* Nothing is allocated and nothing listed before the first request. *)
LEMMA FreshIs ==
  ASSUME HeapInv, Fresh
  PROVE  /\ FreeOf(hdr) = {0} /\ DOMAIN owned = {} /\ \A b \in Bins : dirty[b] = <<>>
         /\ ToSet(recent) = {} /\ ToSet(remainder) = {}
<1>1. FreeOf(hdr) = {0}
  BY DEF Fresh, FreeOf
<1>2. DOMAIN owned = {}
  BY <1>1, HeapInvIs DEF Owned, Fresh
<1>3. ASSUME NEW b \in Bins PROVE dirty[b] = <<>>
  <2>1. dirty[b] \in Seq(Chunks) /\ \A i \in 1..Len(dirty[b]) : FALSE
    BY DEF Fresh, Binned
  <2> DEFINE s == dirty[b]
  <2> HIDE DEF s
  <2>2. s \in Seq(Chunks) /\ Len(s) \in Nat /\ 1 \notin 1..Len(s)
    BY <2>1 DEF s
  <2>3. Len(s) = 0
    BY <2>2
  <2>4. s = <<>>
    BY <2>2, <2>3
  <2> QED BY <2>4 DEF s
<1> QED BY <1>1, <1>2, <1>3, EmptyIs DEF Fresh

(* Every chunk of a list of chunks that are free. *)
LEMMA RebinnedKeeps ==
  ASSUME Tiled(hdr, ftr), NEW X \in SUBSET FreeOf(hdr), Binned(dirty, hdr, X),
         NEW q \in Seq(Chunks), Distinct(q), ToSet(q) \subseteq FreeOf(hdr), ToSet(q) \cap X = {}
  PROVE  Binned(rebinned(q), hdr, X \cup ToSet(q))
<1>1. DOMAIN q = 1..Len(q) /\ ToSet(q) = {q[i] : i \in 1..Len(q)}
  BY DEF ToSet
<1>2. ASSUME NEW i \in 1..Len(q)
      PROVE  q[i] \notin X /\ getBinIndex(hdr[q[i]].size) \in Bins
  <2>1. q[i] \in ToSet(q)
    BY <1>1
  <2> QED BY <2>1, FreeChunk
<1>3. X \in SUBSET Chunks
  BY FreeChunk
<1>4. Binned(rebinned(q), hdr, X \cup {q[i] : i \in 1..Len(q)})
  BY <1>2, <1>3, RebinnedIs
<1> QED BY <1>1, <1>4

(* A chunk given as it is, the lists without it. *)
LEMMA GiveListed ==
  ASSUME Tiled(hdr, ftr), Owned(hdr), NEW c \in FreeOf(hdr), NEW bytes \in Requests,
         chunkUnits(bytes) <= hdr[c].size, give(c, bytes, hdr, ftr),
         recent' \in Seq(Chunks), Distinct(recent'), remainder' \in Seq(Chunks),
         Len(remainder') <= 1, ToSet(recent') \cap ToSet(remainder') = {}, clean' = NoChunks,
         ToSet(recent') \cup ToSet(remainder') \subseteq FreeOf(hdr) \ {c},
         Binned(dirty', hdr, (FreeOf(hdr) \ {c}) \ (ToSet(recent') \cup ToSet(remainder')))
  PROVE  HeapInv'
<1>1. /\ Tiled(hdr', ftr') /\ FreeOf(hdr') = FreeOf(hdr) \ {c}
      /\ \A d \in DOMAIN hdr : hdr'[d].size = hdr[d].size
      /\ Owned(hdr)'
  BY GiveKeeps
<1> DEFINE X == (FreeOf(hdr) \ {c}) \ (ToSet(recent') \cup ToSet(remainder'))
<1>2. \A d \in X : hdr'[d].size = hdr[d].size
  BY <1>1, FreeChunk
<1>3. Binned(dirty', hdr', X)
  BY <1>2, BinnedCarries
<1>4. Listed(hdr', recent', remainder', dirty', clean')
  <2>1. X = FreeOf(hdr') \ (ToSet(recent') \cup ToSet(remainder'))
    BY <1>1
  <2> HIDE DEF X
  <2> QED BY <1>1, <1>3, <2>1 DEF Listed
<1> QED BY <1>1, <1>4 DEF HeapInv

(* What an exact match is large enough for. *)
LEMMA MatchIs ==
  ASSUME Tiled(hdr, ftr), NEW c \in FreeOf(hdr), NEW n \in Nat, isExactMatch(c, n)
  PROVE  n <= hdr[c].size
<1>1. hdr[c].size \in Nat
  BY FreeChunk
<1> QED BY <1>1 DEF isExactMatch, getSize, MinUnits

(* Step 1 of allocateChunk. *)
LEMMA TakeLastFreedKeeps ==
  ASSUME HeapInv, NEW bytes \in Requests, takeLastFreed(chunkUnits(bytes), bytes)
  PROVE  HeapInv'
<1> DEFINE n == chunkUnits(bytes)
           c == Head(recent)
<1>1. n \in Nat
  BY RequestIs
<1>2. /\ exactFit(recent, n) = 1 /\ recent' = Tail(recent) /\ remainder' = remainder
      /\ dirty' = dirty /\ clean' = clean /\ give(c, bytes, hdr, ftr)
  BY DEF takeLastFreed
<1> HIDE DEF n
<1>3. 1 \in 1..Len(recent) /\ isExactMatch(recent[1], n)
  BY <1>1, <1>2, HeapInvIs, ExactFitIs
<1>4. Len(recent) >= 1
  <2>1. Len(recent) \in Nat
    BY HeapInvIs
  <2> QED BY <1>3, <2>1
<1>5. /\ Tail(recent) \in Seq(Chunks) /\ Distinct(Tail(recent)) /\ c = recent[1] /\ c \in ToSet(recent)
      /\ ToSet(Tail(recent)) = ToSet(recent) \ {c}
  BY <1>4, HeapInvIs, TailIs
<1>6. Late
  <2>1. ~Fresh
    BY <1>5, FreshIs
  <2> QED BY <2>1, HeapInvIs
<1> HIDE DEF c
<1>7. c \in FreeOf(hdr) /\ n <= hdr[c].size
  <2>1. c \in FreeOf(hdr)
    BY <1>5, <1>6 DEF Late
  <2> QED BY <1>1, <1>3, <1>5, <2>1, HeapInvIs, MatchIs
<1> DEFINE X == FreeOf(hdr) \ (ToSet(recent) \cup ToSet(remainder))
<1>8. /\ X = (FreeOf(hdr) \ {c}) \ (ToSet(recent') \cup ToSet(remainder'))
      /\ ToSet(recent') \cup ToSet(remainder') \subseteq FreeOf(hdr) \ {c}
      /\ ToSet(recent') \cap ToSet(remainder') = {}
  BY <1>2, <1>5, <1>6, HeapInvIs DEF Late
<1>9. Binned(dirty', hdr, X) /\ clean' = NoChunks
  BY <1>2, <1>6 DEF Late
<1> HIDE DEF X
<1> QED BY <1>2, <1>5, <1>7, <1>8, <1>9, HeapInvIs, GiveListed DEF n

(* Step 2. *)
LEMMA TakeDirtyKeeps ==
  ASSUME HeapInv, NEW bytes \in Requests, takeDirty(chunkUnits(bytes), bytes)
  PROVE  HeapInv'
<1> DEFINE n == chunkUnits(bytes)
           b == getBinIndex(n)
           i == exactFit(dirty[b], n)
           c == dirty[b][i]
           X == FreeOf(hdr) \ (ToSet(recent) \cup ToSet(remainder))
<1>1. n \in Nat /\ b \in Bins
  BY RequestIs
<1>2. /\ i # 0 /\ dirty' = [dirty EXCEPT ![b] = RemoveAt(@, i)]
      /\ recent' = recent /\ remainder' = remainder /\ clean' = clean
      /\ give(c, bytes, hdr, ftr)
  BY DEF takeDirty
<1> HIDE DEF n, b
<1>3. dirty[b] \in Seq(Chunks)
  BY <1>1, HeapInvIs DEF Fresh, Late, Binned
<1>4. i \in 1..Len(dirty[b]) /\ isExactMatch(c, n)
  BY <1>1, <1>2, <1>3, ExactFitIs
<1> HIDE DEF i
<1>5. Late
  <2>1. ~Fresh
    <3> SUFFICES ASSUME Fresh PROVE FALSE
      OBVIOUS
    <3>1. dirty[b] = <<>>
      BY <1>1, FreshIs
    <3>2. i \in 1..0
      BY <1>4, <3>1, EmptyIs
    <3> QED BY <3>2
  <2> QED BY <2>1, HeapInvIs
<1>6. Binned(dirty, hdr, X) /\ clean' = NoChunks
  BY <1>2, <1>5 DEF Late
<1>7. X \in SUBSET Chunks
  <2>1. FreeOf(hdr) \subseteq Chunks
    BY HeapInvIs, FreeChunk
  <2> QED BY <2>1
<1>8. c \in X
  BY <1>1, <1>4, <1>6 DEF Binned
<1>9. Binned(dirty', hdr, X \ {c})
  BY <1>1, <1>2, <1>4, <1>6, <1>7, UnbinIs
<1>10. c \in FreeOf(hdr) /\ n <= hdr[c].size
  <2>1. c \in FreeOf(hdr)
    BY <1>8
  <2> HIDE DEF c
  <2> QED BY <1>1, <1>4, <2>1, HeapInvIs, MatchIs
<1> HIDE DEF c
<1>11. /\ X \ {c} = (FreeOf(hdr) \ {c}) \ (ToSet(recent') \cup ToSet(remainder'))
       /\ ToSet(recent') \cup ToSet(remainder') \subseteq FreeOf(hdr) \ {c}
       /\ ToSet(recent') \cap ToSet(remainder') = {}
  BY <1>2, <1>5, <1>8, HeapInvIs DEF Late
<1> HIDE DEF X
<1> QED BY <1>2, <1>6, <1>9, <1>10, <1>11, HeapInvIs, GiveListed DEF n

(* Step 3. *)
LEMMA TakeRecentKeeps ==
  ASSUME HeapInv, NEW bytes \in Requests, takeRecent(chunkUnits(bytes), bytes)
  PROVE  HeapInv'
<1> DEFINE n == chunkUnits(bytes)
           i == exactFit(recent, n)
           a == SubSeq(recent, 1, i - 1)
           d == SubSeq(recent, i + 1, Len(recent))
           c == recent[i]
           M == ToSet(remainder)
           X == FreeOf(hdr) \ (ToSet(recent) \cup M)
<1>1. n \in Nat
  BY RequestIs
<1>2. /\ i > 1 /\ dirty' = rebinned(a) /\ recent' = d
      /\ remainder' = remainder /\ clean' = clean /\ give(c, bytes, hdr, ftr)
  BY DEF takeRecent
<1> HIDE DEF n
<1>3. i \in 1..Len(recent) /\ isExactMatch(c, n)
  <2>1. i # 0
    BY <1>2
  <2> QED BY <1>1, <2>1, HeapInvIs, ExactFitIs
<1> HIDE DEF i
<1>4. /\ a \in Seq(Chunks) /\ Distinct(a) /\ d \in Seq(Chunks) /\ Distinct(d)
      /\ ToSet(recent) = ToSet(a) \cup ToSet(d) \cup {c} /\ ToSet(a) \cap ToSet(d) = {}
      /\ c \notin ToSet(a) \cup ToSet(d)
  BY <1>3, HeapInvIs, PartsAre
<1> HIDE DEF a, d, c
<1>5. Late
  <2>1. ~Fresh
    BY <1>4, FreshIs
  <2> QED BY <2>1, HeapInvIs
<1>6. Binned(dirty, hdr, X) /\ clean' = NoChunks /\ ToSet(recent) \cup M \subseteq FreeOf(hdr)
  BY <1>2, <1>5 DEF Late
<1>7. ToSet(recent) \cap M = {}
  BY HeapInvIs
<1>8. c \in FreeOf(hdr) /\ n <= hdr[c].size
  <2>1. c \in FreeOf(hdr)
    BY <1>4, <1>6
  <2> QED BY <1>1, <1>3, <2>1, HeapInvIs, MatchIs
<1> HIDE DEF M
<1>9. Binned(dirty', hdr, X \cup ToSet(a))
  <2>1. X \in SUBSET FreeOf(hdr) /\ ToSet(a) \subseteq FreeOf(hdr) /\ ToSet(a) \cap X = {}
    BY <1>4, <1>6
  <2> HIDE DEF X
  <2> QED BY <1>2, <1>4, <1>6, <2>1, HeapInvIs, RebinnedKeeps
<1>10. /\ X \cup ToSet(a) = (FreeOf(hdr) \ {c}) \ (ToSet(d) \cup M)
       /\ ToSet(d) \cup M \subseteq FreeOf(hdr) \ {c}
       /\ ToSet(d) \cap M = {}
  BY <1>4, <1>6, <1>7
<1> HIDE DEF X
<1>11. M = ToSet(remainder')
  BY <1>2 DEF M
<1> QED BY <1>2, <1>4, <1>6, <1>8, <1>9, <1>10, <1>11, HeapInvIs, GiveListed DEF n

(* A list of one chunk. *)
LEMMA SingleIs ==
  ASSUME NEW S, NEW s \in Seq(S), Len(s) = 1
  PROVE  ToSet(s) = {s[1]} /\ Tail(s) = <<>>
<1>1. DOMAIN s = {1}
  BY DOMAIN s = 1..Len(s), 1..1 = {1}
<1>2. Tail(s) \in Seq(S) /\ Len(Tail(s)) = 0
  OBVIOUS
<1>3. Tail(s) = <<>>
  <2>1. \A t \in Seq(S) : Len(t) = 0 => t = <<>>
    OBVIOUS
  <2> QED BY ONLY <1>2, <2>1, Zenon
<1> QED BY <1>1, <1>3 DEF ToSet

(* Step 4. *)
LEMMA TakeRemainderKeeps ==
  ASSUME HeapInv, NEW bytes \in Requests, takeRemainder(chunkUnits(bytes), bytes)
  PROVE  HeapInv'
<1> DEFINE n == chunkUnits(bytes)
           c == remainder[1]
<1>1. n \in Nat
  BY RequestIs
<1>2. /\ firstFit(remainder, n) # 0 /\ dirty' = rebinned(recent) /\ clean' = clean
      /\ split(c, n, bytes, <<>>, Tail(remainder))
  BY DEF takeRemainder
<1> HIDE DEF n
<1>3. firstFit(remainder, n) \in 1..Len(remainder) /\ getSize(remainder[firstFit(remainder, n)]) >= n
  BY <1>1, <1>2, HeapInvIs, FirstFitIs
<1>4. remainder \in Seq(Chunks) /\ Len(remainder) = 1 /\ firstFit(remainder, n) = 1
  <2>1. Len(remainder) \in Nat /\ Len(remainder) <= 1
    BY HeapInvIs
  <2>2. remainder \in Seq(Chunks)
    BY HeapInvIs
  <2>3. Len(remainder) = 1 /\ firstFit(remainder, n) = 1
    <3>1. \A k \in Nat : \A f \in 1..k : k <= 1 => k = 1 /\ f = 1
      OBVIOUS
    <3> QED BY ONLY <1>3, <2>1, <3>1
  <2> QED BY <2>2, <2>3
<1>5. ToSet(remainder) = {c} /\ Tail(remainder) = <<>>
  BY ONLY <1>4, SingleIs
<1>6. Late
  <2>1. ~Fresh
    BY <1>5, FreshIs
  <2> QED BY <2>1, HeapInvIs
<1>7. getSize(c) >= n
  BY <1>3, <1>4
<1> HIDE DEF c
<1> DEFINE X == FreeOf(hdr) \ (ToSet(recent) \cup {c})
<1>8. /\ Binned(dirty, hdr, X) /\ clean' = NoChunks
      /\ ToSet(recent) \subseteq FreeOf(hdr) /\ c \in FreeOf(hdr)
  BY <1>2, <1>5, <1>6 DEF Late
<1>9. X \cup ToSet(recent) = FreeOf(hdr) \ {c}
  BY <1>5, <1>8, HeapInvIs
<1>10. Binned(dirty', hdr, X \cup ToSet(recent))
  <2>1. X \in SUBSET FreeOf(hdr) /\ ToSet(recent) \cap X = {}
    OBVIOUS
  <2> HIDE DEF X
  <2> QED BY <1>2, <1>8, <2>1, HeapInvIs, RebinnedKeeps
<1>11. n <= hdr[c].size
  <2>1. hdr[c].size \in Nat
    BY <1>8, HeapInvIs, FreeChunk
  <2> QED BY <1>1, <1>7, <2>1 DEF getSize
<1> HIDE DEF X
<1>12. Binned(dirty', hdr, FreeOf(hdr) \ {c}) /\ split(c, n, bytes, <<>>, <<>>)
  BY <1>2, <1>5, <1>9, <1>10
<1> QED BY <1>8, <1>11, <1>12, HeapInvIs, SplitKeeps DEF n

(* Only the heap that was never split has a clean chunk. *)
LEMMA CleanFitIs ==
  ASSUME HeapInv, NEW bytes \in Requests, NEW b \in cleanFits(chunkUnits(bytes))
  PROVE  /\ Fresh /\ b \in Bins /\ clean[b] = <<0>>
         /\ firstFit(clean[b], chunkUnits(bytes)) = 1 /\ hdr[0].size >= chunkUnits(bytes)
         /\ b = MaxBins - 1
<1> DEFINE n == chunkUnits(bytes)
<1>1. n \in Nat /\ getBinIndex(n) \in Bins
  BY RequestIs
<1>2. b \in getBinIndex(n) .. MaxBins - 1 /\ firstFit(clean[b], n) # 0
  BY DEF cleanFits
<1> HIDE DEF n
<1>3. b \in Bins
  BY <1>1, <1>2, KmallocAssumption DEF Bins
<1>4. clean[b] # <<>>
  <2> SUFFICES ASSUME clean[b] = <<>> PROVE FALSE
    OBVIOUS
  <2>1. firstFit(<<>>, n) \in 1..Len(<<>>)
    BY <1>1, <1>2, EmptyIs, FirstFitIs
  <2> QED BY <2>1, EmptyIs
<1>5. Fresh
  <2>1. ~Late
    BY <1>3, <1>4 DEF Late, NoChunks
  <2> QED BY <2>1, HeapInvIs
<1>6. clean[b] = <<0>> /\ b = MaxBins - 1
  BY <1>3, <1>4, <1>5 DEF Fresh, CleanHeap
<1>7. <<0>> \in Seq(Chunks)
  <2>1. 0 \in Chunks
    BY KmallocAssumption DEF Chunks, MinUnits
  <2> QED BY <2>1
<1>8. firstFit(<<0>>, n) \in 1..Len(<<0>>) /\ getSize(<<0>>[firstFit(<<0>>, n)]) >= n
  BY <1>1, <1>2, <1>6, <1>7, FirstFitIs
<1>9. firstFit(<<0>>, n) = 1
  BY <1>8
<1> QED BY <1>3, <1>5, <1>6, <1>8, <1>9 DEF getSize, n

(* Steps 5 and 6. *)
LEMMA TakeCleanKeeps ==
  ASSUME HeapInv, NEW bytes \in Requests, takeClean(chunkUnits(bytes), bytes)
  PROVE  HeapInv'
<1> DEFINE n == chunkUnits(bytes)
<1>1. PICK b \in cleanFits(n) :
        /\ clean' = [clean EXCEPT ![b] = RemoveAt(@, firstFit(clean[b], n))]
        /\ dirty' = rebinned(recent)
        /\ split(clean[b][firstFit(clean[b], n)], n, bytes, <<>>, remainder)
  BY DEF takeClean
<1>2. /\ Fresh /\ b \in Bins /\ clean[b] = <<0>> /\ firstFit(clean[b], n) = 1
      /\ hdr[0].size >= n /\ b = MaxBins - 1
  BY CleanFitIs
<1>3. clean' = [clean EXCEPT ![b] = RemoveAt(<<0>>, 1)] /\ split(0, n, bytes, <<>>, <<>>)
  <2>1. remainder = <<>> /\ <<0>>[1] = 0
    BY <1>2 DEF Fresh
  <2>2. clean[b][firstFit(clean[b], n)] = 0
    BY ONLY <1>2, <2>1
  <2>3. split(0, n, bytes, <<>>, <<>>)
    BY ONLY <1>1, <2>1, <2>2
  <2>4. clean' = [clean EXCEPT ![b] = RemoveAt(<<0>>, 1)]
    BY ONLY <1>1, <1>2
  <2> QED BY <2>3, <2>4
<1>4. RemoveAt(<<0>>, 1) = <<>>
  BY DEF RemoveAt
<1>5. clean' = NoChunks
  BY <1>2, <1>3, <1>4 DEF Fresh, CleanHeap, NoChunks
<1>6. FreeOf(hdr) = {0} /\ ToSet(recent) = {}
  BY <1>2, FreshIs
<1>7. Binned(dirty', hdr, FreeOf(hdr) \ {0})
  <2>1. Binned(rebinned(recent), hdr, {} \cup ToSet(recent))
    <3>1. Binned(dirty, hdr, {}) /\ {} \in SUBSET FreeOf(hdr) /\ ToSet(recent) \subseteq FreeOf(hdr)
          /\ ToSet(recent) \cap {} = {}
      BY <1>2, <1>6 DEF Fresh
    <3> QED BY <3>1, HeapInvIs, RebinnedKeeps
  <2>2. FreeOf(hdr) \ {0} = {} \cup ToSet(recent)
    BY <1>6
  <2> QED BY <1>1, <2>1, <2>2
<1>8. 0 \in FreeOf(hdr) /\ n <= hdr[0].size
  <2>1. hdr[0].size \in Nat /\ n \in Nat
    BY <1>6, HeapInvIs, FreeChunk, RequestIs
  <2> QED BY <1>2, <1>6, <2>1
<1> QED BY <1>3, <1>5, <1>7, <1>8, HeapInvIs, SplitKeeps

(* The tags, the owners and the counters stay as they are. *)
LEMMA OwnedStays ==
  ASSUME Owned(hdr), UNCHANGED <<tags, bitmap, lastAllocSize, stats, owned>>
  PROVE  Owned(hdr)'
<1>1. /\ hdr' = hdr /\ bitmap' = bitmap /\ lastAllocSize' = lastAllocSize /\ owned' = owned
      /\ allocInUse' = allocInUse /\ allocFree' = allocFree /\ allocPM' = allocPM
  BY DEF tags, stats
<1> QED BY <1>1, Zenon DEF Owned

(* Step 8: the recent chunks are moved although the request fails. *)
LEMMA FailKeeps ==
  ASSUME HeapInv, NEW n, fail(n)
  PROVE  HeapInv'
<1>1. /\ dirty' = rebinned(recent) /\ recent' = <<>> /\ remainder' = remainder /\ clean' = clean
      /\ hdr' = hdr /\ ftr' = ftr
      /\ UNCHANGED <<tags, bitmap, lastAllocSize, stats, owned>>
  BY DEF fail, tags
<1>2. Owned(hdr)' /\ Tiled(hdr', ftr')
  BY <1>1, HeapInvIs, OwnedStays
<1>3. CASE Fresh
  <2>1. Binned(rebinned(recent), hdr, {} \cup ToSet(recent)) /\ ToSet(recent) = {}
    <3>1. Binned(dirty, hdr, {}) /\ {} \in SUBSET FreeOf(hdr) /\ ToSet(recent) \subseteq FreeOf(hdr)
          /\ ToSet(recent) \cap {} = {} /\ ToSet(recent) = {}
      BY <1>3, FreshIs DEF Fresh
    <3> QED BY <3>1, HeapInvIs, RebinnedKeeps
  <2>2. Binned(dirty', hdr', {})
    <3>1. {} \cup ToSet(recent) = {}
      BY <2>1
    <3> QED BY <1>1, <2>1, <3>1
  <2>3. Listed(hdr', recent', remainder', dirty', clean')
    BY <1>1, <1>3, <2>2, EmptyIs DEF Fresh, Listed
  <2> QED BY <1>2, <2>3 DEF HeapInv
<1>4. CASE Late
  <2> DEFINE X == FreeOf(hdr) \ (ToSet(recent) \cup ToSet(remainder))
  <2>1. Binned(rebinned(recent), hdr, X \cup ToSet(recent))
    <3>1. Binned(dirty, hdr, X) /\ X \in SUBSET FreeOf(hdr) /\ ToSet(recent) \subseteq FreeOf(hdr)
          /\ ToSet(recent) \cap X = {}
      BY <1>4 DEF Late
    <3> HIDE DEF X
    <3> QED BY <3>1, HeapInvIs, RebinnedKeeps
  <2>2. X \cup ToSet(recent) = FreeOf(hdr') \ (ToSet(recent') \cup ToSet(remainder'))
    BY <1>1, <1>4, HeapInvIs, EmptyIs DEF Late
  <2> HIDE DEF X
  <2>3. Listed(hdr', recent', remainder', dirty', clean')
    <3>1. Binned(dirty', hdr', FreeOf(hdr') \ (ToSet(recent') \cup ToSet(remainder')))
      BY <1>1, <2>1, <2>2
    <3>2. /\ clean' = NoChunks /\ ToSet(recent') \cup ToSet(remainder') \subseteq FreeOf(hdr')
          /\ ToSet(recent') \cap ToSet(remainder') = {}
          /\ recent' \in Seq(Chunks) /\ Distinct(recent')
          /\ remainder' \in Seq(Chunks) /\ Len(remainder') <= 1
      BY <1>1, <1>4, HeapInvIs, EmptyIs DEF Late
    <3> QED BY <3>1, <3>2 DEF Listed
  <2> QED BY <1>2, <2>3 DEF HeapInv
<1> QED BY <1>3, <1>4, HeapInvIs

(* __kfree. *)
LEMMA KfreeKeeps ==
  ASSUME HeapInv, NEW c \in DOMAIN owned, kfree(c)
  PROVE  HeapInv'
<1>1. /\ recent' = <<c>> \o recent /\ remainder' = remainder /\ dirty' = dirty /\ clean' = clean
  BY DEF kfree
<1>2. /\ Tiled(hdr', ftr') /\ DOMAIN hdr' = DOMAIN hdr /\ FreeOf(hdr') = FreeOf(hdr) \cup {c}
      /\ c \notin FreeOf(hdr)
      /\ \A d \in DOMAIN hdr : hdr'[d].size = hdr[d].size
      /\ Owned(hdr)'
  BY HeapInvIs, TakeBackKeeps
<1>3. Late
  <2>1. ~Fresh
    BY FreshIs
  <2> QED BY <2>1, HeapInvIs
<1>4. c \in Chunks /\ c \notin ToSet(recent) /\ c \notin ToSet(remainder)
  BY <1>2, <1>3, HeapInvIs DEF Late, Owned, Tiled
<1>5. recent' \in Seq(Chunks) /\ Distinct(recent') /\ ToSet(recent') = ToSet(recent) \cup {c}
  BY <1>1, <1>4, HeapInvIs, ConsIs
<1> DEFINE X == FreeOf(hdr) \ (ToSet(recent) \cup ToSet(remainder))
<1>6. Binned(dirty', hdr', X)
  <2>1. \A d \in X : hdr'[d].size = hdr[d].size
    BY <1>2, HeapInvIs, FreeChunk
  <2>2. Binned(dirty, hdr, X)
    BY <1>3 DEF Late
  <2> HIDE DEF X
  <2> QED BY <1>1, <2>1, <2>2, BinnedCarries
<1>7. /\ X = FreeOf(hdr') \ (ToSet(recent') \cup ToSet(remainder'))
      /\ ToSet(recent') \cup ToSet(remainder') \subseteq FreeOf(hdr')
      /\ ToSet(recent') \cap ToSet(remainder') = {}
      /\ clean' = NoChunks
  BY <1>1, <1>2, <1>3, <1>4, <1>5, HeapInvIs DEF Late
<1> HIDE DEF X
<1>8. Listed(hdr', recent', remainder', dirty', clean')
  BY <1>1, <1>5, <1>6, <1>7, HeapInvIs DEF Listed
<1> QED BY <1>2, <1>8 DEF HeapInv

-----------------------------------------------------------------------------
(* No owners. *)
LEMMA EmptyFunction == ASSUME NEW S PROVE <<>> \in [{} -> S] /\ DOMAIN <<>> = {}
  OBVIOUS

(* initRam establishes the invariant. *)
LEMMA InitHeapInv == Init => HeapInv
<1> SUFFICES ASSUME Init PROVE HeapInv
  OBVIOUS
<1> DEFINE h == HeapUnits
<1>1. h \in Nat /\ h >= 2
  BY KmallocAssumption DEF MinUnits
<1>2. /\ DOMAIN hdr = {0} /\ hdr[0] = Tag(h) /\ hdr \in [{0} -> {Tag(h)}]
      /\ DOMAIN ftr = {h - 1} /\ ftr[h - 1] = Tag(h) /\ ftr \in [{h - 1} -> {Tag(h)}]
  BY DEF Init
<1>3. Tag(h) \in TagType /\ Tag(h).size = h /\ Tag(h).free
  BY <1>1 DEF Tag, TagType, MinUnits
<1>4. 0 \in Chunks /\ h - 1 \in Chunks
  BY <1>1 DEF Chunks
<1>5. Tiled(hdr, ftr)
  <2>1. 0 + h = h /\ 0 + h - 1 = h - 1
    BY <1>1
  <2> QED BY <1>1, <1>2, <1>3, <1>4, <2>1 DEF Tiled
<1>6. FreeOf(hdr) = {0}
  BY <1>2, <1>3 DEF FreeOf
<1>7. Listed(hdr, recent, remainder, dirty, clean)
  <2>1. /\ recent = <<>> /\ remainder = <<>> /\ dirty = [b \in Bins |-> <<>>] /\ clean = CleanHeap
    BY DEF Init, CleanHeap
  <2>2. Binned(dirty, hdr, {})
    BY <2>1, EmptyIs DEF Binned
  <2> QED BY <1>2, <1>3, <2>1, <2>2, EmptyIs DEF Listed
<1>8. Owned(hdr)
  <2>1. /\ owned = <<>> /\ bitmap = {} /\ lastAllocSize = 0 /\ allocInUse = 0 /\ allocFree = h
        /\ allocPM = 0
    BY DEF Init
  <2>2. DOMAIN owned = {} /\ owned \in [DOMAIN owned -> Requests]
    BY <2>1, EmptyFunction
  <2>3. Cardinality({}) = 0
    BY FS_EmptySet
  <2>4. WordsOf(hdr, DOMAIN owned) = {}
    BY <2>2 DEF WordsOf
  <2>5. {bitOf(getPayload(c)) : c \in DOMAIN owned} = {}
    BY <2>2
  <2>6. DOMAIN owned = DOMAIN hdr \ FreeOf(hdr)
    BY <1>2, <1>6, <2>2
  <2>7. /\ allocInUse = Cardinality(WordsOf(hdr, DOMAIN owned)) /\ allocPM = Cardinality(DOMAIN owned)
    BY <2>1, <2>2, <2>3, <2>4
  <2>8. /\ allocInUse \in Nat /\ allocFree \in Nat /\ allocInUse + allocFree = h /\ allocPM \in Nat
        /\ lastAllocSize \in 0..h
    BY <1>1, <2>1
  <2> QED BY <2>1, <2>2, <2>5, <2>6, <2>7, <2>8 DEF Owned
<1> QED BY <1>5, <1>7, <1>8 DEF HeapInv

(* Every call of kmalloc and of kfree keeps it. *)
LEMMA NextHeapInv == HeapInv /\ [Next]_vars => HeapInv'
<1> SUFFICES ASSUME HeapInv, [Next]_vars PROVE HeapInv'
  OBVIOUS
<1>1. CASE Next
  <2>1. ASSUME NEW bytes \in Requests, kmalloc(bytes) PROVE HeapInv'
    <3> DEFINE n == chunkUnits(bytes)
    <3>1. CASE takeLastFreed(n, bytes)
      BY <3>1, TakeLastFreedKeeps
    <3>2. CASE takeDirty(n, bytes)
      BY <3>2, TakeDirtyKeeps
    <3>3. CASE takeRecent(n, bytes)
      BY <3>3, TakeRecentKeeps
    <3>4. CASE takeRemainder(n, bytes)
      BY <3>4, TakeRemainderKeeps
    <3>5. CASE takeClean(n, bytes)
      BY <3>5, TakeCleanKeeps
    <3>6. CASE fail(n)
      BY <3>6, FailKeeps
    <3> QED BY <2>1, <3>1, <3>2, <3>3, <3>4, <3>5, <3>6 DEF kmalloc
  <2>2. ASSUME NEW c \in DOMAIN owned, kfree(c) PROVE HeapInv'
    BY <2>2, KfreeKeeps
  <2> QED BY <1>1, <2>1, <2>2 DEF Next
<1>2. CASE UNCHANGED vars
  <2>1. /\ hdr' = hdr /\ ftr' = ftr /\ recent' = recent /\ remainder' = remainder
        /\ dirty' = dirty /\ clean' = clean
        /\ UNCHANGED <<tags, bitmap, lastAllocSize, stats, owned>>
    BY <1>2 DEF vars, tags, lists
  <2>2. Owned(hdr)'
    BY <2>1, HeapInvIs, OwnedStays
  <2> QED BY <2>1, <2>2 DEF HeapInv
<1> QED BY <1>1, <1>2

(* The invariant holds after any calls of kmalloc and kfree, for every heap size,
   every bin table that has a bin for each chunk, and every set of requests. *)
THEOREM HeapInvHolds == Spec => []HeapInv
  BY InitHeapInv, NextHeapInv, PTL DEF Spec

-----------------------------------------------------------------------------
(***************************************************************************)
(* What the invariant says about the heap.                                 *)
(***************************************************************************)
(* A chunk in use lies in the heap, apart from the others, and holds what was asked. *)
LEMMA OwnedChunk ==
  ASSUME HeapInv, NEW c \in DOMAIN owned
  PROVE  /\ c \in DOMAIN hdr /\ c \in Nat /\ c \notin FreeOf(hdr) /\ hdr[c].size \in Nat
         /\ hdr[c].size >= 2 /\ owned[c] \in Nat /\ owned[c] + 8 <= 8 * hdr[c].size
         /\ c + hdr[c].size <= HeapUnits /\ HeapUnits \in Nat /\ owned[c] \in Requests
         /\ \A d \in DOMAIN hdr : (c < d => c + hdr[c].size <= d) /\ (d < c => d + hdr[d].size <= c)
<1>1. c \in DOMAIN hdr /\ c \notin FreeOf(hdr) /\ owned[c] \in Requests /\ chunkUnits(owned[c]) <= hdr[c].size
  BY HeapInvIs DEF Owned
<1>2. /\ c \in Chunks /\ hdr[c] \in TagType /\ c + hdr[c].size \in Chunks \cup {HeapUnits}
      /\ \A d \in DOMAIN hdr : (c < d => c + hdr[c].size <= d) /\ (d < c => d + hdr[d].size <= c)
  BY <1>1, HeapInvIs DEF Tiled
<1>3. HeapUnits \in Nat
  BY KmallocAssumption
<1>4. hdr[c].size \in Nat /\ hdr[c].size >= 2 /\ c \in Nat
  BY <1>2, <1>3 DEF Chunks, TagType, MinUnits
<1>5. c + hdr[c].size <= HeapUnits
  BY <1>2, <1>3 DEF Chunks
<1>6. owned[c] \in Nat /\ owned[c] + 8 <= 8 * chunkUnits(owned[c]) /\ chunkUnits(owned[c]) \in Nat
  BY <1>1, RequestIs
<1>7. owned[c] + 8 <= 8 * hdr[c].size
  <2> DEFINE o == owned[c]
             z == hdr[c].size
             u == chunkUnits(owned[c])
  <2>1. o \in Nat /\ z \in Nat /\ u \in Nat /\ u <= z /\ o + 8 <= 8 * u
    BY <1>1, <1>4, <1>6
  <2> HIDE DEF o, z, u
  <2>2. o + 8 <= 8 * z
    BY <2>1
  <2> QED BY <2>2 DEF o, z
<1> QED BY <1>1, <1>2, <1>3, <1>4, <1>5, <1>6, <1>7

(* Two addresses have the same bit only if they are in the same 16 bytes. *)
LEMMA BitIs ==
  ASSUME NEW a \in Nat
  PROVE  /\ bitOf(a) = <<(a \div 16) \div 8, 7 - ((a \div 16) % 8)>> /\ bitOf(a) \in Nat \X (0..7)
         /\ \A b \in Nat : bitOf(a) = bitOf(b) => a \div 16 = b \div 16
<1>1. \A x \in Nat : bitOf(x) = <<(x \div 16) \div 8, 7 - ((x \div 16) % 8)>> /\ x \div 16 \in Nat
  BY DEF bitOf, getAddrBitmapOffset, MinUnits
<1>2. \A o, p \in Nat : <<o \div 8, 7 - (o % 8)>> = <<p \div 8, 7 - (p % 8)>> => o = p
  <2> SUFFICES ASSUME NEW o \in Nat, NEW p \in Nat, o \div 8 = p \div 8, 7 - (o % 8) = 7 - (p % 8)
               PROVE  o = p
    OBVIOUS
  <2> QED OBVIOUS
<1>3. \A o \in Nat : o \div 8 \in Nat /\ 7 - (o % 8) \in 0..7
  OBVIOUS
<1>4. bitOf(a) \in Nat \X (0..7)
  <2> DEFINE o == a \div 16
  <2>1. bitOf(a) = <<o \div 8, 7 - (o % 8)>> /\ o \in Nat
    BY <1>1
  <2> HIDE DEF o
  <2>2. o \div 8 \in Nat /\ 7 - (o % 8) \in 0..7
    BY <1>3, <2>1
  <2> QED BY <2>1, <2>2
<1>5. ASSUME NEW b \in Nat, bitOf(a) = bitOf(b) PROVE a \div 16 = b \div 16
  <2> DEFINE o == a \div 16
             p == b \div 16
  <2>1. /\ bitOf(a) = <<o \div 8, 7 - (o % 8)>> /\ o \in Nat
        /\ bitOf(b) = <<p \div 8, 7 - (p % 8)>> /\ p \in Nat
    BY <1>1
  <2> HIDE DEF o, p
  <2>2. o = p
    BY ONLY <1>2, <1>5, <2>1
  <2> QED BY <2>2 DEF o, p
<1> QED BY <1>1, <1>4, <1>5

(* The type invariant. *)
LEMMA TypeHolds == HeapInv => TypeOK
<1> SUFFICES ASSUME HeapInv PROVE TypeOK
  OBVIOUS
<1>1. \A tag \in {hdr, ftr} :
        DOMAIN tag \subseteq Chunks
        /\ tag \in [DOMAIN tag -> [size : MinUnits .. HeapUnits, free : BOOLEAN]]
  BY HeapInvIs DEF Tiled, TagType
<1>2. dirty \in [Bins -> Seq(Chunks)]
  BY HeapInvIs DEF Fresh, Late, Binned
<1>3. clean \in [Bins -> Seq(Chunks)]
  <2>1. <<0>> \in Seq(Chunks) /\ <<>> \in Seq(Chunks)
    <3>1. 0 \in Chunks
      BY KmallocAssumption DEF Chunks, MinUnits
    <3> QED BY <3>1
  <2>2. CleanHeap \in [Bins -> Seq(Chunks)] /\ NoChunks \in [Bins -> Seq(Chunks)]
    BY <2>1 DEF CleanHeap, NoChunks
  <2> QED BY <2>2, HeapInvIs DEF Fresh, Late
<1>4. bitmap \subseteq Nat \X (0..7)
  <2>1. \A c \in DOMAIN owned : bitOf(getPayload(c)) \in Nat \X (0..7)
    <3> SUFFICES ASSUME NEW c \in DOMAIN owned PROVE bitOf(getPayload(c)) \in Nat \X (0..7)
      OBVIOUS
    <3>1. getPayload(c) \in Nat
      BY OwnedChunk DEF getPayload
    <3> QED BY <3>1, BitIs
  <2> QED BY <2>1, HeapInvIs DEF Owned
<1>5. /\ DOMAIN owned \subseteq Chunks /\ owned \in [DOMAIN owned -> Requests]
      /\ lastAllocSize \in 0 .. HeapUnits /\ allocInUse \in Nat /\ allocFree \in Nat /\ allocPM \in Nat
  BY HeapInvIs DEF Owned, Tiled
<1> QED BY <1>1, <1>2, <1>3, <1>4, <1>5, HeapInvIs DEF TypeOK

(* The walk of kmallocDump. *)
LEMMA TilingHolds == HeapInv => HeapIsTiled
<1> SUFFICES ASSUME HeapInv PROVE HeapIsTiled
  OBVIOUS
<1>1. Tiled(hdr, ftr) /\ HeapUnits \in Nat
  BY HeapInvIs, KmallocAssumption
<1>2. \A c \in DOMAIN hdr : c \in Nat /\ hdr[c].size \in Nat
  BY <1>1 DEF Tiled, TagType, Chunks, MinUnits
<1>3. ASSUME NEW c \in DOMAIN hdr, NEW d \in c + 1 .. getSucc(c) - 1 PROVE d \notin DOMAIN hdr
  <2>1. c < d /\ d < c + hdr[c].size
    BY <1>2 DEF getSucc, getSize
  <2>2. ASSUME d \in DOMAIN hdr PROVE FALSE
    <3>1. c + hdr[c].size <= d
      BY <1>1, <2>1, <2>2 DEF Tiled
    <3> QED BY <1>2, <2>1, <2>2, <3>1
  <2> QED BY <2>2
<1>4. DOMAIN ftr = {getFooter(c) : c \in DOMAIN hdr}
  BY <1>1 DEF Tiled, getFooter, getSize
<1>5. 0 \in DOMAIN hdr /\ \A c \in DOMAIN hdr : getSucc(c) \in DOMAIN hdr \cup {HeapUnits}
  BY <1>1 DEF Tiled, getSucc, getSize
<1> QED BY <1>3, <1>4, <1>5 DEF HeapIsTiled

(* The counters. *)
LEMMA CountersHold == HeapInv => CountersAgree
<1> SUFFICES ASSUME HeapInv PROVE CountersAgree
  OBVIOUS
<1>1. UNION {c .. getSucc(c) - 1 : c \in DOMAIN owned} = WordsOf(hdr, DOMAIN owned)
  <2> DEFINE A == {c .. getSucc(c) - 1 : c \in DOMAIN owned}
             B == {c .. c + hdr[c].size - 1 : c \in DOMAIN owned}
  <2>1. \A c \in DOMAIN owned : c .. getSucc(c) - 1 = c .. c + hdr[c].size - 1
    BY OwnedChunk DEF getSucc, getSize
  <2>2. A = B
    BY <2>1
  <2>3. WordsOf(hdr, DOMAIN owned) = UNION B
    BY DEF WordsOf
  <2> HIDE DEF A, B
  <2>4. UNION A = WordsOf(hdr, DOMAIN owned)
    BY <2>2, <2>3
  <2> QED BY <2>4 DEF A
<1> QED BY <1>1, HeapInvIs DEF Owned, CountersAgree

(* Between the tags of its chunk there is room for the bytes asked for. *)
LEMMA PayloadsHold == HeapInv => PayloadsHoldNoTag
<1> SUFFICES ASSUME HeapInv, NEW c \in DOMAIN owned
             PROVE  LET first == getPayload(c)
                        past  == first + owned[c]
                    IN  /\ \A d \in DOMAIN hdr : 8 * d >= past \/ 8 * d + 4 <= first
                        /\ \A d \in DOMAIN ftr : 8 * d + 4 >= past \/ 8 * d + 8 <= first
  BY DEF PayloadsHoldNoTag
<1> DEFINE o == owned[c]
           z == hdr[c].size
<1>1. c \in Nat /\ o \in Nat /\ z \in Nat /\ z >= 2 /\ o + 8 <= 8 * z /\ getPayload(c) = 8 * c + 4
  BY OwnedChunk DEF getPayload
<1>2. \A d \in DOMAIN hdr : d \in Nat /\ hdr[d].size \in Nat /\ hdr[d].size >= 2
  BY HeapInvIs, KmallocAssumption DEF Tiled, TagType, Chunks, MinUnits
<1>3. \A d \in DOMAIN hdr : (c < d => c + z <= d) /\ (d < c => d + hdr[d].size <= c)
  BY OwnedChunk
<1>4. c \in DOMAIN hdr
  BY OwnedChunk
<1> HIDE DEF o
<1>5. ASSUME NEW d \in DOMAIN hdr PROVE 8 * d >= 8 * c + 4 + o \/ 8 * d + 4 <= 8 * c + 4
  <2>1. d \in Nat /\ (c < d => c + z <= d)
    BY <1>2, <1>3
  <2> HIDE DEF z
  <2> QED BY <1>1, <2>1
<1>6. ASSUME NEW x \in DOMAIN ftr PROVE 8 * x + 4 >= 8 * c + 4 + o \/ 8 * x + 8 <= 8 * c + 4
  <2>1. PICK d \in DOMAIN hdr : x = d + hdr[d].size - 1
    BY <1>6, HeapInvIs DEF Tiled
  <2> DEFINE y == hdr[d].size
  <2>2. /\ d \in Nat /\ y \in Nat /\ y >= 2 /\ (c < d => c + z <= d) /\ (d < c => d + y <= c)
        /\ x = d + y - 1 /\ (d = c => y = z)
    BY <1>2, <1>3, <2>1
  <2> HIDE DEF y, z
  <2>3. CASE d = c
    BY <1>1, <2>2, <2>3
  <2>4. CASE c < d
    BY <1>1, <2>2, <2>4
  <2>5. CASE d < c
    BY <1>1, <2>2, <2>5
  <2> QED BY <1>1, <2>2, <2>3, <2>4, <2>5
<1> QED BY <1>1, <1>5, <1>6 DEF o

(* A clean chunk exists only before the first remainder does. *)
LEMMA SplitHolds == HeapInv => SplitFindsNoRemainder
<1> SUFFICES ASSUME HeapInv, NEW bytes \in Requests, cleanFits(chunkUnits(bytes)) # {}
             PROVE  remainder = <<>>
  BY DEF SplitFindsNoRemainder
<1>1. Fresh
  BY CleanFitIs
<1> QED BY <1>1 DEF Fresh

(* A bit of its own for every block. *)
LEMMA StridesApart ==
  ASSUME NEW c \in Nat, NEW d \in Nat, NEW y \in Nat, NEW z \in Nat, NEW o \in Nat,
         z >= 2, y >= 2, o + 8 <= 8 * z, (c < d => c + y <= d), (d < c => d + z <= c), c # d,
         NEW i \in 0 .. (o - 1) \div 16
  PROVE  (8 * c + 4) \div 16 # (8 * d + 4 + 16 * i) \div 16
<1>1. i \in Nat /\ i <= (o - 1) \div 16
  OBVIOUS
<1>2. 16 * i <= o - 1
  BY <1>1
<1>3. 2 * i <= z - 2
  BY <1>1, <1>2
<1>4. CASE c < d
  <2>1. c + 2 <= d
    BY <1>4
  <2>2. 8 * c + 4 + 16 <= 8 * d + 4 + 16 * i
    BY <1>1, <2>1
  <2> QED BY <1>1, <2>2
<1>5. CASE d < c
  <2>1. d + 2 * i + 2 <= c
    BY <1>1, <1>3, <1>5
  <2>2. 8 * d + 4 + 16 * i + 16 <= 8 * c + 4
    BY <1>1, <2>1
  <2> QED BY <1>1, <2>2
<1> QED BY <1>4, <1>5

(* Bits and blocks. *)
LEMMA BitmapHolds == HeapInv => BitmapIsExact
<1> SUFFICES ASSUME HeapInv PROVE BitmapIsExact
  OBVIOUS
<1>1. bitmap = {bitOf(getPayload(c)) : c \in DOMAIN owned}
  BY HeapInvIs DEF Owned
<1>2. ASSUME NEW c \in DOMAIN owned, NEW d \in DOMAIN owned, c # d,
             NEW i \in 0 .. (owned[d] - 1) \div 16
      PROVE  bitOf(getPayload(c)) # bitOf(getPayload(d) + 16 * i)
  <2>1. /\ c \in Nat /\ hdr[c].size \in Nat /\ hdr[c].size >= 2 /\ d \in DOMAIN hdr
        /\ (c < d => c + hdr[c].size <= d) /\ (d < c => d + hdr[d].size <= c)
    BY OwnedChunk
  <2>2. d \in Nat /\ hdr[d].size \in Nat /\ hdr[d].size >= 2 /\ owned[d] \in Nat /\ owned[d] + 8 <= 8 * hdr[d].size
    BY OwnedChunk
  <2>3. (8 * c + 4) \div 16 # (8 * d + 4 + 16 * i) \div 16
    BY ONLY <1>2, <2>1, <2>2, StridesApart
  <2>4. 8 * c + 4 \in Nat /\ 8 * d + 4 + 16 * i \in Nat
    <3>1. i \in Nat
      BY <2>2
    <3> QED BY <2>1, <2>2, <3>1
  <2>5. bitOf(8 * c + 4) # bitOf(8 * d + 4 + 16 * i)
    BY ONLY <2>3, <2>4, BitIs, Zenon
  <2> QED BY <2>5 DEF getPayload
<1>3. ASSUME NEW c \in DOMAIN owned, NEW d \in DOMAIN owned, c # d
      PROVE  bitOf(getPayload(c)) # bitOf(getPayload(d))
  <2>1. /\ c \in Nat /\ hdr[c].size \in Nat /\ hdr[c].size >= 2 /\ d \in DOMAIN hdr
        /\ (c < d => c + hdr[c].size <= d) /\ (d < c => d + hdr[d].size <= c)
    BY OwnedChunk
  <2>2. d \in Nat /\ hdr[d].size \in Nat /\ hdr[d].size >= 2
    BY OwnedChunk
  <2>3. c + 2 <= d \/ d + 2 <= c
    BY <1>3, <2>1, <2>2
  <2>4. 8 * c + 4 \in Nat /\ 8 * d + 4 \in Nat /\ (8 * c + 4) \div 16 # (8 * d + 4) \div 16
    BY ONLY <2>1, <2>2, <2>3
  <2>5. bitOf(8 * c + 4) # bitOf(8 * d + 4)
    BY ONLY <2>4, BitIs, Zenon
  <2> QED BY <2>5 DEF getPayload
<1>4. ASSUME NEW c \in DOMAIN owned, NEW d \in DOMAIN owned, c # d
      PROVE  bitOf(getPayload(c)) \notin strides(d)
  BY <1>2, <1>4 DEF strides
<1> QED BY <1>1, <1>3, <1>4 DEF BitmapIsExact

(* The neighbours that assertChunk looks at are the chunks on either side. *)
LEMMA AcceptedHolds == HeapInv => FreeIsAccepted
<1> SUFFICES ASSUME HeapInv PROVE FreeIsAccepted
  OBVIOUS
<1>1. Tiled(hdr, ftr) /\ HeapUnits \in Nat
  BY HeapInvIs, KmallocAssumption
<1>2. \A d \in DOMAIN hdr : d \in Nat /\ hdr[d].size \in Nat
  BY <1>1 DEF Tiled, TagType, Chunks, MinUnits
<1>3. \A d \in DOMAIN hdr : hdr[d].free \/ bitOf(getPayload(d)) \in bitmap
  BY HeapInvIs DEF Owned, FreeOf
<1>4. ASSUME NEW d \in DOMAIN hdr PROVE assertNeighbour(d, hdr[d])
  <2>1. getFooter(d) \in DOMAIN ftr /\ ftr[getFooter(d)] = hdr[d]
    BY <1>1 DEF Tiled, getFooter, getSize
  <2> QED BY <1>3, <2>1 DEF assertNeighbour, getSize
<1>5. ASSUME NEW c \in DOMAIN owned PROVE assertChunk(c)
  <2>1. c \in DOMAIN hdr
    BY OwnedChunk
  <2>2. ASSUME c # 0 PROVE c - 1 \in DOMAIN ftr /\ assertNeighbour(getPred(c), getTagPred(c))
    <3>1. c - 1 \in DOMAIN ftr
      BY <1>1, <2>1, <2>2 DEF Tiled
    <3>2. PICK d \in DOMAIN hdr : c - 1 = d + hdr[d].size - 1
      BY <1>1, <3>1 DEF Tiled
    <3>3. ftr[c - 1] = hdr[d]
      <4>1. ftr[d + hdr[d].size - 1] = hdr[d]
        BY <1>1 DEF Tiled
      <4> QED BY ONLY <3>2, <4>1
    <3>4. c - hdr[d].size = d
      <4>1. c \in Nat /\ d \in Nat /\ hdr[d].size \in Nat
        BY <1>2, <2>1
      <4> QED BY ONLY <3>2, <4>1
    <3>5. getPred(c) = d /\ getTagPred(c) = hdr[d]
      BY ONLY <3>3, <3>4 DEF getPred, getTagPred
    <3> QED BY <1>4, <3>1, <3>5
  <2>3. ASSUME getSucc(c) # HeapUnits
        PROVE  getSucc(c) \in DOMAIN hdr /\ assertNeighbour(getSucc(c), hdr[getSucc(c)])
    <3>1. getSucc(c) \in DOMAIN hdr
      BY <1>1, <2>1, <2>3 DEF Tiled, getSucc, getSize
    <3> QED BY <1>4, <3>1
  <2> QED BY <2>2, <2>3 DEF assertChunk
<1>6. ASSUME NEW c \in DOMAIN owned
      PROVE  /\ bitOf(getPayload(c)) \in bitmap /\ c \in DOMAIN hdr /\ ~hdr[c].free
             /\ getFooter(c) \in DOMAIN ftr /\ ftr[getFooter(c)] = hdr[c]
  <2>1. c \in DOMAIN hdr /\ ~hdr[c].free
    BY OwnedChunk DEF FreeOf
  <2>2. bitOf(getPayload(c)) \in bitmap
    BY HeapInvIs DEF Owned
  <2>3. getFooter(c) \in DOMAIN ftr /\ ftr[getFooter(c)] = hdr[c]
    BY <1>1, <2>1 DEF Tiled, getFooter, getSize
  <2> QED BY <2>1, <2>2, <2>3
<1> QED BY <1>5, <1>6 DEF FreeIsAccepted

(* allLists: recent, remainder, the dirty lists, the clean lists. *)
LEMMA ListsAre ==
  ASSUME HeapInv
  PROVE  LET l == MaxBins - 1
         IN  /\ l \in Nat /\ l >= 1 /\ Bins = 1..l
             /\ DOMAIN allLists = 1..(2 + l + l)
             /\ allLists[1] = recent /\ allLists[2] = remainder
             /\ \A b \in 1..l : allLists[2 + b] = dirty[b] /\ allLists[2 + l + b] = clean[b]
<1> DEFINE l == MaxBins - 1
           S == Seq(Chunks)
           two == <<recent, remainder>>
           A == two \o dirty
<1>1. l \in Nat /\ l >= 1 /\ Bins = 1..l
  <2>1. getBinIndex(HeapUnits) \in Bins /\ MaxBins \in Nat
    BY KmallocAssumption DEF MinUnits
  <2> QED BY <2>1 DEF Bins
<1>2. /\ dirty \in [1..l -> S] /\ clean \in [1..l -> S] /\ recent \in S /\ remainder \in S
  BY <1>1, TypeHolds DEF TypeOK
<1> HIDE DEF l, S
<1>3. dirty \in Seq(S) /\ Len(dirty) = l /\ clean \in Seq(S) /\ Len(clean) = l
  BY <1>1, <1>2
<1>4. two \in Seq(S) /\ Len(two) = 2 /\ two[1] = recent /\ two[2] = remainder
  BY <1>2
<1> HIDE DEF two
<1>5. /\ A \in Seq(S) /\ Len(A) = 2 + l
      /\ \A j \in 1..(2 + l) : A[j] = IF j <= 2 THEN two[j] ELSE dirty[j - 2]
  <2>1. /\ two \o dirty \in Seq(S) /\ Len(two \o dirty) = Len(two) + Len(dirty)
        /\ \A j \in 1..(Len(two) + Len(dirty)) :
             (two \o dirty)[j] = IF j <= Len(two) THEN two[j] ELSE dirty[j - Len(two)]
    BY ONLY <1>3, <1>4, ConcatIs, Zenon
  <2> QED BY ONLY <1>3, <1>4, <2>1
<1> HIDE DEF A
<1>6. /\ A \o clean \in Seq(S) /\ Len(A \o clean) = (2 + l) + l
      /\ \A j \in 1..((2 + l) + l) : (A \o clean)[j] = IF j <= 2 + l THEN A[j] ELSE clean[j - (2 + l)]
  <2>1. /\ A \o clean \in Seq(S) /\ Len(A \o clean) = Len(A) + Len(clean)
        /\ \A j \in 1..(Len(A) + Len(clean)) :
             (A \o clean)[j] = IF j <= Len(A) THEN A[j] ELSE clean[j - Len(A)]
    BY ONLY <1>3, <1>5, ConcatIs, Zenon
  <2> QED BY ONLY <1>3, <1>5, <2>1
<1>7. allLists = A \o clean
  BY DEF allLists, A, two
<1> DEFINE Q == A \o clean
<1> HIDE DEF Q
<1>8. /\ Q \in Seq(S) /\ Len(Q) = 2 + l + l /\ allLists = Q
      /\ \A j \in 1..(2 + l + l) : Q[j] = IF j <= 2 + l THEN A[j] ELSE clean[j - (2 + l)]
  BY <1>1, <1>6, <1>7 DEF Q
<1>9. DOMAIN Q = 1..(2 + l + l)
  BY <1>8
<1>10. Q[1] = recent /\ Q[2] = remainder
  BY <1>1, <1>4, <1>5, <1>8
<1>11. ASSUME NEW b \in 1..l PROVE Q[2 + b] = dirty[b] /\ Q[2 + l + b] = clean[b]
  <2>1. /\ 2 + b \in 1..(2 + l + l) /\ 2 + b <= 2 + l /\ 2 + b \in 1..(2 + l) /\ ~(2 + b <= 2)
        /\ (2 + b) - 2 = b
    BY <1>1
  <2>2. 2 + l + b \in 1..(2 + l + l) /\ ~(2 + l + b <= 2 + l) /\ (2 + l + b) - (2 + l) = b
    BY <1>1
  <2>3. Q[2 + b] = A[2 + b] /\ A[2 + b] = dirty[(2 + b) - 2]
    BY ONLY <1>5, <1>8, <2>1
  <2>4. Q[2 + l + b] = clean[(2 + l + b) - (2 + l)]
    BY ONLY <1>8, <2>2
  <2> QED BY ONLY <2>1, <2>2, <2>3, <2>4
<1> QED BY <1>1, <1>8, <1>9, <1>10, <1>11 DEF l

(* The dirty lists. *)
LEMMA SortedHolds == HeapInv => \A b \in Bins : /\ IsSorted(dirty[b], LAMBDA x, y : x < y)
                                                /\ \A c \in ToSet(dirty[b]) : getBinIndex(getSize(c)) = b
<1> SUFFICES ASSUME HeapInv, NEW b \in Bins
             PROVE  /\ IsSorted(dirty[b], LAMBDA x, y : x < y)
                    /\ \A c \in ToSet(dirty[b]) : getBinIndex(getSize(c)) = b
  OBVIOUS
<1>1. PICK X : Binned(dirty, hdr, X)
  BY HeapInvIs DEF Fresh, Late
<1>2. IsSorted(dirty[b], LAMBDA x, y : x < y)
  BY <1>1 DEF Binned, IsSorted
<1>3. DOMAIN dirty[b] = 1..Len(dirty[b])
  BY <1>1 DEF Binned
<1>4. \A i \in 1..Len(dirty[b]) : getBinIndex(hdr[dirty[b][i]].size) = b
  BY <1>1 DEF Binned
<1>5. \A c \in ToSet(dirty[b]) : getBinIndex(getSize(c)) = b
  BY ONLY <1>3, <1>4 DEF ToSet, getSize
<1> QED BY ONLY <1>2, <1>5 DEF IsSorted

(* The size of a dirty chunk tells which list it is on, so that no chunk is on two. *)
LEMMA ListedHolds == HeapInv => FreeIsListedOnce
<1> SUFFICES ASSUME HeapInv PROVE FreeIsListedOnce
  OBVIOUS
<1> DEFINE l == MaxBins - 1
           R == ToSet(recent)
           M == ToSet(remainder)
           X == FreeOf(hdr) \ (R \cup M)
           at(x) == 2 + getBinIndex(hdr[x].size)
<1>1. /\ l \in Nat /\ l >= 1 /\ Bins = 1..l /\ DOMAIN allLists = 1..(2 + l + l)
      /\ allLists[1] = recent /\ allLists[2] = remainder
      /\ \A b \in 1..l : allLists[2 + b] = dirty[b] /\ allLists[2 + l + b] = clean[b]
  BY ListsAre
<1> HIDE DEF l
<1>2. ASSUME NEW k \in DOMAIN allLists
      PROVE  \/ k = 1 /\ allLists[k] = recent
             \/ k = 2 /\ allLists[k] = remainder
             \/ \E b \in Bins : k = 2 + b /\ allLists[k] = dirty[b]
             \/ \E b \in Bins : k = 2 + l + b /\ allLists[k] = clean[b]
  <2>1. k \in 1..(2 + l + l)
    BY <1>1
  <2>2. \/ k = 1 \/ k = 2 \/ (k - 2 \in 1..l /\ k = 2 + (k - 2))
        \/ (k - 2 - l \in 1..l /\ k = 2 + l + (k - 2 - l))
    <3>1. l \in Nat
      BY <1>1
    <3> QED BY ONLY <2>1, <3>1
  <2>3. ASSUME NEW b \in 1..l, k = 2 + b
        PROVE  b \in Bins /\ k = 2 + b /\ allLists[k] = dirty[b]
    BY ONLY <1>1, <2>3
  <2>4. ASSUME NEW b \in 1..l, k = 2 + l + b
        PROVE  b \in Bins /\ k = 2 + l + b /\ allLists[k] = clean[b]
    BY ONLY <1>1, <2>4
  <2>5. allLists[1] = recent /\ allLists[2] = remainder
    BY <1>1
  <2> QED BY ONLY <2>2, <2>3, <2>4, <2>5
<1>3. /\ recent \in Seq(Chunks) /\ remainder \in Seq(Chunks) /\ R \cap M = {}
      /\ Distinct(recent) /\ Len(remainder) <= 1
  BY HeapInvIs
<1>4. CASE Fresh
  <2>1. /\ recent = <<>> /\ remainder = <<>> /\ \A b \in Bins : dirty[b] = <<>>
        /\ \A b \in Bins : clean[b] = IF b = l THEN <<0>> ELSE <<>>
    BY <1>4, FreshIs DEF Fresh, CleanHeap, l
  <2>2. ASSUME NEW k \in DOMAIN allLists, allLists[k] # <<>> PROVE k = 2 + l + l /\ allLists[k] = <<0>>
    BY <1>2, <2>1, <2>2
  <2>3. 2 + l + l \in DOMAIN allLists /\ allLists[2 + l + l] = <<0>>
    <3>1. l \in 1..l /\ 2 + l + l \in 1..(2 + l + l) /\ l \in Bins
      BY <1>1
    <3> QED BY <1>1, <2>1, <3>1
  <2>4. \A c \in DOMAIN hdr : hdr[c].free <=> \E k \in DOMAIN allLists : Contains(allLists[k], c)
    <3>1. Contains(<<0>>, 0)
      BY DEF Contains
    <3>2. DOMAIN hdr = {0} /\ hdr[0].free
      BY <1>4 DEF Fresh
    <3> QED BY <2>3, <3>1, <3>2
  <2>5. ASSUME NEW k \in DOMAIN allLists, NEW m \in DOMAIN allLists,
               NEW i \in DOMAIN allLists[k], NEW j \in DOMAIN allLists[m]
        PROVE  k = m /\ i = j
    <3>1. DOMAIN <<>> = {} /\ DOMAIN <<0>> = {1}
      OBVIOUS
    <3>2. allLists[k] # <<>> /\ allLists[m] # <<>>
      BY <3>1
    <3>3. k = 2 + l + l /\ allLists[k] = <<0>> /\ m = 2 + l + l /\ allLists[m] = <<0>>
      BY <2>2, <3>2
    <3> QED BY ONLY <2>5, <3>1, <3>3
  <2> QED BY <2>4, <2>5, SortedHolds DEF FreeIsListedOnce
<1>5. CASE Late
  <2>1. Binned(dirty, hdr, X) /\ R \cup M \subseteq FreeOf(hdr) /\ \A b \in Bins : clean[b] = <<>>
    BY <1>5 DEF Late, NoChunks
  <2>2. DOMAIN recent = 1..Len(recent) /\ DOMAIN remainder = 1..Len(remainder)
        /\ \A b \in Bins : DOMAIN dirty[b] = 1..Len(dirty[b])
    BY <1>3, <2>1 DEF Binned
  <2>3. ASSUME NEW k \in DOMAIN allLists, NEW i \in DOMAIN allLists[k]
        PROVE  LET x == allLists[k][i]
               IN  \/ k = 1 /\ x \in R
                   \/ k = 2 /\ x \in M
                   \/ k = at(x) /\ x \in X /\ k - 2 \in Bins
    <3>1. DOMAIN <<>> = {}
      OBVIOUS
    <3>2. CASE k = 1 /\ allLists[k] = recent
      BY <2>3, <3>2 DEF ToSet
    <3>3. CASE k = 2 /\ allLists[k] = remainder
      BY <2>3, <3>3 DEF ToSet
    <3>4. ASSUME NEW b \in Bins, k = 2 + b, allLists[k] = dirty[b]
          PROVE  k = at(allLists[k][i]) /\ allLists[k][i] \in X /\ k - 2 \in Bins
      <4>1. i \in 1..Len(dirty[b])
        BY <2>2, <2>3, <3>4
      <4>2. dirty[b][i] \in X /\ getBinIndex(hdr[dirty[b][i]].size) = b
        BY <2>1, <4>1 DEF Binned
      <4>3. k - 2 = b
        BY <1>1, <3>4
      <4> HIDE DEF X
      <4> QED BY <3>4, <4>2, <4>3
    <3>5. ASSUME NEW b \in Bins, allLists[k] = clean[b] PROVE FALSE
      BY <2>1, <2>3, <3>1, <3>5
    <3> HIDE DEF X, at, R, M
    <3> QED BY <1>2, <3>2, <3>3, <3>4, <3>5
  <2>4. \A c \in DOMAIN hdr : hdr[c].free <=> \E k \in DOMAIN allLists : Contains(allLists[k], c)
    <3> SUFFICES ASSUME NEW c \in DOMAIN hdr
                 PROVE  c \in FreeOf(hdr) <=> \E k \in DOMAIN allLists : Contains(allLists[k], c)
      BY DEF FreeOf
    <3>1. ASSUME NEW k \in DOMAIN allLists, Contains(allLists[k], c) PROVE c \in FreeOf(hdr)
      <4>1. DOMAIN allLists[k] = 1..Len(allLists[k])
        <5>1. allLists[k] \in Seq(Chunks)
          <6>1. \A b \in Bins : dirty[b] \in Seq(Chunks) /\ clean[b] \in Seq(Chunks)
            BY TypeHolds DEF TypeOK
          <6> QED BY <1>2, <1>3, <6>1
        <5> QED BY <5>1
      <4>2. PICK i \in DOMAIN allLists[k] : allLists[k][i] = c
        BY <3>1, <4>1 DEF Contains
      <4> QED BY <2>1, <2>3, <4>2
    <3>2. ASSUME c \in R PROVE \E k \in DOMAIN allLists : Contains(allLists[k], c)
      <4>1. Contains(recent, c)
        BY <2>2, <3>2 DEF Contains, ToSet
      <4>2. 1 \in DOMAIN allLists
        BY <1>1
      <4> QED BY <1>1, <4>1, <4>2
    <3>3. ASSUME c \in M PROVE \E k \in DOMAIN allLists : Contains(allLists[k], c)
      <4>1. Contains(remainder, c)
        BY <2>2, <3>3 DEF Contains, ToSet
      <4>2. 2 \in DOMAIN allLists
        BY <1>1
      <4> QED BY <1>1, <4>1, <4>2
    <3>4. ASSUME c \in X PROVE \E k \in DOMAIN allLists : Contains(allLists[k], c)
      <4> DEFINE b == getBinIndex(hdr[c].size)
      <4>1. b \in Bins /\ Contains(dirty[b], c)
        BY <2>1, <3>4 DEF Binned, Contains
      <4> HIDE DEF b
      <4>2. 2 + b \in DOMAIN allLists /\ allLists[2 + b] = dirty[b]
        BY <1>1, <4>1
      <4> QED BY <4>1, <4>2
    <3> QED BY <3>1, <3>2, <3>3, <3>4
  <2>5. ASSUME NEW k \in DOMAIN allLists, NEW m \in DOMAIN allLists,
               NEW i \in DOMAIN allLists[k], NEW j \in DOMAIN allLists[m],
               allLists[k][i] = allLists[m][j]
        PROVE  k = m /\ i = j
    <3> DEFINE x == allLists[k][i]
    <3>1. (k = 1 /\ x \in R) \/ (k = 2 /\ x \in M) \/ (k = at(x) /\ x \in X /\ k - 2 \in Bins)
      BY <2>3
    <3>2. (m = 1 /\ x \in R) \/ (m = 2 /\ x \in M) \/ (m = at(x) /\ x \in X)
      BY <2>3, <2>5
    <3>3. k = m
      <4> HIDE DEF x, at
      <4> QED BY <1>3, <3>1, <3>2
    <3>4. CASE k = 1
      <4>1. allLists[k] = recent /\ allLists[m] = recent
        BY <1>1, <3>3, <3>4
      <4>2. i \in 1..Len(recent) /\ j \in 1..Len(recent) /\ recent[i] = recent[j]
        BY <2>2, <2>5, <4>1
      <4> QED BY <1>3, <3>3, <4>2 DEF Distinct
    <3>5. CASE k = 2
      <4>1. allLists[k] = remainder /\ allLists[m] = remainder
        BY <1>1, <3>3, <3>5
      <4>2. i \in 1..Len(remainder) /\ j \in 1..Len(remainder) /\ Len(remainder) \in Nat
        BY <1>3, <2>2, <2>5, <4>1
      <4>3. i = j
        BY <1>3, <4>2
      <4> QED BY <3>3, <4>3
    <3>6. CASE k - 2 \in Bins
      <4> DEFINE b == k - 2
      <4>1. b \in Bins /\ k = 2 + b
        BY <1>1, <3>6
      <4> HIDE DEF b
      <4>2. allLists[k] = dirty[b] /\ allLists[m] = dirty[b]
        BY <1>1, <3>3, <4>1
      <4>3. i \in 1..Len(dirty[b]) /\ j \in 1..Len(dirty[b]) /\ dirty[b][i] = dirty[b][j]
        BY <2>2, <2>5, <4>1, <4>2
      <4>4. i < j => dirty[b][i] < dirty[b][j]
        BY <2>1, <4>1, <4>3 DEF Binned
      <4>5. j < i => dirty[b][j] < dirty[b][i]
        BY <2>1, <4>1, <4>3 DEF Binned
      <4>6. dirty[b][i] \in Nat /\ i \in Nat /\ j \in Nat
        <5>1. dirty[b] \in Seq(Chunks) /\ HeapUnits \in Nat
          BY <2>1, <4>1, KmallocAssumption DEF Binned
        <5>2. dirty[b][i] \in Chunks
          BY <4>3, <5>1
        <5> QED BY <4>3, <5>1, <5>2 DEF Chunks
      <4>7. i = j
        BY <4>3, <4>4, <4>5, <4>6
      <4> QED BY <3>3, <4>7
    <3> QED BY <3>1, <3>4, <3>5, <3>6
  <2> QED BY <2>4, <2>5, SortedHolds DEF FreeIsListedOnce
<1> QED BY <1>4, <1>5, HeapInvIs

-----------------------------------------------------------------------------
(***************************************************************************)
(* The refinement of Heap.                                                 *)
(***************************************************************************)
(* The blocks of the abstract heap: the bytes asked for, at each payload. *)
BlocksOf(o) == [a \in {getPayload(c) : c \in DOMAIN o} |-> o[BlockAt(a)]]
(* The refinement mapping. *)
Blocks == BlocksOf(owned)

(* The owners' blocks lie in the heap and do not overlap. *)
BlocksApart ==
  /\ \A c \in DOMAIN owned : /\ c \in Nat /\ owned[c] \in Requests /\ owned[c] \in Nat
                             /\ 8 * c + 8 + owned[c] <= 8 * HeapUnits
  /\ \A c, d \in DOMAIN owned : c < d => 8 * c + 4 + owned[c] <= 8 * d
  /\ allocPM = Cardinality(DOMAIN owned) /\ allocPM \in Nat /\ HeapUnits \in Nat

(* This follows from the tiling. *)
LEMMA ApartHolds == HeapInv => BlocksApart
<1> SUFFICES ASSUME HeapInv PROVE BlocksApart
  OBVIOUS
<1>1. ASSUME NEW c \in DOMAIN owned
      PROVE  /\ c \in Nat /\ owned[c] \in Requests /\ owned[c] \in Nat
             /\ 8 * c + 8 + owned[c] <= 8 * HeapUnits
  <2> DEFINE o == owned[c]
             z == hdr[c].size
  <2>1. /\ c \in Nat /\ o \in Requests /\ o \in Nat /\ z \in Nat /\ o + 8 <= 8 * z
        /\ c + z <= HeapUnits /\ HeapUnits \in Nat
    BY OwnedChunk
  <2> HIDE DEF o, z
  <2>2. 8 * c + 8 + o <= 8 * HeapUnits
    BY ONLY <2>1
  <2> QED BY <2>1, <2>2 DEF o
<1>2. ASSUME NEW c \in DOMAIN owned, NEW d \in DOMAIN owned, c < d
      PROVE  8 * c + 4 + owned[c] <= 8 * d
  <2> DEFINE o == owned[c]
             z == hdr[c].size
  <2>1. c \in Nat /\ o \in Nat /\ z \in Nat /\ o + 8 <= 8 * z /\ d \in Nat /\ c + z <= d
    BY <1>2, OwnedChunk
  <2> HIDE DEF o, z
  <2>2. 8 * c + 4 + o <= 8 * d
    BY ONLY <2>1
  <2> QED BY <2>2 DEF o
<1>3. allocPM = Cardinality(DOMAIN owned) /\ allocPM \in Nat /\ HeapUnits \in Nat
  BY HeapInvIs, KmallocAssumption DEF Owned
<1> QED BY <1>1, <1>2, <1>3 DEF BlocksApart

(* The owners' blocks change as the abstract heap does. *)
LEMMA OwnersChange ==
  ASSUME Next
  PROVE  \/ owned' = owned
         \/ \E bytes \in Requests : \E c :
              /\ owned' = [d \in DOMAIN owned \cup {c} |-> IF d = c THEN bytes ELSE owned[d]]
              /\ allocPM' = allocPM + 1
         \/ \E c \in DOMAIN owned : owned' = [d \in DOMAIN owned \ {c} |-> owned[d]]
<1> DEFINE Given(bytes) == \E c :
             /\ owned' = [d \in DOMAIN owned \cup {c} |-> IF d = c THEN bytes ELSE owned[d]]
             /\ allocPM' = allocPM + 1
<1>1. \A c, bytes, H, F : give(c, bytes, H, F) => Given(bytes)
  BY DEF give
<1> HIDE DEF Given
<1>2. \A c, n, bytes, k, o : split(c, n, bytes, k, o) => Given(bytes)
  BY <1>1 DEF split
<1>3. ASSUME NEW bytes \in Requests, kmalloc(bytes) PROVE owned' = owned \/ Given(bytes)
  <2> DEFINE n == chunkUnits(bytes)
  <2>1. CASE takeLastFreed(n, bytes) \/ takeDirty(n, bytes) \/ takeRecent(n, bytes)
    BY <1>1, <2>1 DEF takeLastFreed, takeDirty, takeRecent
  <2>2. CASE takeRemainder(n, bytes) \/ takeClean(n, bytes)
    BY <1>2, <2>2 DEF takeRemainder, takeClean
  <2>3. CASE fail(n)
    BY <2>3 DEF fail
  <2> QED BY <1>3, <2>1, <2>2, <2>3 DEF kmalloc
<1>4. ASSUME NEW c \in DOMAIN owned, kfree(c) PROVE owned' = [d \in DOMAIN owned \ {c} |-> owned[d]]
  BY <1>4 DEF kfree
<1> QED BY <1>3, <1>4 DEF Next, Given

(* The address of a block tells its chunk. *)
LEMMA BlocksAre ==
  ASSUME NEW o, \A c \in DOMAIN o : c \in Nat
  PROVE  /\ DOMAIN BlocksOf(o) = {getPayload(c) : c \in DOMAIN o}
         /\ \A c \in DOMAIN o : BlocksOf(o)[getPayload(c)] = o[c]
         /\ \A c, d \in DOMAIN o : getPayload(c) = getPayload(d) => c = d
<1>1. \A c \in DOMAIN o : BlockAt(getPayload(c)) = c
  BY DEF BlockAt, getPayload
<1>2. \A c, d \in DOMAIN o : getPayload(c) = getPayload(d) => c = d
  BY DEF getPayload
<1> QED BY <1>1, <1>2 DEF BlocksOf

(* No blocks at first. *)
LEMMA InitBlocks == Init => Abstract!Init
<1> SUFFICES ASSUME Init PROVE Blocks = <<>>
  BY DEF Abstract!Init, Blocks, BlocksOf
<1>1. DOMAIN owned = {}
  BY DEF Init
<1>2. Blocks = [a \in {} |-> owned[BlockAt(a)]]
  BY <1>1 DEF Blocks, BlocksOf
<1> QED BY <1>2

(* A chunk given to a caller is an alloc of Heap. *)
LEMMA AllocIs ==
  ASSUME BlocksApart, BlocksApart', NEW bytes \in Requests, NEW c,
         owned' = [d \in DOMAIN owned \cup {c} |-> IF d = c THEN bytes ELSE owned[d]],
         allocPM' = allocPM + 1
  PROVE  \E a \in 0 .. 8 * HeapUnits - 1 : Abstract!alloc(a, bytes)
<1> DEFINE a == 8 * c + 4
           B == Blocks
<1>1. DOMAIN owned' = DOMAIN owned \cup {c} /\ owned'[c] = bytes
  OBVIOUS
<1>2. c \notin DOMAIN owned
  <2> SUFFICES ASSUME c \in DOMAIN owned PROVE FALSE
    OBVIOUS
  <2>1. DOMAIN owned' = DOMAIN owned
    BY <1>1
  <2>2. allocPM' = Cardinality(DOMAIN owned') /\ allocPM = Cardinality(DOMAIN owned) /\ allocPM \in Nat
    BY DEF BlocksApart
  <2> QED BY <2>1, <2>2
<1>3. \A d \in DOMAIN owned : owned'[d] = owned[d] /\ d # c /\ d \in DOMAIN owned'
  BY <1>2
<1>4. c \in Nat /\ bytes \in Nat /\ 8 * c + 8 + bytes <= 8 * HeapUnits /\ HeapUnits \in Nat
  BY <1>1 DEF BlocksApart
<1>5. \A d \in DOMAIN owned : d \in Nat /\ owned[d] \in Nat
  BY DEF BlocksApart
<1>6. \A d \in DOMAIN owned : (c < d => 8 * c + 4 + bytes <= 8 * d)
                              /\ (d < c => 8 * d + 4 + owned[d] <= 8 * c)
  BY <1>1, <1>3 DEF BlocksApart
<1>7. a % 8 = 4 /\ a \in 0 .. 8 * HeapUnits - 1
  BY <1>4
<1>8. Abstract!extent(a, bytes) \subseteq 0 .. 8 * HeapUnits - 1
  BY <1>4 DEF Abstract!extent
<1>9. /\ DOMAIN B = {getPayload(d) : d \in DOMAIN owned}
      /\ \A d \in DOMAIN owned : B[getPayload(d)] = owned[d]
  BY <1>5, BlocksAre DEF Blocks
<1>10. a \notin DOMAIN B
  BY <1>3, <1>4, <1>5, <1>9 DEF getPayload
<1>11. \A b \in DOMAIN B : Abstract!extent(a, bytes) \cap Abstract!extent(b, B[b]) = {}
  <2> SUFFICES ASSUME NEW b \in DOMAIN B,
                      NEW x, x \in Abstract!extent(a, bytes), x \in Abstract!extent(b, B[b])
               PROVE  FALSE
    OBVIOUS
  <2>1. PICK d \in DOMAIN owned : b = getPayload(d)
    BY <1>9
  <2> DEFINE o == owned[d]
  <2>2. /\ d \in Nat /\ o \in Nat /\ d # c
        /\ (c < d => 8 * c + 4 + bytes <= 8 * d) /\ (d < c => 8 * d + 4 + o <= 8 * c)
    BY <1>3, <1>5, <1>6
  <2>3. b = 8 * d + 4 /\ B[b] = o
    BY <1>9, <2>1 DEF getPayload
  <2> HIDE DEF o, B
  <2>4. x \in a .. a + bytes - 1 /\ x \in (8 * d + 4) .. (8 * d + 4) + o - 1
    BY <2>3 DEF Abstract!extent
  <2> QED BY ONLY <1>4, <2>2, <2>4
<1>12. B' = [b \in DOMAIN B \cup {a} |-> IF b = a THEN bytes ELSE B[b]]
  <2>1. \A d \in DOMAIN owned' : d \in Nat
    BY <1>1, <1>4, <1>5
  <2>2. /\ DOMAIN B' = {getPayload(d) : d \in DOMAIN owned'}
        /\ \A d \in DOMAIN owned' : B'[getPayload(d)] = owned'[d]
    BY <2>1, BlocksAre DEF Blocks
  <2>3. getPayload(c) = a
    BY DEF getPayload
  <2>4. DOMAIN B' = DOMAIN B \cup {a}
    BY <1>1, <1>9, <2>2, <2>3
  <2>5. B'[a] = bytes
    BY <1>1, <2>2, <2>3
  <2>6. ASSUME NEW b \in DOMAIN B PROVE b # a /\ B'[b] = B[b]
    <3>1. PICK d \in DOMAIN owned : b = getPayload(d)
      BY <1>9
    <3>2. d \in DOMAIN owned' /\ owned'[d] = owned[d]
      BY <1>3
    <3>3. B'[b] = owned'[d] /\ B[b] = owned[d]
      BY ONLY <1>9, <2>2, <3>1, <3>2
    <3> QED BY <1>10, <2>6, <3>2, <3>3
  <2>7. B' = [b \in DOMAIN B' |-> B'[b]]
    BY DEF Blocks, BlocksOf
  <2> HIDE DEF B, a
  <2> QED BY <2>4, <2>5, <2>6, <2>7
<1>13. Abstract!alloc(a, bytes)
  BY <1>7, <1>8, <1>10, <1>11, <1>12 DEF Abstract!alloc, Blocks, BlocksOf
<1> QED BY <1>7, <1>13

(* kfree is a free of Heap. *)
LEMMA FreeIs ==
  ASSUME BlocksApart, NEW c \in DOMAIN owned, owned' = [d \in DOMAIN owned \ {c} |-> owned[d]]
  PROVE  \E a \in DOMAIN Blocks : Abstract!free(a)
<1> DEFINE a == getPayload(c)
           B == Blocks
<1>1. \A d \in DOMAIN owned : d \in Nat
  BY DEF BlocksApart
<1>2. /\ DOMAIN B = {getPayload(d) : d \in DOMAIN owned}
      /\ \A d \in DOMAIN owned : B[getPayload(d)] = owned[d]
      /\ \A d \in DOMAIN owned : getPayload(d) = a => d = c
  BY <1>1, BlocksAre DEF Blocks
<1>3. DOMAIN owned' = DOMAIN owned \ {c} /\ \A d \in DOMAIN owned' : owned'[d] = owned[d] /\ d \in Nat
  BY <1>1
<1>4. /\ DOMAIN B' = {getPayload(d) : d \in DOMAIN owned'}
      /\ \A d \in DOMAIN owned' : B'[getPayload(d)] = owned'[d]
  BY <1>3, BlocksAre DEF Blocks
<1>5. DOMAIN B' = DOMAIN B \ {a}
  BY <1>2, <1>3, <1>4
<1>6. \A b \in DOMAIN B' : B'[b] = B[b]
  BY <1>2, <1>3, <1>4
<1>7. B' = [b \in DOMAIN B' |-> B'[b]]
  BY DEF Blocks, BlocksOf
<1>8. a \in DOMAIN B
  BY <1>2
<1>9. B' = [b \in DOMAIN B \ {a} |-> B[b]]
  <2> HIDE DEF B, a
  <2> QED BY <1>5, <1>6, <1>7
<1>10. Abstract!free(a)
  BY <1>8, <1>9 DEF Abstract!free, Blocks, BlocksOf
<1> QED BY <1>8, <1>10

(* A step of the allocator is a step of Heap or leaves its blocks alone. *)
LEMMA NextBlocks == BlocksApart /\ BlocksApart' /\ [Next]_vars => [Abstract!Next]_Blocks
<1> SUFFICES ASSUME BlocksApart, BlocksApart', [Next]_vars PROVE [Abstract!Next]_Blocks
  OBVIOUS
<1>1. CASE owned' = owned
  BY <1>1 DEF Blocks, BlocksOf
<1>2. ASSUME NEW bytes \in Requests, NEW c,
             owned' = [d \in DOMAIN owned \cup {c} |-> IF d = c THEN bytes ELSE owned[d]],
             allocPM' = allocPM + 1
      PROVE  Abstract!Next
  <2>1. PICK a \in 0 .. 8 * HeapUnits - 1 : Abstract!alloc(a, bytes)
    BY <1>2, AllocIs
  <2> QED BY <2>1 DEF Abstract!Next
<1>3. ASSUME NEW c \in DOMAIN owned, owned' = [d \in DOMAIN owned \ {c} |-> owned[d]]
      PROVE  Abstract!Next
  <2>1. PICK a \in DOMAIN Blocks : Abstract!free(a)
    BY <1>3, FreeIs
  <2> QED BY <2>1 DEF Abstract!Next, Blocks, BlocksOf
<1>4. CASE UNCHANGED vars
  BY <1>1, <1>4 DEF vars
<1> QED BY <1>1, <1>2, <1>3, <1>4, OwnersChange

-----------------------------------------------------------------------------
(* Whatever the sizes of the heap and of the bins and whatever is asked for, a
   split, an exact fit or a kfree leaves chunks that tile the heap, free chunks
   on exactly one list, exact counters and payloads without a tag. *)
THEOREM HeapStaysSound == Spec => []HeapIsSound
<1>1. HeapInv => HeapIsSound
  BY TypeHolds, TilingHolds, ListedHolds, CountersHold, PayloadsHold DEF HeapIsSound
<1> QED BY <1>1, HeapInvHolds, PTL

(* No check of __kfree and no assert of assertChunk fails for a block that its
   owner frees once. *)
THEOREM FreeStaysAccepted == Spec => []FreeIsAccepted
  BY AcceptedHolds, HeapInvHolds, PTL

(* The bitmap has the bits of the blocks and no others, and the 16-byte strides
   that __kmalloc checks meet no other block's bit. *)
THEOREM BitmapStaysExact == Spec => []BitmapIsExact
  BY BitmapHolds, HeapInvHolds, PTL

(* binChunk's assert that there is no remainder when a split leaves one. *)
THEOREM SplitNeverFindsRemainder == Spec => []SplitFindsNoRemainder
  BY SplitHolds, HeapInvHolds, PTL

(* kmalloc and kfree implement Heap: what kmalloc returns is aligned, inside the
   heap and overlaps no block that is in use. *)
THEOREM KmallocImplementsHeap == Spec => ImplementsHeap
<1>1. Spec => []BlocksApart
  BY ApartHolds, HeapInvHolds, PTL
<1>2. BlocksApart /\ BlocksApart' /\ [Next]_vars
        => [Abstract!Next]_([a \in {getPayload(c) : c \in DOMAIN owned} |-> owned[BlockAt(a)]])
  BY NextBlocks DEF Blocks, BlocksOf
<1> QED BY <1>1, <1>2, InitBlocks, PTL DEF Spec, ImplementsHeap, Abstract!Spec
=============================================================================
