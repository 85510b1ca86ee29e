------------------------------ MODULE StaticNS ------------------------------
(***************************************************************************)
(* Static namespaces: a device's tree of nodes kept as a table in breadth  *)
(* first order, the moves getNodeInfoStaticNS makes in it, the walk of a   *)
(* path and the reading of a directory.                                    *)
(*                                                                         *)
(* A table is a function from 0..n to entries, n being the index of the    *)
(* sentinel.  A move returns the index it lands on, or one of two numbers  *)
(* that are no index.                                                      *)
(***************************************************************************)
EXTENDS Integers, Sequences, SequencesExt, FiniteSetsExt

ENOENT  == -1    \* getNodeInfoStaticNS returned NULL
PastEnd == -2    \* it read entries that are not part of the table

-----------------------------------------------------------------------------
(***************************************************************************)
(* Crumbs.  The fid of a node packs its parent's index and its own.        *)
(***************************************************************************)
ParentIdxs == 16 * 256     \* 0xfff + 1
SelfIdxs   == 256 * 256    \* 0xffff + 1

STATICNS_SENTINEL == SelfIdxs - 1

MKSTATICNS_FID(parent, self) == (parent % ParentIdxs) * SelfIdxs + (self % SelfIdxs)

MKSTATICNS_CRUMB(parent, self, flags) ==
  [flags |-> flags \cup {"ISSTATIC"}, fid |-> MKSTATICNS_FID(parent, self)]

MKSTATICNS_SENTINEL_CRUMB ==
  MKSTATICNS_CRUMB(STATICNS_SENTINEL, STATICNS_SENTINEL, {})

STATICNS_CRUMB_ISSENTINEL(c) == "ISSTATIC" \in c.flags /\ c.fid = STATICNS_SENTINEL

STATICNS_CRUMB_PARENT_IDX(c) == (c.fid \div SelfIdxs) % SelfIdxs
STATICNS_CRUMB_SELF_IDX(c)   == c.fid % SelfIdxs

ISDIR(c)   == "ISDIR" \in c.flags
ISMOUNT(c) == "ISMOUNT" \in c.flags

(* An entry of a table, and the table of a sequence of entries with the
   sentinel added. *)
NoName     == ""
NoContents == ""

Entry(name, crumb, length, contents) ==
  [name |-> name, crumb |-> crumb, length |-> length, contents |-> contents]

StaticTable(entries) ==
  [i \in 0..Len(entries) |->
     IF i < Len(entries) THEN entries[i + 1]
                         ELSE Entry(NoName, MKSTATICNS_SENTINEL_CRUMB, 0, NoContents)]
-----------------------------------------------------------------------------
(***************************************************************************)
(* getNodeInfoStaticNS(), one operator per direction.                      *)
(***************************************************************************)
WalkSelf(ns, c) == STATICNS_CRUMB_SELF_IDX(c)

WalkUp(ns, c) ==
  IF STATICNS_CRUMB_SELF_IDX(c) # 0 THEN STATICNS_CRUMB_PARENT_IDX(c)
                                    ELSE STATICNS_CRUMB_SELF_IDX(c)

(* The scan for the first child stops at an entry whose parent is self or
   at what it takes for the sentinel, and has no other end. *)
WalkDown(ns, c) ==
  LET self  == STATICNS_CRUMB_SELF_IDX(c)
      child == {i \in DOMAIN ns : STATICNS_CRUMB_PARENT_IDX(ns[i].crumb) = self}
      stops == {i \in DOMAIN ns : i >= self /\ (i \in child \/ STATICNS_CRUMB_ISSENTINEL(ns[i].crumb))}
  IN  IF ~ISDIR(c) THEN ENOENT
      ELSE IF stops = {} THEN PastEnd
      ELSE IF Min(stops) \in child THEN Min(stops) ELSE ENOENT

WalkTo(ns, c, i) ==
  IF i \notin DOMAIN ns THEN PastEnd
  ELSE IF STATICNS_CRUMB_PARENT_IDX(c) # STATICNS_CRUMB_PARENT_IDX(ns[i].crumb) THEN ENOENT
  ELSE i

WalkPrev(ns, c) == WalkTo(ns, c, STATICNS_CRUMB_SELF_IDX(c) - 1)

WalkNextMutant(ns, c) ==                \* no test of the parent
  LET i == STATICNS_CRUMB_SELF_IDX(c) + 1 IN IF i \in DOMAIN ns THEN i ELSE PastEnd
WalkNext(ns, c) == WalkTo(ns, c, STATICNS_CRUMB_SELF_IDX(c) + 1)
-----------------------------------------------------------------------------
(***************************************************************************)
(* genericWalk().                                                          *)
(***************************************************************************)

(* The indices WalkDown and then WalkNext visit, in order. *)
siblingsFrom(ns, first) ==
  LET reached == {k \in first..Max(DOMAIN ns) :
                    \A m \in first..(k - 1) : WalkNext(ns, ns[m].crumb) = m + 1}
  IN  [k \in 1..Cardinality(reached) |-> first + k - 1]

(* The search of a directory for a name: the first sibling that has it. *)
searchFrom(ns, first, name) ==
  LET hits == {k \in DOMAIN siblingsFrom(ns, first) : ns[first + k - 1].name = name}
  IN  IF first < 0 THEN first
      ELSE IF hits = {} THEN ENOENT ELSE first + Min(hits) - 1

search(ns, c, name) == searchFrom(ns, WalkDown(ns, c), name)

stepTo(ns, c, name) ==
  CASE name = "."  -> WalkSelf(ns, c)
    [] name = ".." -> WalkUp(ns, c)
    [] OTHER       -> search(ns, c, name)

(* A WalkTrail, its stack of crumbs bottom first. *)
emptyWalkTrail(n) == [max |-> n, crumbs |-> <<>>]

pushCrumb(t, c) ==
  IF Len(t.crumbs) >= t.max THEN t ELSE [t EXCEPT !.crumbs = Append(@, c)]

topCrumb(t, c) == IF t.crumbs = <<>> THEN c ELSE Last(t.crumbs)

(* One turn of the loop: w holds the portal's crumb, the trail, and what
   ended the walk before its path did. *)
landOn(ns, w, i) ==
  CASE i = PastEnd -> [w EXCEPT !.end = "PastEnd"]
    [] i = ENOENT  -> [w EXCEPT !.end = "ENOENT"]
    [] OTHER       -> [w EXCEPT !.crumb = ns[i].crumb, !.trail = pushCrumb(@, ns[i].crumb)]

walkOne(ns, w, name) ==
  IF w.end # "walking" THEN w
  ELSE IF ~ISDIR(w.crumb) THEN [w EXCEPT !.end = "ENOTDIR"]
  ELSE landOn(ns, w, stepTo(ns, w.crumb, name))

(* genericWalk() of a path of one element or more from a portal's crumb;
   on anything but a directory it returns NULL. *)
genericWalk(ns, c, path) ==
  LET after[k \in 0..Len(path)] ==
        IF k = 0 THEN [crumb |-> c, trail |-> emptyWalkTrail(Len(path)), end |-> "walking"]
        ELSE walkOne(ns, after[k - 1], path[k])
  IN  after[Len(path)]
-----------------------------------------------------------------------------
(***************************************************************************)
(* readStaticNS() of a directory: the names of its children, each with its *)
(* final 0, from the offset on and as many as fit; the test of what fits   *)
(* is made of the skipped names too.                                       *)
(***************************************************************************)
fitsMutant(names, offset, size, k) ==      \* no room for the final 0
  LET used[j \in 0..k] ==
        IF j = 0 THEN 0 ELSE used[j - 1] + (IF j > offset THEN Len(names[j]) + 1 ELSE 0)
  IN  \A j \in 1..k : used[j - 1] + Len(names[j]) + 1 < size
fits(names, offset, size, k) ==
  LET used[j \in 0..k] ==
        IF j = 0 THEN 0 ELSE used[j - 1] + (IF j > offset THEN Len(names[j]) + 1 ELSE 0)
  IN  \A j \in 1..k : used[j - 1] + Len(names[j]) + 1 <= size

namesOf(ns, nodes) == [k \in DOMAIN nodes |-> ns[nodes[k]].name]
namesFrom(ns, first) == IF first < 0 THEN <<>> ELSE namesOf(ns, siblingsFrom(ns, first))

childNames(ns, c) == namesFrom(ns, WalkDown(ns, c))

thatFit(names, size, offset) ==
  SubSeq(names, offset + 1, Max({k \in 0..Len(names) : fits(names, offset, size, k)}))

readDirectory(ns, c, size, offset) == thatFit(childNames(ns, c), size, offset)

(* readStaticNS() of a file: always from the start of its contents. *)
readFile(ns, c, size) ==
  LET e == ns[STATICNS_CRUMB_SELF_IDX(c)]
  IN  IF size > e.length THEN e.length ELSE size
=============================================================================
