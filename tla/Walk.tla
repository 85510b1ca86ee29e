-------------------------------- MODULE Walk --------------------------------
(***************************************************************************)
(* Walks in every static namespace of a given size: a process holds a      *)
(* portal on a directory, walks paths from it, follows the trails, and     *)
(* reads the directory it is in.                                           *)
(***************************************************************************)
EXTENDS StaticNS

CONSTANTS
  Names,         \* the names nodes have
  MaxNodes,      \* bound: nodes besides the root
  MaxPath,       \* bound: elements of a path
  ReadSizes,     \* the sizes of the buffers directories are read into
  EmptyDirs      \* whether a directory may have no children

WalkAssumption ==
  /\ MaxNodes \in Nat \ {0} /\ MaxNodes < ParentIdxs - 1 /\ MaxPath \in Nat \ {0}
  /\ \A name \in Names \cup {"."} : Len(name) \in Nat
  /\ ReadSizes \subseteq Nat /\ EmptyDirs \in BOOLEAN

VARIABLES
  ns,        \* the device's StaticNS table
  portal,    \* the crumb of the portal, a directory
  path,      \* the path last walked
  from,      \* the crumb it was walked from
  trail,     \* what genericWalk returned
  offset,    \* the offset of the portal
  listed,    \* the names read from the directory since it was opened
  last       \* the size of the last read of it, and what it returned

walkVars == <<ns, portal, path, from, trail, offset, listed, last>>

Paths == UNION {[1..n -> Names \cup {".", ".."}] : n \in 1..MaxPath}

(* The parents of nodes 1..n in breadth first order: every parent comes
   before its children and the children of one parent are together. *)
Parents(n) ==
  {par \in [1..n -> 0..(n - 1)] :
     \A i \in 1..n : par[i] < i /\ \A j \in i..n : par[i] <= par[j]}

(* The tables of n nodes and a root whose parent is the sentinel. *)
TablesOf(n) ==
  UNION {{StaticTable([k \in 1..(n + 1) |->
            IF k = 1
            THEN Entry(".", MKSTATICNS_CRUMB(STATICNS_SENTINEL, 0, {"ISDIR"}), 0, NoContents)
            ELSE Entry(name[k - 1],
                       MKSTATICNS_CRUMB(par[k - 1], k - 1,
                                        IF k - 1 \in dirs THEN {"ISDIR"} ELSE {"ISFILE"}), 0, NoContents)])
            : name \in [1..n -> Names],
              dirs \in {d \in SUBSET (1..n) : /\ Range(par) \ {0} \subseteq d
                                              /\ EmptyDirs \/ d \subseteq Range(par)}}
         : par \in Parents(n)}

WalkingInit ==
  /\ ns \in UNION {TablesOf(n) : n \in 1..MaxNodes}
  /\ portal = ns[0].crumb
  /\ path = <<>> /\ from = portal
  /\ trail = emptyWalkTrail(0)
  /\ offset = 0 /\ listed = <<>> /\ last = <<0, 0>>

(* walk() of a path from the portal. *)
Walk(p) ==
  /\ path' = p /\ from' = portal
  /\ trail' = genericWalk(ns, portal, p).trail
  /\ UNCHANGED <<ns, portal, offset, listed, last>>

(* A path walked to its end at a directory: the new portal, and openDev(). *)
Enter ==
  /\ path # <<>> /\ from = portal
  /\ Len(trail.crumbs) = Len(path) /\ ISDIR(topCrumb(trail, portal))
  /\ portal' = topCrumb(trail, portal)
  /\ path' = <<>> /\ from' = portal' /\ trail' = emptyWalkTrail(0)
  /\ offset' = 0 /\ listed' = <<>> /\ last' = <<0, 0>>
  /\ UNCHANGED ns

(* freeWalkTrail() of a trail that is of no use. *)
Leave ==
  /\ path # <<>>
  /\ path' = <<>> /\ from' = portal /\ trail' = emptyWalkTrail(0)
  /\ UNCHANGED <<ns, portal, offset, listed, last>>

(* read() of the directory into a buffer. *)
Read(bytes) ==
  LET names == readDirectory(ns, portal, bytes, offset)
  IN  /\ path = <<>>
      /\ listed' = listed \o names
      /\ offset' = offset + Len(names)
      /\ last' = <<bytes, Len(names)>>
      /\ UNCHANGED <<ns, portal, path, from, trail>>

Walking == \/ \E p \in Paths : path = <<>> /\ Walk(p)
           \/ Enter
           \/ Leave
           \/ \E bytes \in ReadSizes : Read(bytes)

WalkingSpec == WalkingInit /\ [][Walking]_walkVars
-----------------------------------------------------------------------------
(***************************************************************************)
(* The tree the table stands for, by its parents and names alone.          *)
(***************************************************************************)
Nodes == DOMAIN ns \ {Max(DOMAIN ns)}
Parent(i) == IF i = 0 THEN 0 ELSE STATICNS_CRUMB_PARENT_IDX(ns[i].crumb)
Children(i) == {j \in Nodes \ {0} : Parent(j) = i}
Child(i, name) == {j \in Children(i) : ns[j].name = name}

(* Node j is where one element of a path leads from node i. *)
Leads(i, name, j) ==
  /\ ISDIR(ns[i].crumb)
  /\ CASE name = "."  -> j = i
       [] name = ".." -> j = Parent(i)
       [] OTHER       -> Child(i, name) # {} /\ j = Min(Child(i, name))

(* Crumbs are those of entries, and trails no longer than their paths. *)
WalkTypeOK ==
  /\ \E i \in Nodes : portal = ns[i].crumb
  /\ \A k \in 1..Len(trail.crumbs) : \E i \in Nodes : trail.crumbs[k] = ns[i].crumb
  /\ Len(trail.crumbs) <= Len(path) /\ trail.max = Len(path)
  /\ offset \in 0..Cardinality(Nodes)

WalkFollowsTree ==
  LET at(k) == STATICNS_CRUMB_SELF_IDX(IF k = 0 THEN from ELSE trail.crumbs[k])
      steps == Len(trail.crumbs)
  IN  /\ \A k \in 1..steps : Leads(at(k - 1), path[k], at(k))
      /\ steps < Len(path) => ~ \E j \in Nodes : Leads(at(steps), path[steps + 1], j)

PrevUndoesNext ==
  \A i \in Nodes \ {0} :
    LET prev == WalkPrev(ns, ns[i].crumb)
    IN  IF \E j \in Nodes : WalkNext(ns, ns[j].crumb) = i
        THEN prev >= 0 /\ WalkNext(ns, ns[prev].crumb) = i
        ELSE prev = ENOENT

(* The trail of a walk (genericWalk) is the way the path describes in the
   tree, to its end or to the last element that leads somewhere; and WalkPrev
   undoes WalkNext, with none before the first sibling. *)
WalksFollowTree == WalkTypeOK /\ WalkFollowsTree /\ PrevUndoesNext

(* The first names of the directory's children, in order and each once. *)
ListedInOrder ==
  LET kids == Children(STATICNS_CRUMB_SELF_IDX(portal))
  IN  /\ Len(listed) = offset /\ offset <= Cardinality(kids)
      /\ \A k \in 1..offset : \E j \in kids :
           Cardinality({i \in kids : i < j}) = k - 1 /\ listed[k] = ns[j].name

(* Nothing was read and there was room for any name: all are listed. *)
ZeroIsEnd ==
  (last[2] = 0 /\ \A i \in Nodes : Len(ns[i].name) < last[1])
    => offset = Cardinality(Children(STATICNS_CRUMB_SELF_IDX(portal)))

(* Whatever the buffers, the reads of a directory (readStaticNS) have returned
   a first part of its children, in order and each once; and a read into a
   buffer no name is too long for returns something until all are listed: 0
   means the end of the directory (dirread). *)
DirectoriesListed == ListedInOrder /\ ZeroIsEnd

(* "The last entry in the static namespace ... acts as a sentinel value"
   (getNodeInfoStaticNS.c:17-18): no search reads past it. *)
SentinelStops ==
  path # <<>> => genericWalk(ns, from, path).end # "PastEnd"
=============================================================================
