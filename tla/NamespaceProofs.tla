--------------------------- MODULE NamespaceProofs --------------------------
(***************************************************************************)
(* Proofs about the namespace, for every set of processes, every size of   *)
(* the descriptor tables and every set of paths: no portal is lost or      *)
(* freed twice, and where the paths are Straight, descriptors, commands    *)
(* and listings are those of the files that were named.                    *)
(*                                                                         *)
(* The argument: the tables of the devices are trees (NodesAre), so a walk *)
(* in one device follows the children by name (GenericWalkIs); the turns   *)
(* of syswalk's loop follow the names across the mount points              *)
(* (WalkDeviceIs, SyswalkIs), so the walk of a path leads where its names  *)
(* lead, or fails with its portal freed (WalkPathIs, FindCommandIs); a     *)
(* read of a directory goes on with the listing (ListingGoesOn).  NSInv    *)
(* says this of every slot of every descriptor table, and each system call *)
(* changes one slot, or one table (OpenSlot ... ClearTable).               *)
(***************************************************************************)
EXTENDS Namespace, StaticNSProofs

-----------------------------------------------------------------------------
(* The root device: its two directories, the commands and the mount points. *)
RootParent(i) == IF i = 0 THEN STATICNS_SENTINEL ELSE IF i <= 2 THEN 0 ELSE IF i <= 12 THEN 1 ELSE 2
RootFlags(i)  == IF i <= 2 THEN {"ISDIR"} ELSE IF i <= 12 THEN {"ISFILE"} ELSE {"ISMOUNT"}

(* The device a mount point of the root device leads to. *)
MountedOn(m) ==
  IF m = 13 THEN 2 ELSE IF m = 14 THEN 1 ELSE IF m = 15 THEN 3 ELSE IF m = 16 THEN 4
  ELSE IF m = 17 THEN 5 ELSE IF m = 18 THEN 6 ELSE 7

(* The device table, entry by entry. *)
LEMMA DevicesAre ==
  /\ DOMAIN deviceTable = 0..7
  /\ deviceTable[0] = "DEVROOT" /\ deviceTable[1] = "DEVLED" /\ deviceTable[2] = "DEVSWPB"
  /\ deviceTable[3] = "DEVUART" /\ deviceTable[4] = "DEVLCD" /\ deviceTable[5] = "DEVADC"
  /\ deviceTable[6] = "DEVTIMER" /\ deviceTable[7] = "DEVDEV"
  BY DEF deviceTable

(* Every device has an id of its own, and fromDeviceId finds it. *)
LEMMA FromDeviceIdIs ==
  ASSUME NEW d \in 0..7
  PROVE  fromDeviceId(deviceTable[d]) = d /\ (deviceTable[d] = "DEVDEV" <=> d = 7)
<1>1. \A i \in 0..7 : i = 0 \/ i = 1 \/ i = 2 \/ i = 3 \/ i = 4 \/ i = 5 \/ i = 6 \/ i = 7
  OBVIOUS
<1>2. \A i, j \in 0..7 : deviceTable[i] = deviceTable[j] => i = j
  BY <1>1, DevicesAre
<1>3. {i \in DOMAIN deviceTable : deviceTable[i] = deviceTable[d]} = {d}
  BY <1>2, DevicesAre
<1>4. Min({d}) = d
  BY MinIs, {d} \in SUBSET Nat
<1> QED BY <1>2, <1>3, <1>4, DevicesAre DEF fromDeviceId

(* The fields of an entry. *)
LEMMA EntryIs ==
  ASSUME NEW name, NEW crumb, NEW length, NEW contents
  PROVE  LET e == Entry(name, crumb, length, contents)
         IN  e.name = name /\ e.crumb = crumb /\ e.length = length /\ e.contents = contents
  BY DEF Entry

(* The entries of the root device, one by one: crumbs, and the names and ids the
   walks and the listings depend on. *)
LEMMA RootEntriesAre ==
  /\ Len(rootEntries) = 22
  /\ \A i \in 1..22 :
       /\ rootEntries[i].crumb = MKSTATICNS_CRUMB(RootParent(i - 1), i - 1, RootFlags(i - 1))
       /\ i \in 4..13 => rootEntries[i].contents = rootEntries[i].name /\ rootEntries[i].length \in Nat
       /\ i \in 14..22 => rootEntries[i].length = deviceTable[MountedOn(i - 1)]
       /\ i \in 20..22 => rootEntries[i].contents = rootEntries[i].name
  /\ rootEntries[2].name = "bin" /\ rootEntries[3].name = "dev" /\ rootEntries[20].name = "date"
  /\ rootEntries[21].name = "kprint" /\ rootEntries[22].name = "interrupts"
  /\ rootEntries[14].name = "swpb" /\ rootEntries[15].name = "led" /\ rootEntries[16].name = "uart"
<1> DEFINE E == rootEntries
<1>1. /\ Len(E) = 22
      /\ E[1] = Dot
      /\ E[2] = Entry("bin", MKSTATICNS_CRUMB(0, 1, {"ISDIR"}), 0, NoContents)
      /\ E[3] = Entry("dev", MKSTATICNS_CRUMB(0, 2, {"ISDIR"}), 0, NoContents)
      /\ E[4] = Bin(3, "pwd", 5) /\ E[5] = Bin(4, "ls", 4) /\ E[6] = Bin(5, "cat", 5)
      /\ E[7] = Bin(6, "echo", 6) /\ E[8] = Bin(7, "date", 6) /\ E[9] = Bin(8, "toast", 7)
      /\ E[10] = Bin(9, "lsmem", 7) /\ E[11] = Bin(10, "ps", 4) /\ E[12] = Bin(11, "fg", 4)
      /\ E[13] = Bin(12, "fizzbuzz", 10)
      /\ E[14] = Mount(13, "swpb", "DEVSWPB", NoContents) /\ E[15] = Mount(14, "led", "DEVLED", NoContents)
      /\ E[16] = Mount(15, "uart", "DEVUART", NoContents) /\ E[17] = Mount(16, "lcd", "DEVLCD", NoContents)
      /\ E[18] = Mount(17, "adc", "DEVADC", NoContents) /\ E[19] = Mount(18, "timer", "DEVTIMER", NoContents)
      /\ E[20] = Mount(19, "date", "DEVDEV", "date") /\ E[21] = Mount(20, "kprint", "DEVDEV", "kprint")
      /\ E[22] = Mount(21, "interrupts", "DEVDEV", "interrupts")
  BY DEF rootEntries
<1> HIDE DEF E
<1> DEFINE C(i) == MKSTATICNS_CRUMB(RootParent(i - 1), i - 1, RootFlags(i - 1))
           Named(i) == E[i].crumb = C(i)
           Command(i) == Named(i) /\ E[i].contents = E[i].name /\ E[i].length \in Nat
           Point(i) == /\ Named(i) /\ E[i].length = deviceTable[MountedOn(i - 1)]
                       /\ i \in 20..22 => E[i].contents = E[i].name
<1>2. ASSUME NEW i \in 4..13, NEW name, NEW length \in Nat, NEW self, self = i - 1,
             E[i] = Bin(self, name, length)
      PROVE  Command(i)
  <2>1. RootParent(i - 1) = 1 /\ RootFlags(i - 1) = {"ISFILE"}
    BY DEF RootParent, RootFlags
  <2>2. /\ E[i].crumb = MKSTATICNS_CRUMB(1, self, {"ISFILE"}) /\ E[i].name = name
        /\ E[i].length = length /\ E[i].contents = name
    BY <1>2, EntryIs DEF Bin
  <2> QED BY <1>2, <2>1, <2>2
<1>3. ASSUME NEW i \in 14..22, NEW name, NEW id, NEW contents, NEW self, self = i - 1,
             E[i] = Mount(self, name, id, contents),
             id = deviceTable[MountedOn(self)], i \in 20..22 => contents = name
      PROVE  Point(i)
  <2>1. RootParent(i - 1) = 2 /\ RootFlags(i - 1) = {"ISMOUNT"}
    BY DEF RootParent, RootFlags
  <2>2. /\ E[i].crumb = MKSTATICNS_CRUMB(2, self, {"ISMOUNT"}) /\ E[i].name = name
        /\ E[i].length = id /\ E[i].contents = contents
    BY <1>3, EntryIs DEF Mount
  <2> QED BY <1>3, <2>1, <2>2
<1>4. Named(1) /\ Named(2) /\ Named(3) /\ E[2].name = "bin" /\ E[3].name = "dev"
  <2>1. /\ RootParent(1 - 1) = STATICNS_SENTINEL /\ RootFlags(1 - 1) = {"ISDIR"} /\ 1 - 1 = 0
        /\ RootParent(2 - 1) = 0 /\ RootFlags(2 - 1) = {"ISDIR"} /\ 2 - 1 = 1
        /\ RootParent(3 - 1) = 0 /\ RootFlags(3 - 1) = {"ISDIR"} /\ 3 - 1 = 2
    BY DEF RootParent, RootFlags
  <2>2. Named(1)
    BY <1>1, <2>1, EntryIs DEF Dot
  <2>3. Named(2) /\ E[2].name = "bin"
    <3>1. E[2] = Entry("bin", MKSTATICNS_CRUMB(0, 1, {"ISDIR"}), 0, NoContents)
      BY <1>1
    <3>2. E[2].crumb = MKSTATICNS_CRUMB(0, 1, {"ISDIR"}) /\ E[2].name = "bin"
      BY <3>1, EntryIs
    <3> QED BY <2>1, <3>2
  <2>4. Named(3) /\ E[3].name = "dev"
    <3>1. E[3] = Entry("dev", MKSTATICNS_CRUMB(0, 2, {"ISDIR"}), 0, NoContents)
      BY <1>1
    <3>2. E[3].crumb = MKSTATICNS_CRUMB(0, 2, {"ISDIR"}) /\ E[3].name = "dev"
      BY <3>1, EntryIs
    <3> QED BY <2>1, <3>2
  <2> QED BY <2>2, <2>3, <2>4
<1> HIDE DEF Named, Command, Point
<1>5. \A i \in 4..13 : Command(i)
  <2>1. Command(4)
    BY <1>1, <1>2, 4 \in 4..13, 3 = 4 - 1, 5 \in Nat
  <2>2. Command(5)
    BY <1>1, <1>2, 5 \in 4..13, 4 = 5 - 1, 4 \in Nat
  <2>3. Command(6)
    BY <1>1, <1>2, 6 \in 4..13, 5 = 6 - 1, 5 \in Nat
  <2>4. Command(7)
    BY <1>1, <1>2, 7 \in 4..13, 6 = 7 - 1, 6 \in Nat
  <2>5. Command(8)
    BY <1>1, <1>2, 8 \in 4..13, 7 = 8 - 1, 6 \in Nat
  <2>6. Command(9)
    BY <1>1, <1>2, 9 \in 4..13, 8 = 9 - 1, 7 \in Nat
  <2>7. Command(10)
    BY <1>1, <1>2, 10 \in 4..13, 9 = 10 - 1, 7 \in Nat
  <2>8. Command(11)
    BY <1>1, <1>2, 11 \in 4..13, 10 = 11 - 1, 4 \in Nat
  <2>9. Command(12)
    BY <1>1, <1>2, 12 \in 4..13, 11 = 12 - 1, 4 \in Nat
  <2>10. Command(13)
    BY <1>1, <1>2, 13 \in 4..13, 12 = 13 - 1, 10 \in Nat
  <2>11. \A i \in 4..13 : i = 4 \/ i = 5 \/ i = 6 \/ i = 7 \/ i = 8 \/ i = 9 \/ i = 10 \/ i = 11 \/ i = 12 \/ i = 13
    OBVIOUS
  <2> QED BY <2>1, <2>2, <2>3, <2>4, <2>5, <2>6, <2>7, <2>8, <2>9, <2>10, <2>11
<1>6. \A i \in 14..22 : Point(i)
  <2>11. MountedOn(13) = 2 /\ MountedOn(14) = 1 /\ MountedOn(15) = 3 /\ MountedOn(16) = 4 /\ MountedOn(17) = 5
         /\ MountedOn(18) = 6 /\ MountedOn(19) = 7 /\ MountedOn(20) = 7 /\ MountedOn(21) = 7
    BY DEF MountedOn
  <2>1. Point(14)
    BY <1>1, <1>3, <2>11, DevicesAre, 14 \in 14..22, 13 = 14 - 1, 14 \notin 20..22
  <2>2. Point(15)
    BY <1>1, <1>3, <2>11, DevicesAre, 15 \in 14..22, 14 = 15 - 1, 15 \notin 20..22
  <2>3. Point(16)
    BY <1>1, <1>3, <2>11, DevicesAre, 16 \in 14..22, 15 = 16 - 1, 16 \notin 20..22
  <2>4. Point(17)
    BY <1>1, <1>3, <2>11, DevicesAre, 17 \in 14..22, 16 = 17 - 1, 17 \notin 20..22
  <2>5. Point(18)
    BY <1>1, <1>3, <2>11, DevicesAre, 18 \in 14..22, 17 = 18 - 1, 18 \notin 20..22
  <2>6. Point(19)
    BY <1>1, <1>3, <2>11, DevicesAre, 19 \in 14..22, 18 = 19 - 1, 19 \notin 20..22
  <2>7. Point(20)
    BY <1>1, <1>3, <2>11, DevicesAre, 20 \in 14..22, 19 = 20 - 1
  <2>8. Point(21)
    BY <1>1, <1>3, <2>11, DevicesAre, 21 \in 14..22, 20 = 21 - 1
  <2>9. Point(22)
    BY <1>1, <1>3, <2>11, DevicesAre, 22 \in 14..22, 21 = 22 - 1
  <2>10. \A i \in 14..22 : i = 14 \/ i = 15 \/ i = 16 \/ i = 17 \/ i = 18 \/ i = 19 \/ i = 20 \/ i = 21 \/ i = 22
    OBVIOUS
  <2> QED BY <2>1, <2>2, <2>3, <2>4, <2>5, <2>6, <2>7, <2>8, <2>9, <2>10
<1>9. E[20].name = "date" /\ E[21].name = "kprint" /\ E[22].name = "interrupts"
  <2>1. E[20] = Mount(19, "date", "DEVDEV", "date") /\ E[21] = Mount(20, "kprint", "DEVDEV", "kprint")
        /\ E[22] = Mount(21, "interrupts", "DEVDEV", "interrupts")
    BY <1>1
  <2> QED BY <2>1, EntryIs DEF Mount
<1>10. E[14].name = "swpb" /\ E[15].name = "led" /\ E[16].name = "uart"
  <2>1. E[14] = Mount(13, "swpb", "DEVSWPB", NoContents) /\ E[15] = Mount(14, "led", "DEVLED", NoContents)
        /\ E[16] = Mount(15, "uart", "DEVUART", NoContents)
    BY <1>1
  <2> QED BY <2>1, EntryIs DEF Mount
<1>7. \A i \in 1..22 : i = 1 \/ i = 2 \/ i = 3 \/ i \in 4..13 \/ i \in 14..22
  OBVIOUS
<1>8. \A i : (i \in 4..13 => ~ (i \in 20..22) /\ ~(i \in 14..22))
         /\ (i \in {1, 2, 3} => ~ (i \in 20..22) /\ ~(i \in 4..13) /\ ~(i \in 14..22))
         /\ (i \in 14..22 => ~(i \in 4..13))
  OBVIOUS
<1> QED BY <1>1, <1>4, <1>5, <1>6, <1>7, <1>8, <1>9, <1>10 DEF E, Named, Command, Point

(* The table of the root device holds a tree. *)
LEMMA RootIs ==
  /\ IsTree(rootSNS, 22)
  /\ \A i \in 0..21 :
       /\ rootSNS[i] = rootEntries[i + 1]
       /\ rootSNS[i].crumb.flags = RootFlags(i) \cup {"ISSTATIC"}
       /\ i # 0 => STATICNS_CRUMB_PARENT_IDX(rootSNS[i].crumb) = RootParent(i)
<1> DEFINE E == rootEntries
           par == [i \in 1..22 |-> RootParent(i - 1)]
           flags == [i \in 1..22 |-> RootFlags(i - 1)]
<1>1. E \in Seq({E[i] : i \in 1..22}) /\ Len(E) = 22 /\ 22 \in 1..MaxTable
  <2>1. Len(E) = 22 /\ DOMAIN E = 1..22
    BY DEF rootEntries
  <2>2. 22 \in 1..MaxTable
    BY WidthsAre DEF MaxTable
  <2>3. E = [i \in 1..22 |-> E[i]]
    BY DEF rootEntries
  <2> HIDE DEF E
  <2> QED BY <2>1, <2>2, <2>3
<1>2. /\ par[1] = STATICNS_SENTINEL
      /\ \A i \in 2..22 : par[i] = IF i <= 3 THEN 0 ELSE IF i <= 13 THEN 1 ELSE 2
  BY DEF RootParent
<1>3. \A i \in 1..22 : E[i].crumb = MKSTATICNS_CRUMB(par[i], i - 1, flags[i])
  BY RootEntriesAre
<1>4. \A i \in 2..22 : par[i] \in 0..(i - 2)
  <2> HIDE DEF par
  <2> QED BY <1>2
<1>5. \A i, j \in 2..22 : i <= j => par[i] <= par[j]
  <2> HIDE DEF par
  <2> QED BY <1>2
<1> HIDE DEF E, par, flags
<1>6. IsTree(StaticTable(E), 22) /\ \A i \in 1..22 : StaticTable(E)[i - 1] = E[i]
  <2> DEFINE Y == {E[i] : i \in 1..22}
             m == Len(E)
  <2>1. m = 22 /\ E \in Seq(Y)
    BY <1>1
  <2>4. E \in Seq(Y)
    BY <2>1
  <2> HIDE DEF m, Y
  <2>2. /\ m \in 1..MaxTable /\ par[1] = STATICNS_SENTINEL /\ \A i \in 2..m : par[i] \in 0..(i - 2)
        /\ \A i, j \in 2..m : i <= j => par[i] <= par[j]
        /\ \A i \in 1..m : E[i].crumb = MKSTATICNS_CRUMB(par[i], i - 1, flags[i])
    BY <1>1, <1>2, <1>3, <1>4, <1>5, <2>1
  <2>3. IsTree(StaticTable(E), m) /\ \A i \in 1..m : StaticTable(E)[i - 1] = E[i]
    BY <2>2, <2>4, StaticTableIsTree, Zenon DEF m
  <2> QED BY <2>1, <2>3
<1>7. ASSUME NEW i \in 0..21
      PROVE  /\ rootSNS[i] = rootEntries[i + 1]
             /\ rootSNS[i].crumb.flags = RootFlags(i) \cup {"ISSTATIC"}
             /\ i # 0 => STATICNS_CRUMB_PARENT_IDX(rootSNS[i].crumb) = RootParent(i)
  <2>1. i + 1 \in 1..22 /\ (i + 1) - 1 = i
    OBVIOUS
  <2>2. rootSNS[i] = E[i + 1]
    BY <1>6, <2>1 DEF rootSNS, E
  <2>3. rootSNS[i].crumb = MKSTATICNS_CRUMB(RootParent(i), i, RootFlags(i))
    BY <1>3, <2>1, <2>2 DEF par, flags
  <2>4. /\ RootParent(i) \in 0..(SelfIdxs - 1) /\ i \in 0..(SelfIdxs - 1)
        /\ i # 0 => RootParent(i) \in 0..(ParentIdxs - 1)
    BY WidthsAre DEF RootParent, STATICNS_SENTINEL
  <2>5. i # 0 => RootParent(i) % ParentIdxs = RootParent(i)
    <3>1. ParentIdxs \in Nat \ {0}
      BY WidthsAre
    <3> QED BY <2>4, <3>1, SmallRemainder
  <2> QED BY <2>2, <2>3, <2>4, <2>5, CrumbIs DEF E
<1> QED BY <1>6, <1>7 DEF rootSNS, E

(* The table of a device with one level of files: a root and n files. *)
IsFlat(ns, n, names) ==
  /\ IsTree(ns, n + 1) /\ ns[0].crumb.flags = {"ISDIR", "ISSTATIC"}
  /\ \A i \in 1..n : /\ ns[i].name = names[i] /\ ns[i].crumb.flags = {"ISFILE", "ISSTATIC"}
                     /\ STATICNS_CRUMB_PARENT_IDX(ns[i].crumb) = 0

(* A device with one level of files is a tree of a root and its files. *)
LEMMA FlatIs ==
  ASSUME NEW n \in 1..10, NEW names, DOMAIN names = 1..n, Len(names) = n, NEW lengths
  PROVE  IsFlat(Flat(names, lengths), n, names)
<1> DEFINE e(i) == Entry(names[i], MKSTATICNS_CRUMB(0, i, {"ISFILE"}), lengths[i], NoContents)
           F == [i \in 1..n |-> e(i)]
           E == <<Dot>> \o F
           par == [i \in 1..(n + 1) |-> IF i = 1 THEN STATICNS_SENTINEL ELSE 0]
           flags == [i \in 1..(n + 1) |-> IF i = 1 THEN {"ISDIR"} ELSE {"ISFILE"}]
           X == {Dot} \cup {e(i) : i \in 1..n}
<1>1. E \in Seq(X) /\ Len(E) = n + 1 /\ E[1] = Dot /\ \A i \in 2..(n + 1) : E[i] = e(i - 1)
  <2> HIDE DEF e
  <2>1. F \in Seq(X) /\ <<Dot>> \in Seq(X) /\ Len(F) = n /\ Len(<<Dot>>) = 1
    OBVIOUS
  <2>2. \A i \in 1..n : F[i] = e(i)
    OBVIOUS
  <2>4. <<Dot>>[1] = Dot
    OBVIOUS
  <2>5. \A i \in 2..(n + 1) : i - 1 \in 1..n
    OBVIOUS
  <2> DEFINE D == <<Dot>>
  <2> HIDE DEF F, X, D
  <2>3. D \o F \in Seq(X) /\ Len(D \o F) = n + 1 /\ (D \o F)[1] = D[1] /\ \A i \in 2..(n + 1) : (D \o F)[i] = F[i - 1]
    BY <2>1 DEF D
  <2> QED BY <2>2, <2>3, <2>4, <2>5 DEF D
<1>2. Flat(names, lengths) = StaticTable(E)
  BY DEF Flat
<1>3. E[1].crumb = MKSTATICNS_CRUMB(STATICNS_SENTINEL, 0, {"ISDIR"})
  BY <1>1, EntryIs DEF Dot
<1>4. \A i \in 1..n : e(i).name = names[i] /\ e(i).crumb = MKSTATICNS_CRUMB(0, i, {"ISFILE"})
  BY EntryIs
<1> HIDE DEF e, F, E
<1>5. \A i \in 1..(n + 1) : E[i].crumb = MKSTATICNS_CRUMB(par[i], i - 1, flags[i])
  <2> SUFFICES ASSUME NEW i \in 1..(n + 1) PROVE E[i].crumb = MKSTATICNS_CRUMB(par[i], i - 1, flags[i])
    OBVIOUS
  <2>1. CASE i = 1
    <3>1. par[i] = STATICNS_SENTINEL /\ flags[i] = {"ISDIR"} /\ i - 1 = 0
      BY <2>1
    <3> QED BY <1>3, <2>1, <3>1
  <2>2. CASE i # 1
    <3>1. par[i] = 0 /\ flags[i] = {"ISFILE"} /\ i - 1 \in 1..n /\ i \in 2..(n + 1)
      BY <2>2
    <3> QED BY <1>1, <1>4, <3>1
  <2> QED BY <2>1, <2>2
<1>6. /\ par[1] = STATICNS_SENTINEL /\ n + 1 \in 1..MaxTable
      /\ \A i \in 2..(n + 1) : par[i] \in 0..(i - 2)
      /\ \A i, j \in 2..(n + 1) : i <= j => par[i] <= par[j]
  BY WidthsAre DEF MaxTable
<1> HIDE DEF par, flags, X
<1>7. IsTree(StaticTable(E), n + 1) /\ \A i \in 1..(n + 1) : StaticTable(E)[i - 1] = E[i]
  <2> DEFINE Y == X
             m == Len(E)
  <2>1. m = n + 1 /\ E \in Seq(Y)
    BY <1>1
  <2>4. E \in Seq(Y)
    BY <2>1
  <2> HIDE DEF m, Y
  <2>2. /\ m \in 1..MaxTable /\ par[1] = STATICNS_SENTINEL /\ \A i \in 2..m : par[i] \in 0..(i - 2)
        /\ \A i, j \in 2..m : i <= j => par[i] <= par[j]
        /\ \A i \in 1..m : E[i].crumb = MKSTATICNS_CRUMB(par[i], i - 1, flags[i])
    BY <1>1, <1>5, <1>6, <2>1
  <2>3. IsTree(StaticTable(E), m) /\ \A i \in 1..m : StaticTable(E)[i - 1] = E[i]
    BY <2>2, <2>4, StaticTableIsTree, Zenon DEF m
  <2> QED BY <2>1, <2>3
<1> DEFINE ns == StaticTable(E)
<1>8. ns[0] = E[1] /\ \A i \in 1..n : ns[i] = e(i)
  <2>1. 1 \in 1..(n + 1) /\ 1 - 1 = 0 /\ \A i \in 1..n : i + 1 \in 2..(n + 1) /\ i + 1 \in 1..(n + 1) /\ (i + 1) - 1 = i
    OBVIOUS
  <2>2. ns[1 - 1] = E[1]
    BY <1>7, <2>1
  <2>3. ASSUME NEW i \in 1..n PROVE ns[i] = e(i)
    <3> DEFINE j == i + 1
    <3>1. j \in 1..(n + 1) /\ j \in 2..(n + 1) /\ j - 1 = i
      OBVIOUS
    <3> HIDE DEF j, ns, e
    <3>2. ns[j - 1] = E[j] /\ E[j] = e(j - 1)
      BY <1>1, <1>7, <3>1 DEF ns
    <3> QED BY <3>1, <3>2
  <2> QED BY <1>1, <2>1, <2>2, <2>3
<1> HIDE DEF ns
<1>9. /\ STATICNS_SENTINEL \in 0..(SelfIdxs - 1) /\ 0 \in 0..(SelfIdxs - 1) /\ 0 % ParentIdxs = 0
      /\ \A i \in 1..n : i \in 0..(SelfIdxs - 1)
  <2>1. /\ STATICNS_SENTINEL \in 0..(SelfIdxs - 1) /\ 0 \in 0..(SelfIdxs - 1) /\ 0 \in 0..(ParentIdxs - 1)
        /\ ParentIdxs \in Nat \ {0} /\ \A i \in 1..n : i \in 0..(SelfIdxs - 1)
    BY WidthsAre DEF STATICNS_SENTINEL
  <2>2. 0 % ParentIdxs = 0
    BY <2>1, SmallRemainder
  <2> QED BY <2>1, <2>2
<1>10. ns[0].crumb.flags = {"ISDIR", "ISSTATIC"}
  <2>1. ns[0].crumb.flags = {"ISDIR"} \cup {"ISSTATIC"}
    BY <1>3, <1>8, <1>9, CrumbIs
  <2> QED BY <2>1, Zenon
<1>11. ASSUME NEW i \in 1..n
       PROVE  /\ ns[i].name = names[i] /\ ns[i].crumb.flags = {"ISFILE", "ISSTATIC"}
              /\ STATICNS_CRUMB_PARENT_IDX(ns[i].crumb) = 0
  <2>1. ns[i].crumb.flags = {"ISFILE"} \cup {"ISSTATIC"} /\ STATICNS_CRUMB_PARENT_IDX(ns[i].crumb) = 0
    BY <1>4, <1>8, <1>9, CrumbIs
  <2>2. ns[i].crumb.flags = {"ISFILE", "ISSTATIC"}
    BY <2>1, Zenon
  <2> QED BY <1>4, <1>8, <2>1, <2>2
<1> QED BY <1>2, <1>7, <1>10, <1>11 DEF ns, IsFlat
-----------------------------------------------------------------------------
(* The nodes of a device's table, the portals on them, and the places a
   portal can come to be: no mount point, and no root of devdev. *)
Size(d)      == Max(DOMAIN SNS[d])
(* The nodes of a device, without the sentinel. *)
Nodes(d)     == 0..(Size(d) - 1)
(* The portal on a node. *)
Portal(d, i) == [device |-> d, crumb |-> SNS[d][i].crumb]

(* Where a portal may be: not on a mount point of the root device, which a walk
   always crosses, nor on the root of devdev, which attach() always leaves. *)
Places  == {x \in (0..7) \X (0..21) : x[2] \in Nodes(x[1]) /\ (x[1] = 0 => x[2] <= 12) /\ (x[1] = 7 => x[2] # 0)}
Portals == {Portal(x[1], x[2]) : x \in Places}

(* A table that holds a tree of n nodes has size n. *)
LEMMA SizeIs ==
  ASSUME NEW d, NEW n \in Nat, IsTree(SNS[d], n)
  PROVE  Size(d) = n
<1>1. DOMAIN SNS[d] = 0..n /\ n \in 0..n /\ \A y \in 0..n : y \in Int /\ y <= n
  BY DEF IsTree
<1> QED BY <1>1, MaxIs DEF Size

(* The table of each device. *)
LEMMA SNSIs ==
  /\ SNS[0] = rootSNS /\ SNS[1] = ledSNS /\ SNS[2] = swpbSNS /\ SNS[3] = uartSNS
  /\ SNS[4] = lcdSNS /\ SNS[5] = adcSNS /\ SNS[6] = timerSNS /\ SNS[7] = devdevSNS
  BY DEF SNS

(* The other devices: a root directory and files. *)
LEMMA FlatsAre ==
  ASSUME NEW d \in 1..7
  PROVE  /\ IsTree(SNS[d], Size(d)) /\ Size(d) \in 2..11
         /\ SNS[d][0].crumb.flags = {"ISDIR", "ISSTATIC"}
         /\ \A i \in 1..(Size(d) - 1) :
              /\ SNS[d][i].crumb.flags = {"ISFILE", "ISSTATIC"}
              /\ STATICNS_CRUMB_PARENT_IDX(SNS[d][i].crumb) = 0
         /\ d = 1 => Size(d) = 5
         /\ d = 3 => SNS[d][1].name = "k70Uart"
         /\ d = 7 => /\ Size(d) = 4 /\ SNS[d][1].name = "date"
                     /\ SNS[d][2].name = "kprint" /\ SNS[d][3].name = "interrupts"
<1>1. ASSUME NEW n \in 1..10, NEW names, DOMAIN names = 1..n, Len(names) = n, NEW lengths,
             SNS[d] = Flat(names, lengths)
      PROVE  /\ IsTree(SNS[d], Size(d)) /\ Size(d) \in 2..11 /\ Size(d) = n + 1
             /\ SNS[d][0].crumb.flags = {"ISDIR", "ISSTATIC"}
             /\ \A i \in 1..(Size(d) - 1) :
                  /\ SNS[d][i].name = names[i] /\ SNS[d][i].crumb.flags = {"ISFILE", "ISSTATIC"}
                  /\ STATICNS_CRUMB_PARENT_IDX(SNS[d][i].crumb) = 0
  <2> DEFINE ns == Flat(names, lengths)
  <2>5. IsFlat(ns, n, names)
    <3>1. DOMAIN names = 1..n /\ Len(names) = n
      BY <1>1
    <3> QED BY <3>1, FlatIs
  <2>6. SNS[d] = ns
    BY <1>1
  <2> HIDE DEF ns
  <2>1. IsTree(SNS[d], n + 1)
    BY <2>5, <2>6 DEF IsFlat
  <2>2. n + 1 \in 2..11 /\ n + 1 \in Nat /\ (n + 1) - 1 = n
    OBVIOUS
  <2>3. Size(d) = n + 1
    BY <2>1, <2>2, SizeIs
  <2>4. /\ SNS[d][0].crumb.flags = {"ISDIR", "ISSTATIC"}
        /\ \A i \in 1..n :
             /\ SNS[d][i].name = names[i] /\ SNS[d][i].crumb.flags = {"ISFILE", "ISSTATIC"}
             /\ STATICNS_CRUMB_PARENT_IDX(SNS[d][i].crumb) = 0
    BY <2>5, <2>6 DEF IsFlat
  <2> QED BY <2>1, <2>2, <2>3, <2>4
<1>2. CASE d = 1
  <2> DEFINE names == <<"orange", "yellow", "green", "blue">>
  <2>1. DOMAIN names = 1..4 /\ Len(names) = 4 /\ 4 \in 1..10 /\ 4 + 1 = 5
    OBVIOUS
  <2>2. SNS[d] = Flat(names, <<0, 0, 0, 0>>)
    BY <1>2, SNSIs DEF ledSNS
  <2> HIDE DEF names
  <2> QED BY <1>1, <1>2, <2>1, <2>2
<1>3. CASE d = 2
  <2> DEFINE names == <<"1", "2", "1raw", "2raw">>
  <2>1. DOMAIN names = 1..4 /\ Len(names) = 4 /\ 4 \in 1..10
    OBVIOUS
  <2>2. SNS[d] = Flat(names, <<0, 0, 0, 0>>)
    BY <1>3, SNSIs DEF swpbSNS
  <2> HIDE DEF names
  <2> QED BY <1>1, <1>3, <2>1, <2>2
<1>4. CASE d = 3
  <2> DEFINE a == fmtSprintf("", "k70Uart_ctl")
             b == fmtSprintf("", "k70Uart_status")
             names == <<"k70Uart", a, b>>
  <2>2. SNS[d] = Flat(names, <<2, 0, 1>>)
    BY <1>4, SNSIs, Zenon DEF uartSNS
  <2> HIDE DEF a, b
  <2>1. DOMAIN names = 1..3 /\ Len(names) = 3 /\ 3 \in 1..10 /\ names[1] = "k70Uart" /\ 1 \in 1..3 /\ (3 + 1) - 1 = 3
    OBVIOUS
  <2> HIDE DEF names
  <2> QED BY <1>1, <1>4, <2>1, <2>2
<1>5. CASE d = 4
  <2> DEFINE names == <<"clear", "fg", "bg", "blit", "cons">>
             len == 480 * 272 * 4
  <2>2. SNS[d] = Flat(names, <<0, 0, 0, len, 0>>)
    BY <1>5, SNSIs, Zenon DEF lcdSNS
  <2> HIDE DEF len
  <2>1. DOMAIN names = 1..5 /\ Len(names) = 5 /\ 5 \in 1..10
    OBVIOUS
  <2> HIDE DEF names
  <2> QED BY <1>1, <1>5, <2>1, <2>2, SMTT(20)
<1>6. CASE d = 5
  <2> DEFINE names == <<"pot", "temp">>
  <2>1. DOMAIN names = 1..2 /\ Len(names) = 2 /\ 2 \in 1..10
    OBVIOUS
  <2>2. SNS[d] = Flat(names, <<0, 0>>)
    BY <1>6, SNSIs DEF adcSNS
  <2> HIDE DEF names
  <2> QED BY <1>1, <1>6, <2>1, <2>2
<1>7. CASE d = 6
  <2> DEFINE names == <<"k70Timer", "k70MilliTimer">>
  <2>1. DOMAIN names = 1..2 /\ Len(names) = 2 /\ 2 \in 1..10
    OBVIOUS
  <2>2. SNS[d] = Flat(names, <<8, 8>>)
    BY <1>7, SNSIs DEF timerSNS
  <2> HIDE DEF names
  <2> QED BY <1>1, <1>7, <2>1, <2>2
<1>8. CASE d = 7
  <2> DEFINE names == <<"date", "kprint", "interrupts">>
  <2>1. /\ DOMAIN names = 1..3 /\ Len(names) = 3 /\ 3 \in 1..10 /\ 3 + 1 = 4 /\ 4 - 1 = 3
        /\ names[1] = "date" /\ names[2] = "kprint" /\ names[3] = "interrupts"
        /\ 1 \in 1..3 /\ 2 \in 1..3 /\ 3 \in 1..3
    OBVIOUS
  <2>2. SNS[d] = Flat(names, <<0, 0, 0>>)
    BY <1>8, SNSIs DEF devdevSNS
  <2> HIDE DEF names
  <2> QED BY <1>1, <1>8, <2>1, <2>2
<1>9. d = 1 \/ d = 2 \/ d = 3 \/ d = 4 \/ d = 5 \/ d = 6 \/ d = 7
  OBVIOUS
<1> QED BY <1>2, <1>3, <1>4, <1>5, <1>6, <1>7, <1>8, <1>9

(* What the nodes of the devices are. *)
LEMMA NodesAre ==
  ASSUME NEW d \in 0..7
  PROVE  /\ IsTree(SNS[d], Size(d)) /\ Size(d) \in 2..22 /\ (d = 0 => Size(d) = 22)
         /\ \A i \in Nodes(d) :
              /\ STATICNS_CRUMB_SELF_IDX(SNS[d][i].crumb) = i
              /\ ISDIR(SNS[d][i].crumb) <=> i = 0 \/ (d = 0 /\ i <= 2)
              /\ ISMOUNT(SNS[d][i].crumb) <=> d = 0 /\ i >= 13
              /\ "ISFILE" \in SNS[d][i].crumb.flags => ~ISDIR(SNS[d][i].crumb)
              /\ d = 0 /\ i # 0 => STATICNS_CRUMB_PARENT_IDX(SNS[d][i].crumb) = RootParent(i)
              /\ d # 0 /\ i # 0 => STATICNS_CRUMB_PARENT_IDX(SNS[d][i].crumb) = 0
<1>1. CASE d = 0
  <2>1. SNS[d] = rootSNS /\ IsTree(SNS[d], 22) /\ Size(d) = 22
    BY <1>1, SNSIs, RootIs, SizeIs, 22 \in Nat
  <2>2. \A i \in 0..21 : STATICNS_CRUMB_SELF_IDX(SNS[d][i].crumb) = i
    <3>1. \A k \in 0..(22 - 1) : STATICNS_CRUMB_SELF_IDX(SNS[d][k].crumb) = k
      BY <2>1 DEF IsTree
    <3> QED BY <3>1
  <2>3. ASSUME NEW i \in 0..21
        PROVE  /\ ISDIR(SNS[d][i].crumb) <=> i <= 2
               /\ ISMOUNT(SNS[d][i].crumb) <=> i >= 13
               /\ "ISFILE" \in SNS[d][i].crumb.flags => ~ISDIR(SNS[d][i].crumb)
               /\ i # 0 => STATICNS_CRUMB_PARENT_IDX(SNS[d][i].crumb) = RootParent(i)
    <3>1. SNS[d][i].crumb.flags = RootFlags(i) \cup {"ISSTATIC"}
      BY <2>1, RootIs
    <3> QED BY <2>1, <3>1, RootIs DEF RootFlags, ISDIR, ISMOUNT
  <2>4. 0..(Size(d) - 1) = 0..21 /\ 22 \in 2..22
    BY <2>1
  <2> QED BY <1>1, <2>1, <2>2, <2>3, <2>4 DEF Nodes
<1>2. CASE d # 0
  <2>1. d \in 1..7
    BY <1>2
  <2>2. IsTree(SNS[d], Size(d)) /\ Size(d) \in 2..22 /\ Size(d) \in 2..11
    BY <2>1, FlatsAre
  <2>3. \A i \in Nodes(d) : STATICNS_CRUMB_SELF_IDX(SNS[d][i].crumb) = i
    BY <2>2 DEF IsTree, Nodes
  <2>4. ASSUME NEW i \in Nodes(d)
        PROVE  /\ ISDIR(SNS[d][i].crumb) <=> i = 0
               /\ ~ISMOUNT(SNS[d][i].crumb)
               /\ "ISFILE" \in SNS[d][i].crumb.flags => ~ISDIR(SNS[d][i].crumb)
               /\ i # 0 => STATICNS_CRUMB_PARENT_IDX(SNS[d][i].crumb) = 0
    <3>1. CASE i = 0
      <4>1. SNS[d][i].crumb.flags = {"ISDIR", "ISSTATIC"}
        BY <2>1, <3>1, FlatsAre
      <4> QED BY <3>1, <4>1 DEF ISDIR, ISMOUNT
    <3>2. CASE i # 0
      <4>1. i \in 1..(Size(d) - 1)
        BY <2>2, <3>2 DEF Nodes
      <4>2. /\ SNS[d][i].crumb.flags = {"ISFILE", "ISSTATIC"}
            /\ STATICNS_CRUMB_PARENT_IDX(SNS[d][i].crumb) = 0
        BY <2>1, <4>1, FlatsAre
      <4> QED BY <3>2, <4>2 DEF ISDIR, ISMOUNT
    <3> QED BY <3>1, <3>2
  <2> QED BY <1>2, <2>2, <2>3, <2>4
<1> QED BY <1>1, <1>2

(* The mount point of a device other than devdev. *)
MountOf(d) ==
  IF d = 1 THEN 14 ELSE IF d = 2 THEN 13 ELSE IF d = 3 THEN 15 ELSE IF d = 4 THEN 16
  ELSE IF d = 5 THEN 17 ELSE 18

(* The first mount point of a device, by which nameOf names it. *)
LEMMA MountsAre ==
  ASSUME NEW d \in 1..6
  PROVE  Min({m \in DOMAIN rootSNS : ISMOUNT(rootSNS[m].crumb) /\ rootSNS[m].length = deviceTable[d]}) = MountOf(d)
<1> DEFINE M == {m \in DOMAIN rootSNS : ISMOUNT(rootSNS[m].crumb) /\ rootSNS[m].length = deviceTable[d]}
<1>1. DOMAIN rootSNS = 0..22 /\ SNS[0] = rootSNS
  BY RootIs, SNSIs DEF IsTree
<1>2. ~ISMOUNT(rootSNS[22].crumb)
  <2>1. SelfIdxs - 1 \in 0..(SelfIdxs - 1) /\ STATICNS_SENTINEL = SelfIdxs - 1
    BY WidthsAre DEF STATICNS_SENTINEL
  <2>2. rootSNS[22].crumb = MKSTATICNS_CRUMB(STATICNS_SENTINEL, STATICNS_SENTINEL, {})
    <3>1. Len(rootEntries) = 22
      BY RootEntriesAre
    <3> DEFINE e == Entry(NoName, MKSTATICNS_SENTINEL_CRUMB, 0, NoContents)
    <3>2. e.crumb = MKSTATICNS_CRUMB(STATICNS_SENTINEL, STATICNS_SENTINEL, {})
      BY Zenon DEF MKSTATICNS_SENTINEL_CRUMB, Entry
    <3>3. rootSNS = [i \in 0..Len(rootEntries) |-> IF i < Len(rootEntries) THEN rootEntries[i + 1] ELSE e]
      BY Zenon DEF rootSNS, StaticTable
    <3> HIDE DEF e
    <3>4. rootSNS[22] = e
      BY <3>1, <3>3
    <3> QED BY <3>2, <3>4
  <2>3. rootSNS[22].crumb.flags = {} \cup {"ISSTATIC"}
    BY <2>1, <2>2, CrumbIs
  <2> QED BY <2>3 DEF ISMOUNT
<1>3. \A m \in 0..21 : ISMOUNT(rootSNS[m].crumb) <=> m >= 13
  BY <1>1, NodesAre, 0 \in 0..7, 22 - 1 = 21 DEF Nodes
<1>4. ASSUME NEW m \in 13..21 PROVE rootSNS[m].length = deviceTable[d] <=> m = MountOf(d)
  <2>1. rootSNS[m].length = deviceTable[MountedOn(m)]
    <3>1. m \in 0..21 /\ m + 1 \in 14..22 /\ m + 1 \in 1..22 /\ (m + 1) - 1 = m
      OBVIOUS
    <3> QED BY <3>1, RootIs, RootEntriesAre
  <2>2. MountedOn(m) \in 0..7 /\ (MountedOn(m) = d <=> m = MountOf(d))
    BY DEF MountedOn, MountOf
  <2>3. d \in 0..7
    OBVIOUS
  <2> QED BY <2>1, <2>2, <2>3, FromDeviceIdIs
<1>5. MountOf(d) \in 13..21
  BY DEF MountOf
<1>6. M = {MountOf(d)}
  <2>1. \A m \in 0..22 : m \in 0..21 \/ m = 22
    OBVIOUS
  <2>2. \A m \in 0..21 : m >= 13 => m \in 13..21
    OBVIOUS
  <2>3. \A m \in 13..21 : m \in 0..21 /\ m \in 0..22 /\ m >= 13
    OBVIOUS
  <2> QED BY <1>1, <1>2, <1>3, <1>4, <1>5, <2>1, <2>2, <2>3
<1>7. Min({MountOf(d)}) = MountOf(d)
  BY <1>5, MinIs, {MountOf(d)} \in SUBSET Nat
<1> QED BY <1>6, <1>7

(* A sequence of two. *)
LEMMA PairIs ==
  ASSUME NEW a, NEW b
  PROVE  Append(<<a>>, b) = <<a, b>> /\ Len(<<a, b>>) = 2
<1> DEFINE s == <<a>>
           t == <<a, b>>
<1>1. s \in Seq({a, b}) /\ Len(s) = 1 /\ s[1] = a
  OBVIOUS
<1>2. t \in Seq({a, b}) /\ Len(t) = 2 /\ t[1] = a /\ t[2] = b
  OBVIOUS
<1> HIDE DEF s, t
<1>3. /\ Append(s, b) \in Seq({a, b}) /\ Len(Append(s, b)) = 2
      /\ Append(s, b)[1] = a /\ Append(s, b)[2] = b
  <2> DEFINE S == {a, b}
  <2>1. s \in Seq(S) /\ b \in S /\ Len(s) = 1 /\ s[1] = a
    BY <1>1
  <2> HIDE DEF S
  <2>2. /\ Append(s, b) \in Seq(S) /\ Len(Append(s, b)) = Len(s) + 1
        /\ (\A i \in 1..Len(s) : Append(s, b)[i] = s[i]) /\ Append(s, b)[Len(s) + 1] = b
    <3>1. s \in Seq(S) /\ b \in S
      BY <2>1
    <3>2. Append(s, b) \in Seq(S) /\ Len(Append(s, b)) = Len(s) + 1
      BY <3>1, AppendProperties
    <3>3. \A i \in 1..Len(s) : Append(s, b)[i] = s[i]
      BY <3>1, AppendProperties
    <3>4. Append(s, b)[Len(s) + 1] = b
      BY <3>1, AppendProperties
    <3> QED BY <3>2, <3>3, <3>4
  <2>3. 1 \in 1..1 /\ 1 + 1 = 2
    OBVIOUS
  <2> QED BY <2>1, <2>2, <2>3 DEF S
<1>4. \A i \in 1..2 : Append(s, b)[i] = t[i]
  <2>1. \A i \in 1..2 : i = 1 \/ i = 2
    OBVIOUS
  <2> QED BY <1>2, <1>3, <2>1
<1>5. Append(s, b) = t
  BY <1>2, <1>3, <1>4, SeqEqual
<1> QED BY <1>2, <1>5 DEF s, t

(* The names of the nodes. *)
LEMMA NamesAre ==
  ASSUME NEW d \in 0..7, NEW i \in Nodes(d)
  PROVE  LET up == STATICNS_CRUMB_PARENT_IDX(SNS[d][i].crumb)
         IN  nameOf(Portal(d, i)) =
               IF d = 0 /\ i = 0 THEN <<>>
               ELSE IF d = 0 /\ i <= 2 THEN <<SNS[0][i].name>>
               ELSE IF d = 0 THEN Append(<<SNS[0][up].name>>, SNS[0][i].name)
               ELSE IF d = 7 /\ i = 0 THEN <<"dev">>
               ELSE IF d = 7 THEN Append(<<"dev">>, SNS[7][i].name)
               ELSE IF i = 0 THEN <<"dev", SNS[0][MountOf(d)].name>>
               ELSE Append(<<"dev", SNS[0][MountOf(d)].name>>, SNS[d][i].name)
<1> DEFINE up == STATICNS_CRUMB_PARENT_IDX(SNS[d][i].crumb)
           p == Portal(d, i)
<1>1. p.device = d /\ p.crumb = SNS[d][i].crumb
  BY DEF Portal
<1>2. SNS[0] = rootSNS
  BY SNSIs
<1>3. STATICNS_CRUMB_SELF_IDX(p.crumb) = i /\ (d = 0 /\ i # 0 => up = RootParent(i)) /\ i \in Nat
  BY <1>1, NodesAre DEF Nodes
<1> HIDE DEF p
<1>4. ASSUME NEW a, NEW b PROVE /\ <<>> \o <<>> = <<>> /\ <<>> \o <<a>> = <<a>> /\ <<a>> \o <<>> = <<a>>
                                /\ <<a>> \o <<b>> = Append(<<a>>, b)
  OBVIOUS
<1>5. ASSUME NEW a, NEW b, NEW c PROVE <<a, b>> \o <<>> = <<a, b>> /\ <<a, b>> \o <<c>> = Append(<<a, b>>, c)
  OBVIOUS
<1> DEFINE last == IF i = 0 THEN <<>> ELSE <<SNS[d][i].name>>
<1>6. CASE d = 0
  <2>1. nameOf(p) = (IF i = 0 \/ up = 0 THEN <<>> ELSE <<rootSNS[up].name>>) \o last
    <3>1. STATICNS_CRUMB_PARENT_IDX(p.crumb) = up /\ p.device = 0 /\ STATICNS_CRUMB_SELF_IDX(p.crumb) = i
      BY <1>1, <1>3, <1>6
    <3> HIDE DEF up
    <3>2. nameOf(p) = (IF i = 0 \/ up = 0 THEN <<>> ELSE <<rootSNS[up].name>>)
                        \o (IF i = 0 THEN <<>> ELSE <<SNS[p.device][i].name>>)
      BY <3>1, DevicesAre DEF nameOf
    <3> QED BY <1>1, <3>2
  <2>2. (i # 0 /\ i <= 2 => up = 0) /\ (~ (i <= 2) => up # 0)
    BY <1>3, <1>6 DEF RootParent
  <2> HIDE DEF up
  <2>3. CASE i = 0
    <3>1. nameOf(p) = <<>> \o <<>>
      BY <2>1, <2>3
    <3> QED BY <1>4, <1>6, <2>3, <3>1 DEF p
  <2>4. CASE i # 0 /\ i <= 2
    <3>1. nameOf(p) = <<>> \o <<SNS[d][i].name>>
      BY <2>1, <2>2, <2>4
    <3> QED BY <1>4, <1>6, <2>4, <3>1 DEF p
  <2>5. CASE ~(i <= 2)
    <3>1. i # 0 /\ up # 0
      BY <1>3, <2>2, <2>5
    <3>2. nameOf(p) = <<rootSNS[up].name>> \o <<SNS[d][i].name>>
      BY <2>1, <3>1
    <3>3. nameOf(p) = Append(<<rootSNS[up].name>>, SNS[d][i].name)
      BY <1>4, <3>2
    <3> QED BY <1>2, <1>6, <2>5, <3>1, <3>3 DEF p, up
  <2> QED BY <1>3, <2>3, <2>4, <2>5
<1>7. CASE d = 7
  <2>1. deviceTable[p.device] = "DEVDEV" /\ p.device # 0
    BY <1>1, <1>7, DevicesAre
  <2>2. nameOf(p) = <<"dev">> \o last
    BY <1>1, <1>3, <2>1 DEF nameOf
  <2>3. CASE i = 0
    <3>1. nameOf(p) = <<"dev">>
      BY <1>4, <2>2, <2>3
    <3> QED BY <1>7, <2>3, <3>1 DEF p
  <2>4. CASE i # 0
    <3>1. nameOf(p) = Append(<<"dev">>, SNS[d][i].name)
      BY <1>4, <2>2, <2>4
    <3> QED BY <1>7, <2>4, <3>1 DEF p
  <2> QED BY <2>3, <2>4
<1>8. CASE d \notin {0, 7}
  <2>1. deviceTable[p.device] # "DEVDEV" /\ p.device # 0 /\ d \in 1..6
    BY <1>1, <1>8, FromDeviceIdIs
  <2>2. nameOf(p) = <<"dev", rootSNS[MountOf(d)].name>> \o last
    <3> DEFINE M == {m \in DOMAIN rootSNS : ISMOUNT(rootSNS[m].crumb) /\ rootSNS[m].length = deviceTable[p.device]}
    <3>1. Min(M) = MountOf(d)
      BY <1>1, <2>1, MountsAre
    <3>2. nameOf(p) = <<"dev", rootSNS[Min(M)].name>> \o last
      BY <1>1, <1>3, <2>1 DEF nameOf
    <3> HIDE DEF M, last
    <3> QED BY <3>1, <3>2
  <2>3. CASE i = 0
    <3>1. nameOf(p) = <<"dev", rootSNS[MountOf(d)].name>>
      BY <1>5, <2>2, <2>3
    <3> QED BY <1>2, <1>8, <2>3, <3>1 DEF p
  <2>4. CASE i # 0
    <3>1. nameOf(p) = Append(<<"dev", rootSNS[MountOf(d)].name>>, SNS[d][i].name)
      BY <1>5, <2>2, <2>4
    <3> QED BY <1>2, <1>8, <2>4, <3>1 DEF p
  <2> QED BY <2>3, <2>4
<1> QED BY <1>6, <1>7, <1>8

(* One element of a path changes a node's name the way it changes a path. *)
LEMMA StepNameIs ==
  ASSUME NEW d \in 0..6, NEW a \in Nodes(d), ISDIR(SNS[d][a].crumb), NEW x,
         NEW b \in Nodes(d), b = stepTo(SNS[d], SNS[d][a].crumb, x)
  PROVE  /\ (x = ".." => Len(nameOf(Portal(d, a))) < 2) =>
              nameOf(Portal(d, b)) = down(nameOf(Portal(d, a)), x)
         /\ x \in {".", ".."} => ISDIR(SNS[d][b].crumb)
<1> DEFINE A == nameOf(Portal(d, a))
           B == nameOf(Portal(d, b))
<1>1. d \in 0..7 /\ d # 7 /\ IsTree(SNS[d], Size(d)) /\ Size(d) \in Nat
  BY NodesAre
<1>2. a = 0 \/ (d = 0 /\ a \in {1, 2})
  BY <1>1, NodesAre DEF Nodes
<1>3. /\ d = 0 /\ a = 0 => A = <<>>
      /\ d = 0 /\ a # 0 => A = <<SNS[0][a].name>>
      /\ d # 0 => A = <<"dev", SNS[0][MountOf(d)].name>>
  <2>1. CASE d = 0 /\ a = 0
    BY <1>1, <2>1, NamesAre
  <2>2. CASE d = 0 /\ a # 0
    <3>1. a <= 2
      BY <1>2, <2>2
    <3>2. A = <<SNS[0][a].name>>
      BY <1>1, <2>2, <3>1, NamesAre
    <3> HIDE DEF A
    <3> QED BY <2>2, <3>2
  <2>3. CASE d # 0
    <3>1. a = 0
      BY <1>2, <2>3
    <3>2. A = <<"dev", SNS[0][MountOf(d)].name>>
      BY <1>1, <2>3, <3>1, NamesAre
    <3> HIDE DEF A
    <3> QED BY <2>3, <3>2
  <2> QED BY <2>1, <2>2, <2>3
<1>4. b \notin {ENOENT, PastEnd} /\ a \in 0..(Size(d) - 1) /\ b \in 0..(Size(d) - 1)
  BY <1>1 DEF Nodes, ENOENT, PastEnd
<1>5. CASE x = "."
  <2>1. b = a
    BY <1>1, <1>4, <1>5, StepIs
  <2>2. down(A, x) = A
    BY <1>5 DEF down
  <2> QED BY <1>5, <2>1, <2>2
<1>6. CASE x = ".."
  <2>1. b = IF a = 0 THEN 0 ELSE STATICNS_CRUMB_PARENT_IDX(SNS[d][a].crumb)
    BY <1>1, <1>4, <1>6, StepIs
  <2>2. a # 0 => STATICNS_CRUMB_PARENT_IDX(SNS[d][a].crumb) = 0
    <3>1. a # 0 => d = 0 /\ RootParent(a) = 0
      BY <1>2 DEF RootParent
    <3> QED BY <1>1, <3>1, NodesAre
  <2>3. b = 0 /\ ISDIR(SNS[d][b].crumb)
    BY <1>1, <2>1, <2>2, NodesAre
  <2>4. ASSUME Len(A) < 2 PROVE B = down(A, x)
    <3>1. d = 0
      <4>1. d # 0 => Len(A) = 2
        BY <1>3, PairIs
      <4>2. ~ (2 < 2)
        OBVIOUS
      <4> HIDE DEF A
      <4> QED BY <2>4, <4>1, <4>2, Zenon
    <3>2. B = <<>>
      BY <1>1, <2>3, <3>1, NamesAre
    <3>3. down(A, x) = IF A = <<>> THEN A ELSE Front(A)
      BY <1>6 DEF down
    <3>4. ASSUME NEW y PROVE Front(<<y>>) = <<>>
      BY DEF Front
    <3> HIDE DEF A, B
    <3> QED BY <1>3, <3>1, <3>2, <3>3, <3>4
  <2> QED BY <1>6, <2>3, <2>4
<1>7. CASE x \notin {".", ".."}
  <2>1. b \in Kids(SNS[d], Size(d), a) /\ SNS[d][b].name = x
    BY <1>1, <1>4, <1>7, StepIs
  <2>2. b \in 1..(Size(d) - 1) /\ b # 0 /\ STATICNS_CRUMB_PARENT_IDX(SNS[d][b].crumb) = a
    BY <1>1, <2>1 DEF Kids
  <2>3. down(A, x) = Append(A, x)
    BY <1>7 DEF down
  <2>4. CASE d # 0
    <3>1. a = 0
      BY <1>2, <2>4
    <3>2. B = Append(<<"dev", SNS[0][MountOf(d)].name>>, SNS[d][b].name)
      BY <1>1, <2>2, <2>4, NamesAre
    <3> HIDE DEF A, B
    <3>3. B = down(A, x)
      BY <1>3, <2>1, <2>3, <2>4, <3>2
    <3> QED BY <1>7, <3>3 DEF A, B
  <2>5. CASE d = 0
    <3>1. RootParent(b) = a
      BY <1>1, <2>2, <2>5, NodesAre
    <3>2. (a = 0 => b <= 2) /\ (a # 0 => ~(b <= 2))
      BY <1>4, <2>2, <3>1 DEF RootParent
    <3>3. B = IF a = 0 THEN <<x>> ELSE Append(<<SNS[0][a].name>>, x)
      <4>1. CASE a = 0
        <5>1. B = <<SNS[0][b].name>>
          BY <1>1, <2>2, <2>5, <3>2, <4>1, NamesAre
        <5> HIDE DEF B
        <5> QED BY <2>1, <2>5, <4>1, <5>1
      <4>2. CASE a # 0
        <5>1. B = Append(<<SNS[0][a].name>>, SNS[0][b].name)
          BY <1>1, <2>2, <2>5, <3>2, <4>2, NamesAre
        <5> HIDE DEF B
        <5> QED BY <2>1, <2>5, <4>2, <5>1
      <4> QED BY <4>1, <4>2
    <3>4. <<x>> = Append(<<>>, x)
      OBVIOUS
    <3> HIDE DEF A, B
    <3>5. B = down(A, x)
      BY <1>3, <2>3, <2>5, <3>3, <3>4
    <3> QED BY <1>7, <3>5 DEF A, B
  <2> QED BY <2>4, <2>5
<1> QED BY <1>5, <1>6, <1>7

(* A mount point leads to a place that has the mount point's name. *)
LEMMA AttachIs ==
  ASSUME NEW m \in 13..21
  PROVE  LET e == SNS[0][m]
             p == attach(fromDeviceId(e.length), e.contents)
         IN  p \in Portals /\ nameOf(p) = nameOf(Portal(0, m))
<1> DEFINE e == SNS[0][m]
           d == MountedOn(m)
<1>1. d \in 1..7 /\ d \in 0..7 /\ (d = 7 <=> m >= 19)
  BY DEF MountedOn
<1>2. /\ e = rootEntries[m + 1] /\ e.length = deviceTable[d] /\ (m >= 19 => e.contents = e.name)
      /\ m = 19 => e.name = "date"
      /\ m = 20 => e.name = "kprint"
      /\ m = 21 => e.name = "interrupts"
  <2>1. m \in 0..21 /\ m + 1 \in 14..22 /\ m + 1 \in 1..22 /\ (m + 1) - 1 = m /\ (m >= 19 => m + 1 \in 20..22)
    OBVIOUS
  <2>2. SNS[0][m] = rootEntries[m + 1]
    BY <2>1, SNSIs, RootIs
  <2> QED BY <2>1, <2>2, RootEntriesAre
<1>3. fromDeviceId(e.length) = d
  BY <1>1, <1>2, FromDeviceIdIs
<1>4. nameOf(Portal(0, m)) = Append(<<"dev">>, e.name)
  <2>1. m \in Nodes(0) /\ ~(m <= 2) /\ m # 0 /\ 0 \in 0..7
    BY NodesAre, 0 \in 0..7 DEF Nodes
  <2>2. STATICNS_CRUMB_PARENT_IDX(SNS[0][m].crumb) = 2
    BY <2>1, NodesAre DEF RootParent
  <2>3. SNS[0][2].name = "dev"
    BY SNSIs, RootIs, RootEntriesAre, 2 \in 0..21, 2 + 1 = 3
  <2> QED BY <2>1, <2>2, <2>3, NamesAre
<1> DEFINE named == {i \in DOMAIN SNS[d] : i # 0 /\ SNS[d][i].name = e.contents}
           at == IF deviceTable[d] = "DEVDEV" /\ e.contents # NoContents /\ named # {}
                 THEN Min(named) ELSE 0
           p == attach(fromDeviceId(e.length), e.contents)
<1>5. p = Portal(d, at)
  BY <1>3 DEF attach, Portal
<1>6. CASE d # 7
  <2>1. at = 0
    BY <1>1, <1>6, FromDeviceIdIs
  <2>2. 0 \in Nodes(d) /\ 0 \in 0..21 /\ d # 0 /\ d \in 1..6
    BY <1>1, <1>6, NodesAre DEF Nodes
  <2>3. <<d, 0>> \in Places
    BY <1>1, <1>6, <2>2 DEF Places
  <2>4. p = Portal(<<d, 0>>[1], <<d, 0>>[2])
    BY <1>5, <2>1
  <2>5. p \in Portals
    BY <2>3, <2>4 DEF Portals
  <2>6. nameOf(p) = <<"dev", SNS[0][MountOf(d)].name>>
    BY <1>1, <1>5, <1>6, <2>1, <2>2, NamesAre
  <2>7. MountOf(d) = m
    BY <1>1, <1>6 DEF MountedOn, MountOf
  <2>8. ASSUME NEW y PROVE Append(<<"dev">>, y) = <<"dev", y>>
    BY PairIs
  <2> QED BY <1>4, <2>5, <2>6, <2>7, <2>8
<1>7. CASE d = 7
  <2>1. m >= 19 /\ e.contents = e.name /\ m \in {19, 20, 21}
    BY <1>1, <1>2, <1>7
  <2>2. e.contents # NoContents
    <3>1. "date" # "" /\ "kprint" # "" /\ "interrupts" # ""
      BY Zenon
    <3>2. "date" # NoContents /\ "kprint" # NoContents /\ "interrupts" # NoContents
      BY <3>1, Zenon DEF NoContents
    <3> QED BY <1>2, <2>1, <3>2
  <2>3. DOMAIN SNS[d] = 0..4 /\ SNS[d][1].name = "date" /\ SNS[d][2].name = "kprint" /\ SNS[d][3].name = "interrupts"
        /\ Size(d) = 4
    BY <1>1, <1>7, FlatsAre DEF IsTree
  <2>4. \E i \in 1..3 : SNS[d][i].name = e.contents
    BY <1>2, <2>1, <2>3
  <2>5. named \in SUBSET Nat /\ named # {}
    BY <2>3, <2>4
  <2>6. at = Min(named) /\ at \in named
    BY <1>7, <2>2, <2>5, MinIs, DevicesAre
  <2>7. ASSUME at = 4 PROVE FALSE
    <3>1. PICK i \in 1..3 : SNS[d][i].name = e.contents
      BY <2>4
    <3>2. i \in named
      BY <2>3, <3>1
    <3>3. Min(named) <= i
      BY <2>5, <3>2, MinIs
    <3> HIDE DEF named, at
    <3> QED BY <2>6, <2>7, <3>1, <3>3
  <2>8. at \in 1..3 /\ SNS[d][at].name = e.name
    <3> HIDE DEF at
    <3> QED BY <2>1, <2>3, <2>6, <2>7
  <2> HIDE DEF at, named
  <2>9. at \in Nodes(d) /\ at # 0 /\ at \in 0..21
    BY <2>3, <2>8 DEF Nodes
  <2>10. <<d, at>> \in Places
    BY <1>1, <1>7, <2>9 DEF Places
  <2>11. p = Portal(<<d, at>>[1], <<d, at>>[2])
    BY <1>5
  <2>12. p \in Portals
    BY <2>10, <2>11 DEF Portals
  <2>13. nameOf(p) = Append(<<"dev">>, SNS[7][at].name)
    BY <1>1, <1>5, <1>7, <2>9, NamesAre
  <2> QED BY <1>4, <1>7, <2>8, <2>12, <2>13
<1> QED BY <1>6, <1>7
-----------------------------------------------------------------------------
(* The parts of paths: the strings, and those of the model's own paths, which
   the provers do not know to be strings. *)
Names == STRING \cup {"bin", "dev", "uart", "k70Uart"}

(* The names of a path's first parts, from a start. *)
IsNaming(U, start, elems) ==
  /\ U \in [0..Len(elems) -> Seq(Names)] /\ U[0] = start
  /\ \A k \in 1..Len(elems) : U[k] = down(U[k - 1], elems[k])

(* No ".." of the elements is reached more than one level below the root. *)
DotsStay(U, elems) == \A k \in 1..Len(elems) : elems[k] = ".." => Len(U[k - 1]) < 2

(* A walk across devices that has c elements of its path behind it. *)
Walking(w, U, elems, c) ==
  /\ w \in [portal : Portals, elems : Seq(Names), live : {1}, end : {"walking", "walked", "NULL"}]
  /\ c \in 0..Len(elems) /\ w.elems = SubSeq(elems, c + 1, Len(elems))
  /\ DotsStay(U, elems) => nameOf(w.portal) = U[c]
  /\ c # 0 /\ elems[c] \in {".", ".."} => ISDIR(w.portal.crumb)

(* What a place is, taken apart. *)
LEMMA PlaceIs ==
  ASSUME NEW p \in Portals
  PROVE  \E d \in 0..7 : \E i \in Nodes(d) :
           p = Portal(d, i) /\ (d = 0 => i <= 12) /\ (d = 7 => i # 0)
<1>1. PICK x \in Places : p = Portal(x[1], x[2])
  BY DEF Portals
<1> QED BY <1>1 DEF Places

(* What a place is, put together. *)
LEMMA PlaceIn ==
  ASSUME NEW d \in 0..7, NEW i \in Nodes(d), d = 0 => i <= 12, d = 7 => i # 0
  PROVE  Portal(d, i) \in Portals
<1>1. i \in 0..21
  BY NodesAre DEF Nodes
<1>2. <<d, i>> \in Places
  BY <1>1 DEF Places
<1>3. Portal(d, i) = Portal(<<d, i>>[1], <<d, i>>[2])
  OBVIOUS
<1> QED BY <1>2, <1>3 DEF Portals

(* The names along the trail of a walk in one device. *)
LEMMA TrailNames ==
  ASSUME NEW d \in 0..6, NEW i \in Nodes(d), NEW elems \in Seq(Names), NEW c \in 0..Len(elems),
         NEW U, IsNaming(U, U[0], elems), DotsStay(U, elems), nameOf(Portal(d, i)) = U[c],
         NEW m \in 0..(Len(elems) - c), NEW at \in [0..m -> Nodes(d)],
         IsTrail(SNS[d], i, SubSeq(elems, c + 1, Len(elems)), at, m)
  PROVE  nameOf(Portal(d, at[m])) = U[c + m]
<1> DEFINE path == SubSeq(elems, c + 1, Len(elems))
           S == {j \in Nat : j <= m => nameOf(Portal(d, at[j])) = U[c + j]}
<1>1. c \in Nat /\ m \in Nat /\ Len(elems) \in Nat /\ c + m <= Len(elems)
  OBVIOUS
<1>2. 0 \in S
  <2>1. at[0] = i /\ c + 0 = c
    BY <1>1 DEF IsTrail
  <2> QED BY <2>1
<1>3. ASSUME NEW j \in Nat, j \in S PROVE j + 1 \in S
  <2> SUFFICES ASSUME j + 1 <= m PROVE nameOf(Portal(d, at[j + 1])) = U[c + (j + 1)]
    OBVIOUS
  <2>1. /\ j + 1 \in 1..m /\ (j + 1) - 1 = j /\ j \in 0..m /\ j + 1 \in 0..m /\ j <= m
        /\ c + (j + 1) \in 1..Len(elems) /\ (c + (j + 1)) - 1 = c + j
    BY <1>1
  <2>2. nameOf(Portal(d, at[j])) = U[c + j]
    BY <1>3, <2>1
  <2>3. path[j + 1] = elems[c + (j + 1)]
    <3>1. \A k \in (c + 1)..Len(elems) : elems[k] \in Names
      BY <1>1
    <3>2. \A k \in 1..(Len(elems) - (c + 1) + 1) : path[k] = elems[(c + 1) + k - 1]
      BY <1>1, <3>1, SubSeqProperties
    <3>3. j + 1 \in 1..(Len(elems) - (c + 1) + 1) /\ (c + 1) + (j + 1) - 1 = c + (j + 1)
      BY <1>1, <2>1
    <3> HIDE DEF path
    <3> QED BY <3>2, <3>3
  <2>4. at[j] \in Nodes(d) /\ at[j + 1] \in Nodes(d)
    BY <2>1
  <2>5. ISDIR(SNS[d][at[j]].crumb) /\ at[j + 1] = stepTo(SNS[d], SNS[d][at[j]].crumb, path[j + 1])
    BY <2>1 DEF IsTrail
  <2> DEFINE x == path[j + 1]
  <2>6. x = ".." => Len(nameOf(Portal(d, at[j]))) < 2
    BY <2>1, <2>2, <2>3 DEF DotsStay
  <2> HIDE DEF path, x
  <2>7. nameOf(Portal(d, at[j + 1])) = down(nameOf(Portal(d, at[j])), x)
    BY <2>4, <2>5, <2>6, StepNameIs DEF x
  <2>8. U[c + (j + 1)] = down(U[c + j], elems[c + (j + 1)])
    BY <2>1 DEF IsNaming
  <2> QED BY <2>2, <2>3, <2>7, <2>8 DEF x
<1>4. Nat \subseteq S
  <2> HIDE DEF S
  <2> QED BY <1>2, <1>3, NatSetInduction
<1> QED BY <1>1, <1>4

(* The rest of a rest. *)
LEMMA SubSeqSubSeq ==
  ASSUME NEW X, NEW elems \in Seq(X), NEW c \in 0..Len(elems), NEW m \in 0..(Len(elems) - c)
  PROVE  LET path == SubSeq(elems, c + 1, Len(elems))
         IN  /\ path \in Seq(X) /\ Len(path) = Len(elems) - c
             /\ SubSeq(path, m + 1, Len(path)) = SubSeq(elems, (c + m) + 1, Len(elems))
             /\ SubSeq(path, m + 1, Len(path)) \in Seq(X)
             /\ \A j \in 1..(Len(elems) - c) : path[j] = elems[c + j]
             /\ path = <<>> <=> c = Len(elems)
<1> DEFINE path == SubSeq(elems, c + 1, Len(elems))
           n == Len(elems)
<1>1. n \in Nat /\ c \in Nat /\ m \in Nat /\ c + m <= n
  OBVIOUS
<1>2. /\ path \in Seq(X) /\ Len(path) = n - c
      /\ \A j \in 1..(n - c) : path[j] = elems[c + j]
  <2>1. \A j \in (c + 1)..n : elems[j] \in X
    BY <1>1
  <2>2. /\ path \in Seq(X) /\ Len(path) = (IF c + 1 <= n THEN n - (c + 1) + 1 ELSE 0)
        /\ \A j \in 1..(n - (c + 1) + 1) : path[j] = elems[(c + 1) + j - 1]
    BY <1>1, <2>1, SubSeqProperties, SMTT(20)
  <2> HIDE DEF path
  <2> HIDE DEF n
  <2>3. \A j \in 1..(n - c) : j \in 1..(n - (c + 1) + 1) /\ (c + 1) + j - 1 = c + j
    BY <1>1
  <2>4. (IF c + 1 <= n THEN n - (c + 1) + 1 ELSE 0) = n - c
    BY <1>1
  <2> QED BY <2>2, <2>3, <2>4
<1> HIDE DEF path
<1> DEFINE s == SubSeq(path, m + 1, Len(path))
           t == SubSeq(elems, (c + m) + 1, n)
<1>3. /\ s \in Seq(X) /\ Len(s) = (n - c) - m
      /\ \A j \in 1..((n - c) - m) : s[j] = path[m + j]
  <2>1. \A j \in (m + 1)..(n - c) : path[j] \in X
    BY <1>1, <1>2
  <2>2. /\ s \in Seq(X) /\ Len(s) = (IF m + 1 <= n - c THEN (n - c) - (m + 1) + 1 ELSE 0)
        /\ \A j \in 1..((n - c) - (m + 1) + 1) : s[j] = path[(m + 1) + j - 1]
    BY <1>1, <1>2, <2>1, SubSeqProperties
  <2> HIDE DEF s
  <2> HIDE DEF n
  <2>3. \A j \in 1..((n - c) - m) : j \in 1..((n - c) - (m + 1) + 1) /\ (m + 1) + j - 1 = m + j
    BY <1>1
  <2>4. (IF m + 1 <= n - c THEN (n - c) - (m + 1) + 1 ELSE 0) = (n - c) - m
    BY <1>1
  <2> QED BY <2>2, <2>3, <2>4
<1>4. /\ t \in Seq(X) /\ Len(t) = (n - c) - m
      /\ \A j \in 1..((n - c) - m) : t[j] = elems[c + (m + j)]
  <2>1. \A j \in ((c + m) + 1)..n : elems[j] \in X
    BY <1>1
  <2>2. /\ t \in Seq(X) /\ Len(t) = (IF (c + m) + 1 <= n THEN n - ((c + m) + 1) + 1 ELSE 0)
        /\ \A j \in 1..(n - ((c + m) + 1) + 1) : t[j] = elems[((c + m) + 1) + j - 1]
    BY <1>1, <2>1, SubSeqProperties
  <2> HIDE DEF t
  <2> HIDE DEF n
  <2>3. \A j \in 1..((n - c) - m) : j \in 1..(n - ((c + m) + 1) + 1) /\ ((c + m) + 1) + j - 1 = c + (m + j)
    BY <1>1
  <2>4. (IF (c + m) + 1 <= n THEN n - ((c + m) + 1) + 1 ELSE 0) = (n - c) - m
    BY <1>1
  <2> QED BY <2>2, <2>3, <2>4
<1> HIDE DEF s, t
<1>5. s = t
  <2>1. \A j \in 1..Len(s) : m + j \in 1..(n - c) /\ j \in 1..((n - c) - m)
    BY <1>1, <1>3
  <2>2. \A j \in 1..Len(s) : s[j] = t[j]
    BY <1>2, <1>3, <1>4, <2>1
  <2> QED BY <1>3, <1>4, <2>2, SeqEqual
<1>6. path = <<>> <=> c = n
  BY <1>1, <1>2, EmptySeq
<1> QED BY <1>2, <1>3, <1>5, <1>6 DEF path, s, t

(* What one turn of syswalk's loop does. *)
LEMMA WalkDeviceIs ==
  ASSUME NEW elems \in Seq(Names), NEW U, IsNaming(U, U[0], elems),
         NEW w, NEW c, Walking(w, U, elems, c)
  PROVE  \E b : Walking(walkDevice(w), U, elems, b)
<1>1. CASE w.end # "walking" \/ w.elems = <<>>
  <2>1. walkDevice(w) = w
    BY <1>1 DEF walkDevice
  <2> QED BY <2>1
<1>2. CASE ~(w.end # "walking" \/ w.elems = <<>>) /\ ~ISDIR(w.portal.crumb)
  <2>1. walkDevice(w) = [w EXCEPT !.end = "NULL"]
    BY <1>2 DEF walkDevice
  <2>2. Walking([w EXCEPT !.end = "NULL"], U, elems, c)
    BY DEF Walking
  <2> QED BY <2>1, <2>2
<1>3. CASE ~(w.end # "walking" \/ w.elems = <<>>) /\ ISDIR(w.portal.crumb)
  <2>1. PICK d \in 0..7 : \E i \in Nodes(d) :
          w.portal = Portal(d, i) /\ (d = 0 => i <= 12) /\ (d = 7 => i # 0)
    BY PlaceIs DEF Walking
  <2>2. PICK i \in Nodes(d) : w.portal = Portal(d, i) /\ (d = 0 => i <= 12) /\ (d = 7 => i # 0)
    BY <2>1
  <2> DEFINE ns == SNS[d]
             path == w.elems
             t == genericWalk(ns, ns[i].crumb, path).trail
  <2>3. w.portal.device = d /\ w.portal.crumb = ns[i].crumb
    BY <2>2 DEF Portal
  <2>4. walkDevice(w) = followTrail(w, t)
    BY <1>3, <2>3 DEF walkDevice
  <2>5. IsTree(ns, Size(d)) /\ i \in 0..(Size(d) - 1) /\ Size(d) \in Nat
    <3>1. IsTree(ns, Size(d)) /\ Size(d) \in 2..22
      BY NodesAre
    <3>2. i \in 0..(Size(d) - 1)
      BY DEF Nodes
    <3>3. Size(d) \in Nat
      BY <3>1, SMTT(30)
    <3> QED BY <3>1, <3>2, <3>3
  <2>6. d \in 0..6
    <3>1. d = 7 => ~ISDIR(ns[i].crumb)
      BY <2>2, NodesAre
    <3> QED BY <1>3, <2>3, <3>1
  <2>7. /\ c \in 0..Len(elems) /\ c \in Nat /\ Len(elems) \in Nat
        /\ path = SubSeq(elems, c + 1, Len(elems)) /\ path \in Seq(Names) /\ Len(path) = Len(elems) - c
    <3>1. c \in 0..Len(elems) /\ path = SubSeq(elems, c + 1, Len(elems))
      BY DEF Walking
    <3>2. 0 \in 0..(Len(elems) - c) /\ c \in Nat /\ Len(elems) \in Nat
      BY <3>1
    <3> QED BY <3>1, <3>2, SubSeqSubSeq
  <2> HIDE DEF path
  <2>8. PICK m \in 0..Len(path) : \E at \in [0..m -> 0..(Size(d) - 1)] :
          /\ IsTrail(ns, i, path, at, m) /\ t.crumbs = [j \in 1..m |-> ns[at[j]].crumb]
          /\ m = Len(path) \/ Blocked(ns, at[m], path[m + 1])
    <3>1. IsTree(ns, Size(d)) /\ i \in 0..(Size(d) - 1) /\ path \in Seq(Names)
      BY <2>5, <2>7
    <3> HIDE DEF ns
    <3>2. LeavesTrail(ns, Size(d), i, path, genericWalk(ns, ns[i].crumb, path).trail.crumbs)
      BY <3>1, GenericWalkIs, Zenon
    <3> QED BY <3>2 DEF LeavesTrail
  <2>9. PICK at \in [0..m -> 0..(Size(d) - 1)] :
          /\ IsTrail(ns, i, path, at, m) /\ t.crumbs = [j \in 1..m |-> ns[at[j]].crumb]
          /\ m = Len(path) \/ Blocked(ns, at[m], path[m + 1])
    BY <2>8
  <2> HIDE DEF t
  <2> DEFINE e == at[m]
             b == c + m
  <2>10. /\ m \in Nat /\ e \in Nodes(d) /\ m \in 0..(Len(elems) - c) /\ b \in 0..Len(elems)
         /\ at \in [0..m -> Nodes(d)] /\ at[0] = i
    BY <2>7, <2>9 DEF Nodes, IsTrail
  <2>11. topCrumb(t, w.portal.crumb) = ns[e].crumb /\ Len(t.crumbs) = m
    <3>1. Len(t.crumbs) = m /\ (t.crumbs = <<>> <=> m = 0)
      <4> DEFINE X == {ns[at[j]].crumb : j \in 1..m}
      <4>1. t.crumbs \in Seq(X) /\ DOMAIN t.crumbs = 1..m
        <5>1. t.crumbs = [j \in 1..m |-> ns[at[j]].crumb]
          BY <2>9
        <5>2. \A j \in 1..m : ns[at[j]].crumb \in X
          OBVIOUS
        <5> HIDE DEF X, ns
        <5>3. t.crumbs \in [1..m -> X]
          BY <5>1, <5>2
        <5> QED BY <2>10, <5>3
      <4>2. Len(t.crumbs) = m
        BY <2>10, <4>1
      <4> HIDE DEF X
      <4> QED BY <4>1, <4>2, EmptySeq
    <3>2. m # 0 => t.crumbs[m] = ns[at[m]].crumb
      BY <2>9, <2>10
    <3> QED BY <2>3, <2>10, <3>1, <3>2 DEF topCrumb, Last
  <2> DEFINE v == [w EXCEPT !.elems = SubSeq(path, m + 1, Len(path))]
  <2>12. SubSeq(path, m + 1, Len(path)) = SubSeq(elems, b + 1, Len(elems)) /\ SubSeq(path, m + 1, Len(path)) \in Seq(Names)
    BY <2>7, <2>10, SubSeqSubSeq
  <2>13. followTrail(w, t) = IF ISMOUNT(ns[e].crumb) THEN crossMount(v, ns[e].crumb)
                             ELSE [v EXCEPT !.portal.crumb = ns[e].crumb, !.end = "walked"]
    BY <2>11 DEF followTrail, path
  <2>14. DotsStay(U, elems) => nameOf(Portal(d, e)) = U[b]
    <3>1. DotsStay(U, elems) => nameOf(Portal(d, i)) = U[c]
      BY <2>2 DEF Walking
    <3>2. IsTrail(SNS[d], i, SubSeq(elems, c + 1, Len(elems)), at, m)
      BY <2>7, <2>9
    <3>3. c \in 0..Len(elems) /\ m \in 0..(Len(elems) - c) /\ at \in [0..m -> Nodes(d)] /\ d \in 0..6
      BY <2>6, <2>7, <2>10
    <3> QED BY <3>1, <3>2, <3>3, TrailNames, ZenonT(30)
  <2>15. b # 0 /\ elems[b] \in {".", ".."} => ISDIR(ns[e].crumb)
    <3>1. CASE m = 0
      <4>1. b = c /\ e = i
        BY <2>7, <2>10, <3>1
      <4> QED BY <1>3, <2>3, <4>1
    <3>2. CASE m # 0
      <4>1. m \in 1..m /\ m \in 1..(Len(elems) - c) /\ m - 1 \in 0..m
        BY <2>7, <2>10, <3>2
      <4>2. path[m] = elems[b]
        BY <2>7, <2>10, <4>1, SubSeqSubSeq
      <4>3. at[m - 1] \in Nodes(d) /\ ISDIR(ns[at[m - 1]].crumb) /\ e = stepTo(ns, ns[at[m - 1]].crumb, path[m])
        BY <2>9, <2>10, <4>1 DEF IsTrail
      <4> QED BY <2>6, <2>10, <4>2, <4>3, StepNameIs
    <3> QED BY <3>1, <3>2
  <2>16. /\ v \in [portal : Portals, elems : Seq(Names), live : {1}, end : {"walking", "walked", "NULL"}]
         /\ v.elems = SubSeq(elems, b + 1, Len(elems)) /\ v.portal = w.portal /\ v.live = 1
    <3>1. w \in [portal : Portals, elems : Seq(Names), live : {1}, end : {"walking", "walked", "NULL"}]
      BY DEF Walking
    <3> DEFINE q == SubSeq(path, m + 1, Len(path))
    <3>2. q \in Seq(Names) /\ q = SubSeq(elems, b + 1, Len(elems))
      BY <2>12
    <3> HIDE DEF q, b
    <3> QED BY <3>1, <3>2 DEF q
  <2> HIDE DEF v, e, b
  <2>17. CASE ISMOUNT(ns[e].crumb)
    <3>1. d = 0 /\ e \in 13..21
      <4>1. d = 0 /\ e >= 13 /\ Size(d) = 22
        BY <2>10, <2>17, NodesAre
      <4> QED BY <2>10, <4>1 DEF Nodes
    <3> DEFINE mount == SNS[0][e]
               p == attach(fromDeviceId(mount.length), mount.contents)
    <3>2. p \in Portals /\ nameOf(p) = nameOf(Portal(0, e))
      BY <3>1, AttachIs
    <3>3. STATICNS_CRUMB_SELF_IDX(ns[e].crumb) = e
      BY <2>10, NodesAre
    <3>4. crossMount(v, ns[e].crumb) = [v EXCEPT !.portal = p, !.live = v.live - 1 + 1]
      BY <2>3, <2>16, <3>1, <3>3 DEF crossMount
    <3> HIDE DEF p
    <3> DEFINE x == [v EXCEPT !.portal = p, !.live = v.live - 1 + 1]
    <3>5. /\ x \in [portal : Portals, elems : Seq(Names), live : {1}, end : {"walking", "walked", "NULL"}]
          /\ x.portal = p /\ x.elems = v.elems
      <4>1. v.live - 1 + 1 = 1
        BY <2>16
      <4> QED BY <2>16, <3>2, <4>1
    <3>6. ~ISDIR(ns[e].crumb)
      <4>1. e # 0 /\ ~(e <= 2)
        BY <3>1
      <4>2. ISDIR(ns[e].crumb) <=> e = 0 \/ (d = 0 /\ e <= 2)
        BY <2>10, NodesAre
      <4> QED BY <4>1, <4>2
    <3> HIDE DEF x
    <3>7. Walking(x, U, elems, b)
      BY <2>10, <2>14, <2>15, <2>16, <3>1, <3>2, <3>5, <3>6 DEF Walking, b
    <3> QED BY <2>4, <2>13, <2>17, <3>4, <3>7 DEF x
  <2>18. CASE ~ISMOUNT(ns[e].crumb)
    <3>1. (d = 0 => e <= 12) /\ d # 7
      <4>1. d = 0 => ~ (e >= 13)
        BY <2>10, <2>18, NodesAre
      <4>2. e \in Int /\ d # 7
        BY <2>6, <2>10 DEF Nodes
      <4> QED BY <4>1, <4>2
    <3>2. Portal(d, e) \in Portals
      BY <2>10, <3>1, PlaceIn
    <3> DEFINE x == [v EXCEPT !.portal.crumb = ns[e].crumb, !.end = "walked"]
    <3>3. [v.portal EXCEPT !.crumb = ns[e].crumb] = Portal(d, e)
      BY <2>2, <2>16 DEF Portal
    <3>4. x = [v EXCEPT !.portal = Portal(d, e), !.end = "walked"]
      BY <3>3
    <3>5. /\ x \in [portal : Portals, elems : Seq(Names), live : {1}, end : {"walking", "walked", "NULL"}]
          /\ x.portal = Portal(d, e) /\ x.elems = v.elems
      BY <2>16, <3>2, <3>4
    <3>6. x.portal.crumb = ns[e].crumb
      BY <3>5 DEF Portal
    <3> HIDE DEF x
    <3>7. Walking(x, U, elems, b)
      BY <2>10, <2>14, <2>15, <2>16, <3>5, <3>6 DEF Walking, b
    <3> QED BY <2>4, <2>13, <2>18, <3>7 DEF x
  <2> QED BY <2>17, <2>18
<1> QED BY <1>1, <1>2, <1>3
-----------------------------------------------------------------------------
(***************************************************************************)
(* What a naming is, and the loop of syswalk().                            *)
(***************************************************************************)
(* What down makes of a name and an element is a name. *)
LEMMA DownIsName ==
  ASSUME NEW s \in Seq(Names), NEW x \in Names
  PROVE  down(s, x) \in Seq(Names)
<1>1. CASE x = "."
  BY <1>1 DEF down
<1>2. CASE x = ".."
  <2>1. down(s, x) = IF s = <<>> THEN s ELSE Front(s)
    BY <1>2 DEF down
  <2>2. s # <<>> => Front(s) \in Seq(Names)
    <3>1. Len(s) \in Nat /\ Len(s) - 1 \in Int /\ \A i \in 1..(Len(s) - 1) : s[i] \in Names
      OBVIOUS
    <3>2. SubSeq(s, 1, Len(s) - 1) \in Seq(Names)
      BY <3>1, SubSeqProperties
    <3> QED BY <3>2 DEF Front
  <2> QED BY <2>1, <2>2
<1>3. CASE x \notin {".", ".."}
  <2>1. down(s, x) = Append(s, x)
    BY <1>3 DEF down
  <2> DEFINE N == Names
  <2>2. s \in Seq(N) /\ x \in N
    OBVIOUS
  <2> HIDE DEF N
  <2>3. Append(s, x) \in Seq(N)
    BY <2>2, AppendProperties
  <2> QED BY <2>1, <2>3 DEF N
<1> QED BY <1>1, <1>2, <1>3

(* Every path has its namings. *)
LEMMA NamingExists ==
  ASSUME NEW start \in Seq(Names), NEW elems \in Seq(Names)
  PROVE  \E U : IsNaming(U, start, elems)
<1> DEFINE V == Seq(Names)
           n == Len(elems)
           f == [x \in V \X (1..n) |-> down(x[1], elems[x[2]])]
<1>1. n \in Nat /\ \A k \in 1..n : elems[k] \in Names
  OBVIOUS
<1>2. f \in [V \X (1..n) -> V]
  <2>1. \A x \in V \X (1..n) : down(x[1], elems[x[2]]) \in V
    <3> SUFFICES ASSUME NEW x \in V \X (1..n) PROVE down(x[1], elems[x[2]]) \in V
      OBVIOUS
    <3>1. x[1] \in V /\ x[2] \in 1..n
      OBVIOUS
    <3>2. elems[x[2]] \in Names
      BY <1>1, <3>1
    <3> QED BY <3>1, <3>2, DownIsName
  <2> HIDE DEF V
  <2> QED BY <2>1
<1>3. start \in V
  OBVIOUS
<1> HIDE DEF f
<1>4. PICK g : Unrolled(g, V, start, f, n)
  <2> HIDE DEF n, V
  <2> QED BY <1>1, <1>2, <1>3, Unrolls
<1>5. g \in [0..n -> V] /\ g[0] = start
  BY <1>4 DEF Unrolled
<1>6. ASSUME NEW k \in 1..n PROVE g[k] = down(g[k - 1], elems[k])
  <2>1. k - 1 \in 0..n /\ k \in 1..n
    BY <1>1
  <2>2. g[k - 1] \in V /\ g[k] = f[<<g[k - 1], k>>]
    BY <1>4, <1>5, <2>1 DEF Unrolled
  <2>3. <<g[k - 1], k>> \in V \X (1..n)
    BY <2>1, <2>2
  <2> HIDE DEF V, n
  <2> QED BY <2>2, <2>3 DEF f
<1>7. IsNaming(g, start, elems)
  BY <1>5, <1>6 DEF IsNaming
<1> QED BY <1>7

(* normal computes the last name of a naming. *)
LEMMA NormalIs ==
  ASSUME NEW elems \in Seq(Names), NEW U, IsNaming(U, <<>>, elems)
  PROVE  normal(elems) = U[Len(elems)]
<1> DEFINE n == Len(elems)
           step(g) == [k \in 0..n |-> IF k = 0 THEN <<>> ELSE down(g[k - 1], elems[k])]
           upTo == CHOOSE g : g = step(g)
<1>1. n \in Nat /\ U \in [0..n -> Seq(Names)] /\ U[0] = <<>>
      /\ \A k \in 1..n : U[k] = down(U[k - 1], elems[k])
  BY DEF IsNaming
<1>2. U = step(U)
  <2>1. U = [k \in 0..n |-> U[k]]
    BY <1>1
  <2>2. \A k \in 0..n : k = 0 \/ k \in 1..n
    BY <1>1
  <2>3. \A k \in 0..n : U[k] = IF k = 0 THEN <<>> ELSE down(U[k - 1], elems[k])
    BY <1>1, <2>2
  <2> HIDE DEF n
  <2> QED BY <2>1, <2>3
<1>3. upTo = step(upTo)
  BY <1>2
<1>4. normal(elems) = upTo[n]
  BY DEF normal
<1> HIDE DEF upTo
<1> DEFINE S == {k \in Nat : k <= n => upTo[k] = U[k]}
<1>5. 0 \in S
  <2>1. 0 \in 0..n
    BY <1>1
  <2>2. upTo[0] = <<>>
    BY <1>3, <2>1
  <2> QED BY <1>1, <2>2
<1>6. ASSUME NEW k \in Nat, k \in S PROVE k + 1 \in S
  <2> SUFFICES ASSUME k + 1 <= n PROVE upTo[k + 1] = U[k + 1]
    OBVIOUS
  <2>1. k + 1 \in 0..n /\ k + 1 \in 1..n /\ (k + 1) - 1 = k /\ k + 1 # 0 /\ k <= n
    BY <1>1
  <2>2. upTo[k + 1] = down(upTo[(k + 1) - 1], elems[k + 1])
    BY <1>3, <2>1
  <2>3. U[k + 1] = down(U[(k + 1) - 1], elems[k + 1])
    BY <1>1, <2>1
  <2> QED BY <1>6, <2>1, <2>2, <2>3
<1>7. Nat \subseteq S
  <2> HIDE DEF S
  <2> QED BY <1>5, <1>6, NatSetInduction
<1> QED BY <1>1, <1>4, <1>7

(* The first part of a naming names the first part of the path. *)
LEMMA NormalOfPrefix ==
  ASSUME NEW elems \in Seq(Names), NEW U, IsNaming(U, <<>>, elems), NEW k \in 0..Len(elems)
  PROVE  normal(SubSeq(elems, 1, k)) = U[k]
<1> DEFINE s == SubSeq(elems, 1, k)
           n == Len(elems)
           W == [j \in 0..k |-> U[j]]
<1>1. n \in Nat /\ k \in Nat /\ k <= n /\ \A i \in 1..k : elems[i] \in Names
  OBVIOUS
<1>2. s \in Seq(Names) /\ Len(s) = k /\ \A i \in 1..k : s[i] = elems[i]
  <2>1. /\ s \in Seq(Names) /\ Len(s) = (IF 1 <= k THEN k - 1 + 1 ELSE 0)
        /\ \A i \in 1..(k - 1 + 1) : s[i] = elems[1 + i - 1]
    BY <1>1, SubSeqProperties
  <2>2. (IF 1 <= k THEN k - 1 + 1 ELSE 0) = k /\ k - 1 + 1 = k /\ \A i \in 1..k : 1 + i - 1 = i
    BY <1>1
  <2> HIDE DEF s
  <2> QED BY <2>1, <2>2
<1> HIDE DEF s
<1>3. /\ U \in [0..n -> Seq(Names)] /\ U[0] = <<>>
      /\ \A i \in 1..n : U[i] = down(U[i - 1], elems[i])
  BY DEF IsNaming
<1>4. \A i \in 0..k : i \in 0..n /\ W[i] = U[i]
  BY <1>1
<1>5. W \in [0..k -> Seq(Names)]
  BY <1>3, <1>4
<1>6. ASSUME NEW i \in 1..k PROVE W[i] = down(W[i - 1], s[i])
  <2>1. i \in 0..k /\ i - 1 \in 0..k /\ i \in 1..n
    BY <1>1
  <2> HIDE DEF W
  <2> QED BY <1>2, <1>3, <1>4, <2>1
<1>7. W[0] = <<>> /\ W[k] = U[k]
  BY <1>1, <1>3, <1>4
<1> HIDE DEF W
<1>8. IsNaming(W, <<>>, s)
  BY <1>2, <1>5, <1>6, <1>7 DEF IsNaming
<1> QED BY <1>2, <1>7, <1>8, NormalIs DEF s

(* A straight path's dots stay where they lead. *)
LEMMA StraightDots ==
  ASSUME NEW path, path.parts \in Seq(Names), Straight(path), NEW U, IsNaming(U, <<>>, path.parts)
  PROVE  DotsStay(U, path.parts)
<1> DEFINE elems == path.parts
<1> SUFFICES ASSUME NEW k \in 1..Len(elems), elems[k] = ".." PROVE Len(U[k - 1]) < 2
  BY DEF DotsStay
<1>1. Len(normal(SubSeq(elems, 1, k - 1))) < 2
  BY DEF Straight
<1>2. k - 1 \in 0..Len(elems)
  OBVIOUS
<1>3. normal(SubSeq(elems, 1, k - 1)) = U[k - 1]
  BY <1>2, NormalOfPrefix
<1> QED BY <1>1, <1>3

(* Where a walk comes to. *)
Arrives(r, U, elems) ==
  /\ r.ok \in BOOLEAN /\ r.null \in BOOLEAN /\ r.live = (IF r.ok THEN 1 ELSE 0) /\ r.portal \in Portals
  /\ r.ok => /\ DotsStay(U, elems) => nameOf(r.portal) = U[Len(elems)]
             /\ Len(elems) # 0 /\ elems[Len(elems)] \in {".", ".."} => ISDIR(r.portal.crumb)

(* Nothing is left of a path when all of it is behind. *)
LEMMA SuffixIs ==
  ASSUME NEW elems \in Seq(Names), NEW c \in 0..Len(elems)
  PROVE  SubSeq(elems, c + 1, Len(elems)) = <<>> <=> c = Len(elems)
<1> DEFINE X == Names
           n == Len(elems)
           t == SubSeq(elems, c + 1, n)
<1>1. n \in Nat /\ c \in Nat /\ c <= n /\ \A i \in (c + 1)..n : elems[i] \in X
  OBVIOUS
<1> HIDE DEF X, n
<1>2. t \in Seq(X) /\ Len(t) = (IF c + 1 <= n THEN n - (c + 1) + 1 ELSE 0)
  BY <1>1, SubSeqProperties
<1> HIDE DEF t
<1>3. Len(t) = 0 <=> c = n
  BY <1>1, <1>2
<1>4. t = <<>> <=> Len(t) = 0
  BY <1>2, EmptySeq
<1> QED BY <1>3, <1>4 DEF t, n

(* g holds the states of syswalk's loop. *)
IsRun(g, portal, elems) ==
  /\ g[0] = [portal |-> portal, elems |-> elems, live |-> 1, end |-> "walking"]
  /\ \A k \in 1..(Len(elems) + 1) : g[k] = walkDevice(g[k - 1])
  /\ syswalk(portal, elems) = walkResult(g[Len(elems) + 1])

(* The loop of syswalk runs, and all of its states are walks on the path. *)
LEMMA SyswalkRuns ==
  ASSUME NEW portal \in Portals, NEW elems \in Seq(Names), NEW U, IsNaming(U, nameOf(portal), elems),
         ~(elems # <<>> /\ ~ISDIR(portal.crumb))
  PROVE  \E g : IsRun(g, portal, elems) /\ \E c : Walking(g[Len(elems) + 1], U, elems, c)
<1> DEFINE n == Len(elems)
           W == [portal : Portals, elems : Seq(Names), live : {1}, end : {"walking", "walked", "NULL"}]
           V == {w \in W : \E c : Walking(w, U, elems, c)}
           init == [portal |-> portal, elems |-> elems, live |-> 1, end |-> "walking"]
           step(g) == [k \in 0..(n + 1) |-> IF k = 0 THEN init ELSE walkDevice(g[k - 1])]
           after == CHOOSE g : g = step(g)
<1>1. n \in Nat /\ U[0] = nameOf(portal) /\ IsNaming(U, U[0], elems)
  BY DEF IsNaming
<1>2. init \in V
  <2>1. init \in W /\ init.elems = elems /\ init.portal = portal
    OBVIOUS
  <2>2. 0 \in 0..n /\ SubSeq(elems, 0 + 1, n) = elems
    OBVIOUS
  <2> HIDE DEF init, n
  <2>3. Walking(init, U, elems, 0)
    BY <1>1, <2>1, <2>2 DEF Walking, n
  <2> HIDE DEF W
  <2> QED BY <2>1, <2>3
<1>3. ASSUME NEW w \in V PROVE walkDevice(w) \in V
  <2>1. PICK c : Walking(w, U, elems, c)
    OBVIOUS
  <2>2. PICK b : Walking(walkDevice(w), U, elems, b)
    BY <1>1, <2>1, WalkDeviceIs
  <2>3. walkDevice(w) \in W
    BY <2>2 DEF Walking
  <2> HIDE DEF W
  <2> QED BY <2>2, <2>3
<1> HIDE DEF W
<1>4. after = step(after)
  <2> DEFINE f == [x \in V \X (1..(n + 1)) |-> walkDevice(x[1])]
  <2> HIDE DEF V, init
  <2>1. f \in [V \X (1..(n + 1)) -> V]
    BY <1>3
  <2>2. PICK g : Unrolled(g, V, init, f, n + 1)
    <3>1. n + 1 \in Nat
      BY <1>1
    <3> HIDE DEF f, n
    <3> QED BY <1>2, <2>1, <3>1, Unrolls
  <2>3. ASSUME NEW k \in 0..(n + 1) PROVE g[k] = IF k = 0 THEN init ELSE walkDevice(g[k - 1])
    <3>1. CASE k = 0
      BY <2>2, <3>1 DEF Unrolled
    <3>2. CASE k # 0
      <4>1. k - 1 \in 0..(n + 1) /\ k \in 1..(n + 1)
        BY <1>1, <3>2
      <4>2. g[k - 1] \in V /\ g[k] = f[<<g[k - 1], k>>]
        BY <2>2, <4>1 DEF Unrolled
      <4> QED BY <3>2, <4>1, <4>2
    <3> QED BY <3>1, <3>2
  <2> HIDE DEF f
  <2>4. g = step(g)
    <3>1. g = [k \in 0..(n + 1) |-> g[k]]
      BY <2>2 DEF Unrolled
    <3> QED BY <2>3, <3>1
  <2> QED BY <2>4
<1>5. syswalk(portal, elems) = walkResult(after[n + 1])
  BY DEF syswalk
<1> HIDE DEF after
<1> DEFINE S == {k \in Nat : k <= n + 1 => after[k] \in V}
<1>6. Nat \subseteq S
  <2> HIDE DEF V, init, n
  <2>1. 0 \in S
    <3>1. 0 \in 0..(n + 1)
      BY <1>1
    <3>2. after[0] = init
      BY <1>4, <3>1
    <3> QED BY <1>2, <3>2
  <2>2. ASSUME NEW k \in Nat, k \in S PROVE k + 1 \in S
    <3> SUFFICES ASSUME k + 1 <= n + 1 PROVE after[k + 1] \in V
      OBVIOUS
    <3>1. k + 1 \in 0..(n + 1) /\ k + 1 # 0 /\ (k + 1) - 1 = k /\ k <= n + 1
      BY <1>1
    <3>2. after[k + 1] = walkDevice(after[(k + 1) - 1])
      BY <1>4, <3>1
    <3>3. after[k] \in V
      BY <2>2, <3>1
    <3> QED BY <1>3, <3>1, <3>2, <3>3
  <2> HIDE DEF S
  <2> QED BY <2>1, <2>2, NatSetInduction
<1>7. \A k \in 1..(n + 1) : after[k] = walkDevice(after[k - 1])
  <2>1. \A k \in 1..(n + 1) : k \in 0..(n + 1) /\ k # 0
    BY <1>1
  <2> HIDE DEF n, init
  <2> QED BY <1>4, <2>1
<1>8. after[0] = init
  <2>1. 0 \in 0..(n + 1)
    BY <1>1
  <2> HIDE DEF n, init
  <2> QED BY <1>4, <2>1
<1>9. IsRun(after, portal, elems)
  BY <1>5, <1>7, <1>8 DEF IsRun
<1>10. after[n + 1] \in V
  <2>1. n + 1 \in Nat /\ n + 1 <= n + 1
    BY <1>1
  <2> HIDE DEF V, n
  <2> QED BY <1>6, <2>1
<1> HIDE DEF n
<1> QED BY <1>9, <1>10 DEF n

(* syswalk() from a place, by any elements: it ends on a place, and on the node
   the names lead to if it used them all. *)
LEMMA SyswalkIs ==
  ASSUME NEW portal \in Portals, NEW elems \in Seq(Names), NEW U, IsNaming(U, nameOf(portal), elems)
  PROVE  Arrives(syswalk(portal, elems), U, elems)
<1>1. CASE elems # <<>> /\ ~ISDIR(portal.crumb)
  <2>1. syswalk(portal, elems) = [ok |-> FALSE, live |-> 0, null |-> FALSE, portal |-> portal]
    BY <1>1 DEF syswalk
  <2> QED BY <2>1 DEF Arrives
<1>2. CASE ~(elems # <<>> /\ ~ISDIR(portal.crumb))
  <2> DEFINE n == Len(elems)
  <2>1. n \in Nat
    OBVIOUS
  <2>8. PICK g : IsRun(g, portal, elems) /\ \E c : Walking(g[n + 1], U, elems, c)
    BY <1>2, SyswalkRuns
  <2> DEFINE w == g[n + 1]
             r == walkResult(w)
  <2>5. syswalk(portal, elems) = r
    BY <2>8 DEF IsRun
  <2> HIDE DEF w
  <2>9. PICK c : Walking(w, U, elems, c)
    BY <2>8 DEF w
  <2>10. w.elems = <<>> <=> c = n
    <3>1. c \in 0..n /\ w.elems = SubSeq(elems, c + 1, n)
      BY <2>9 DEF Walking
    <3>2. 0 \in 0..(n - c)
      BY <2>1, <3>1
    <3>3. c \in 0..Len(elems) /\ 0 \in 0..(Len(elems) - c)
      BY <3>1, <3>2
    <3>4. SubSeq(elems, c + 1, Len(elems)) = <<>> <=> c = Len(elems)
      BY <3>3, SuffixIs
    <3> QED BY <3>1, <3>4
  <2>11. w.live = 1 /\ w.portal \in Portals
    BY <2>9 DEF Walking
  <2>12. r = [ok |-> w.elems = <<>>, live |-> IF w.elems = <<>> THEN 1 ELSE 1 - 1, null |-> w.end = "NULL", portal |-> w.portal]
    BY <2>11 DEF walkResult
  <2> HIDE DEF r
  <2>13. r.ok = (w.elems = <<>>) /\ r.null = (w.end = "NULL") /\ r.portal = w.portal /\ r.live = IF w.elems = <<>> THEN 1 ELSE 1 - 1
    BY <2>12
  <2>14. r.ok => /\ DotsStay(U, elems) => nameOf(r.portal) = U[n]
                 /\ n # 0 /\ elems[n] \in {".", ".."} => ISDIR(r.portal.crumb)
    BY <2>9, <2>10, <2>13 DEF Walking
  <2>15. r.live = IF r.ok THEN 1 ELSE 0
    BY <2>13, 1 - 1 = 0
  <2> QED BY <2>5, <2>11, <2>13, <2>14, <2>15 DEF Arrives, r
<1> QED BY <1>1, <1>2

(* The first child of a directory that has a name is what the name leads to. *)
LEMMA LookupIs ==
  ASSUME NEW ns, NEW n, IsTree(ns, n), NEW i \in 0..(n - 1), ISDIR(ns[i].crumb), NEW name,
         name \notin {".", ".."}, NEW j \in Kids(ns, n, i), ns[j].name = name,
         \A k \in Kids(ns, n, i) : k < j => ns[k].name # name
  PROVE  stepTo(ns, ns[i].crumb, name) = j
<1> DEFINE hits == {k \in Kids(ns, n, i) : ns[k].name = name}
<1>1. stepTo(ns, ns[i].crumb, name) = search(ns, ns[i].crumb, name)
  BY DEF stepTo
<1>2. j \in hits /\ hits \in SUBSET Nat /\ \A k \in hits : ~ (k < j)
  BY DEF Kids
<1>3. Min(hits) = j
  <2> HIDE DEF hits
  <2>1. Min(hits) \in hits /\ Min(hits) <= j
    BY <1>2, MinIs
  <2>2. Min(hits) \in Nat /\ j \in Nat /\ ~ (Min(hits) < j)
    BY <1>2, <2>1
  <2> QED BY <2>1, <2>2
<1>4. KidsNamed(ns, n, i, name) = hits /\ hits # {}
  BY <1>2 DEF KidsNamed
<1>5. search(ns, ns[i].crumb, name) = Min(KidsNamed(ns, n, i, name))
  <2> HIDE DEF hits
  <2> QED BY <1>4, SearchIs
<1> HIDE DEF hits
<1> QED BY <1>1, <1>2, <1>3, <1>4, <1>5

(* A node is no error. *)
LEMMA NodeIsIndex ==
  ASSUME NEW d \in 0..7
  PROVE  Size(d) \in Nat /\ \A j \in Nodes(d) : j \in Nat /\ j \notin {ENOENT, PastEnd}
<1>1. Size(d) \in 2..22
  BY NodesAre
<1>2. Size(d) \in Nat
  BY <1>1
<1> QED BY <1>2 DEF Nodes, ENOENT, PastEnd

(* The trail of the first m elements of a path, which cannot go on. *)
WholeTrail(d, i, path, at, m) ==
  /\ m \in 0..Len(path) /\ at \in [0..m -> Nodes(d)] /\ IsTrail(SNS[d], i, path, at, m)
  /\ m = Len(path) \/ Blocked(SNS[d], at[m], path[m + 1])

(* A trail that cannot go on is the only one. *)
LEMMA TrailUnique ==
  ASSUME NEW d \in 0..7, NEW i, NEW path, Len(path) \in Nat,
         NEW m, NEW at, WholeTrail(d, i, path, at, m), NEW l, NEW bt, WholeTrail(d, i, path, bt, l)
  PROVE  m = l /\ \A k \in 0..m : at[k] = bt[k]
<1> DEFINE len == Len(path)
<1>0. /\ m \in 0..len /\ at \in [0..m -> Nodes(d)] /\ IsTrail(SNS[d], i, path, at, m)
      /\ m = len \/ Blocked(SNS[d], at[m], path[m + 1])
      /\ l \in 0..len /\ bt \in [0..l -> Nodes(d)] /\ IsTrail(SNS[d], i, path, bt, l)
      /\ l = len \/ Blocked(SNS[d], bt[l], path[l + 1])
  BY DEF WholeTrail
<1> DEFINE S == {k \in Nat : k <= m /\ k <= l => at[k] = bt[k]}
<1>1. m \in Nat /\ l \in Nat
  BY <1>0
<1>2. 0 \in S
  BY <1>0 DEF IsTrail
<1>3. ASSUME NEW k \in Nat, k \in S PROVE k + 1 \in S
  <2> SUFFICES ASSUME k + 1 <= m, k + 1 <= l PROVE at[k + 1] = bt[k + 1]
    OBVIOUS
  <2>1. k + 1 \in 1..m /\ k + 1 \in 1..l /\ (k + 1) - 1 = k /\ k <= m /\ k <= l
    BY <1>1
  <2>2. at[k] = bt[k]
    BY <1>3, <2>1
  <2> QED BY <1>0, <2>1, <2>2 DEF IsTrail
<1>4. Nat \subseteq S
  <2> HIDE DEF S
  <2> QED BY <1>2, <1>3, NatSetInduction
<1>5. ASSUME NEW j \in Nat, NEW k \in Nat, j < k, NEW f, NEW g \in [0..k -> Nodes(d)], f[j] = g[j],
             IsTrail(SNS[d], i, path, g, k), Blocked(SNS[d], f[j], path[j + 1])
      PROVE  FALSE
  <2>1. j + 1 \in 1..k /\ (j + 1) - 1 = j /\ j + 1 \in 0..k
    BY <1>5
  <2>2. ISDIR(SNS[d][g[j]].crumb) /\ g[j + 1] = stepTo(SNS[d], SNS[d][g[j]].crumb, path[j + 1])
    BY <1>5, <2>1 DEF IsTrail
  <2>3. g[j + 1] \in Nodes(d)
    BY <2>1
  <2>4. g[j + 1] \notin {ENOENT, PastEnd}
    BY <2>3, NodeIsIndex
  <2> QED BY <1>5, <2>2, <2>4 DEF Blocked
<1>6. ~(m < l)
  <2> SUFFICES ASSUME m < l PROVE FALSE
    OBVIOUS
  <2>1. at[m] = bt[m] /\ m # len
    BY <1>0, <1>1, <1>4
  <2> QED BY <1>0, <1>1, <1>5, <2>1
<1>7. ~(l < m)
  <2> SUFFICES ASSUME l < m PROVE FALSE
    OBVIOUS
  <2>1. at[l] = bt[l] /\ l # len
    BY <1>0, <1>1, <1>4
  <2> QED BY <1>0, <1>1, <1>5, <2>1
<1> QED BY <1>1, <1>4, <1>6, <1>7

(* The state in which the loop of syswalk() starts on a node. *)
Start(d, i, elems) == [portal |-> Portal(d, i), elems |-> elems, live |-> 1, end |-> "walking"]

(* The state after one turn of that loop whose trail ends in crumb c. *)
Turned(w, left, c) ==
  LET v == [w EXCEPT !.elems = left]
  IN  IF ISMOUNT(c) THEN crossMount(v, c) ELSE [v EXCEPT !.portal.crumb = c, !.end = "walked"]

(* One turn of syswalk's loop, where the trail is known. *)
LEMMA TurnIs ==
  ASSUME NEW d \in 0..7, NEW i \in Nodes(d), ISDIR(SNS[d][i].crumb),
         NEW elems \in Seq(Names), NEW m \in 1..Len(elems), NEW at, WholeTrail(d, i, elems, at, m)
  PROVE  walkDevice(Start(d, i, elems)) =
           Turned(Start(d, i, elems), SubSeq(elems, m + 1, Len(elems)), SNS[d][at[m]].crumb)
<1> DEFINE ns == SNS[d]
           t == genericWalk(ns, ns[i].crumb, elems).trail
           w == Start(d, i, elems)
<1>0. w.portal = Portal(d, i) /\ w.elems = elems /\ w.end = "walking"
  BY DEF Start
<1> HIDE DEF w
<1>1. IsTree(ns, Size(d)) /\ i \in 0..(Size(d) - 1)
  BY NodesAre DEF Nodes
<1>2. w.portal.device = d /\ w.portal.crumb = ns[i].crumb
  BY <1>0 DEF Portal
<1>3. w.elems # <<>>
  <2>1. Len(elems) # 0
    OBVIOUS
  <2> QED BY <1>0, <2>1
<1>4. walkDevice(w) = followTrail(w, t)
  BY <1>0, <1>2, <1>3 DEF walkDevice
<1>5. LeavesTrail(ns, Size(d), i, elems, t.crumbs)
  <2> HIDE DEF ns
  <2> QED BY <1>1, GenericWalkIs, Zenon
<1> HIDE DEF t
<1>6. PICK l \in 0..Len(elems) : \E bt \in [0..l -> 0..(Size(d) - 1)] :
        /\ IsTrail(ns, i, elems, bt, l) /\ t.crumbs = [j \in 1..l |-> ns[bt[j]].crumb]
        /\ l = Len(elems) \/ Blocked(ns, bt[l], elems[l + 1])
  BY <1>5 DEF LeavesTrail
<1>7. PICK bt \in [0..l -> 0..(Size(d) - 1)] :
        /\ IsTrail(ns, i, elems, bt, l) /\ t.crumbs = [j \in 1..l |-> ns[bt[j]].crumb]
        /\ l = Len(elems) \/ Blocked(ns, bt[l], elems[l + 1])
  BY <1>6
<1>8. m = l /\ \A k \in 0..m : at[k] = bt[k]
  <2>1. WholeTrail(d, i, elems, bt, l) /\ WholeTrail(d, i, elems, at, m)
    BY <1>7 DEF WholeTrail, Nodes
  <2>2. Len(elems) \in Nat
    OBVIOUS
  <2> HIDE DEF ns
  <2> QED BY <2>1, <2>2, TrailUnique
<1>9. topCrumb(t, w.portal.crumb) = ns[at[m]].crumb /\ Len(t.crumbs) = m
  <2>1. m \in Nat /\ m # 0 /\ m \in 0..m /\ m \in 1..m
    OBVIOUS
  <2> DEFINE X == {ns[bt[j]].crumb : j \in 1..m}
             s == t.crumbs
  <2>2. s = [j \in 1..m |-> ns[bt[j]].crumb]
    BY <1>7, <1>8
  <2>3. \A j \in 1..m : ns[bt[j]].crumb \in X
    OBVIOUS
  <2> HIDE DEF X, ns, s
  <2>4. s \in [1..m -> X] /\ s[m] = ns[bt[m]].crumb
    BY <2>1, <2>2, <2>3
  <2>5. s \in Seq(X) /\ Len(s) = m /\ s # <<>>
    <3>1. s \in Seq(X) /\ DOMAIN s = 1..m
      BY <2>1, <2>4
    <3>2. Len(s) = m
      BY <2>1, <3>1
    <3> QED BY <2>1, <3>1, <3>2, EmptySeq
  <2> QED BY <1>8, <2>1, <2>4, <2>5 DEF topCrumb, Last, s
<1> QED BY <1>0, <1>4, <1>9 DEF followTrail, Turned, w
-----------------------------------------------------------------------------
(***************************************************************************)
(* The paths of the program: mkPath(), and the console and /bin.           *)
(***************************************************************************)
(* Both of a process's portals are on the root of the root device. *)
LEMMA SlashIs ==
  /\ slash = Portal(0, 0) /\ dot = Portal(0, 0) /\ Portal(0, 0) \in Portals
  /\ nameOf(Portal(0, 0)) = <<>> /\ ISDIR(Portal(0, 0).crumb)
<1>1. 0 \in 0..7 /\ 0 \in Nodes(0)
  BY NodesAre, 0 \in 0..7 DEF Nodes
<1>2. fromDeviceId("DEVROOT") = 0 /\ deviceTable[0] # "DEVDEV"
  BY <1>1, FromDeviceIdIs, DevicesAre
<1>3. attach(0, NoContents) = Portal(0, 0)
  BY <1>2 DEF attach, Portal
<1>4. Portal(0, 0) \in Portals
  BY <1>1, PlaceIn
<1>5. nameOf(Portal(0, 0)) = <<>>
  BY <1>1, NamesAre
<1>6. Portal(0, 0).crumb = SNS[0][0].crumb
  BY DEF Portal
<1>7. ISDIR(SNS[0][0].crumb)
  BY <1>1, NodesAre
<1> QED BY <1>2, <1>3, <1>4, <1>5, <1>6, <1>7 DEF slash, dot

(* An element for every part of a path that begins with a '/'. *)
LEMMA MkPathIs ==
  ASSUME NEW path, path.parts \in Seq(Names), path.parts # <<>>
  PROVE  /\ mkPath(path) \in Seq(Names)
         /\ path.abs \/ (Len(path.parts) = 1 /\ path.parts[1] # NoName) => mkPath(path) = path.parts
<1> DEFINE s == path.parts
           n == Len(s)
           slashes == (IF path.abs THEN 1 ELSE 0) + n - 1
           nelems == IF slashes = 0 /\ s # <<NoName>> THEN 1 ELSE slashes
<1>1. n \in Nat /\ n # 0
  BY EmptySeq
<1>2. mkPath(path) = SubSeq(s, 1, nelems)
  BY DEF mkPath
<1>3. slashes \in 0..n /\ (path.abs => slashes = n) /\ (~path.abs /\ n = 1 => slashes = 0)
  <2> DEFINE a == IF path.abs THEN 1 ELSE 0
  <2>1. (path.abs => a = 1) /\ (~path.abs => a = 0) /\ a \in {0, 1}
    BY Zenon
  <2>2. slashes = a + n - 1
    BY Zenon
  <2> HIDE DEF a, slashes, n
  <2>3. (a = 1 => slashes = n) /\ (a = 0 /\ n = 1 => slashes = 0) /\ slashes \in 0..n
    BY <1>1, <2>1, <2>2
  <2> QED BY <2>1, <2>3, Zenon
<1> HIDE DEF slashes
<1>4. nelems \in 0..n
  BY <1>1, <1>3
<1>5. SubSeq(s, 1, nelems) \in Seq(Names)
  <2> HIDE DEF nelems
  <2>1. nelems \in Int /\ \A i \in 1..nelems : i \in 1..n
    BY <1>1, <1>4
  <2>2. \A i \in 1..nelems : s[i] \in Names
    BY <2>1
  <2> QED BY <2>1, <2>2, SubSeqProperties
<1>6. SubSeq(s, 1, n) = s
  OBVIOUS
<1>7. ASSUME path.abs PROVE nelems = n
  BY <1>1, <1>3, <1>7
<1>8. ASSUME ~path.abs, n = 1, s[1] # NoName PROVE nelems = n
  <2>1. <<NoName>>[1] = NoName
    OBVIOUS
  <2>2. s # <<NoName>>
    BY <1>8, <2>1
  <2> QED BY <1>3, <1>8, <2>2
<1> QED BY <1>2, <1>5, <1>6, <1>7, <1>8

(* A sequence of one. *)
LEMMA SinglePart ==
  ASSUME NEW S, NEW a \in S
  PROVE  <<a>> \in Seq(S) /\ Len(<<a>>) = 1 /\ <<a>>[1] = a
  OBVIOUS

(* A sequence of three. *)
LEMMA ThreeParts ==
  ASSUME NEW S, NEW a \in S, NEW b \in S, NEW c \in S
  PROVE  /\ <<a, b, c>> \in Seq(S) /\ Len(<<a, b, c>>) = 3
         /\ <<a, b, c>>[1] = a /\ <<a, b, c>>[2] = b /\ <<a, b, c>>[3] = c
         /\ SubSeq(<<a, b, c>>, 3, 3) = <<c>>
<1>1. /\ <<a, b, c>> \in Seq(S) /\ Len(<<a, b, c>>) = 3
      /\ <<a, b, c>>[1] = a /\ <<a, b, c>>[2] = b /\ <<a, b, c>>[3] = c
  OBVIOUS
<1> DEFINE s == <<a, b, c>>
           t == SubSeq(s, 3, 3)
<1>2. s[3] = c
  BY <1>1
<1> HIDE DEF s
<1>3. \A i \in 3..3 : s[i] \in S
  BY <1>2
<1>4. t \in Seq(S) /\ Len(t) = 1 /\ t[1] = c
  <2>1. t \in Seq(S) /\ Len(t) = (IF 3 <= 3 THEN 3 - 3 + 1 ELSE 0) /\ \A i \in 1..(3 - 3 + 1) : t[i] = s[3 + i - 1]
    BY <1>3, SubSeqProperties
  <2>2. (IF 3 <= 3 THEN 3 - 3 + 1 ELSE 0) = 1 /\ 1 \in 1..(3 - 3 + 1) /\ 3 + 1 - 1 = 3
    OBVIOUS
  <2> HIDE DEF t
  <2> QED BY <1>2, <2>1, <2>2
<1> HIDE DEF t
<1>5. t = <<c>>
  <2> DEFINE u == <<c>>
  <2>1. u \in Seq(S) /\ Len(u) = 1 /\ u[1] = c
    OBVIOUS
  <2> HIDE DEF u
  <2>2. \A i \in 1..1 : i = 1
    OBVIOUS
  <2>3. \A i \in 1..Len(t) : t[i] = u[i]
    BY <1>4, <2>1, <2>2
  <2>4. t = u
    BY <1>4, <2>1, <2>3, SeqEqual
  <2> QED BY <2>4 DEF u
<1> QED BY <1>1, <1>5 DEF t, s

(* The names of the paths that boot and execv build are names. *)
LEMMA PartsAre ==
  "bin" \in Names /\ "dev" \in Names /\ "uart" \in Names /\ "k70Uart" \in Names
  BY DEF Names

(* Where the names of the console and of /bin lead, step by step. *)
LEMMA LookupsAre ==
  /\ stepTo(SNS[0], SNS[0][0].crumb, "bin") = 1 /\ stepTo(SNS[0], SNS[0][0].crumb, "dev") = 2
  /\ stepTo(SNS[0], SNS[0][2].crumb, "uart") = 15 /\ stepTo(SNS[3], SNS[3][0].crumb, "k70Uart") = 1
  /\ {0, 1, 2, 15} \subseteq Nodes(0) /\ {0, 1} \subseteq Nodes(3)
  /\ ISDIR(SNS[0][0].crumb) /\ ISDIR(SNS[0][2].crumb) /\ ISDIR(SNS[3][0].crumb)
<1>1. /\ 0 \in 0..7 /\ 3 \in 0..7 /\ IsTree(SNS[0], 22) /\ Size(0) = 22 /\ IsTree(SNS[3], Size(3)) /\ Size(3) \in 2..22
  BY NodesAre, 0 \in 0..7, 3 \in 0..7
<1>2. {0, 1, 2, 15} \subseteq Nodes(0) /\ {0, 1} \subseteq Nodes(3)
  BY <1>1 DEF Nodes
<1>3. ISDIR(SNS[0][0].crumb) /\ ISDIR(SNS[0][2].crumb) /\ ISDIR(SNS[3][0].crumb)
  BY <1>1, <1>2, NodesAre
<1>4. \A i \in 0..21 : SNS[0][i] = rootEntries[i + 1]
  BY SNSIs, RootIs
<1>5. /\ SNS[0][1].name = "bin" /\ SNS[0][2].name = "dev" /\ SNS[0][13].name = "swpb"
      /\ SNS[0][14].name = "led" /\ SNS[0][15].name = "uart"
  <2>1. /\ SNS[0][1] = rootEntries[2] /\ SNS[0][2] = rootEntries[3] /\ SNS[0][13] = rootEntries[14]
        /\ SNS[0][14] = rootEntries[15] /\ SNS[0][15] = rootEntries[16]
    BY <1>4, 1 + 1 = 2, 2 + 1 = 3, 13 + 1 = 14, 14 + 1 = 15, 15 + 1 = 16,
       1 \in 0..21, 2 \in 0..21, 13 \in 0..21, 14 \in 0..21, 15 \in 0..21
  <2> QED BY <2>1, RootEntriesAre
<1>6. \A i \in 1..21 : STATICNS_CRUMB_PARENT_IDX(SNS[0][i].crumb) = RootParent(i)
  <2>1. \A i \in 1..21 : i \in Nodes(0) /\ i # 0
    BY <1>1 DEF Nodes
  <2> QED BY <1>1, <2>1, NodesAre
<1>7. /\ Kids(SNS[0], 22, 0) = {1, 2} /\ Kids(SNS[0], 22, 2) = 13..21
  <2>1. \A i \in 1..21 : RootParent(i) = (IF i <= 2 THEN 0 ELSE IF i <= 12 THEN 1 ELSE 2)
    BY DEF RootParent
  <2>2. \A i \in 1..(22 - 1) : STATICNS_CRUMB_PARENT_IDX(SNS[0][i].crumb) = (IF i <= 2 THEN 0 ELSE IF i <= 12 THEN 1 ELSE 2)
    BY <1>6, <2>1, 22 - 1 = 21
  <2> QED BY <2>2 DEF Kids
<1>8. stepTo(SNS[0], SNS[0][0].crumb, "bin") = 1
  <2>1. 1 \in Kids(SNS[0], 22, 0) /\ \A k \in Kids(SNS[0], 22, 0) : ~ (k < 1)
    BY <1>7
  <2> QED BY <1>1, <1>3, <1>5, <2>1, LookupIs, 0 \in 0..(22 - 1), "bin" \notin {".", ".."}
<1>9. stepTo(SNS[0], SNS[0][0].crumb, "dev") = 2
  <2>1. 2 \in Kids(SNS[0], 22, 0) /\ \A k \in Kids(SNS[0], 22, 0) : k < 2 => k = 1
    BY <1>7
  <2>2. \A k \in Kids(SNS[0], 22, 0) : k < 2 => SNS[0][k].name # "dev"
    BY <1>5, <2>1
  <2>3. 2 \in Kids(SNS[0], 22, 0) /\ SNS[0][2].name = "dev" /\ 0 \in 0..(22 - 1) /\ ISDIR(SNS[0][0].crumb) /\ IsTree(SNS[0], 22)
    BY <1>1, <1>3, <1>5, <2>1
  <2> QED BY <2>2, <2>3, LookupIs, "dev" \notin {".", ".."}
<1>10. stepTo(SNS[0], SNS[0][2].crumb, "uart") = 15
  <2>1. 15 \in Kids(SNS[0], 22, 2) /\ \A k \in Kids(SNS[0], 22, 2) : k < 15 => k = 13 \/ k = 14
    BY <1>7
  <2>2. \A k \in Kids(SNS[0], 22, 2) : k < 15 => SNS[0][k].name # "uart"
    BY <1>5, <2>1
  <2> QED BY <1>1, <1>3, <1>5, <2>1, <2>2, LookupIs, 2 \in 0..(22 - 1), "uart" \notin {".", ".."}, SMTT(20)
<1>11. stepTo(SNS[3], SNS[3][0].crumb, "k70Uart") = 1
  <2>1. 1 \in Kids(SNS[3], Size(3), 0) /\ \A k \in Kids(SNS[3], Size(3), 0) : ~ (k < 1)
    <3>1. STATICNS_CRUMB_PARENT_IDX(SNS[3][1].crumb) = 0
      BY <1>1, <1>2, NodesAre
    <3>2. 1 \in 1..(Size(3) - 1) /\ \A k \in 1..(Size(3) - 1) : ~(k < 1)
      BY <1>1
    <3> QED BY <3>1, <3>2 DEF Kids
  <2>2. SNS[3][1].name = "k70Uart"
    BY FlatsAre, 3 \in 1..7
  <2>3. 0 \in 0..(Size(3) - 1)
    BY <1>1
  <2> QED BY <1>1, <1>3, <2>1, <2>2, <2>3, LookupIs, "k70Uart" \notin {".", ".."}
<1> QED BY <1>2, <1>3, <1>8, <1>9, <1>10, <1>11

(* The end of a walk that comes to a node that is no mount point. *)
LEMMA TurnedIs ==
  ASSUME NEW d, NEW i, NEW j, NEW elems, NEW left, ~ISMOUNT(SNS[d][j].crumb)
  PROVE  Turned(Start(d, i, elems), left, SNS[d][j].crumb) =
           [portal |-> Portal(d, j), elems |-> left, live |-> 1, end |-> "walked"]
<1> DEFINE w == Start(d, i, elems)
           v == Start(d, i, left)
           c == SNS[d][j].crumb
<1>1. v.portal = Portal(d, i) /\ [v.portal EXCEPT !.crumb = c] = Portal(d, j)
  BY DEF Portal, Start
<1>4. v = [w EXCEPT !.elems = left]
  BY DEF Start
<1> HIDE DEF v, w
<1>2. Turned(w, left, c) = [v EXCEPT !.portal = [v.portal EXCEPT !.crumb = c], !.end = "walked"]
  BY <1>4 DEF Turned
<1>3. Turned(w, left, c) = [v EXCEPT !.portal = Portal(d, j), !.end = "walked"]
  BY <1>1, <1>2
<1>5. v = [portal |-> Portal(d, i), elems |-> left, live |-> 1, end |-> "walking"]
  BY DEF v, Start
<1> QED BY <1>3, <1>5 DEF w

(* /bin is the directory of the commands. *)
LEMMA BinIs ==
  /\ walkPath(binPath).portal = Portal(0, 1) /\ Portal(0, 1) \in Portals
  /\ walkPath(binPath).ok = TRUE /\ walkPath(binPath).live = 1 /\ walkPath(binPath).null = FALSE
  /\ nameOf(Portal(0, 1)) = <<"bin">> /\ <<"bin">> \in Seq(Names)
<1> DEFINE elems == <<"bin">>
           at == [k \in 0..1 |-> k]
           w0 == Start(0, 0, elems)
<1>1. elems \in Seq(Names) /\ Len(elems) = 1 /\ elems[1] = "bin"
  BY PartsAre, SinglePart
<1>2. walkPath(binPath) = syswalk(Portal(0, 0), elems)
  <2>1. binPath.abs = TRUE /\ binPath.parts = elems
    BY DEF binPath
  <2>2. binPath.parts \in Seq(Names) /\ binPath.parts # <<>>
    BY <1>1, <2>1
  <2> HIDE DEF elems
  <2>3. mkPath(binPath) = elems
    BY <2>1, <2>2, MkPathIs
  <2> QED BY <2>1, <2>3, SlashIs DEF walkPath
<1>3. WholeTrail(0, 0, elems, at, 1)
  <2>1. at[0] = 0 /\ at[1] = 1 /\ at \in [0..1 -> Nodes(0)]
    BY LookupsAre
  <2> HIDE DEF at, elems
  <2>2. \A j \in 1..1 : j = 1 /\ 1 - 1 = 0
    OBVIOUS
  <2>3. IsTrail(SNS[0], 0, elems, at, 1)
    BY <1>1, <2>1, <2>2, LookupsAre DEF IsTrail
  <2> QED BY <1>1, <2>1, <2>3 DEF WholeTrail
<1>5. 1 \in Nodes(0) /\ 0 \in Nodes(0) /\ 0 \in 0..7
  BY LookupsAre
<1>6. Portal(0, 1) \in Portals /\ nameOf(Portal(0, 1)) = <<"bin">>
  <2>1. Portal(0, 1) \in Portals
    BY <1>5, PlaceIn
  <2>2. SNS[0][1].name = "bin"
    BY SNSIs, RootIs, RootEntriesAre, 1 \in 0..21, 1 + 1 = 2
  <2>3. nameOf(Portal(0, 1)) = <<SNS[0][1].name>>
    <3>1. 1 # 0 /\ 1 <= 2
      OBVIOUS
    <3> QED BY <1>5, <3>1, NamesAre
  <2> QED BY <2>1, <2>2, <2>3
<1> DEFINE w1 == [portal |-> Portal(0, 1), elems |-> <<>>, live |-> 1, end |-> "walked"]
<1>7. walkDevice(w0) = w1
  <2>1. ~ISMOUNT(SNS[0][1].crumb)
    BY <1>5, NodesAre
  <2>2. at[1] = 1
    OBVIOUS
  <2>3. SubSeq(elems, 1 + 1, Len(elems)) = <<>>
    BY <1>1, SubSeqEmpty
  <2>7. Turned(w0, <<>>, SNS[0][1].crumb) = w1
    BY <2>1, TurnedIs
  <2> HIDE DEF at, elems, w1
  <2>5. walkDevice(w0) = Turned(w0, SubSeq(elems, 1 + 1, Len(elems)), SNS[0][at[1]].crumb)
    <3>1. 1 \in 1..Len(elems) /\ ISDIR(SNS[0][0].crumb)
      BY <1>1, LookupsAre
    <3> QED BY <1>1, <1>3, <1>5, <3>1, TurnIs
  <2> QED BY <2>2, <2>3, <2>5, <2>7
<1>8. PICK U : IsNaming(U, nameOf(Portal(0, 0)), elems)
  <2>1. nameOf(Portal(0, 0)) \in Seq(Names)
    BY SlashIs, EmptySeq
  <2> HIDE DEF elems
  <2> QED BY <1>1, <2>1, NamingExists
<1>9. PICK g : IsRun(g, Portal(0, 0), elems)
  <2> HIDE DEF elems
  <2> QED BY <1>1, <1>8, SlashIs, SyswalkRuns
<1>10. g[0] = w0 /\ g[1] = walkDevice(g[0]) /\ g[2] = walkDevice(g[1]) /\ syswalk(Portal(0, 0), elems) = walkResult(g[2])
  <2>1. Len(elems) + 1 = 2 /\ 1 \in 1..2 /\ 2 \in 1..2 /\ 1 - 1 = 0 /\ 2 - 1 = 1
    BY <1>1
  <2> HIDE DEF elems
  <2> QED BY <1>9, <2>1 DEF IsRun, Start
<1>11. walkDevice(w1) = w1
  BY DEF walkDevice
<1> HIDE DEF w0, elems
<1>12. syswalk(Portal(0, 0), elems) = walkResult(w1)
  <2> HIDE DEF w1
  <2> QED BY <1>7, <1>10, <1>11
<1>13. /\ walkResult(w1).portal = Portal(0, 1) /\ walkResult(w1).ok = TRUE
       /\ walkResult(w1).live = 1 /\ walkResult(w1).null = FALSE
  <2> HIDE DEF w1
  <2>1. w1.portal = Portal(0, 1) /\ w1.elems = <<>> /\ w1.live = 1 /\ w1.end = "walked"
    BY DEF w1
  <2> QED BY <2>1 DEF walkResult
<1> QED BY <1>1, <1>2, <1>6, <1>12, <1>13 DEF elems

(* The console's name leads to a file: a walk across the mount point uart. *)
LEMMA TtyIs ==
  /\ ttyPath.parts \in Seq(Names) /\ Len(ttyPath.parts) = 3 /\ ttyPath.abs = TRUE
  /\ \A k \in 1..3 : ttyPath.parts[k] # ".."
  /\ walkPath(ttyPath).ok
<1> DEFINE elems == <<"dev", "uart", "k70Uart">>
           left  == <<"k70Uart">>
           at == [k \in 0..2 |-> IF k = 0 THEN 0 ELSE IF k = 1 THEN 2 ELSE 15]
           bt == [k \in 0..1 |-> k]
           w0 == Start(0, 0, elems)
           w1 == Start(3, 0, left)
           w2 == [portal |-> Portal(3, 1), elems |-> <<>>, live |-> 1, end |-> "walked"]
<1>1. /\ elems \in Seq(Names) /\ Len(elems) = 3 /\ elems[1] = "dev" /\ elems[2] = "uart" /\ elems[3] = "k70Uart"
      /\ SubSeq(elems, 3, 3) = left
  BY PartsAre, ThreeParts
<1>2. left \in Seq(Names) /\ Len(left) = 1 /\ left[1] = "k70Uart"
  BY PartsAre, SinglePart
<1>3. ttyPath.abs = TRUE /\ ttyPath.parts = elems
  BY DEF ttyPath
<1>4. \A k \in 1..3 : elems[k] # ".."
  <2>1. \A k \in 1..3 : k = 1 \/ k = 2 \/ k = 3
    OBVIOUS
  <2> QED BY <1>1, <2>1
<1> HIDE DEF elems, left
<1>5. walkPath(ttyPath) = syswalk(Portal(0, 0), elems)
  <2>1. elems # <<>>
    BY <1>1
  <2>2. mkPath(ttyPath) = elems
    BY <1>1, <1>3, <2>1, MkPathIs
  <2> QED BY <1>3, <2>2, SlashIs DEF walkPath
<1>6. 15 \in Nodes(0) /\ 0 \in Nodes(0) /\ 0 \in 0..7 /\ 0 \in Nodes(3) /\ 1 \in Nodes(3) /\ 3 \in 0..7
  BY LookupsAre
<1>7. ISMOUNT(SNS[0][15].crumb) /\ ~ISDIR(SNS[0][15].crumb) /\ ~ISMOUNT(SNS[3][1].crumb)
      /\ STATICNS_CRUMB_SELF_IDX(SNS[0][15].crumb) = 15
  BY <1>6, NodesAre
<1>8. walkDevice(w0) = w1
  <2>1. WholeTrail(0, 0, elems, at, 2)
    <3>1. at[0] = 0 /\ at[1] = 2 /\ at[2] = 15 /\ at \in [0..2 -> Nodes(0)]
      BY LookupsAre
    <3> HIDE DEF at
    <3>2. \A j \in 1..2 : (j = 1 /\ j - 1 = 0) \/ (j = 2 /\ j - 1 = 1)
      OBVIOUS
    <3>3. IsTrail(SNS[0], 0, elems, at, 2)
      BY <1>1, <3>1, <3>2, LookupsAre DEF IsTrail
    <3>4. Blocked(SNS[0], at[2], elems[2 + 1])
      BY <1>7, <3>1 DEF Blocked
    <3> QED BY <1>1, <3>1, <3>3, <3>4, 2 \in 0..3 DEF WholeTrail
  <2>2. at[2] = 15
    OBVIOUS
  <2>3. SubSeq(elems, 2 + 1, Len(elems)) = left
    BY <1>1
  <2> HIDE DEF at
  <2>4. walkDevice(w0) = Turned(w0, SubSeq(elems, 2 + 1, Len(elems)), SNS[0][at[2]].crumb)
    <3>1. 2 \in 1..Len(elems) /\ ISDIR(SNS[0][0].crumb)
      BY <1>1, LookupsAre
    <3>2. elems \in Seq(Names) /\ 0 \in 0..7 /\ 0 \in Nodes(0)
      BY <1>1, <1>6
    <3> HIDE DEF w0, w1
    <3> QED BY <2>1, <3>1, <3>2, TurnIs DEF w0
  <2> DEFINE v == Start(0, 0, left)
             e == SNS[0][15]
  <2>5. Turned(w0, left, SNS[0][15].crumb) = crossMount(v, SNS[0][15].crumb)
    <3>1. v = [w0 EXCEPT !.elems = left]
      BY DEF Start
    <3> HIDE DEF v, w0
    <3> QED BY <1>7, <3>1 DEF Turned
  <2>6. fromDeviceId(e.length) = 3
    <3>1. e = rootEntries[16] /\ e.length = deviceTable[3]
      <4>1. 15 \in 0..21 /\ 15 + 1 = 16 /\ 16 \in 1..22 /\ 16 \in 14..22 /\ 16 - 1 = 15 /\ MountedOn(15) = 3
        BY DEF MountedOn
      <4> QED BY <4>1, SNSIs, RootIs, RootEntriesAre
    <3> QED BY <1>6, <3>1, FromDeviceIdIs
  <2>7. attach(3, e.contents) = Portal(3, 0)
    <3>1. deviceTable[3] # "DEVDEV"
      BY DevicesAre
    <3> HIDE DEF e
    <3> QED BY <3>1 DEF attach, Portal
  <2>8. v.portal.device = 0 /\ v.live - 1 + 1 = 1
    BY DEF Start, Portal
  <2>9. crossMount(v, SNS[0][15].crumb) = [v EXCEPT !.portal = Portal(3, 0), !.live = 1]
    <3> HIDE DEF v
    <3>1. SNS[v.portal.device][STATICNS_CRUMB_SELF_IDX(SNS[0][15].crumb)] = e
      BY <1>7, <2>8
    <3>2. crossMount(v, SNS[0][15].crumb) = [v EXCEPT !.portal = attach(fromDeviceId(e.length), e.contents), !.live = v.live - 1 + 1]
      BY <3>1 DEF crossMount
    <3> HIDE DEF e
    <3> QED BY <2>6, <2>7, <2>8, <3>2
  <2>10. [v EXCEPT !.portal = Portal(3, 0), !.live = 1] = w1
    <3>1. [v EXCEPT !.portal = Portal(3, 0)] = w1
      BY DEF Start
    <3>2. [w1 EXCEPT !.live = 1] = w1
      BY DEF Start
    <3> HIDE DEF v, w1
    <3>3. [v EXCEPT !.portal = Portal(3, 0), !.live = 1] = [[v EXCEPT !.portal = Portal(3, 0)] EXCEPT !.live = 1]
      OBVIOUS
    <3> QED BY <3>1, <3>2, <3>3
  <2> QED BY <2>2, <2>3, <2>4, <2>5, <2>9, <2>10
<1>9. walkDevice(w1) = w2
  <2>1. WholeTrail(3, 0, left, bt, 1)
    <3>1. bt[0] = 0 /\ bt[1] = 1 /\ bt \in [0..1 -> Nodes(3)]
      BY LookupsAre
    <3> HIDE DEF bt
    <3>2. \A j \in 1..1 : j = 1 /\ 1 - 1 = 0
      OBVIOUS
    <3>3. IsTrail(SNS[3], 0, left, bt, 1)
      BY <1>2, <3>1, <3>2, LookupsAre DEF IsTrail
    <3> QED BY <1>2, <3>1, <3>3 DEF WholeTrail
  <2>2. bt[1] = 1
    OBVIOUS
  <2>3. SubSeq(left, 1 + 1, Len(left)) = <<>>
    BY <1>2, SubSeqEmpty
  <2>4. Turned(w1, <<>>, SNS[3][1].crumb) = w2
    BY <1>7, TurnedIs
  <2> HIDE DEF bt, w2
  <2>5. walkDevice(w1) = Turned(w1, SubSeq(left, 1 + 1, Len(left)), SNS[3][bt[1]].crumb)
    <3>1. 1 \in 1..Len(left) /\ ISDIR(SNS[3][0].crumb)
      BY <1>2, LookupsAre
    <3>2. left \in Seq(Names) /\ 3 \in 0..7 /\ 0 \in Nodes(3)
      BY <1>2, <1>6
    <3> HIDE DEF w0, w1
    <3> QED BY <2>1, <3>1, <3>2, TurnIs DEF w1
  <2> QED BY <2>2, <2>3, <2>4, <2>5
<1>10. PICK U : IsNaming(U, nameOf(Portal(0, 0)), elems)
  <2>1. nameOf(Portal(0, 0)) \in Seq(Names)
    BY SlashIs, EmptySeq
  <2> QED BY <1>1, <2>1, NamingExists
<1>11. PICK g : IsRun(g, Portal(0, 0), elems)
  BY <1>1, <1>10, SlashIs, SyswalkRuns
<1>12. /\ g[0] = w0 /\ g[1] = walkDevice(g[0]) /\ g[2] = walkDevice(g[1]) /\ g[3] = walkDevice(g[2])
       /\ g[4] = walkDevice(g[3]) /\ syswalk(Portal(0, 0), elems) = walkResult(g[4])
  <2>1. /\ Len(elems) + 1 = 4 /\ 1 \in 1..4 /\ 2 \in 1..4 /\ 3 \in 1..4 /\ 4 \in 1..4
        /\ 1 - 1 = 0 /\ 2 - 1 = 1 /\ 3 - 1 = 2 /\ 4 - 1 = 3
    BY <1>1
  <2> QED BY <1>11, <2>1 DEF IsRun, Start
<1>13. walkDevice(w2) = w2
  BY DEF walkDevice
<1> HIDE DEF w0, w1
<1>14. syswalk(Portal(0, 0), elems) = walkResult(w2)
  <2> HIDE DEF w2
  <2> QED BY <1>8, <1>9, <1>12, <1>13
<1>15. walkResult(w2).ok
  BY DEF walkResult
<1> QED BY <1>1, <1>3, <1>4, <1>5, <1>14, <1>15
-----------------------------------------------------------------------------
(***************************************************************************)
(* walkPath() and the commands.                                            *)
(***************************************************************************)
(* What a walk returns: a portal, allocated only when the walk succeeds. *)
IsWalk(w) == /\ w.ok \in BOOLEAN /\ w.null \in BOOLEAN /\ w.portal \in Portals
             /\ w.live = IF w.ok THEN 1 ELSE 0

(* The walk of a path leads to the node the path names. *)
LEMMA WalkPathIs ==
  ASSUME NEW path, path.parts \in Seq(Names), path.parts # <<>>
  PROVE  /\ IsWalk(walkPath(path))
         /\ Straight(path) /\ walkPath(path).ok =>
              /\ nameOf(walkPath(path).portal) = normal(path.parts)
              /\ path.parts[Len(path.parts)] \in {".", ".."} => ISDIR(walkPath(path).portal.crumb)
<1> DEFINE elems == mkPath(path)
           w == walkPath(path)
<1>1. w = syswalk(Portal(0, 0), elems)
  BY SlashIs DEF walkPath
<1>2. elems \in Seq(Names)
  BY MkPathIs
<1>3. <<>> \in Seq(Names) /\ nameOf(Portal(0, 0)) = <<>> /\ Portal(0, 0) \in Portals
  BY SlashIs, EmptySeq
<1> HIDE DEF elems, w
<1>4. PICK U : IsNaming(U, <<>>, elems)
  BY <1>2, <1>3, NamingExists
<1>5. Arrives(w, U, elems)
  BY <1>1, <1>2, <1>3, <1>4, SyswalkIs
<1>6. IsWalk(w)
  BY <1>5 DEF Arrives, IsWalk
<1>7. ASSUME Straight(path), w.ok
      PROVE  /\ nameOf(w.portal) = normal(path.parts)
             /\ path.parts[Len(path.parts)] \in {".", ".."} => ISDIR(w.portal.crumb)
  <2>1. elems = path.parts
    BY <1>7, MkPathIs DEF Straight, elems
  <2>2. DotsStay(U, elems)
    BY <1>4, <1>7, <2>1, StraightDots
  <2>3. U[Len(elems)] = normal(elems)
    BY <1>2, <1>4, NormalIs
  <2>4. Len(elems) # 0
    BY <1>2, <2>1, EmptySeq
  <2> QED BY <1>5, <1>7, <2>1, <2>2, <2>3, <2>4 DEF Arrives
<1> QED BY <1>6, <1>7 DEF w

(* Two equal sequences have the same last element. *)
LEMMA AppendLast ==
  ASSUME NEW S, NEW s \in Seq(S), NEW x \in S, NEW T, NEW t \in Seq(T), NEW y \in T,
         Append(s, x) = Append(t, y)
  PROVE  x = y
<1>1. Len(s) \in Nat /\ Len(t) \in Nat
  OBVIOUS
<1>2. Len(Append(s, x)) = Len(s) + 1 /\ Append(s, x)[Len(s) + 1] = x
  BY AppendProperties
<1>3. Len(Append(t, y)) = Len(t) + 1 /\ Append(t, y)[Len(t) + 1] = y
  BY AppendProperties
<1>4. Len(s) = Len(t)
  BY <1>1, <1>2, <1>3
<1> QED BY <1>2, <1>3, <1>4

(* The files of the root device are the commands, each with its name for
   contents. *)
LEMMA CommandIs ==
  ASSUME NEW p \in Portals, p.device = 0, "ISFILE" \in p.crumb.flags
  PROVE  LET e == SNS[0][STATICNS_CRUMB_SELF_IDX(p.crumb)]
         IN  /\ ~ISDIR(p.crumb) /\ e.contents = e.name /\ e.length \in Nat
             /\ \E x : nameOf(p) = Append(<<x>>, e.name)
<1>1. PICK d \in 0..7 : \E i \in Nodes(d) : p = Portal(d, i) /\ (d = 0 => i <= 12) /\ (d = 7 => i # 0)
  BY PlaceIs
<1>2. PICK i \in Nodes(d) : p = Portal(d, i) /\ (d = 0 => i <= 12) /\ (d = 7 => i # 0)
  BY <1>1
<1>3. d = 0 /\ p.crumb = SNS[0][i].crumb
  <2>1. p.device = d /\ p.crumb = SNS[d][i].crumb
    BY <1>2 DEF Portal
  <2> QED BY <2>1
<1>4. ~ISDIR(p.crumb) /\ STATICNS_CRUMB_SELF_IDX(p.crumb) = i
  BY <1>3, NodesAre
<1>5. i \in 3..12
  <2>1. ISDIR(SNS[0][i].crumb) <=> i = 0 \/ i <= 2
    BY <1>3, NodesAre
  <2>2. i \in Nat
    BY NodeIsIndex
  <2> QED BY <1>2, <1>3, <1>4, <2>1, <2>2
<1>6. SNS[0][i].contents = SNS[0][i].name /\ SNS[0][i].length \in Nat
  <2>1. i \in 0..21 /\ i + 1 \in 1..22 /\ i + 1 \in 4..13
    BY <1>5
  <2>2. SNS[0][i] = rootEntries[i + 1]
    BY <2>1, SNSIs, RootIs
  <2> QED BY <2>1, <2>2, RootEntriesAre
<1>7. nameOf(p) = Append(<<SNS[0][STATICNS_CRUMB_PARENT_IDX(SNS[0][i].crumb)].name>>, SNS[0][i].name)
  <2>1. i # 0 /\ ~(i <= 2)
    BY <1>5
  <2> QED BY <1>2, <1>3, <2>1, NamesAre
<1> QED BY <1>4, <1>6, <1>7

(* A node's name that ends with a part is that of the node found under it. *)
LEMMA NamedCommand ==
  ASSUME NEW p \in Portals, p.device = 0, "ISFILE" \in p.crumb.flags,
         NEW s \in Seq(Names), NEW x \in Names, nameOf(p) = down(s, x),
         x \in {".", ".."} => ISDIR(p.crumb)
  PROVE  SNS[0][STATICNS_CRUMB_SELF_IDX(p.crumb)].contents = x
<1> DEFINE e == SNS[0][STATICNS_CRUMB_SELF_IDX(p.crumb)]
<1>1. ~ISDIR(p.crumb) /\ e.contents = e.name /\ \E y : nameOf(p) = Append(<<y>>, e.name)
  BY CommandIs
<1> HIDE DEF e
<1>2. PICK y : nameOf(p) = Append(<<y>>, e.name)
  BY <1>1
<1>3. down(s, x) = Append(s, x)
  BY <1>1 DEF down
<1> DEFINE q == <<y>>
           Q == {y, e.name}
<1>4. q \in Seq(Q) /\ e.name \in Q
  OBVIOUS
<1> HIDE DEF Q
<1>6. nameOf(p) = Append(q, e.name)
  BY <1>2
<1> HIDE DEF q
<1>7. Append(q, e.name) = Append(s, x)
  BY <1>3, <1>6, Zenon
<1>5. e.name = x
  BY <1>4, <1>7, AppendLast
<1> QED BY <1>1, <1>5 DEF e

(* A walk of no elements succeeds. *)
LEMMA EmptyWalk ==
  syswalk(Portal(0, 0), <<>>).ok
<1> DEFINE elems == <<>>
<1>1. elems \in Seq(Names) /\ Len(elems) = 0 /\ nameOf(Portal(0, 0)) \in Seq(Names)
  BY EmptySeq, SlashIs
<1>2. PICK U : IsNaming(U, nameOf(Portal(0, 0)), elems)
  BY <1>1, NamingExists
<1>3. PICK g : IsRun(g, Portal(0, 0), elems)
  BY <1>1, <1>2, SlashIs, SyswalkRuns
<1>4. g[1] = walkDevice(g[0]) /\ g[0].elems = elems /\ syswalk(Portal(0, 0), elems) = walkResult(g[1])
  <2>1. 0 + 1 = 1 /\ 1 \in 1..1 /\ 1 - 1 = 0
    OBVIOUS
  <2> HIDE DEF elems
  <2> QED BY <1>1, <1>3, <2>1 DEF IsRun
<1>5. g[1] = g[0]
  BY <1>4 DEF walkDevice
<1>6. walkResult(g[1]).ok = (g[1].elems = <<>>)
  BY DEF walkResult
<1> QED BY <1>4, <1>5, <1>6

(* sysexecv finds the command the path's last part names. *)
LEMMA FindCommandIs ==
  ASSUME NEW path, path.parts \in Seq(Names), path.parts # <<>>
  PROVE  LET w == findCommand(path)
         IN  /\ IsWalk(w)
             /\ Straight(path) /\ w.ok /\ w.portal.device = 0 /\ "ISFILE" \in w.portal.crumb.flags =>
                  SNS[0][STATICNS_CRUMB_SELF_IDX(w.portal.crumb)].contents = Last(path.parts)
<1> DEFINE w == findCommand(path)
           u == walkPath(path)
           s == path.parts
           n == Len(s)
<1>1. n \in Nat /\ n # 0 /\ Last(s) = s[n] /\ s[n] \in Names /\ n \in 1..n
  <2>1. n \in Nat /\ n # 0
    BY EmptySeq
  <2>2. n \in 1..n
    BY <2>1
  <2> QED BY <2>1, <2>2 DEF Last
<1>2. CASE u.ok \/ path.abs
  <2>1. w = u
    BY <1>2 DEF findCommand, orFromBin
  <2>2. IsWalk(w)
    BY <2>1, WalkPathIs
  <2>3. ASSUME Straight(path), w.ok, w.portal.device = 0, "ISFILE" \in w.portal.crumb.flags
        PROVE  SNS[0][STATICNS_CRUMB_SELF_IDX(w.portal.crumb)].contents = Last(s)
    <3>1. w.portal \in Portals
      BY <2>2 DEF IsWalk
    <3>2. nameOf(w.portal) = normal(s) /\ (s[n] \in {".", ".."} => ISDIR(w.portal.crumb))
      BY <2>1, <2>3, WalkPathIs
    <3>3. PICK U : IsNaming(U, <<>>, s)
      BY NamingExists, EmptySeq
    <3>4. normal(s) = U[n] /\ U[n] = down(U[n - 1], s[n]) /\ U[n - 1] \in Seq(Names)
      <4>1. n - 1 \in 0..n
        BY <1>1
      <4> QED BY <1>1, <3>3, <4>1, NormalIs DEF IsNaming
    <3> HIDE DEF w, n
    <3> QED BY <1>1, <2>3, <3>1, <3>2, <3>4, NamedCommand
  <2> QED BY <2>2, <2>3
<1>3. CASE ~u.ok /\ ~path.abs
  <2> DEFINE x == Last(mkPath(path))
             elems == <<x>>
           y == syswalk(Portal(0, 1), elems)
  <2>1. w = [ok |-> y.ok, portal |-> y.portal, live |-> u.live + 1 + y.live - 1,
             null |-> u.null \/ FALSE \/ y.null]
    BY <1>3, BinIs DEF findCommand, orFromBin
  <2>9. IsWalk(u)
    BY WalkPathIs
  <2>2. Straight(path) => x = s[n]
    <3>1. Straight(path) => mkPath(path) = s
      BY <1>3, MkPathIs DEF Straight
    <3> QED BY <1>1, <3>1
  <2>3. x \in Names
    <3>1. mkPath(path) # <<>>
      BY <1>3, EmptyWalk, SlashIs DEF walkPath
    <3> DEFINE m == mkPath(path)
    <3>2. m \in Seq(Names) /\ m # <<>>
      BY <3>1, MkPathIs
    <3> HIDE DEF m
    <3>3. Len(m) \in Nat \ {0}
      BY <3>2, EmptySeq
    <3>4. Len(m) \in 1..Len(m)
      BY <3>3
    <3>5. m[Len(m)] \in Names
      BY <3>2, <3>4
    <3> QED BY <3>5 DEF Last, m
  <2> HIDE DEF x
  <2>4. elems \in Seq(Names) /\ Len(elems) = 1 /\ elems[1] = x
    BY <2>3, SinglePart
  <2> HIDE DEF elems
  <2>5. PICK U : IsNaming(U, <<"bin">>, elems)
    BY <2>4, BinIs, NamingExists
  <2>10. Arrives(y, U, elems)
    BY <2>4, <2>5, BinIs, SyswalkIs
  <2> HIDE DEF y, u
  <2>11. /\ w.portal = y.portal /\ w.ok = y.ok /\ w.null = (u.null \/ y.null)
         /\ w.live = y.live
    <3>1. u.live = 0 /\ y.live \in Nat
      BY <1>3, <2>9, <2>10 DEF IsWalk, Arrives
    <3>2. u.live + 1 + y.live - 1 = y.live
      BY <3>1
    <3>3. w.live = u.live + 1 + y.live - 1 /\ w.portal = y.portal /\ w.ok = y.ok
      BY <2>1
    <3> DEFINE z == u.null \/ FALSE \/ y.null
    <3>5. z = (u.null \/ y.null)
      BY Zenon
    <3> HIDE DEF z
    <3>6. w = [ok |-> y.ok, portal |-> y.portal, live |-> u.live + 1 + y.live - 1, null |-> z]
      BY <2>1 DEF z
    <3>4. w.null = (u.null \/ y.null)
      BY <3>5, <3>6
    <3> QED BY <3>2, <3>3, <3>4
  <2>6. Arrives(w, U, elems)
    <3>1. w.null \in BOOLEAN
      BY Zenon, <2>9, <2>10, <2>11 DEF IsWalk, Arrives
    <3> QED BY <2>10, <2>11, <3>1 DEF Arrives
  <2>7. IsWalk(w)
    BY <2>6 DEF Arrives, IsWalk
  <2>8. ASSUME Straight(path), w.ok, w.portal.device = 0, "ISFILE" \in w.portal.crumb.flags
        PROVE  SNS[0][STATICNS_CRUMB_SELF_IDX(w.portal.crumb)].contents = Last(s)
    <3>1. w.portal \in Portals
      BY <2>7 DEF IsWalk
    <3>2. U[1] = down(U[0], elems[1]) /\ U[0] \in Seq(Names) /\ U[0] = <<"bin">>
      <4>1. 1 \in 1..1 /\ 1 - 1 = 0 /\ 0 \in 0..1
        OBVIOUS
      <4> QED BY <2>4, <2>5, <4>1 DEF IsNaming
    <3>3. x \in {".", ".."} => ISDIR(w.portal.crumb)
      BY <2>4, <2>6, <2>8 DEF Arrives
    <3>4. ~ISDIR(w.portal.crumb)
      BY <2>8, <3>1, CommandIs
    <3>5. DotsStay(U, elems)
      <4>1. \A k \in 1..1 : k = 1
        OBVIOUS
      <4> QED BY <2>4, <3>3, <3>4, <4>1 DEF DotsStay
    <3>6. nameOf(w.portal) = down(U[0], x)
      BY <2>4, <2>6, <2>8, <3>2, <3>5 DEF Arrives
    <3> HIDE DEF w, n
    <3>7. SNS[0][STATICNS_CRUMB_SELF_IDX(w.portal.crumb)].contents = x
      BY <2>3, <2>8, <3>1, <3>2, <3>3, <3>6, NamedCommand
    <3> QED BY <1>1, <2>2, <2>8, <3>7
  <2> QED BY <2>7, <2>8
<1> QED BY <1>2, <1>3
-----------------------------------------------------------------------------
(***************************************************************************)
(* Listings.                                                               *)
(***************************************************************************)
(* The names of all files. *)
FileNames == {SNS[x[1]][x[2]].name : x \in {y \in (0..7) \X (0..21) : y[2] \in Nodes(y[1])}}

(* The names of the children of a place are a sequence of names of the tables. *)
LEMMA ListingIs ==
  ASSUME NEW p \in Portals, ISDIR(p.crumb)
  PROVE  childNames(SNS[p.device], p.crumb) \in Seq(FileNames)
<1>1. PICK d \in 0..7 : \E i \in Nodes(d) : p = Portal(d, i) /\ (d = 0 => i <= 12) /\ (d = 7 => i # 0)
  BY PlaceIs
<1>2. PICK i \in Nodes(d) : p = Portal(d, i) /\ (d = 0 => i <= 12) /\ (d = 7 => i # 0)
  BY <1>1
<1>3. p.device = d /\ p.crumb = SNS[d][i].crumb
  BY <1>2 DEF Portal
<1> DEFINE ns == SNS[d]
           n == Size(d)
           kids == Kids(ns, n, i)
           first == Min(kids)
           names == childNames(ns, ns[i].crumb)
<1>4. IsTree(ns, n) /\ n \in 2..22 /\ i \in 0..(n - 1) /\ ISDIR(ns[i].crumb)
  BY <1>3, NodesAre DEF Nodes
<1>5. names = IF kids = {} THEN <<>> ELSE [k \in 1..Cardinality(kids) |-> ns[first + k - 1].name]
  <2> HIDE DEF ns, n
  <2> QED BY <1>4, ChildNamesAre
<1>6. CASE kids = {}
  BY <1>3, <1>5, <1>6, EmptySeq
<1>7. CASE kids # {}
  <2>1. PICK last \in 1..(n - 1) : first \in 1..last /\ kids = first..last
    <3> HIDE DEF ns, n
    <3> QED BY <1>4, <1>7, SiblingsAre
  <2>2. n \in Nat
    BY <1>4
  <2> HIDE DEF n
  <2>3. first \in Int /\ last \in Int /\ ~(first > last) /\ first >= 1 /\ last <= n - 1
    BY <2>1, <2>2
  <2> DEFINE c == last - first + 1
  <2>4. Cardinality(kids) = c
    <3> HIDE DEF kids, first
    <3> QED BY <2>1, <2>3, FS_Interval
  <2> HIDE DEF first, kids, ns
  <2>5. c \in Nat /\ \A k \in 1..c : first + k - 1 \in 0..21 /\ first + k - 1 \in 0..(n - 1)
    BY <1>4, <2>2, <2>3
  <2>6. \A k \in 1..c : ns[first + k - 1].name \in FileNames
    <3> SUFFICES ASSUME NEW k \in 1..c PROVE ns[first + k - 1].name \in FileNames
      OBVIOUS
    <3> DEFINE j == first + k - 1
    <3>1. j \in 0..21 /\ j \in Nodes(d)
      BY <2>5 DEF n, Nodes
    <3> HIDE DEF j
    <3>2. <<d, j>> \in (0..7) \X (0..21) /\ <<d, j>>[1] = d /\ <<d, j>>[2] = j
      BY <3>1
    <3> DEFINE x == <<d, j>>
    <3>3. x \in {y \in (0..7) \X (0..21) : y[2] \in Nodes(y[1])} /\ SNS[x[1]][x[2]].name = ns[j].name
      BY <3>1, <3>2 DEF ns
    <3> HIDE DEF x
    <3> QED BY <3>3 DEF FileNames, j
  <2> HIDE DEF c
  <2>7. names = [k \in 1..c |-> ns[first + k - 1].name]
    BY <1>5, <1>7, <2>4
  <2>8. names \in Seq(FileNames)
    BY <2>5, <2>6, <2>7
  <2> QED BY <1>3, <2>8 DEF ns
<1> QED BY <1>6, <1>7

-----------------------------------------------------------------------------
(***************************************************************************)
(* What a slot of a descriptor table holds.                                *)
(***************************************************************************)
EveryPathStraight == \A path \in Paths : Straight(path)

(* What a slot holds: a portal in one of the places, what was read of it if it
   is on a directory, and the path it was opened by, which names its node. *)
Crumbs == {p.crumb : p \in Portals}
(* The portal's own fields of what a slot holds, and the listing of its directory. *)
PortalIn(x) == [device |-> x.device, crumb |-> x.crumb]
NamesOf(x) == childNames(SNS[x.device], x.crumb)

Slots ==
  {x \in [device : 0..7, crumb : Crumbs, offset : Nat, path : Paths \cup {ttyPath}, got : Seq(FileNames)] :
     /\ PortalIn(x) \in Portals
     /\ ISDIR(x.crumb) => x.offset \in 0..Len(NamesOf(x)) /\ x.got = SubSeq(NamesOf(x), 1, x.offset)
     /\ EveryPathStraight => nameOf(PortalIn(x)) = normal(x.path.parts)}

(* A path of the program has names for parts, and at least one. *)
LEMMA PathIs ==
  ASSUME NEW path \in Paths
  PROVE  path.parts \in Seq(Names) /\ path.parts # <<>>
<1>1. path \in [abs : BOOLEAN, parts : Seq(STRING) \ {<<>>}]
  BY NamespaceAssumption
<1>2. path.parts \in Seq(STRING) /\ path.parts # <<>>
  BY <1>1
<1>3. path.parts \in Seq(Names)
  <2> DEFINE s == path.parts
             T == STRING
  <2>1. s \in Seq(T) /\ T \subseteq Names
    BY <1>2 DEF Names
  <2> HIDE DEF s, T
  <2> QED BY <2>1 DEF s
<1> QED BY <1>2, <1>3

(* The path of the console leads where it says. *)
LEMMA TtyStraight ==
  Straight(ttyPath) /\ ttyPath.parts \in Seq(Names) /\ ttyPath.parts # <<>>
<1>1. /\ ttyPath.parts \in Seq(Names) /\ Len(ttyPath.parts) = 3 /\ ttyPath.abs = TRUE
      /\ \A k \in 1..3 : ttyPath.parts[k] # ".."
  BY TtyIs
<1>2. ttyPath.parts # <<>>
  BY <1>1
<1>3. Straight(ttyPath)
  BY <1>1 DEF Straight
<1> QED BY <1>1, <1>2, <1>3

(* nameOf looks at the device and the crumb only. *)
LEMMA NameOfPortal ==
  ASSUME NEW x
  PROVE  nameOf(x) = nameOf(PortalIn(x))
<1>1. PortalIn(x).device = x.device /\ PortalIn(x).crumb = x.crumb
  BY DEF PortalIn
<1> QED BY <1>1 DEF nameOf

(* The fields of a portal on a place. *)
LEMMA PortalIs ==
  ASSUME NEW p \in Portals
  PROVE  /\ p.device \in 0..7 /\ p = [device |-> p.device, crumb |-> p.crumb]
         /\ p.crumb \in Crumbs
         /\ \E i \in Nodes(p.device) : /\ p.crumb = SNS[p.device][i].crumb
                                       /\ STATICNS_CRUMB_SELF_IDX(p.crumb) = i
                                       /\ (p.device = 0 => i <= 12) /\ (p.device = 7 => i # 0)
<1>1. PICK d \in 0..7 : \E i \in Nodes(d) : p = Portal(d, i) /\ (d = 0 => i <= 12) /\ (d = 7 => i # 0)
  BY PlaceIs
<1>2. PICK i \in Nodes(d) : p = Portal(d, i) /\ (d = 0 => i <= 12) /\ (d = 7 => i # 0)
  BY <1>1
<1>3. p.device = d /\ p.crumb = SNS[d][i].crumb
  BY <1>2 DEF Portal
<1>4. p = [device |-> p.device, crumb |-> p.crumb]
  BY <1>2, <1>3 DEF Portal
<1>5. STATICNS_CRUMB_SELF_IDX(p.crumb) = i
  BY <1>3, NodesAre
<1>6. p.crumb \in Crumbs
  BY DEF Crumbs
<1> QED BY <1>2, <1>3, <1>4, <1>5, <1>6

(* A portal that open puts in a slot. *)
LEMMA OpenedIs ==
  ASSUME NEW p \in Portals, NEW path \in Paths \cup {ttyPath},
         EveryPathStraight => nameOf(p) = normal(path.parts)
  PROVE  openPortal(p, path) \in Slots
<1> DEFINE x == openPortal(p, path)
<1>1. p.device \in 0..7 /\ p = [device |-> p.device, crumb |-> p.crumb] /\ p.crumb \in Crumbs
  BY PortalIs
<1>2. x = [device |-> p.device, crumb |-> p.crumb, offset |-> 0, path |-> path, got |-> <<>>]
  BY DEF openPortal
<1>3. <<>> \in Seq(FileNames) /\ 0 \in Nat
  BY EmptySeq
<1> HIDE DEF x
<1>4. /\ x \in [device : 0..7, crumb : Crumbs, offset : Nat, path : Paths \cup {ttyPath}, got : Seq(FileNames)]
      /\ x.device = p.device /\ x.crumb = p.crumb /\ x.offset = 0 /\ x.got = <<>> /\ x.path = path
  BY <1>1, <1>2, <1>3
<1>5. PortalIn(x) = p
  BY <1>1, <1>4 DEF PortalIn
<1>6. ISDIR(x.crumb) => x.offset \in 0..Len(NamesOf(x)) /\ x.got = SubSeq(NamesOf(x), 1, x.offset)
  <2> SUFFICES ASSUME ISDIR(p.crumb) PROVE 0 \in 0..Len(NamesOf(x)) /\ <<>> = SubSeq(NamesOf(x), 1, 0)
    BY <1>4
  <2> DEFINE s == NamesOf(x)
  <2>1. s \in Seq(FileNames)
    BY <1>4, ListingIs DEF NamesOf
  <2> HIDE DEF s
  <2>2. Len(s) \in Nat
    BY <2>1
  <2>3. SubSeq(s, 1, 0) = <<>>
    BY SubSeqEmpty
  <2> QED BY <2>2, <2>3 DEF s
<1> QED BY <1>4, <1>5, <1>6 DEF Slots, x

(* NULL is no portal. *)
LEMMA SlotIs ==
  ASSUME NEW x \in Slots
  PROVE  /\ x # NULL /\ PortalIn(x) \in Portals /\ x.device \in 0..7 /\ x.offset \in Nat
         /\ x.path \in Paths \cup {ttyPath} /\ x.crumb \in Crumbs /\ x.got \in Seq(FileNames)
         /\ PortalIn(x).device = x.device /\ PortalIn(x).crumb = x.crumb
         /\ \E i \in Nodes(x.device) : /\ x.crumb = SNS[x.device][i].crumb
                                       /\ STATICNS_CRUMB_SELF_IDX(x.crumb) = i
                                       /\ (x.device = 0 => i <= 12) /\ (x.device = 7 => i # 0)
<1>1. /\ PortalIn(x) \in Portals /\ x.device \in 0..7 /\ x.offset \in Nat /\ x.path \in Paths \cup {ttyPath}
      /\ x.crumb \in Crumbs /\ x.got \in Seq(FileNames)
  BY DEF Slots
<1>2. PortalIn(x).device = x.device /\ PortalIn(x).crumb = x.crumb
  BY DEF PortalIn
<1>3. x # NULL
  <2>1. NULL.device = -1
    BY DEF NULL
  <2>2. x.device # -1
    BY <1>1
  <2> QED BY <2>1, <2>2
<1> QED BY <1>1, <1>2, <1>3, PortalIs

(* What is open on the root device and no directory is a command. *)
LEMMA RootFile ==
  ASSUME NEW p \in Portals, p.device = 0, ~ISDIR(p.crumb)
  PROVE  "ISFILE" \in p.crumb.flags
<1>1. PICK i \in Nodes(0) : p.crumb = SNS[0][i].crumb /\ i <= 12
  BY PortalIs
<1>2. i \in Nat /\ 0 \in 0..7
  BY NodeIsIndex, 0 \in 0..7
<1>3. ISDIR(SNS[0][i].crumb) <=> i = 0 \/ i <= 2
  BY <1>2, NodesAre
<1>4. i \in 0..21 /\ ~(i <= 2)
  BY <1>1, <1>2, <1>3
<1>5. SNS[0][i].crumb.flags = RootFlags(i) \cup {"ISSTATIC"}
  BY <1>4, SNSIs, RootIs
<1>6. RootFlags(i) = {"ISFILE"}
  BY <1>1, <1>4 DEF RootFlags
<1> QED BY <1>1, <1>5, <1>6

(* How far a read moves the offset of a file. *)
LEMMA MovesAre ==
  ASSUME NEW x \in Slots, ~ISDIR(x.crumb), NEW size \in Nat
  PROVE  (IF size = 0 THEN Result(0, 0, 0) ELSE readDev(x, size)).moves \in Nat
<1> DEFINE d == deviceTable[x.device]
<1>0. \A n, m, b : Result(n, m, b).moves = m
  BY DEF Result
<1>1. x.device \in 0..7 /\ x.offset \in Nat
  BY SlotIs
<1>2. CASE size = 0
  BY <1>0, <1>2
<1>3. CASE size # 0 /\ d = "DEVROOT"
  <2>1. x.device = 0
    <3>1. fromDeviceId(deviceTable[x.device]) = x.device /\ fromDeviceId(deviceTable[0]) = 0
      BY <1>1, FromDeviceIdIs, 0 \in 0..7
    <3> QED BY <1>3, <3>1, DevicesAre
  <2> DEFINE p == PortalIn(x)
             e == SNS[0][STATICNS_CRUMB_SELF_IDX(p.crumb)]
             n == readFile(SNS[x.device], x.crumb, size)
  <2>2. p \in Portals /\ p.device = 0 /\ p.crumb = x.crumb
    BY <2>1, SlotIs
  <2>3. "ISFILE" \in p.crumb.flags
    BY <2>2, RootFile
  <2>4. e.length \in Nat
    BY <2>2, <2>3, CommandIs
  <2>5. n = IF size > e.length THEN e.length ELSE size
    BY <2>1, <2>2 DEF readFile
  <2> HIDE DEF e, p, n
  <2>6. n \in Nat
    BY <2>4, <2>5
  <2>7. readDev(x, size) = Result(n, n, 0)
    BY <1>3 DEF readDev, readRoot, n
  <2> QED BY <1>0, <1>3, <2>6, <2>7
<1>4. CASE size # 0 /\ d = "DEVLED"
  <2>1. readDev(x, size) = readLed(x, size)
    BY <1>4 DEF readDev
  <2>2. readLed(x, size).moves = IF x.offset # 0 THEN 0 ELSE 1
    BY <1>0 DEF readLed
  <2> QED BY <1>4, <2>1, <2>2
<1>5. CASE size # 0 /\ d = "DEVSWPB"
  <2>1. readDev(x, size) = readSwpb(x, size)
    BY <1>5 DEF readDev
  <2>2. readSwpb(x, size).moves = 1
    BY <1>0 DEF readSwpb
  <2> QED BY <1>5, <2>1, <2>2
<1>6. CASE size # 0 /\ d = "DEVUART"
  <2>1. readDev(x, size) = readUart(x, size)
    BY <1>6 DEF readDev
  <2>2. readUart(x, size).moves = 0
    BY <1>0 DEF readUart
  <2> QED BY <1>6, <2>1, <2>2
<1>7. CASE size # 0 /\ d = "DEVLCD"
  <2>1. readDev(x, size) = Result(-1, 0, 0)
    BY <1>7 DEF readDev
  <2> QED BY <1>0, <1>7, <2>1
<1>8. CASE size # 0 /\ d = "DEVADC"
  <2>1. readDev(x, size) = readAdc(x, size)
    BY <1>8 DEF readDev
  <2>2. readAdc(x, size).moves = IF size < 4 THEN 0 ELSE 4
    BY <1>0 DEF readAdc
  <2> QED BY <1>8, <2>1, <2>2
<1>9. CASE size # 0 /\ d = "DEVTIMER"
  <2>1. readDev(x, size) = readTimer(x, size)
    BY <1>9 DEF readDev
  <2>2. readTimer(x, size).moves = 0
    BY <1>0 DEF readTimer
  <2> QED BY <1>9, <2>1, <2>2
<1>10. CASE size # 0 /\ d = "DEVDEV"
  <2>1. readDev(x, size) = readDevDev(x, size)
    BY <1>10 DEF readDev
  <2> DEFINE lefts == IF x.offset < InterruptsText THEN InterruptsText - x.offset ELSE 0
             n == IF size < lefts THEN size ELSE lefts
  <2>2. n \in Nat
    BY <1>1 DEF InterruptsText
  <2>3. readDevDev(x, size).moves = 0 \/ readDevDev(x, size).moves = n
    <3> DEFINE i == STATICNS_CRUMB_SELF_IDX(x.crumb)
    <3>1. readDevDev(x, size) = CASE i = 1 -> Result(IF size >= DateSize THEN DateSize ELSE 0, 0, 0)
                                  [] i = 3 -> Result(n, n, 0) [] OTHER -> Result(-1, 0, 0)
      BY DEF readDevDev
    <3> HIDE DEF i, n
    <3>2. CASE i = 1
      BY <1>0, <3>1, <3>2
    <3>3. CASE i = 3
      BY <1>0, <3>1, <3>3
    <3>4. CASE i # 1 /\ i # 3
      BY <1>0, <3>1, <3>4
    <3> QED BY <3>2, <3>3, <3>4
  <2> HIDE DEF n
  <2> QED BY <1>10, <2>1, <2>2, <2>3
<1>11. d \in {"DEVROOT", "DEVLED", "DEVSWPB", "DEVUART", "DEVLCD", "DEVADC", "DEVTIMER", "DEVDEV"}
  <2>1. \A i \in 0..7 : i = 0 \/ i = 1 \/ i = 2 \/ i = 3 \/ i = 4 \/ i = 5 \/ i = 6 \/ i = 7
    OBVIOUS
  <2> QED BY <1>1, <2>1, DevicesAre
<1> QED BY <1>2, <1>3, <1>4, <1>5, <1>6, <1>7, <1>8, <1>9, <1>10, <1>11
-----------------------------------------------------------------------------
(***************************************************************************)
(* Descriptor tables.                                                      *)
(***************************************************************************)
(* The descriptor tables of all processes, and the descriptors open in them. *)
Tables == [Procs -> [Fds -> Slots \cup {NULL}]]
OpenIn(t) == {s \in Procs \X Fds : t[s[1]][s[2]] # NULL}

(* The descriptors and the processes are finite sets. *)
LEMMA FdsAre ==
  0 \in Fds /\ Fds \subseteq Nat /\ IsFiniteSet(Fds) /\ IsFiniteSet(Procs) /\ MANOS_MAXFD \in Nat \ {0}
<1>1. MANOS_MAXFD \in Nat \ {0} /\ IsFiniteSet(Procs)
  BY NamespaceAssumption
<1>2. 0 \in Int /\ MANOS_MAXFD - 1 \in Int
  BY <1>1
<1>3. IsFiniteSet(0..(MANOS_MAXFD - 1))
  BY <1>2, FS_Interval
<1> QED BY <1>1, <1>3 DEF Fds

(* So are the open descriptors. *)
LEMMA OpenFinite ==
  ASSUME NEW t
  PROVE  IsFiniteSet(OpenIn(t)) /\ Cardinality(OpenIn(t)) \in Nat
<1>1. IsFiniteSet(Procs \X Fds)
  BY FdsAre, FS_Product
<1>2. OpenIn(t) \in SUBSET (Procs \X Fds)
  BY DEF OpenIn
<1>3. IsFiniteSet(OpenIn(t))
  BY <1>1, <1>2, FS_Subset
<1> QED BY <1>3, FS_CardinalityType

(* u is t with x in one slot. *)
Puts(t, p, fd, x, u) == u = [t EXCEPT ![p] = [t[p] EXCEPT ![fd] = x]]

(* open(): a portal put in a free slot is one more. *)
LEMMA OpenSlot ==
  ASSUME NEW t \in Tables, NEW p \in Procs, NEW fd \in Fds, t[p][fd] = NULL, NEW x \in Slots,
         NEW u, Puts(t, p, fd, x, u)
  PROVE  /\ u \in Tables /\ Cardinality(OpenIn(u)) = Cardinality(OpenIn(t)) + 1
         /\ \A q \in Procs : q # p => u[q] = t[q]
<1>1. x # NULL
  BY SlotIs
<1>2. u \in Tables
  <2> DEFINE V == Slots \cup {NULL}
  <2>1. x \in V /\ t \in [Procs -> [Fds -> V]]
    BY DEF Tables
  <2> HIDE DEF V
  <2> QED BY <2>1 DEF Tables, V, Puts
<1>3. /\ \A q \in Procs : q # p => u[q] = t[q]
      /\ \A f \in Fds : u[p][f] = IF f = fd THEN x ELSE t[p][f]
  BY DEF Tables, Puts
<1>4. OpenIn(u) = OpenIn(t) \cup {<<p, fd>>}
  <2>1. ASSUME NEW s \in Procs \X Fds PROVE u[s[1]][s[2]] # NULL <=> t[s[1]][s[2]] # NULL \/ s = <<p, fd>>
    <3>1. s[1] \in Procs /\ s[2] \in Fds /\ s = <<s[1], s[2]>>
      OBVIOUS
    <3>2. s = <<p, fd>> <=> s[1] = p /\ s[2] = fd
      BY <3>1
    <3> QED BY <1>1, <1>3, <3>1, <3>2
  <2>2. <<p, fd>> \in Procs \X Fds
    OBVIOUS
  <2> QED BY <2>1, <2>2 DEF OpenIn
<1>5. <<p, fd>> \notin OpenIn(t)
  BY DEF OpenIn
<1>6. Cardinality(OpenIn(u)) = Cardinality(OpenIn(t)) + 1
  <2> DEFINE O == OpenIn(t)
             s == <<p, fd>>
  <2>1. IsFiniteSet(O) /\ s \notin O
    BY <1>5, OpenFinite
  <2> HIDE DEF O, s
  <2>2. Cardinality(O \cup {s}) = Cardinality(O) + 1
    BY <2>1, FS_AddElement
  <2> QED BY <1>4, <2>2 DEF O, s
<1> QED BY <1>2, <1>3, <1>6

(* close(): a slot that is cleared is one less. *)
LEMMA CloseSlot ==
  ASSUME NEW t \in Tables, NEW p \in Procs, NEW fd \in Fds, t[p][fd] # NULL,
         NEW u, Puts(t, p, fd, NULL, u)
  PROVE  /\ u \in Tables /\ Cardinality(OpenIn(u)) = Cardinality(OpenIn(t)) - 1
         /\ \A q \in Procs : q # p => u[q] = t[q]
<1>2. u \in Tables
  <2> DEFINE V == Slots \cup {NULL}
  <2>1. NULL \in V /\ t \in [Procs -> [Fds -> V]]
    BY DEF Tables
  <2> HIDE DEF V
  <2> QED BY <2>1 DEF Tables, V, Puts
<1>3. /\ \A q \in Procs : q # p => u[q] = t[q]
      /\ \A f \in Fds : u[p][f] = IF f = fd THEN NULL ELSE t[p][f]
  BY DEF Tables, Puts
<1>4. OpenIn(u) = OpenIn(t) \ {<<p, fd>>}
  <2>1. ASSUME NEW s \in Procs \X Fds PROVE u[s[1]][s[2]] # NULL <=> t[s[1]][s[2]] # NULL /\ s # <<p, fd>>
    <3>1. s[1] \in Procs /\ s[2] \in Fds /\ s = <<s[1], s[2]>>
      OBVIOUS
    <3>2. s = <<p, fd>> <=> s[1] = p /\ s[2] = fd
      BY <3>1
    <3> QED BY <1>3, <3>1, <3>2
  <2> QED BY <2>1 DEF OpenIn
<1>5. <<p, fd>> \in OpenIn(t)
  BY DEF OpenIn
<1>6. Cardinality(OpenIn(u)) = Cardinality(OpenIn(t)) - 1
  <2> DEFINE O == OpenIn(t)
             s == <<p, fd>>
  <2>1. IsFiniteSet(O) /\ s \in O
    BY <1>5, OpenFinite
  <2> HIDE DEF O, s
  <2>2. Cardinality(O \ {s}) = Cardinality(O) - 1
    BY <2>1, FS_RemoveElement
  <2> QED BY <1>4, <2>2 DEF O, s
<1> QED BY <1>2, <1>3, <1>6

(* read(): another portal in an open slot is as many. *)
LEMMA SameSlot ==
  ASSUME NEW t \in Tables, NEW p \in Procs, NEW fd \in Fds, t[p][fd] # NULL, NEW x \in Slots,
         NEW u, Puts(t, p, fd, x, u)
  PROVE  /\ u \in Tables /\ OpenIn(u) = OpenIn(t)
         /\ \A q \in Procs : q # p => u[q] = t[q]
<1>1. x # NULL
  BY SlotIs
<1>2. u \in Tables
  <2> DEFINE V == Slots \cup {NULL}
  <2>1. x \in V /\ t \in [Procs -> [Fds -> V]]
    BY DEF Tables
  <2> HIDE DEF V
  <2> QED BY <2>1 DEF Tables, V, Puts
<1>3. /\ \A q \in Procs : q # p => u[q] = t[q]
      /\ \A f \in Fds : u[p][f] = IF f = fd THEN x ELSE t[p][f]
  BY DEF Tables, Puts
<1>4. ASSUME NEW s \in Procs \X Fds PROVE u[s[1]][s[2]] # NULL <=> t[s[1]][s[2]] # NULL
  <2>1. s[1] \in Procs /\ s[2] \in Fds
    OBVIOUS
  <2> QED BY <1>1, <1>3, <2>1
<1>5. OpenIn(u) = OpenIn(t)
  BY <1>4 DEF OpenIn
<1> QED BY <1>2, <1>3, <1>5

(* The table a process begins with, and the one it leaves. *)
LEMMA TablesAre ==
  /\ emptyTable \in [Fds -> Slots \cup {NULL}] /\ newTable \in [Fds -> Slots \cup {NULL}]
  /\ \A fd \in Fds : emptyTable[fd] = NULL /\ (newTable[fd] # NULL <=> fd = 0)
<1> DEFINE x == openPortal(walkPath(ttyPath).portal, ttyPath)
<1>1. x \in Slots
  <2> DEFINE w == walkPath(ttyPath)
  <2>1. IsWalk(w) /\ w.ok /\ Straight(ttyPath)
    BY TtyStraight, TtyIs, WalkPathIs
  <2>2. nameOf(w.portal) = normal(ttyPath.parts)
    BY <2>1, TtyStraight, WalkPathIs
  <2>3. w.portal \in Portals
    BY <2>1 DEF IsWalk
  <2> HIDE DEF w
  <2>4. openPortal(w.portal, ttyPath) \in Slots
    BY <2>2, <2>3, OpenedIs
  <2> QED BY <2>4 DEF w
<1> HIDE DEF x
<1>2. x # NULL
  BY <1>1, SlotIs
<1>3. emptyTable = [fd \in Fds |-> NULL] /\ newTable = [emptyTable EXCEPT ![0] = x]
  BY DEF emptyTable, newTable, x
<1> QED BY <1>1, <1>2, <1>3, FdsAre

(* u is t with another table for one process. *)
Swaps(t, p, row, u) == u = [t EXCEPT ![p] = row]

(* schedProc(): a process that starts has one descriptor more. *)
LEMMA StartTable ==
  ASSUME NEW t \in Tables, NEW q \in Procs, \A fd \in Fds : t[q][fd] = NULL,
         NEW u, Swaps(t, q, newTable, u)
  PROVE  /\ u \in Tables /\ Cardinality(OpenIn(u)) = Cardinality(OpenIn(t)) + 1
         /\ \A p \in Procs : p # q => u[p] = t[p]
<1>2. u \in Tables
  <2> DEFINE V == [Fds -> Slots \cup {NULL}]
  <2>1. newTable \in V /\ t \in [Procs -> V]
    BY TablesAre DEF Tables
  <2> HIDE DEF V
  <2> QED BY <2>1 DEF Tables, V, Swaps
<1>3. (\A p \in Procs : p # q => u[p] = t[p]) /\ u[q] = newTable
  BY DEF Tables, Swaps
<1>4. OpenIn(u) = OpenIn(t) \cup {<<q, 0>>}
  <2>1. ASSUME NEW s \in Procs \X Fds PROVE u[s[1]][s[2]] # NULL <=> t[s[1]][s[2]] # NULL \/ s = <<q, 0>>
    <3>1. s[1] \in Procs /\ s[2] \in Fds /\ s = <<s[1], s[2]>>
      OBVIOUS
    <3>2. s = <<q, 0>> <=> s[1] = q /\ s[2] = 0
      BY <3>1
    <3> QED BY <1>3, <3>1, <3>2, TablesAre
  <2>2. <<q, 0>> \in Procs \X Fds
    BY FdsAre
  <2> QED BY <2>1, <2>2 DEF OpenIn
<1>5. <<q, 0>> \notin OpenIn(t)
  BY FdsAre DEF OpenIn
<1>6. Cardinality(OpenIn(u)) = Cardinality(OpenIn(t)) + 1
  <2> DEFINE O == OpenIn(t)
             s == <<q, 0>>
  <2>1. IsFiniteSet(O) /\ s \notin O
    BY <1>5, OpenFinite
  <2> HIDE DEF O, s
  <2>2. Cardinality(O \cup {s}) = Cardinality(O) + 1
    BY <2>1, FS_AddElement
  <2> QED BY <1>4, <2>2 DEF O, s
<1> QED BY <1>2, <1>3, <1>6

(* abortProc(): a process that ends has none. *)
LEMMA ClearTable ==
  ASSUME NEW t \in Tables, NEW p \in Procs, NEW F, F = {fd \in Fds : t[p][fd] = NULL},
         NEW u, Swaps(t, p, emptyTable, u)
  PROVE  /\ u \in Tables /\ Cardinality(OpenIn(u)) = Cardinality(OpenIn(t)) - Cardinality(Fds \ F)
         /\ \A q \in Procs : q # p => u[q] = t[q]
         /\ \A fd \in Fds : u[p][fd] = NULL
<1> DEFINE U == Fds \ F
           T == {p} \X U
<1>2. u \in Tables
  <2> DEFINE V == [Fds -> Slots \cup {NULL}]
  <2>1. emptyTable \in V /\ t \in [Procs -> V]
    BY TablesAre DEF Tables
  <2> HIDE DEF V
  <2> QED BY <2>1 DEF Tables, V, Swaps
<1>3. (\A q \in Procs : q # p => u[q] = t[q]) /\ u[p] = emptyTable
  BY DEF Tables, Swaps
<1>4. OpenIn(u) = OpenIn(t) \ T /\ OpenIn(t) \cap T = T
  <2>1. ASSUME NEW s \in Procs \X Fds
        PROVE  /\ u[s[1]][s[2]] # NULL <=> t[s[1]][s[2]] # NULL /\ s \notin T
               /\ s \in T => t[s[1]][s[2]] # NULL
    <3>1. s[1] \in Procs /\ s[2] \in Fds /\ s = <<s[1], s[2]>>
      OBVIOUS
    <3>2. s \in T <=> s[1] = p /\ s[2] \in U
      BY <3>1
    <3>3. s[2] \in U <=> t[p][s[2]] # NULL
      BY <3>1
    <3> QED BY <1>3, <3>1, <3>2, <3>3, TablesAre
  <2>2. T \subseteq Procs \X Fds
    OBVIOUS
  <2> HIDE DEF T
  <2> QED BY <2>1, <2>2 DEF OpenIn
<1>5. Cardinality(T) = Cardinality(U)
  <2>1. IsFiniteSet(U)
    <3>1. U \in SUBSET Fds
      OBVIOUS
    <3> QED BY <3>1, FdsAre, FS_Subset
  <2>2. IsFiniteSet({p}) /\ Cardinality({p}) = 1
    BY FS_Singleton
  <2> DEFINE P == {p}
  <2> HIDE DEF U, P
  <2>3. Cardinality(P \X U) = Cardinality(P) * Cardinality(U)
    BY <2>1, <2>2, FS_Product DEF P
  <2>4. Cardinality(U) \in Nat
    BY <2>1, FS_CardinalityType
  <2>5. Cardinality(P \X U) = Cardinality(U)
    BY <2>2, <2>3, <2>4 DEF P
  <2> QED BY <2>5 DEF P
<1>6. Cardinality(OpenIn(u)) = Cardinality(OpenIn(t)) - Cardinality(U)
  <2> DEFINE O == OpenIn(t)
  <2>1. IsFiniteSet(O)
    BY OpenFinite
  <2> HIDE DEF O, T, U
  <2>2. Cardinality(O \ T) = Cardinality(O) - Cardinality(O \cap T)
    BY <2>1, FS_Difference
  <2> QED BY <1>4, <1>5, <2>2 DEF O
<1>7. \A fd \in Fds : u[p][fd] = NULL
  BY <1>3, TablesAre
<1> QED BY <1>2, <1>3, <1>6, <1>7
-----------------------------------------------------------------------------
(***************************************************************************)
(* The invariant.                                                          *)
(***************************************************************************)
(* The descriptors of a process that does not run are all free. *)
StoppedHoldNothing ==
  \A p \in Procs \ procs : \A fd \in Fds : descriptorTable[p][fd] = NULL

NSTypes ==
  /\ procs \subseteq Procs /\ starts \in 1..MaxStarts
  /\ pdor \subseteq Leds /\ enabled \subseteq {"DEVUART", "DEVLCD"} /\ pressed \subseteq Buttons
  /\ fault \in BOOLEAN

(* The inductive invariant.  Each open slot holds a portal on a place, on the node
   its path names, with what was read of it (Slots); the slots of the processes that
   do not run are free; the portals allocated are the open ones and two for each
   process that was started; what ran last is the command that was named. *)
NSInv ==
  /\ NSTypes
  /\ descriptorTable \in Tables /\ StoppedHoldNothing
  /\ live = Cardinality(OpenIn(descriptorTable)) + 2 * starts
  /\ EveryPathStraight => CommandIsNamed

(* Init establishes the invariant. *)
LEMMA NSInit ==
  Init => NSInv
<1> SUFFICES ASSUME Init PROVE NSInv
  OBVIOUS
<1>1. PICK p \in Procs :
      /\ procs = {p}
      /\ descriptorTable = [q \in Procs |-> IF q = p THEN newTable ELSE emptyTable]
      /\ starts = 1 /\ live = PortalsPerProc
      /\ pdor = Leds /\ enabled = {"DEVUART", "DEVLCD"} /\ pressed = {}
      /\ ran = <<>> /\ fault = FALSE
  BY DEF Init
<1> DEFINE t == [q \in Procs |-> emptyTable]
<1>2. /\ t \in Tables /\ \A q \in Procs : \A fd \in Fds : t[q][fd] = NULL
  BY TablesAre DEF Tables
<1>3. Swaps(t, p, newTable, descriptorTable)
  BY <1>1 DEF Swaps
<1>4. OpenIn(t) = {}
  BY <1>2 DEF OpenIn
<1> HIDE DEF t
<1>5. /\ descriptorTable \in Tables /\ Cardinality(OpenIn(descriptorTable)) = Cardinality(OpenIn(t)) + 1
      /\ \A q \in Procs : q # p => descriptorTable[q] = t[q]
  BY <1>2, <1>3, StartTable
<1>6. Cardinality(OpenIn(descriptorTable)) = 1
  BY <1>4, <1>5, FS_EmptySet
<1>7. NSTypes
  <2>1. 1 \in 1..MaxStarts
    BY NamespaceAssumption
  <2> QED BY <1>1, <2>1 DEF NSTypes
<1>8. StoppedHoldNothing
  BY <1>1, <1>2, <1>5 DEF StoppedHoldNothing
<1>9. live = Cardinality(OpenIn(descriptorTable)) + 2 * starts
  BY <1>1, <1>6 DEF PortalsPerProc
<1>10. CommandIsNamed
  BY <1>1 DEF CommandIsNamed
<1> QED BY <1>5, <1>7, <1>8, <1>9, <1>10 DEF NSInv

(* sysopen keeps the invariant: a walk leaves a portal only if it arrived. *)
LEMMA OpenStep ==
  ASSUME NSInv, NEW p \in Procs, NEW path \in Paths, sysopen(p, path)
  PROVE  NSInv'
<1> DEFINE w == walkPath(path)
           free == freeFds(p)
           t == descriptorTable
           u == descriptorTable'
<1>1. walked[path] = w
  BY DEF walked
<1>2. path.parts \in Seq(Names) /\ path.parts # <<>>
  BY PathIs
<1>3. /\ IsWalk(w)
      /\ Straight(path) /\ w.ok => nameOf(w.portal) = normal(path.parts)
  BY <1>2, WalkPathIs
<1> HIDE DEF w
<1>4. /\ p \in procs /\ fault' = w.null
      /\ live' = live + (IF w.ok /\ free = {} THEN w.live - 1 ELSE w.live)
      /\ u = IF ~w.ok \/ free = {} THEN t ELSE [t EXCEPT ![p][Min(free)] = openPortal(w.portal, path)]
      /\ procs' = procs /\ starts' = starts /\ pdor' = pdor /\ enabled' = enabled
      /\ pressed' = pressed /\ ran' = ran
  BY <1>1 DEF sysopen, Runs, devices
<1>5. /\ w.ok \in BOOLEAN /\ w.null \in BOOLEAN /\ w.portal \in Portals
      /\ w.live = IF w.ok THEN 1 ELSE 0
  BY <1>3 DEF IsWalk
<1>6. /\ t \in Tables /\ StoppedHoldNothing /\ starts \in Nat /\ Cardinality(OpenIn(t)) \in Nat
      /\ live = Cardinality(OpenIn(t)) + 2 * starts
  BY OpenFinite DEF NSInv, NSTypes
<1>7. NSTypes'
  BY <1>4, <1>5 DEF NSInv, NSTypes
<1>8. (EveryPathStraight => CommandIsNamed)'
  BY <1>4 DEF NSInv, EveryPathStraight, CommandIsNamed
<1>9. CASE ~w.ok \/ free = {}
  <2>1. u = t /\ live' = live
    BY <1>4, <1>5, <1>6, <1>9
  <2>2. StoppedHoldNothing'
    BY <1>4, <1>6, <2>1 DEF StoppedHoldNothing
  <2> QED BY <1>4, <1>6, <1>7, <1>8, <2>1, <2>2 DEF NSInv
<1>10. CASE w.ok /\ free # {}
  <2> DEFINE fd == Min(free)
             x == openPortal(w.portal, path)
  <2>1. free \in SUBSET Nat
    BY FdsAre DEF freeFds
  <2>2. fd \in free
    BY <1>10, <2>1, MinIs
  <2>3. fd \in Fds /\ t[p][fd] = NULL
    BY <2>2 DEF freeFds
  <2>4. x \in Slots
    BY <1>3, <1>5, <1>10, OpenedIs DEF EveryPathStraight
  <2> HIDE DEF fd, x
  <2>5. u = [t EXCEPT ![p] = [t[p] EXCEPT ![fd] = x]] /\ live' = live + 1
    BY <1>4, <1>5, <1>10 DEF fd, x
  <2>6. /\ u \in Tables /\ Cardinality(OpenIn(u)) = Cardinality(OpenIn(t)) + 1
        /\ \A q \in Procs : q # p => u[q] = t[q]
    <3>1. t \in Tables /\ fd \in Fds /\ t[p][fd] = NULL /\ x \in Slots
      BY <1>6, <2>3, <2>4
    <3>2. Puts(t, p, fd, x, u)
      BY <2>5 DEF Puts
    <3> HIDE DEF t, u
    <3> QED BY <3>1, <3>2, OpenSlot
  <2>7. StoppedHoldNothing'
    BY <1>4, <1>6, <2>6 DEF StoppedHoldNothing
  <2>8. live' = Cardinality(OpenIn(u)) + 2 * starts'
    BY <1>4, <1>6, <2>5, <2>6
  <2> QED BY <1>7, <1>8, <2>6, <2>7, <2>8 DEF NSInv
<1> QED BY <1>9, <1>10, <1>5

(* What a read of a directory leaves in the slot. *)
LEMMA ListedSlot ==
  ASSUME NEW x \in Slots, ISDIR(x.crumb), NEW size, NEW names, names = readNames(x, size),
         NEW y, y = [[x EXCEPT !.offset = @ + Len(names)] EXCEPT !.got = @ \o names]
  PROVE  y \in Slots
<1> DEFINE p == PortalIn(x)
           all == NamesOf(x)
<1>1. /\ p \in Portals /\ p.device = x.device /\ p.crumb = x.crumb /\ x.offset \in Nat
      /\ x.got \in Seq(FileNames) /\ x.path \in Paths \cup {ttyPath} /\ x.crumb \in Crumbs /\ x.device \in 0..7
  BY SlotIs
<1>2. x.offset \in 0..Len(all) /\ x.got = SubSeq(all, 1, x.offset)
  BY DEF Slots
<1>3. all \in Seq(FileNames)
  BY <1>1, ListingIs DEF NamesOf
<1>4. x \in [device : 0..7, crumb : Crumbs, offset : Nat, path : Paths \cup {ttyPath}, got : Seq(FileNames)]
      /\ (EveryPathStraight => nameOf(p) = normal(x.path.parts))
  BY DEF Slots
<1>5. names = <<>> \/ names = thatFit(all, size, x.offset)
  BY DEF readNames, readDirectory, NamesOf
<1> HIDE DEF p, all
<1>6. \E m \in 0..Len(all) : thatFit(all, size, x.offset) = SubSeq(all, x.offset + 1, m)
  BY <1>2, <1>3, ThatFitIs
<1>7. PICK m \in 0..Len(all) : names = SubSeq(all, x.offset + 1, m) \/ names = <<>>
  BY <1>5, <1>6, <1>2
<1>8. /\ names \in Seq(FileNames) /\ x.offset + Len(names) \in 0..Len(all)
      /\ SubSeq(all, 1, x.offset) \o names = SubSeq(all, 1, x.offset + Len(names))
  <2> DEFINE k == x.offset
  <2>1. k \in 0..Len(all) /\ m \in 0..Len(all) /\ (names = SubSeq(all, k + 1, m) \/ names = <<>>)
    BY <1>2, <1>7
  <2> HIDE DEF k
  <2>2. /\ names \in Seq(FileNames) /\ k + Len(names) \in 0..Len(all)
        /\ SubSeq(all, 1, k) \o names = SubSeq(all, 1, k + Len(names))
    BY <1>3, <2>1, ListingGoesOn, SMTT(20)
  <2> QED BY <2>2 DEF k
<1>9. x.offset + Len(names) \in Nat /\ x.got \o names \in Seq(FileNames)
  BY <1>1, <1>8
<1> DEFINE o == x.offset + Len(names)
           g == x.got \o names
<1>10. y = [[x EXCEPT !.offset = o] EXCEPT !.got = g]
  BY <1>4
<1>11. o \in Nat /\ g \in Seq(FileNames) /\ o \in 0..Len(all) /\ g = SubSeq(all, 1, o)
  BY <1>2, <1>8, <1>9
<1> HIDE DEF o, g
<1>12. /\ y \in [device : 0..7, crumb : Crumbs, offset : Nat, path : Paths \cup {ttyPath}, got : Seq(FileNames)]
       /\ y.device = x.device /\ y.crumb = x.crumb /\ y.path = x.path /\ y.offset = o /\ y.got = g
  <2> DEFINE G == Seq(FileNames)
             P == Paths \cup {ttyPath}
  <2>1. x \in [device : 0..7, crumb : Crumbs, offset : Nat, path : P, got : G] /\ g \in G
    BY <1>4, <1>11
  <2> HIDE DEF G, P
  <2>2. [x EXCEPT !.offset = o] \in [device : 0..7, crumb : Crumbs, offset : Nat, path : P, got : G]
    BY <1>11, <2>1
  <2>3. y \in [device : 0..7, crumb : Crumbs, offset : Nat, path : P, got : G]
        /\ y.device = x.device /\ y.crumb = x.crumb /\ y.path = x.path /\ y.offset = o /\ y.got = g
    BY <1>10, <2>1, <2>2
  <2> QED BY <2>3 DEF G, P
<1>13. PortalIn(y) = p /\ NamesOf(y) = all
  BY <1>12 DEF p, all, PortalIn, NamesOf
<1> QED BY <1>1, <1>4, <1>11, <1>12, <1>13 DEF Slots

(* What a read of a file leaves in the slot. *)
LEMMA MovedSlot ==
  ASSUME NEW x \in Slots, ~ISDIR(x.crumb), NEW k \in Nat, NEW y, y = [x EXCEPT !.offset = @ + k]
  PROVE  y \in Slots
<1>1. x \in [device : 0..7, crumb : Crumbs, offset : Nat, path : Paths \cup {ttyPath}, got : Seq(FileNames)]
      /\ PortalIn(x) \in Portals
      /\ (EveryPathStraight => nameOf(PortalIn(x)) = normal(x.path.parts))
  BY DEF Slots
<1>2. /\ y \in [device : 0..7, crumb : Crumbs, offset : Nat, path : Paths \cup {ttyPath}, got : Seq(FileNames)]
      /\ y.device = x.device /\ y.crumb = x.crumb /\ y.path = x.path
  <2> DEFINE G == Seq(FileNames)
             P == Paths \cup {ttyPath}
             o == x.offset + k
  <2>1. x \in [device : 0..7, crumb : Crumbs, offset : Nat, path : P, got : G]
    BY <1>1
  <2>2. o \in Nat /\ y = [x EXCEPT !.offset = o]
    BY <2>1
  <2> HIDE DEF G, P, o
  <2>3. /\ y \in [device : 0..7, crumb : Crumbs, offset : Nat, path : P, got : G]
        /\ y.device = x.device /\ y.crumb = x.crumb /\ y.path = x.path
    BY <2>1, <2>2
  <2> QED BY <2>3 DEF G, P
<1>3. PortalIn(y) = PortalIn(x)
  BY <1>2 DEF PortalIn
<1> QED BY <1>1, <1>2, <1>3 DEF Slots

(* A step that puts another portal in an open slot, and nothing else. *)
LEMMA ReadKeeps ==
  ASSUME NSInv, NEW p \in procs, NEW fd \in Fds, descriptorTable[p][fd] # NULL,
         NEW x \in Slots, Puts(descriptorTable, p, fd, x, descriptorTable'),
         UNCHANGED <<procs, starts, live, devices, ran, fault>>
  PROVE  NSInv'
<1> DEFINE t == descriptorTable
           u == descriptorTable'
<1>1. t \in Tables /\ p \in Procs /\ StoppedHoldNothing
  BY DEF NSInv, NSTypes
<1>2. t[p][fd] # NULL /\ Puts(t, p, fd, x, u)
  OBVIOUS
<1>3. /\ procs' = procs /\ starts' = starts /\ live' = live /\ pdor' = pdor /\ enabled' = enabled
      /\ pressed' = pressed /\ ran' = ran /\ fault' = fault
  BY DEF devices
<1> HIDE DEF t, u
<1>4. /\ u \in Tables /\ OpenIn(u) = OpenIn(t)
      /\ \A q \in Procs : q # p => u[q] = t[q]
  BY <1>1, <1>2, SameSlot
<1>5. NSTypes'
  BY <1>3 DEF NSInv, NSTypes
<1>6. StoppedHoldNothing'
  BY <1>1, <1>3, <1>4 DEF StoppedHoldNothing, t, u
<1>7. (EveryPathStraight => CommandIsNamed)'
  BY <1>3 DEF NSInv, EveryPathStraight, CommandIsNamed
<1>8. (live = Cardinality(OpenIn(descriptorTable)) + 2 * starts)'
  BY <1>3, <1>4 DEF NSInv, t, u
<1> QED BY <1>4, <1>5, <1>6, <1>7, <1>8 DEF NSInv, u

(* sysread keeps it: a listing goes on where the last read of the descriptor ended. *)
LEMMA ReadStep ==
  ASSUME NSInv, NEW p \in Procs, NEW fd \in Fds, NEW size \in Sizes, sysread(p, fd, size)
  PROVE  NSInv'
<1> DEFINE t == descriptorTable
           u == descriptorTable'
           x == t[p][fd]
<1>1. /\ p \in procs /\ x # NULL
      /\ UNCHANGED <<procs, starts, live, devices, ran, fault>>
  BY DEF sysread, Runs
<1>2. t \in Tables /\ x \in Slots
  BY <1>1 DEF NSInv, Tables
<1>3. size \in Nat
  BY NamespaceAssumption
<1>4. CASE ISDIR(x.crumb)
  <2> DEFINE names == readNames(x, size)
             y == [[x EXCEPT !.offset = @ + Len(names)] EXCEPT !.got = @ \o names]
  <2>1. u = [t EXCEPT ![p][fd].offset = @ + Len(names), ![p][fd].got = @ \o names]
    BY <1>4 DEF sysread
  <2>2. u = [t EXCEPT ![p] = [t[p] EXCEPT ![fd] = y]]
    <3> DEFINE a == x.offset + Len(names)
               g == x.got \o names
               z == [x EXCEPT !.offset = a]
               v == [t EXCEPT ![p][fd].offset = a]
    <3>1. x.got = z.got /\ y = [z EXCEPT !.got = g]
      BY <1>2 DEF Slots
    <3>2. v = [t EXCEPT ![p] = [t[p] EXCEPT ![fd] = z]]
      OBVIOUS
    <3> HIDE DEF names, a, z
    <3>3. v[p][fd] = z /\ v[p] = [t[p] EXCEPT ![fd] = z]
      BY <1>2, <3>2 DEF Tables
    <3>4. u = [v EXCEPT ![p][fd].got = @ \o names]
      BY <2>1 DEF a
    <3>5. u = [v EXCEPT ![p] = [v[p] EXCEPT ![fd] = y]]
      BY <3>1, <3>3, <3>4 DEF v
    <3> HIDE DEF y, v
    <3> QED BY <3>2, <3>3, <3>5
  <2>3. y \in Slots
    BY <1>2, <1>4, ListedSlot
  <2> HIDE DEF y
  <2>4. Puts(t, p, fd, y, u)
    BY <2>2 DEF Puts
  <2> QED BY <1>1, <2>3, <2>4, ReadKeeps
<1>5. CASE ~ISDIR(x.crumb)
  <2> DEFINE k == (IF size = 0 THEN Result(0, 0, 0) ELSE readDev(x, size)).moves
             y == [x EXCEPT !.offset = @ + k]
  <2>1. u = [t EXCEPT ![p][fd].offset = @ + k]
    BY <1>5 DEF sysread
  <2>2. u = [t EXCEPT ![p] = [t[p] EXCEPT ![fd] = y]]
    <3> HIDE DEF k
    <3> QED BY <1>2, <2>1 DEF Tables
  <2>3. k \in Nat
    BY <1>2, <1>3, <1>5, MovesAre
  <2> HIDE DEF k
  <2>4. y \in Slots
    BY <1>2, <1>5, <2>3, MovedSlot
  <2> HIDE DEF y
  <2>5. Puts(t, p, fd, y, u)
    BY <2>2 DEF Puts
  <2> QED BY <1>1, <2>4, <2>5, ReadKeeps
<1> QED BY <1>4, <1>5

(* syswrite keeps it: only the four LEDs are switched. *)
LEMMA WriteStep ==
  ASSUME NSInv, NEW p \in Procs, NEW fd \in Fds, NEW size \in Sizes, NEW c, syswrite(p, fd, size, c)
  PROVE  NSInv'
<1> DEFINE x == descriptorTable[p][fd]
           i == STATICNS_CRUMB_SELF_IDX(x.crumb)
           n == writeDev(x, size, c)
<1>1. /\ x # NULL /\ procs' = procs /\ descriptorTable' = descriptorTable /\ starts' = starts
      /\ live' = live /\ enabled' = enabled /\ pressed' = pressed /\ ran' = ran /\ fault' = fault
      /\ pdor' = IF deviceTable[x.device] = "DEVLED" /\ n = 1 THEN setLed(i, c) ELSE pdor
  BY DEF syswrite
<1>2. x \in Slots
  BY <1>1 DEF NSInv, Tables
<1> HIDE DEF x
<1>3. pdor' \subseteq Leds
  <2>1. CASE deviceTable[x.device] = "DEVLED" /\ n = 1
    <3>1. x.device = 1
      <4>1. x.device \in 0..7
        BY <1>2, SlotIs
      <4>2. fromDeviceId("DEVLED") = x.device
        BY <2>1, <4>1, FromDeviceIdIs
      <4>3. fromDeviceId("DEVLED") = 1
        BY FromDeviceIdIs, DevicesAre, 1 \in 0..7
      <4> QED BY <4>2, <4>3
    <3>2. i \in Nodes(x.device)
      BY <1>2, SlotIs
    <3>3. Size(1) = 5
      BY FlatsAre, 1 \in 1..7
    <3>4. i \in 0..4
      BY <3>1, <3>2, <3>3 DEF Nodes
    <3> HIDE DEF i
    <3>5. i # 0
      <4> DEFINE j == STATICNS_CRUMB_SELF_IDX(x.crumb)
      <4>1. size \in Nat
        BY NamespaceAssumption
      <4>2. CASE size = 0
        <5>1. n = 0
          BY <2>1, <4>2 DEF writeDev
        <5> QED BY <2>1, <5>1
      <4>3. CASE size > 0
        <5>1. n = IF c \in {"0", "1"} /\ j # 0 THEN 1 ELSE 0
          BY <2>1, <4>1, <4>3 DEF writeDev
        <5> QED BY <2>1, <5>1 DEF i
      <4> QED BY <4>1, <4>2, <4>3
    <3> QED BY <1>1, <2>1, <3>4, <3>5 DEF NSInv, NSTypes, setLed, Leds
  <2> QED BY <1>1, <2>1 DEF NSInv, NSTypes
<1>4. NSTypes'
  BY <1>1, <1>3 DEF NSInv, NSTypes
<1>5. StoppedHoldNothing'
  BY <1>1 DEF NSInv, StoppedHoldNothing
<1>6. (EveryPathStraight => CommandIsNamed)'
  BY <1>1 DEF NSInv, EveryPathStraight, CommandIsNamed
<1> QED BY <1>1, <1>4, <1>5, <1>6 DEF NSInv

(* sysclose keeps it. *)
LEMMA CloseStep ==
  ASSUME NSInv, NEW p \in Procs, NEW fd \in Fds, sysclose(p, fd)
  PROVE  NSInv'
<1> DEFINE t == descriptorTable
           u == descriptorTable'
<1>1. /\ p \in procs /\ t[p][fd] # NULL /\ procs' = procs /\ starts' = starts /\ live' = live - 1
      /\ enabled' \subseteq enabled /\ pdor' = pdor /\ pressed' = pressed /\ ran' = ran /\ fault' = fault
  BY DEF sysclose, Runs
<1>2. u = [t EXCEPT ![p][fd] = NULL]
  BY DEF sysclose
<1>3. Puts(t, p, fd, NULL, u)
  BY <1>2 DEF Puts
<1>4. t \in Tables /\ StoppedHoldNothing /\ live = Cardinality(OpenIn(t)) + 2 * starts
      /\ Cardinality(OpenIn(t)) \in Nat /\ starts \in Nat
  BY OpenFinite DEF NSInv, NSTypes
<1> HIDE DEF t, u
<1>5. /\ u \in Tables /\ Cardinality(OpenIn(u)) = Cardinality(OpenIn(t)) - 1
      /\ \A q \in Procs : q # p => u[q] = t[q]
  BY <1>1, <1>3, <1>4, CloseSlot
<1>6. NSTypes'
  BY <1>1 DEF NSInv, NSTypes
<1>7. StoppedHoldNothing'
  BY <1>1, <1>4, <1>5 DEF StoppedHoldNothing, t, u
<1>8. (EveryPathStraight => CommandIsNamed)'
  BY <1>1 DEF NSInv, EveryPathStraight, CommandIsNamed
<1>9. (live = Cardinality(OpenIn(descriptorTable)) + 2 * starts)'
  BY <1>1, <1>4, <1>5 DEF t, u
<1> QED BY <1>5, <1>6, <1>7, <1>8, <1>9 DEF NSInv, u

(* exits keeps it. *)
LEMMA ExitStep ==
  ASSUME NSInv, NEW p \in Procs, exits(p)
  PROVE  NSInv'
<1> DEFINE t == descriptorTable
           u == descriptorTable'
           F == freeFds(p)
<1>1. /\ procs' = procs \ {p} /\ starts' = starts /\ live' = live - Cardinality(Fds \ F)
      /\ pdor' = pdor /\ enabled' = enabled /\ pressed' = pressed /\ ran' = ran /\ fault' = fault
      /\ u = [t EXCEPT ![p] = emptyTable]
  BY DEF exits, devices
<1>2. t \in Tables /\ StoppedHoldNothing /\ live = Cardinality(OpenIn(t)) + 2 * starts
      /\ Cardinality(OpenIn(t)) \in Nat /\ starts \in Nat
  BY OpenFinite DEF NSInv, NSTypes
<1>3. F = {fd \in Fds : t[p][fd] = NULL}
  BY DEF freeFds
<1>4. Cardinality(Fds \ F) \in Nat
  <2>1. IsFiniteSet(Fds \ F)
    BY FdsAre, FS_Difference
  <2> QED BY <2>1, FS_CardinalityType
<1> HIDE DEF t, u, F
<1>5. /\ u \in Tables /\ Cardinality(OpenIn(u)) = Cardinality(OpenIn(t)) - Cardinality(Fds \ F)
      /\ \A q \in Procs : q # p => u[q] = t[q]
      /\ \A fd \in Fds : u[p][fd] = NULL
  <2>1. Swaps(t, p, emptyTable, u)
    BY <1>1 DEF Swaps
  <2>2. F = {fd \in Fds : t[p][fd] = NULL} /\ t \in Tables /\ p \in Procs
    BY <1>2, <1>3
  <2> QED BY <2>1, <2>2, ClearTable
<1>6. NSTypes'
  BY <1>1 DEF NSInv, NSTypes
<1>7. StoppedHoldNothing'
  BY <1>1, <1>2, <1>5 DEF StoppedHoldNothing, t, u
<1>8. (EveryPathStraight => CommandIsNamed)'
  BY <1>1 DEF NSInv, EveryPathStraight, CommandIsNamed
<1>9. (live = Cardinality(OpenIn(descriptorTable)) + 2 * starts)'
  BY <1>1, <1>2, <1>4, <1>5 DEF t, u
<1> QED BY <1>5, <1>6, <1>7, <1>8, <1>9 DEF NSInv, u

(* A command's file is read whole. *)
LEMMA ReadCommandIs ==
  ASSUME NEW p \in Portals, p.device = 0, "ISFILE" \in p.crumb.flags
  PROVE  readCommand(p) # -1
<1> DEFINE n == SNS[0][STATICNS_CRUMB_SELF_IDX(p.crumb)].length
<1>1. n \in Nat
  BY CommandIs
<1>2. readFile(SNS[0], p.crumb, n) = n
  BY <1>1 DEF readFile
<1>3. readCommand(p) = n
  BY <1>2 DEF readCommand, readRoot, Result
<1> HIDE DEF n
<1> QED BY <1>1, <1>3

(* sysexecv keeps it: the file the path leads to is the command it names. *)
LEMMA ExecStep ==
  ASSUME NSInv, NEW p \in Procs, NEW path \in Paths, NEW q \in Procs, sysexecv(p, path, q)
  PROVE  NSInv'
<1> DEFINE w == findCommand(path)
           i == STATICNS_CRUMB_SELF_IDX(w.portal.crumb)
           cmd == SNS[0][i].contents
           file == w.ok /\ w.portal.device = 0 /\ "ISFILE" \in w.portal.crumb.flags
           t == descriptorTable
           u == descriptorTable'
<1>1. found[path] = w
  BY DEF found
<1>2. path.parts \in Seq(Names) /\ path.parts # <<>>
  BY PathIs
<1>3. /\ IsWalk(w)
      /\ Straight(path) /\ file => cmd = Last(path.parts)
  BY <1>2, FindCommandIs
<1>4. /\ q \in Procs \ procs /\ starts < MaxStarts /\ fault' = w.null
      /\ pdor' = pdor /\ enabled' = enabled /\ pressed' = pressed
      /\ live' = live + w.live - (IF w.ok THEN 1 ELSE 0) + (IF file THEN PortalsPerProc ELSE 0)
      /\ IF file
         THEN /\ procs' = procs \cup {q} /\ starts' = starts + 1
              /\ u = [t EXCEPT ![q] = newTable] /\ ran' = <<path, cmd>>
         ELSE UNCHANGED <<procs, starts, descriptorTable, ran>>
  <2> HIDE DEF w
  <2>1. file => readCommand(w.portal) # -1
    BY <1>3, ReadCommandIs DEF IsWalk
  <2> QED BY <1>1, <2>1 DEF sysexecv, devices
<1>5. w.null \in BOOLEAN /\ MaxStarts \in Nat
  BY <1>3, NamespaceAssumption DEF IsWalk
<1>9. live' = live + (IF file THEN PortalsPerProc ELSE 0)
  <2>1. live \in Nat /\ PortalsPerProc \in Nat
    BY OpenFinite DEF NSInv, NSTypes, PortalsPerProc
  <2>2. w.live = (IF w.ok THEN 1 ELSE 0)
    BY <1>3 DEF IsWalk
  <2> HIDE DEF w
  <2> QED BY <1>4, <2>1, <2>2
<1>6. t \in Tables /\ StoppedHoldNothing /\ live = Cardinality(OpenIn(t)) + 2 * starts
      /\ Cardinality(OpenIn(t)) \in Nat /\ starts \in 1..MaxStarts
  BY OpenFinite DEF NSInv, NSTypes
<1> HIDE DEF w, i, cmd
<1>7. CASE ~file
  <2>1. UNCHANGED <<procs, starts, live, descriptorTable, ran>>
    <3>1. live' = live
      BY <1>6, <1>7, <1>9
    <3> QED BY <1>4, <1>7, <3>1
  <2>2. NSTypes'
    BY <1>4, <1>5, <2>1 DEF NSInv, NSTypes
  <2>3. StoppedHoldNothing'
    BY <1>6, <2>1 DEF StoppedHoldNothing
  <2>4. (EveryPathStraight => CommandIsNamed)'
    BY <2>1 DEF NSInv, EveryPathStraight, CommandIsNamed
  <2> QED BY <1>6, <2>1, <2>2, <2>3, <2>4 DEF NSInv
<1>8. CASE file
  <2>1. /\ procs' = procs \cup {q} /\ starts' = starts + 1 /\ live' = live + PortalsPerProc
        /\ u = [t EXCEPT ![q] = newTable] /\ ran' = <<path, cmd>>
    BY <1>4, <1>8, <1>9
  <2>2. \A fd \in Fds : t[q][fd] = NULL
    BY <1>4, <1>6 DEF StoppedHoldNothing
  <2>3. NSTypes'
    BY <1>4, <1>5, <1>6, <2>1 DEF NSInv, NSTypes
  <2> HIDE DEF t, u
  <2>4. /\ u \in Tables /\ Cardinality(OpenIn(u)) = Cardinality(OpenIn(t)) + 1
        /\ \A r \in Procs : r # q => u[r] = t[r]
    <3>1. Swaps(t, q, newTable, u)
      BY <2>1 DEF Swaps
    <3> QED BY <1>4, <1>6, <2>2, <3>1, StartTable
  <2>5. StoppedHoldNothing'
    BY <1>4, <1>6, <2>1, <2>4 DEF StoppedHoldNothing, t, u
  <2>6. (EveryPathStraight => CommandIsNamed)'
    <3>1. ASSUME EveryPathStraight PROVE ran' = <<path, Last(path.parts)>>
      BY <1>3, <1>8, <2>1, <3>1 DEF EveryPathStraight
    <3>2. ran'[2] = Last(ran'[1].parts) \/ ~EveryPathStraight
      BY <3>1
    <3> QED BY <3>2 DEF CommandIsNamed, EveryPathStraight
  <2>7. (live = Cardinality(OpenIn(descriptorTable)) + 2 * starts)'
    BY <1>6, <2>1, <2>4 DEF t, u, PortalsPerProc
  <2> QED BY <2>3, <2>4, <2>5, <2>6, <2>7 DEF NSInv, u
<1> QED BY <1>7, <1>8

(* So does a button. *)
LEMMA PressStep ==
  ASSUME NSInv, NEW b \in Buttons, Press(b)
  PROVE  NSInv'
<1>1. /\ procs' = procs /\ descriptorTable' = descriptorTable /\ starts' = starts /\ live' = live
      /\ pdor' = pdor /\ enabled' = enabled /\ ran' = ran /\ fault' = fault
      /\ pressed' \subseteq pressed \cup {b}
  BY DEF Press
<1>2. NSTypes'
  BY <1>1 DEF NSInv, NSTypes
<1>3. StoppedHoldNothing'
  BY <1>1 DEF NSInv, StoppedHoldNothing
<1>4. (EveryPathStraight => CommandIsNamed)'
  BY <1>1 DEF NSInv, EveryPathStraight, CommandIsNamed
<1> QED BY <1>1, <1>2, <1>3, <1>4 DEF NSInv

(* Every step keeps the invariant. *)
LEMMA NSNext ==
  NSInv /\ [Next]_vars => NSInv'
<1> SUFFICES ASSUME NSInv, [Next]_vars PROVE NSInv'
  OBVIOUS
<1>1. ASSUME NEW p \in Procs, NEW path \in Paths, sysopen(p, path) PROVE NSInv'
  BY <1>1, OpenStep
<1>2. ASSUME NEW p \in Procs, NEW path \in Paths, NEW q \in Procs, sysexecv(p, path, q) PROVE NSInv'
  BY <1>2, ExecStep
<1>3. ASSUME NEW p \in Procs, NEW fd \in Fds, sysclose(p, fd) PROVE NSInv'
  BY <1>3, CloseStep
<1>4. ASSUME NEW p \in Procs, NEW fd \in Fds, NEW size \in Sizes, sysread(p, fd, size) PROVE NSInv'
  BY <1>4, ReadStep
<1>5. ASSUME NEW p \in Procs, NEW fd \in Fds, NEW size \in Sizes, NEW c \in Bytes,
             syswrite(p, fd, size, c)
      PROVE  NSInv'
  BY <1>5, WriteStep
<1>6. ASSUME NEW p \in Procs, exits(p) PROVE NSInv'
  BY <1>6, ExitStep
<1>7. ASSUME NEW b \in Buttons, Press(b) PROVE NSInv'
  BY <1>7, PressStep
<1>8. CASE UNCHANGED vars
  BY <1>8 DEF vars, NSInv, NSTypes, StoppedHoldNothing, EveryPathStraight, CommandIsNamed
<1> QED BY <1>1, <1>2, <1>3, <1>4, <1>5, <1>6, <1>7, <1>8 DEF Next, Calls

(* The invariant holds in every reachable state, whatever the processes, the paths
   and the size of a descriptor table. *)
THEOREM NamespaceInvariant == Spec => []NSInv
<1>1. Init => NSInv
  BY NSInit
<1>2. NSInv /\ [Next]_vars => NSInv'
  BY NSNext
<1> QED BY <1>1, <1>2, PTL DEF Spec

(* PortalsAccounted: on no way out of open, close, execv or exit (a missing node, a
   crossed mount point, a full table, a file that is no command) is a portal lost or
   freed twice (__sysopen, sysclose, syswalk, sysexecv, abortProc). *)
THEOREM NoPortalIsLost == Spec => []PortalsAccounted
<1>1. NSInv => PortalsAccounted
  <2>1. Open = OpenIn(descriptorTable)
    BY DEF Open, OpenIn, portalOf
  <2> QED BY <2>1 DEF NSInv, PortalsAccounted
<1> QED BY <1>1, NamespaceInvariant, PTL

(* What an open descriptor has in its slot. *)
LEMMA OpenPortalIs ==
  ASSUME NSInv, NEW s \in Open
  PROVE  portalOf(s) \in Slots
<1>1. s \in Procs \X Fds /\ portalOf(s) # NULL
  BY DEF Open
<1>2. s[1] \in Procs /\ s[2] \in Fds
  BY <1>1
<1> QED BY <1>1, <1>2 DEF NSInv, Tables, portalOf

(* TypeOK follows. *)
LEMMA NSInvTypes ==
  NSInv => TypeOK
<1> SUFFICES ASSUME NSInv PROVE TypeOK
  OBVIOUS
<1>1. live \in Nat
  BY OpenFinite DEF NSInv, NSTypes
<1>2. ASSUME NEW s \in Open
      PROVE  /\ portalOf(s).device \in DOMAIN deviceTable
             /\ \E i \in DOMAIN SNS[portalOf(s).device] :
                  portalOf(s).crumb = SNS[portalOf(s).device][i].crumb
             /\ portalOf(s).offset \in Nat
  <2> DEFINE x == portalOf(s)
  <2>1. x \in Slots
    BY OpenPortalIs
  <2> HIDE DEF x
  <2>2. /\ x.device \in 0..7 /\ x.offset \in Nat
        /\ \E i \in Nodes(x.device) : x.crumb = SNS[x.device][i].crumb
    BY <2>1, SlotIs
  <2>3. Nodes(x.device) \subseteq DOMAIN SNS[x.device]
    <3>1. DOMAIN SNS[x.device] = 0..Size(x.device) /\ Size(x.device) \in Nat
      <4> DEFINE d == x.device
      <4>1. d \in 0..7
        BY <2>2
      <4> HIDE DEF d
      <4>2. IsTree(SNS[d], Size(d)) /\ Size(d) \in 2..22
        BY <4>1, NodesAre
      <4>3. DOMAIN SNS[d] = 0..Size(d)
        BY <4>2 DEF IsTree
      <4> QED BY <4>2, <4>3 DEF d
    <3> QED BY <3>1 DEF Nodes
  <2> QED BY <2>2, <2>3, DevicesAre DEF x
<1> QED BY <1>1, <1>2 DEF NSInv, NSTypes, TypeOK

(* NamesLeadToFiles: whatever the paths, as long as each is one the code reads to the
   end, a descriptor is on the node its path names, execv runs the command the path
   names, and the reads of a directory are the first part of its listing (mkPath,
   syswalk, genericWalkStaticNS, attach, sysread, sysexecv). *)
THEOREM PathsLeadToFiles ==
  ASSUME \A path \in Paths : Straight(path)
  PROVE  Spec => []NamesLeadToFiles
<1>1. NSInv => NamesLeadToFiles
  <2> SUFFICES ASSUME NSInv PROVE NamesLeadToFiles
    OBVIOUS
  <2>1. EveryPathStraight
    BY DEF EveryPathStraight
  <2>2. DescriptorNamesFile
    <3>1. ASSUME NEW s \in Open PROVE nameOf(portalOf(s)) = normal(portalOf(s).path.parts)
      <4> DEFINE x == portalOf(s)
      <4>1. x \in Slots
        BY OpenPortalIs
      <4> HIDE DEF x
      <4>2. nameOf(x) = normal(x.path.parts)
        BY <2>1, <4>1, NameOfPortal DEF Slots
      <4> QED BY <4>2 DEF x
    <3> QED BY <3>1 DEF DescriptorNamesFile
  <2>3. ListingIsPrefix
    <3>1. ASSUME NEW s \in Open, ISDIR(portalOf(s).crumb)
          PROVE  /\ IsPrefix(portalOf(s).got, childNames(SNS[portalOf(s).device], portalOf(s).crumb))
                 /\ Len(portalOf(s).got) = portalOf(s).offset
      <4> DEFINE x == portalOf(s)
                 names == NamesOf(x)
                 k == x.offset
      <4>1. x \in Slots
        BY OpenPortalIs
      <4> HIDE DEF x
      <4>2. k \in 0..Len(names) /\ x.got = SubSeq(names, 1, k) /\ PortalIn(x) \in Portals
            /\ PortalIn(x).device = x.device /\ PortalIn(x).crumb = x.crumb
        BY <3>1, <4>1, SlotIs DEF Slots, x
      <4>3. names \in Seq(FileNames)
        BY <3>1, <4>2, ListingIs DEF NamesOf, x
      <4> HIDE DEF names, k
      <4>4. Len(SubSeq(names, 1, k)) = k
        BY <4>2, <4>3, SubSeqProperties
      <4>5. IsPrefix(SubSeq(names, 1, k), names)
        BY <4>2, <4>3, <4>4 DEF IsPrefix
      <4> QED BY <4>2, <4>4, <4>5 DEF x, names, k, NamesOf
    <3> QED BY <3>1 DEF ListingIsPrefix
  <2> QED BY <2>1, <2>2, <2>3, NSInvTypes DEF NSInv, NamesLeadToFiles
<1> QED BY <1>1, NamespaceInvariant, PTL
=============================================================================
