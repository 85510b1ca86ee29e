----------------------------- MODULE Namespace ------------------------------
(***************************************************************************)
(* The namespace of the K70 build and the processes' descriptors in it:    *)
(* paths, walks across mount points, open, close, read, write, and the     *)
(* files of the devices.  A system call is one action: it runs in the SVC  *)
(* handler on the caller's own descriptor table.                           *)
(*                                                                         *)
(* A portal is kept in the slot that points to it; live counts the         *)
(* portals allocated and not freed.  Two of a portal's fields, path and    *)
(* got, are history: the path it was opened by and the names read from it. *)
(* Portal.caps is left out: nothing reads it.                              *)
(***************************************************************************)
EXTENDS StaticNS

CONSTANTS
  Procs,        \* the processes
  MANOS_MAXFD,  \* the size of a descriptor table
  Paths,        \* the paths opened and executed
  Sizes,        \* the sizes of the buffers
  Bytes,        \* the first bytes of what is written
  MaxStarts,    \* bound: processes started, counting the first
  MaxOffset     \* bound: the offset of a portal that is still read

ASSUME NamespaceAssumption ==
  /\ MANOS_MAXFD \in Nat \ {0} /\ MaxStarts \in Nat \ {0}
  /\ Sizes \subseteq Nat /\ MaxOffset \in Nat
  /\ IsFiniteSet(Procs) /\ Paths \subseteq [abs : BOOLEAN, parts : Seq(STRING) \ {<<>>}]

Fds  == 0..(MANOS_MAXFD - 1)
NULL == [device |-> -1]
-----------------------------------------------------------------------------
(***************************************************************************)
(* The device table and the namespace of each device.                      *)
(***************************************************************************)
deviceTable ==
  [i \in 0..7 |-> <<"DEVROOT", "DEVLED", "DEVSWPB", "DEVUART",
                    "DEVLCD", "DEVADC", "DEVTIMER", "DEVDEV">>[i + 1]]

fromDeviceId(id) == Min({i \in DOMAIN deviceTable : deviceTable[i] = id})

Dot == Entry(".", MKSTATICNS_CRUMB(STATICNS_SENTINEL, 0, {"ISDIR"}), 0, NoContents)

Bin(self, name, length) == Entry(name, MKSTATICNS_CRUMB(1, self, {"ISFILE"}), length, name)

(* A mount point: its length is the device's id. *)
Mount(self, name, id, contents) == Entry(name, MKSTATICNS_CRUMB(2, self, {"ISMOUNT"}), id, contents)

rootEntries ==
  <<Dot,
    Entry("bin", MKSTATICNS_CRUMB(0, 1, {"ISDIR"}), 0, NoContents),
    Entry("dev", MKSTATICNS_CRUMB(0, 2, {"ISDIR"}), 0, NoContents),
    Bin(3, "pwd", 5), Bin(4, "ls", 4), Bin(5, "cat", 5), Bin(6, "echo", 6), Bin(7, "date", 6),
    Bin(8, "toast", 7), Bin(9, "lsmem", 7), Bin(10, "ps", 4), Bin(11, "fg", 4),
    Bin(12, "fizzbuzz", 10),
    Mount(13, "swpb", "DEVSWPB", NoContents), Mount(14, "led", "DEVLED", NoContents),
    Mount(15, "uart", "DEVUART", NoContents), Mount(16, "lcd", "DEVLCD", NoContents),
    Mount(17, "adc", "DEVADC", NoContents), Mount(18, "timer", "DEVTIMER", NoContents),
    Mount(19, "date", "DEVDEV", "date"), Mount(20, "kprint", "DEVDEV", "kprint"),
    Mount(21, "interrupts", "DEVDEV", "interrupts")>>

rootSNS == StaticTable(rootEntries)

(* A device with one level of files. *)
Flat(names, lengths) ==
  StaticTable(<<Dot>> \o [i \in 1..Len(names) |->
                Entry(names[i], MKSTATICNS_CRUMB(0, i, {"ISFILE"}), lengths[i], NoContents)])

ledSNS    == Flat(<<"orange", "yellow", "green", "blue">>, <<0, 0, 0, 0>>)
swpbSNS   == Flat(<<"1", "2", "1raw", "2raw">>, <<0, 0, 0, 0>>)
(* The control and status files are named by fmtSprintf, which writes no more
   than the string its buffer already holds: nothing, into fresh memory. *)
fmtSprintf(buf, name) == IF buf = "" THEN "" ELSE name
uartSNS   == Flat(<<"k70Uart", fmtSprintf("", "k70Uart_ctl"), fmtSprintf("", "k70Uart_status")>>,
                  <<2, 0, 1>>)
lcdSNS    == Flat(<<"clear", "fg", "bg", "blit", "cons">>, <<0, 0, 0, 480 * 272 * 4, 0>>)
adcSNS    == Flat(<<"pot", "temp">>, <<0, 0>>)
timerSNS  == Flat(<<"k70Timer", "k70MilliTimer">>, <<8, 8>>)
devdevSNS == Flat(<<"date", "kprint", "interrupts">>, <<0, 0, 0>>)

SNS == [i \in 0..7 |-> <<rootSNS, ledSNS, swpbSNS, uartSNS, lcdSNS, adcSNS,
                         timerSNS, devdevSNS>>[i + 1]]

(* attach(): a portal on a device's root, or on the file of devdev that the
   mount point names. *)
attach(idx, contents) ==
  LET named == {i \in DOMAIN SNS[idx] : i # 0 /\ SNS[idx][i].name = contents}
      at    == IF deviceTable[idx] = "DEVDEV" /\ contents # NoContents /\ named # {}
               THEN Min(named) ELSE 0
  IN  [device |-> idx, crumb |-> SNS[idx][at].crumb]
-----------------------------------------------------------------------------
(***************************************************************************)
(* Paths.  A path is its parts and whether a '/' comes before them; "/" is *)
(* the absolute path of one empty part.                                    *)
(***************************************************************************)
mkPathMutant(path) ==       \* the leading '/' is not counted
  SubSeq(path.parts, 1, Len(path.parts) - 1)

(* mkPath() makes one element for each '/', or one if there is none. *)
mkPath(path) ==
  LET slashes == (IF path.abs THEN 1 ELSE 0) + Len(path.parts) - 1
      nelems  == IF slashes = 0 /\ path.parts # <<NoName>> THEN 1 ELSE slashes
  IN  SubSeq(path.parts, 1, nelems)

(***************************************************************************)
(* syswalk(): w is the portal, the elements that are left, the portals     *)
(* allocated and not freed, and why the loop ended.  A walk that returned  *)
(* NULL is used as a trail all the same.                                   *)
(***************************************************************************)
crossMount(w, c) ==
  LET mount == SNS[w.portal.device][STATICNS_CRUMB_SELF_IDX(c)]
  IN  [w EXCEPT !.portal = attach(fromDeviceId(mount.length), mount.contents), !.live = @ - 1 + 1]

followTrail(w, t) ==
  LET c == topCrumb(t, w.portal.crumb)
      v == [w EXCEPT !.elems = SubSeq(w.elems, Len(t.crumbs) + 1, Len(w.elems))]
  IN  IF ISMOUNT(c) THEN crossMount(v, c)
      ELSE [v EXCEPT !.portal.crumb = c, !.end = "walked"]

walkDevice(w) ==
  IF w.end # "walking" \/ w.elems = <<>> THEN w
  ELSE IF ~ISDIR(w.portal.crumb) THEN [w EXCEPT !.end = "NULL"]
  ELSE followTrail(w, genericWalk(SNS[w.portal.device], w.portal.crumb, w.elems).trail)

(* The portal the loop returns; it frees the one of a walk that failed. *)
walkResult(w) ==
  [ok |-> w.elems = <<>>, live |-> IF w.elems = <<>> THEN w.live ELSE w.live - 1,
   null |-> w.end = "NULL", portal |-> w.portal]

syswalk(portal, elems) ==
  IF elems # <<>> /\ ~ISDIR(portal.crumb)
  THEN [ok |-> FALSE, live |-> 0, null |-> FALSE, portal |-> portal]
  ELSE LET after[k \in 0..(Len(elems) + 1)] ==
             IF k = 0 THEN [portal |-> portal, elems |-> elems, live |-> 1, end |-> "walking"]
             ELSE walkDevice(after[k - 1])
       IN  walkResult(after[Len(elems) + 1])

(* Proc.slash and Proc.dot: schedProc attaches both to the root. *)
slash == attach(fromDeviceId("DEVROOT"), NoContents)
dot   == attach(fromDeviceId("DEVROOT"), NoContents)

walkPath(path) == syswalk(IF path.abs THEN slash ELSE dot, mkPath(path))

(* The walks of the paths, computed once. *)
walked == [path \in Paths |-> walkPath(path)]
-----------------------------------------------------------------------------
VARIABLES
  procs,           \* the processes that run
  descriptorTable, \* Proc.descriptorTable
  starts,          \* how many processes were started
  live,            \* the portals allocated and not freed
  pdor,            \* GPIO_PDOR: the LED bits that are set; set is dark
  enabled,         \* the UART and the LCD that were not disabled
  pressed,         \* the buttons that are down
  ran,             \* what sysexecv last ran: <<path, command>>
  ret,             \* what the last system call returned
  fault            \* a NULL pointer was followed

vars == <<procs, descriptorTable, starts, live, pdor, enabled, pressed, ran, ret, fault>>

Leds    == 1..4
Buttons == {1, 2}
ttyPath == [abs |-> TRUE, parts |-> <<"dev", "uart", "k70Uart">>]

openPortal(portal, path) ==
  [device |-> portal.device, crumb |-> portal.crumb, offset |-> 0, path |-> path, got |-> <<>>]

emptyTable == [fd \in Fds |-> NULL]

(* The table schedProc gives a process: the console in slot 0. *)
newTable == [emptyTable EXCEPT ![0] = openPortal(walkPath(ttyPath).portal, ttyPath)]

PortalsPerProc == 2 + 1     \* slash, dot and the console

freeFds(p) == {fd \in Fds : descriptorTable[p][fd] = NULL}

Init ==
  \E p \in Procs :
    /\ procs = {p}
    /\ descriptorTable = [q \in Procs |-> IF q = p THEN newTable ELSE emptyTable]
    /\ starts = 1 /\ live = PortalsPerProc
    /\ pdor = Leds /\ enabled = {"DEVUART", "DEVLCD"} /\ pressed = {}
    /\ ran = <<>> /\ ret = [call |-> "none"] /\ fault = FALSE

devices == <<pdor, enabled, pressed>>
Runs(p) == ~fault /\ p \in procs

(* __sysopen(). *)
sysopen(p, path) ==
  LET full == freeFds(p) = {}
  IN \E w \in {walked[path]} :
      /\ Runs(p)
      /\ fault' = w.null
      /\ live' = live + (IF w.ok /\ full THEN w.live - 1 ELSE w.live)
      /\ descriptorTable' = IF ~w.ok \/ full THEN descriptorTable
                            ELSE [descriptorTable EXCEPT ![p][Min(freeFds(p))] = openPortal(w.portal, path)]
      /\ ret' = [call |-> "open", value |-> IF ~w.ok \/ full THEN -1 ELSE Min(freeFds(p))]
      /\ UNCHANGED <<procs, starts, devices, ran>>

(***************************************************************************)
(* read().  What the read of a file returns: the number of bytes, how far  *)
(* the offset moves, and the first byte where a property is about it.      *)
(***************************************************************************)
Result(n, moves, byte) == [n |-> n, moves |-> moves, byte |-> byte]

LedBit == <<11, 28, 29, 10>>

(* getLed() returns the bit as it is in the register, and readLed() stores
   '0' plus that in a char. *)
ledByte(led) == (48 + (IF led \in pdor THEN 2^LedBit[led] ELSE 0)) % 256

readLed(portal, size) ==
  IF portal.offset # 0 THEN Result(0, 0, 0)
  ELSE Result(1, 1, ledByte(STATICNS_CRUMB_SELF_IDX(portal.crumb)))

(* getState(): the buttons are low, '0', when they are down. *)
buttonOf(fid) == (IF fid <= 2 THEN fid + 2 ELSE fid) - 3 + 1
readSwpb(portal, size) ==
  Result(1, 1, 48 + (IF buttonOf(STATICNS_CRUMB_SELF_IDX(portal.crumb)) \in pressed THEN 0 ELSE 1))

UartDataFile == 2
readUart(portal, size) ==
  IF SNS[portal.device][STATICNS_CRUMB_SELF_IDX(portal.crumb)].length = UartDataFile
  THEN Result(size, 0, 0) ELSE Result(-1, 0, 0)

readAdc(portal, size) == IF size < 4 THEN Result(0, 0, 0) ELSE Result(4, 4, 0)

(* readTimer(): the rest of the eight bytes, whatever the size. *)
readTimer(portal, size) ==
  IF STATICNS_CRUMB_SELF_IDX(portal.crumb) = 2 THEN Result(-1, 0, 0)
  ELSE IF portal.offset >= 8 THEN Result(0, 0, 0)
  ELSE Result(8 - portal.offset, 0, 0)

DateSize == 24
InterruptsText == 60    \* the bytes readInterrupts() formats
readDevDev(portal, size) ==
  LET left == IF portal.offset < InterruptsText THEN InterruptsText - portal.offset ELSE 0
      n    == IF size < left THEN size ELSE left
  IN  CASE STATICNS_CRUMB_SELF_IDX(portal.crumb) = 1 ->
             Result(IF size >= DateSize THEN DateSize ELSE 0, 0, 0)
        [] STATICNS_CRUMB_SELF_IDX(portal.crumb) = 3 -> Result(n, n, 0)
        [] OTHER -> Result(-1, 0, 0)

readRoot(portal, size) ==
  LET n == readFile(SNS[portal.device], portal.crumb, size) IN Result(n, n, 0)

readDev(portal, size) ==
  LET d == deviceTable[portal.device]
  IN  CASE d = "DEVROOT"  -> readRoot(portal, size)
        [] d = "DEVLED"   -> readLed(portal, size)
        [] d = "DEVSWPB"  -> readSwpb(portal, size)
        [] d = "DEVUART"  -> readUart(portal, size)
        [] d = "DEVLCD"   -> Result(-1, 0, 0)
        [] d = "DEVADC"   -> readAdc(portal, size)
        [] d = "DEVTIMER" -> readTimer(portal, size)
        [] d = "DEVDEV"   -> readDevDev(portal, size)

(* The names a read of a directory returns; readAdc refuses small buffers
   before it looks what the portal is on. *)
readNames(portal, size) ==
  IF size = 0 \/ (deviceTable[portal.device] = "DEVADC" /\ size < 4) THEN <<>>
  ELSE readDirectory(SNS[portal.device], portal.crumb, size, portal.offset)

(* sysread(), and the read of dirread(). *)
sysread(p, fd, size) ==
  LET portal == descriptorTable[p][fd]
      file   == <<portal.device, STATICNS_CRUMB_SELF_IDX(portal.crumb)>>
  IN  /\ Runs(p) /\ portal # NULL /\ portal.offset <= MaxOffset
      /\ \/ /\ ISDIR(portal.crumb)
            /\ \E names \in {readNames(portal, size)} :
                 /\ descriptorTable' = [descriptorTable EXCEPT ![p][fd].offset = @ + Len(names),
                                                              ![p][fd].got = @ \o names]
                 /\ ret' = [call |-> "list", value |-> Len(names), size |-> size]
         \/ /\ ~ISDIR(portal.crumb)
            /\ \E r \in {IF size = 0 THEN Result(0, 0, 0) ELSE readDev(portal, size)} :
                 /\ descriptorTable' = [descriptorTable EXCEPT ![p][fd].offset = @ + r.moves]
                 /\ ret' = [call |-> "read", file |-> file, value |-> r.n, size |-> size, byte |-> r.byte]
      /\ UNCHANGED <<procs, starts, live, devices, ran, fault>>

(***************************************************************************)
(* write().  What is not about the LEDs or the result is the business of   *)
(* the modules of the UART and the alarms.                                 *)
(***************************************************************************)
writeDev(portal, size, c) ==
  LET d == deviceTable[portal.device]
      i == STATICNS_CRUMB_SELF_IDX(portal.crumb)
      digit == c \in {"0", "1"}
  IN  CASE d \in {"DEVROOT", "DEVSWPB", "DEVADC"} -> -1
        [] d \notin {"DEVROOT", "DEVSWPB", "DEVADC"} /\ size = 0 -> 0
        [] d = "DEVLED" /\ size > 0 -> IF digit /\ i # 0 THEN 1 ELSE 0
        [] d \in {"DEVUART", "DEVLCD", "DEVTIMER", "DEVDEV"} /\ size > 0 /\ i = 0 -> -1
        [] d = "DEVUART" /\ size > 0 /\ i # 0 -> IF i = 1 THEN size ELSE -1
        [] d = "DEVLCD" /\ size > 0 /\ i # 0 ->
             <<IF c = "1" THEN 1 ELSE 0, IF digit THEN 1 ELSE -1, IF digit THEN 1 ELSE -1,
               480 * 272 * 4, size>>[i]
        [] d = "DEVTIMER" /\ size > 0 /\ i # 0 -> IF i = 2 THEN 21 ELSE IF size > 8 THEN 8 ELSE size
        [] d = "DEVDEV" /\ size > 0 /\ i # 0 -> <<8, size, -1>>[i]

(* setLed(): '0' sets the bit, '1' clears it. *)
setLed(led, c) == IF c = "0" THEN pdor \cup {led} ELSE pdor \ {led}

(* syswrite(); writeDate() needs a descriptor for the timer. *)
syswrite(p, fd, size, c) ==
  LET portal == descriptorTable[p][fd]
      i      == STATICNS_CRUMB_SELF_IDX(portal.crumb)
      n      == writeDev(portal, size, c)
      date   == deviceTable[portal.device] = "DEVDEV" /\ i = 1
  IN  /\ Runs(p) /\ portal # NULL
      /\ pdor' = IF deviceTable[portal.device] = "DEVLED" /\ n = 1 THEN setLed(i, c) ELSE pdor
      /\ ret' = [call |-> "write", file |-> <<portal.device, i>>,
                 value |-> IF date /\ freeFds(p) = {} THEN -1 ELSE n]
      /\ UNCHANGED <<procs, descriptorTable, starts, live, enabled, pressed, ran, fault>>

(***************************************************************************)
(* close(): the device's close, the portal freed, the slot cleared.        *)
(***************************************************************************)
closedDevices(portal) ==
  LET d == deviceTable[portal.device]
      i == STATICNS_CRUMB_SELF_IDX(portal.crumb)
  IN  IF d = "DEVLCD" \/ (d = "DEVUART" /\ i \in {1, 2}) THEN {d} ELSE {}

sysclose(p, fd) ==
  LET portal == descriptorTable[p][fd]
  IN  /\ Runs(p) /\ portal # NULL
      /\ enabled' = enabled \ closedDevices(portal)
      /\ live' = live - 1
      /\ descriptorTable' = [descriptorTable EXCEPT ![p][fd] = NULL]
      /\ ret' = [call |-> "close"]
      /\ UNCHANGED <<procs, starts, pdor, pressed, ran, fault>>

(***************************************************************************)
(* sysexecv(): the path, or its last element in /bin; a file of mode 0555  *)
(* there runs the builtin it names, in a process schedProc makes.          *)
(***************************************************************************)
binPath == [abs |-> TRUE, parts |-> <<"bin">>]

orFromBinMutant(w, path) ==   \* the portal on /bin is not freed
  LET bin == walkPath(binPath)
      x   == syswalk(bin.portal, <<Last(mkPath(path))>>)
  IN  IF w.ok \/ path.abs THEN w
      ELSE [ok |-> x.ok, portal |-> x.portal, live |-> w.live + bin.live + x.live,
            null |-> w.null \/ bin.null \/ x.null]

(* The portal p, NULL if there is none, from a walk of the path or of /bin;
   the portal on /bin is allocated for it and freed. *)
orFromBin(w, path) ==
  LET bin == walkPath(binPath)
      x   == syswalk(bin.portal, <<Last(mkPath(path))>>)
  IN  IF w.ok \/ path.abs THEN w
      ELSE IF ~bin.ok THEN bin
      ELSE [ok |-> x.ok, portal |-> x.portal, live |-> w.live + bin.live + x.live - 1,
            null |-> w.null \/ bin.null \/ x.null]

findCommand(path) == orFromBin(walkPath(path), path)

found == [path \in Paths |-> findCommand(path)]

(* The file is read whole; were that to fail, sysexecv would return without
   freeing p. *)
readCommand(portal) ==
  readRoot(portal, SNS[portal.device][STATICNS_CRUMB_SELF_IDX(portal.crumb)].length).n

sysexecv(p, path, q) ==
  \E w \in {found[path]} :
  LET file   == w.ok /\ w.portal.device = 0 /\ "ISFILE" \in w.portal.crumb.flags
      unread == file /\ readCommand(w.portal) = -1
      runs   == file /\ ~unread
      freed  == IF w.ok /\ ~unread THEN 1 ELSE 0
      cmd    == SNS[0][STATICNS_CRUMB_SELF_IDX(w.portal.crumb)].contents
  IN  /\ Runs(p) /\ q \in Procs \ procs /\ starts < MaxStarts
      /\ fault' = w.null
      /\ ret' = [call |-> "exec", value |-> IF runs THEN 0 ELSE -1]
      /\ live' = live + w.live - freed + (IF runs THEN PortalsPerProc ELSE 0)
      /\ IF runs
         THEN /\ procs' = procs \cup {q}
              /\ starts' = starts + 1
              /\ descriptorTable' = [descriptorTable EXCEPT ![q] = newTable]
              /\ ran' = <<path, cmd>>
         ELSE UNCHANGED <<procs, starts, descriptorTable, ran>>
      /\ UNCHANGED devices

(* __manos_exit() and recycleProc(): the descriptors are freed without a
   close; slash and dot are not freed. *)
exits(p) ==
  /\ Runs(p) /\ procs # {p}
  /\ procs' = procs \ {p}
  /\ live' = live - Cardinality(Fds \ freeFds(p))
  /\ descriptorTable' = [descriptorTable EXCEPT ![p] = emptyTable]
  /\ ret' = [call |-> "exits"]
  /\ UNCHANGED <<starts, devices, ran, fault>>

(* Somebody presses or releases a button. *)
Press(b) ==
  /\ ~fault
  /\ pressed' = IF b \in pressed THEN pressed \ {b} ELSE pressed \cup {b}
  /\ UNCHANGED <<procs, descriptorTable, starts, live, pdor, enabled, ran, ret, fault>>

(* A system call on one of some paths, or with a buffer of some sizes. *)
Calls(paths, sizes) ==
  \E p \in Procs :
    \/ \E path \in paths : sysopen(p, path) \/ \E q \in Procs : sysexecv(p, path, q)
    \/ \E fd \in Fds : \/ sysclose(p, fd)
                       \/ \E size \in sizes : \/ sysread(p, fd, size)
                                             \/ \E c \in Bytes : syswrite(p, fd, size, c)
    \/ exits(p)

Next == Calls(Paths, Sizes) \/ \E b \in Buttons : Press(b)

Spec == Init /\ [][Next]_vars
-----------------------------------------------------------------------------
(***************************************************************************)
(* Properties.                                                             *)
(***************************************************************************)
portalOf(s) == descriptorTable[s[1]][s[2]]
Open == {s \in Procs \X Fds : portalOf(s) # NULL}

(* Portals are on entries of the tables of their devices. *)
TypeOK ==
  /\ procs \subseteq Procs /\ starts \in 1..MaxStarts /\ live \in Nat
  /\ pdor \subseteq Leds /\ enabled \subseteq {"DEVUART", "DEVLCD"} /\ pressed \subseteq Buttons
  /\ fault \in BOOLEAN
  /\ \A s \in Open : /\ portalOf(s).device \in DOMAIN deviceTable
                     /\ \E i \in DOMAIN SNS[portalOf(s).device] :
                          portalOf(s).crumb = SNS[portalOf(s).device][i].crumb
                     /\ portalOf(s).offset \in Nat

(* No system call, on any of its ways out (a missing node, a crossed mount
   point, a full table, a file that is no command), loses a portal or frees
   one twice: those allocated are the open ones and every process's slash
   and dot, which are never freed (__sysopen, sysclose, syswalk, sysexecv,
   abortProc). *)
PortalsAccounted == ~fault => live = Cardinality(Open) + 2 * starts

(* The name of the node a portal is on, from the tables upwards. *)
nameOf(portal) ==
  LET sns    == SNS[portal.device]
      i      == STATICNS_CRUMB_SELF_IDX(portal.crumb)
      up     == STATICNS_CRUMB_PARENT_IDX(portal.crumb)
      mounts == {m \in DOMAIN rootSNS : /\ ISMOUNT(rootSNS[m].crumb)
                                        /\ rootSNS[m].length = deviceTable[portal.device]}
      last   == IF i = 0 THEN <<>> ELSE <<sns[i].name>>
  IN  CASE portal.device = 0 -> (IF i = 0 \/ up = 0 THEN <<>> ELSE <<rootSNS[up].name>>) \o last
        [] deviceTable[portal.device] = "DEVDEV" -> <<"dev">> \o last
        [] OTHER -> <<"dev", rootSNS[Min(mounts)].name>> \o last

(* A path without its "." and "..". *)
down(s, x) ==
  CASE x = "."  -> s
    [] x = ".." -> (IF s = <<>> THEN s ELSE Front(s))
    [] OTHER    -> Append(s, x)

normal(parts) ==
  LET upTo[k \in 0..Len(parts)] == IF k = 0 THEN <<>> ELSE down(upTo[k - 1], parts[k])
  IN  upTo[Len(parts)]

(* The paths that lead where they say.  mkPath drops the last part of a
   relative path of several; in the root directory of a device mounted below
   /dev, ".." leads nowhere else. *)
Straight(path) ==
  /\ path.abs \/ (Len(path.parts) = 1 /\ path.parts[1] # NoName)
  /\ \A k \in 1..Len(path.parts) :
       path.parts[k] = ".." => Len(normal(SubSeq(path.parts, 1, k - 1))) < 2

(* A descriptor is on the node its path names (mkPath, syswalk, attach):
   "This path can be relative to another path, it can be absolute" (README:57). *)
DescriptorNamesFile ==
  \A s \in Open : nameOf(portalOf(s)) = normal(portalOf(s).path.parts)

(* What sysexecv runs is the command the last part of the path names. *)
CommandIsNamed == ran # <<>> => ran[2] = Last(ran[1].parts)

(* What was read of a directory is the first part of its listing, for each
   descriptor on its own (sysread, dirread, readStaticNS). *)
ListingIsPrefix ==
  \A s \in Open :
    ISDIR(portalOf(s).crumb) =>
      LET names == childNames(SNS[portalOf(s).device], portalOf(s).crumb)
      IN  IsPrefix(portalOf(s).got, names) /\ Len(portalOf(s).got) = portalOf(s).offset

(* A name leads to one file and stays there: what a process has open is what
   it named, what it executes too, and what it reads of a directory is that
   directory's, whatever the other process opens, closes and reads meanwhile
   (sysopen, sysexecv, sysread). *)
NamesLeadToFiles == TypeOK /\ DescriptorNamesFile /\ CommandIsNamed /\ ListingIsPrefix

(* "-x  Read in 4 byte chunks" (cat.c:8): a read fills at most the buffer
   it was given. *)
ReadFitsBuffer == ret.call = "read" => ret.value <= ret.size

(* "Reading a byte from ./<color> returns in a '1' or a '0' indicating the
   current state of the LED" (devled.c:13). *)
LedReadsState ==
  [][(ret' # ret /\ ret'.call = "read" /\ deviceTable[ret'.file[1]] = "DEVLED" /\ ret'.value = 1) =>
       ret'.byte = (IF ret'.file[2] \in pdor THEN 48 ELSE 49)]_vars

(* "zero sized writes and non-zero offsets result in a non-write"
   (devled.c:266-267): a descriptor that was read from lights nothing. *)
LedOffsetWritesNothing ==
  [][\A p \in Procs, fd \in Fds, size \in Sizes, c \in Bytes :
       (syswrite(p, fd, size, c) /\ deviceTable[descriptorTable[p][fd].device] = "DEVLED"
          /\ descriptorTable[p][fd].offset # 0) => pdor' = pdor]_vars

(* "we may find that in the end the trail is shorter -- if the walk fails
   along the way" (walk/DESIGN:10-11): syswalk always has a trail to use. *)
WalkLeavesTrail == ~fault
=============================================================================
