--------------------------- MODULE KmallocPreempt ---------------------------
(***************************************************************************)
(* kmalloc called by processes.  They run in user mode (enterUserMode),    *)
(* where the processor ignores the cpsid of enterCriticalRegion: a process *)
(* may be preempted between the search of step 4, which leaves a chunk in  *)
(* a local variable, and the unlinkChunk that follows it.  Calls from the  *)
(* kernel are masked, hence still one action each.                         *)
(***************************************************************************)
EXTENDS Kmalloc

CONSTANTS Procs, NoChunk

VARIABLE chunk       \* allocateChunk's local variable, in each process

userVars == <<vars, chunk>>

(* A process finds the remainder, and is preempted. *)
search(p, bytes) ==
  LET n == chunkUnits(bytes)
  IN  /\ chunk[p] = NoChunk
      /\ noExact(n) /\ firstFit(remainder, n) # 0
      /\ dirty' = rebinned(recent) /\ recent' = <<>>
      /\ chunk' = [chunk EXCEPT ![p] = <<remainder[1], bytes>>]
      /\ UNCHANGED <<remainder, clean, tags, bitmap, lastAllocSize, stats, owned>>

(* It continues, with the chunk still where it was found. *)
takeFound(p) ==
  /\ chunk[p] # NoChunk /\ remainder = <<chunk[p][1]>>
  /\ chunk' = [chunk EXCEPT ![p] = NoChunk]
  /\ split(chunk[p][1], chunkUnits(chunk[p][2]), chunk[p][2], recent, <<>>)
  /\ UNCHANGED <<dirty, clean>>

UserNext == \/ Next /\ UNCHANGED chunk
            \/ \E p \in Procs : takeFound(p)
            \/ \E p \in Procs, bytes \in Requests : search(p, bytes)

UserSpec == /\ Init /\ chunk = [p \in Procs |-> NoChunk]
            /\ [][UserNext]_userVars

(* "Cannot allocate adress already allocated": the chunk that a process is
   about to take is not in the bitmap. *)
FoundIsNotAllocated ==
  \A p \in Procs :
    chunk[p] # NoChunk => bitOf(getPayload(chunk[p][1])) \notin bitmap
=============================================================================
