----------------------------- MODULE RamLayout ------------------------------
(***************************************************************************)
(* Where initRam puts the allocator's header and heap in the K70's SDRAM,  *)
(* in bytes, with the numbers the build uses.  Addresses are counted from  *)
(* SDRAM_START (0x8007f800), which is a multiple of 8.                     *)
(***************************************************************************)
EXTENDS Integers

SDRAM_SIZE == 133695488
SDRAM_END  == ((SDRAM_SIZE - 1) \div 4) * 4
ALLOCATION_BITMAP_SIZE == 1036392
MAX_BINS        == 128
MIN_ALLOC_BYTES == 16

(* uint32_t lastAllocSize; two list heads for each bin; the bitmap *)
AllocHeader == 4 + MAX_BINS * 8 + ALLOCATION_BITMAP_SIZE

heap     == ((AllocHeader + 3) \div 4) * 4
totalRAM == SDRAM_END - heap
numChunkOffsets == totalRAM \div MIN_ALLOC_BYTES

(* The layout is what the allocator relies on: payloads (a word into a chunk)
   are double word aligned, the first chunk's footer is the last word of
   memory, the last payload's bit is inside the bitmap, and the size of the
   heap fits the 24 bits of a tag that has lost its three low bits. *)
ASSUME RamIsLaidOut ==
  /\ (heap + 4) % 8 = 0
  /\ totalRAM % 8 = 0
  /\ ((totalRAM - 12) \div MIN_ALLOC_BYTES) \div 8 < ALLOCATION_BITMAP_SIZE
  /\ numChunkOffsets <= 8 * ALLOCATION_BITMAP_SIZE
  /\ totalRAM \div 8 < 2^24
=============================================================================
