------------------------------ MODULE HeapLayout ------------------------------
(***************************************************************************)
(* The byte layout of the VM's static RAM island (vm/memory/heap.go): how  *)
(* a block header is stored in RAM, how the allocator decodes it and how a *)
(* block is carved out of a free one.  The operators are pure: they take   *)
(* the contents of the RAM array as an argument.  Heap.tla turns them into *)
(* the allocator's state machine and FluxVM.tla uses them as the memory    *)
(* behind the CPU.                                                         *)
(*                                                                         *)
(* Base is the number of values of a byte.  It is 256 in the code, and the *)
(* proofs hold for every Base; TLC runs use a smaller one because its own  *)
(* integers are 32 bits wide.                                              *)
(***************************************************************************)
LOCAL INSTANCE Integers

CONSTANTS RAMSize,      \* bytes of RAM
          Base          \* values of a byte

HeaderSize == 6

(***************************************************************************)
(* A uint32 is four bytes.  The arithmetic of the allocator wraps there,   *)
(* and an end-of-RAM cursor plus a header must still be below the wrap.    *)
(***************************************************************************)
Word == Base * Base * Base * Base

ASSUME LayoutAssumption ==
    /\ Base \in Nat /\ Base >= 2
    /\ RAMSize \in Nat /\ RAMSize >= HeaderSize
    /\ RAMSize + HeaderSize < Word

Byte == 0 .. (Base - 1)
Cell == 0 .. (RAMSize - 1)
U32  == 0 .. (Word - 1)

(* binary.BigEndian.Uint32(RAM[p:p+4]) and PutUint32(RAM[p:p+4], v). *)
Uint32(r, p) ==
    ((r[p] * Base + r[p + 1]) * Base + r[p + 2]) * Base + r[p + 3]

PutUint32(r, p, v) ==
    [r EXCEPT ![p]     = ((v \div Base) \div Base) \div Base,
              ![p + 1] = ((v \div Base) \div Base) % Base,
              ![p + 2] = (v \div Base) % Base,
              ![p + 3] = v % Base]

(* The state flag of a header: 0 free, 1 allocated. *)
Flag(r, h)       == r[h + 4]
SetFlag(r, h, f) == [r EXCEPT ![h + 4] = f]

(* Reset: every byte 0, one free block covering all but its own header. *)
ResetRAM == PutUint32([i \in Cell |-> 0], 0, RAMSize - HeaderSize)

(* Mutant of InLoop: room for a header is not asked for. *)
InLoopLoose(cursor) == cursor % Word <= RAMSize

(***************************************************************************)
(* The condition of Alloc's loop, `cursor+HeaderSize <= RAMSize` in uint32 *)
(* arithmetic, and whether the loop body can then read the header: after a *)
(* wrap-around the condition holds for a cursor far outside the array, and *)
(* the slice expression panics.                                            *)
(***************************************************************************)
InLoop(cursor)   == (cursor + HeaderSize) % Word <= RAMSize
Readable(cursor) == cursor + HeaderSize <= RAMSize

Fits(r, cursor, size) == Flag(r, cursor) = 0 /\ Uint32(r, cursor) >= size

(* Where the block of header h ends. *)
BlockEnd(r, h) == h + HeaderSize + Uint32(r, h)

(* Mutants of NextCursor: uint32 does not wrap; the header is not counted; *)
(* it is counted twice. *)
NextUnwrapped(r, h) == BlockEnd(r, h)
NextShort(r, h)     == (BlockEnd(r, h) - HeaderSize) % Word
NextLong(r, h)      == (BlockEnd(r, h) + HeaderSize) % Word

(* The cursor after h. *)
NextCursor(r, h) == BlockEnd(r, h) % Word

(***************************************************************************)
(* What Alloc writes for a request that fits at header h.  A remainder of  *)
(* at least HeaderSize bytes becomes a free block of its own; a smaller    *)
(* one is dropped, while the header still says `size`.  The new header has *)
(* to lie inside the array or the program panics (CanCarve).               *)
(***************************************************************************)
Remainder(r, h, size) == Uint32(r, h) - size

(* Mutant of Splits: whatever is left over gets a header. *)
SplitsAny(r, h, size) == Remainder(r, h, size) > 0

Splits(r, h, size)    == Remainder(r, h, size) >= HeaderSize

(* Mutant of SplitAt: the split header is placed as if data began at h. *)
SplitInside(h, size) == (h + size) % Word

SplitAt(h, size) == (h + HeaderSize + size) % Word

CanCarve(r, h, size) ==
    Splits(r, h, size) => SplitAt(h, size) + 5 <= RAMSize

(* Mutant of Claim: the block is not marked allocated. *)
ClaimUnmarked(r, h, size) == PutUint32(r, h, size)

Claim(r, h, size) == SetFlag(PutUint32(r, h, size), h, 1)

(* Mutants of Carve: the split header's own bytes count as free space;     *)
(* its flag keeps whatever byte was there. *)
CarveLong(r, h, size) ==
    IF Splits(r, h, size)
    THEN SetFlag(PutUint32(Claim(r, h, size), SplitAt(h, size), Remainder(r, h, size)),
                 SplitAt(h, size), 0)
    ELSE Claim(r, h, size)

CarveStale(r, h, size) ==
    IF Splits(r, h, size)
    THEN PutUint32(Claim(r, h, size), SplitAt(h, size), Remainder(r, h, size) - HeaderSize)
    ELSE Claim(r, h, size)

Carve(r, h, size) ==
    IF Splits(r, h, size)
    THEN SetFlag(PutUint32(Claim(r, h, size), SplitAt(h, size),
                           Remainder(r, h, size) - HeaderSize),
                 SplitAt(h, size), 0)
    ELSE Claim(r, h, size)

(***************************************************************************)
(* A remainder of 1 to 5 bytes is dropped while the header says `size`, so *)
(* the next round reads its header right after the block, where there is   *)
(* none.  Only when fewer than HeaderSize bytes follow does the loop end   *)
(* before reading.                                                         *)
(***************************************************************************)
Severs(r, h, n) ==
    /\ Remainder(r, h, n) > 0
    /\ ~Splits(r, h, n)
    /\ h + HeaderSize + n + HeaderSize <= RAMSize

(***************************************************************************)
(* Where the loop of Alloc stops, once its cursor is at start: at the      *)
(* first block that fits, at a cursor it cannot read, or past the last     *)
(* header.  The CPU model uses it to run an Alloc in one step.             *)
(***************************************************************************)
Stopped(r, size, cursor) ==
    ~InLoop(cursor) \/ ~Readable(cursor) \/ Fits(r, cursor, size)

WalkFrom(r, size, start) ==
    LET stop[c \in U32] ==
            IF Stopped(r, size, c) THEN c ELSE stop[NextCursor(r, c)]
    IN  stop[start]

WalkEnd(r, size) == WalkFrom(r, size, 0)

(***************************************************************************)
(* Whether it stops at all.  Over a damaged chain the cursor may come back *)
(* to where it was, and the loop never ends.  It reads headers at fewer    *)
(* than RAMSize places, so that RAMSize rounds decide: within[k][c] says   *)
(* that from c it stops within k.                                          *)
(***************************************************************************)
WalkStops(r, size) ==
    LET within[k \in 0 .. RAMSize] ==
            [c \in U32 |-> \/ Stopped(r, size, c)
                           \/ k > 0 /\ within[k - 1][NextCursor(r, c)]]
    IN  within[RAMSize][0]

(* The headers a walk of the whole chain meets. *)
Headers(r) ==
    LET from[h \in U32] ==
            IF h + HeaderSize > RAMSize THEN {}
            ELSE {h} \cup from[NextCursor(r, h)]
    IN  from[0]

(***************************************************************************)
(* The headers at H tile RAM: every block ends at the next header, and     *)
(* only the last may leave a gap, too short for a header.                  *)
(***************************************************************************)
Tiles(r, H) ==
    /\ 0 \in H
    /\ \A h \in H :
         /\ h + HeaderSize <= RAMSize
         /\ BlockEnd(r, h) <= RAMSize
         /\ BlockEnd(r, h) \in H \/ BlockEnd(r, h) + HeaderSize > RAMSize
         /\ \A k \in H : k > h => k >= BlockEnd(r, h)

Tiled(r) ==
    r \in [Cell -> Byte] /\ Headers(r) \subseteq Cell /\ Tiles(r, Headers(r))

(* The blocks a walk of the chain finds allocated. *)
Taken(r) == {h + HeaderSize : h \in {k \in Headers(r) : Flag(r, k) = 1}}

(* The block at address a has the same size and the same bytes in r and c. *)
SameBlock(r, c, a) ==
    LET n == Uint32(r, a - HeaderSize)
    IN  /\ Uint32(c, a - HeaderSize) = n
        /\ \A i \in a .. (a + n - 1) : c[i] = r[i]

(* The address check at the top of Free. *)
InRange(addr) == addr >= HeaderSize /\ addr < RAMSize

(* The header and data bytes of a block of n bytes at address a. *)
Extent(a, n) == (a - HeaderSize) .. (a + n - 1)
===============================================================================
