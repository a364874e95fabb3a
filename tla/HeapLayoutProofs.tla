----------------------------- MODULE HeapLayoutProofs -----------------------------
(***************************************************************************)
(* Facts about the operators of HeapLayout, for every RAM size and byte    *)
(* base: digits and headers, what carving a block does to the bytes of RAM *)
(* and to a tiling of it, and where a walk of the chain ends.              *)
(***************************************************************************)
EXTENDS HeapLayout, Integers, Induction, TLAPS

-----------------------------------------------------------------------------
(* Arithmetic of digits. *)

(* Division with remainder by the number of values of a byte. *)
LEMMA DivMod ==
    ASSUME NEW v \in Nat
    PROVE  /\ v \div Base \in Nat
           /\ v % Base \in Byte
           /\ (v \div Base) * Base + (v % Base) = v
  BY LayoutAssumption, SMT DEF Byte

(* A value below x * Base loses one digit when it is divided by Base. *)
LEMMA DivBound ==
    ASSUME NEW v \in Nat, NEW x \in Nat, v < x * Base
    PROVE  v \div Base < x
<1> DEFINE q == v \div Base
<1>1. q \in Nat /\ q * Base <= v
  BY DivMod, LayoutAssumption DEF Byte
<1>2. q >= x => q * Base >= x * Base
  BY <1>1, LayoutAssumption
<1> QED
  BY <1>1, <1>2, LayoutAssumption

(* A number below w is its own remainder. *)
LEMMA ModSmall ==
    ASSUME NEW w \in Nat, NEW x \in Nat, x < w
    PROVE  x % w = x
  OBVIOUS

LEMMA WordNat == Word \in Nat /\ RAMSize \in Nat /\ RAMSize + HeaderSize < Word
  BY LayoutAssumption DEF Word, HeaderSize

-----------------------------------------------------------------------------
(* The layout of headers. *)

(* Four bytes decode to a uint32. *)
LEMMA Uint32Type ==
    ASSUME NEW r \in [Cell -> Byte], NEW p \in Nat, p + 3 < RAMSize
    PROVE  Uint32(r, p) \in U32
<1> DEFINE a == r[p]
           b == r[p + 1]
           c == r[p + 2]
           d == r[p + 3]
<1>1. /\ a \in Nat /\ b \in Nat /\ c \in Nat /\ d \in Nat
      /\ a < Base /\ b < Base /\ c < Base /\ d < Base
  BY LayoutAssumption DEF Cell, Byte
<1> HIDE DEF a, b, c, d
<1>2. \A x, y, z \in Nat : x < y /\ z < Base => x * Base + z < y * Base
  <2> SUFFICES ASSUME NEW x \in Nat, NEW y \in Nat, NEW z \in Nat, x < y, z < Base
               PROVE  x * Base + z < y * Base
    OBVIOUS
  <2>1. (x + 1) * Base <= y * Base
    BY LayoutAssumption
  <2>2. (x + 1) * Base = x * Base + Base
    BY LayoutAssumption
  <2> QED
    BY <2>1, <2>2, LayoutAssumption
<1>3. a * Base + b \in Nat /\ a * Base + b < Base * Base
  BY <1>1, <1>2, LayoutAssumption
<1>4. (a * Base + b) * Base + c \in Nat /\ (a * Base + b) * Base + c < Base * Base * Base
  BY <1>1, <1>2, <1>3, LayoutAssumption
<1>5. /\ ((a * Base + b) * Base + c) * Base + d \in Nat
      /\ ((a * Base + b) * Base + c) * Base + d < Base * Base * Base * Base
  BY <1>1, <1>2, <1>4, LayoutAssumption
<1> QED
  BY <1>5, WordNat DEF Uint32, U32, Word, a, b, c, d

(* The digits PutUint32 writes are bytes, and Uint32 reads them back. *)
LEMMA Digits ==
    ASSUME NEW v \in U32
    PROVE  LET q1 == v \div Base
               q2 == q1 \div Base
               q3 == q2 \div Base
           IN  /\ q3 \in Byte /\ (q2 % Base) \in Byte
               /\ (q1 % Base) \in Byte /\ (v % Base) \in Byte
               /\ ((q3 * Base + (q2 % Base)) * Base + (q1 % Base)) * Base
                    + (v % Base) = v
<1> DEFINE q1 == v \div Base
           q2 == q1 \div Base
           q3 == q2 \div Base
<1> DEFINE B2 == Base * Base
           B3 == B2 * Base
<1>1. v \in Nat /\ v < B3 * Base /\ B3 \in Nat /\ B2 \in Nat
  BY WordNat, LayoutAssumption DEF U32, Word
<1>2. /\ q1 \in Nat /\ (v % Base) \in Byte /\ q1 * Base + (v % Base) = v
      /\ q1 < B3
  <2> HIDE DEF B3
  <2> QED BY <1>1, DivMod, DivBound
<1> HIDE DEF q1
<1>3. /\ q2 \in Nat /\ (q1 % Base) \in Byte /\ q2 * Base + (q1 % Base) = q1
      /\ q2 < B2
  <2> HIDE DEF B2
  <2> QED BY <1>1, <1>2, DivMod, DivBound
<1> HIDE DEF q2
<1>4. /\ q3 \in Nat /\ (q2 % Base) \in Byte /\ q3 * Base + (q2 % Base) = q2
      /\ q3 < Base
  BY <1>3, DivMod, DivBound, LayoutAssumption
<1> HIDE DEF q3
<1>5. q3 \in Byte
  BY <1>4, LayoutAssumption DEF Byte
<1>6. ((q3 * Base + (q2 % Base)) * Base + (q1 % Base)) * Base + (v % Base) = v
  BY <1>2, <1>3, <1>4
<1> QED
  BY <1>2, <1>3, <1>4, <1>5, <1>6 DEF q1, q2, q3

(* PutUint32 writes four bytes that Uint32 reads back, and no others. *)
LEMMA PutGet ==
    ASSUME NEW r \in [Cell -> Byte], NEW p \in Nat, NEW v \in U32,
           p + 3 < RAMSize
    PROVE  /\ PutUint32(r, p, v) \in [Cell -> Byte]
           /\ Uint32(PutUint32(r, p, v), p) = v
           /\ \A i \in Cell : i < p \/ i > p + 3 => PutUint32(r, p, v)[i] = r[i]
<1> DEFINE q1 == v \div Base
           q2 == q1 \div Base
           q3 == q2 \div Base
           s  == PutUint32(r, p, v)
<1>1. s = [r EXCEPT ![p] = q3, ![p + 1] = q2 % Base, ![p + 2] = q1 % Base, ![p + 3] = v % Base]
  BY DEF PutUint32
<1>2. /\ q3 \in Byte /\ (q2 % Base) \in Byte
      /\ (q1 % Base) \in Byte /\ (v % Base) \in Byte
      /\ ((q3 * Base + (q2 % Base)) * Base + (q1 % Base)) * Base + (v % Base) = v
  BY Digits
<1> HIDE DEF q1, q2, q3, s
<1>3. p \in Cell /\ p + 1 \in Cell /\ p + 2 \in Cell /\ p + 3 \in Cell
  BY LayoutAssumption DEF Cell
<1>4. s \in [Cell -> Byte]
  BY <1>1, <1>2, <1>3
<1>5. /\ s[p] = q3 /\ s[p + 1] = q2 % Base
      /\ s[p + 2] = q1 % Base /\ s[p + 3] = v % Base
  BY <1>1, <1>3
<1>6. Uint32(s, p) = v
  BY <1>2, <1>5 DEF Uint32
<1>7. \A i \in Cell : i < p \/ i > p + 3 => s[i] = r[i]
  BY <1>1 DEF Cell
<1> QED
  BY <1>4, <1>6, <1>7 DEF s

(* A header whose five bytes are unchanged reads the same. *)
LEMMA SameHeader ==
    ASSUME NEW r, NEW c, NEW k \in Nat,
           \A i \in k .. (k + 4) : c[i] = r[i]
    PROVE  Uint32(c, k) = Uint32(r, k) /\ Flag(c, k) = Flag(r, k)
<1>1. /\ k \in k .. (k + 4) /\ k + 1 \in k .. (k + 4) /\ k + 2 \in k .. (k + 4)
      /\ k + 3 \in k .. (k + 4) /\ k + 4 \in k .. (k + 4)
  OBVIOUS
<1> QED
  BY <1>1 DEF Uint32, Flag

(* A header written at h: size v, flag f, and no other byte touched. *)
LEMMA WriteHeader ==
    ASSUME NEW r \in [Cell -> Byte], NEW h \in Nat, NEW v \in U32,
           NEW f \in {0, 1}, h + 5 <= RAMSize
    PROVE  LET c == SetFlag(PutUint32(r, h, v), h, f)
           IN  /\ c \in [Cell -> Byte]
               /\ Uint32(c, h) = v
               /\ Flag(c, h) = f
               /\ \A i \in Cell : i < h \/ i > h + 4 => c[i] = r[i]
<1> DEFINE p == PutUint32(r, h, v)
           c == SetFlag(p, h, f)
<1>1. /\ p \in [Cell -> Byte]
      /\ Uint32(p, h) = v
      /\ \A i \in Cell : i < h \/ i > h + 3 => p[i] = r[i]
  BY PutGet, LayoutAssumption
<1> HIDE DEF p
<1>2. h + 4 \in Cell
  BY LayoutAssumption DEF Cell
<1>3. f \in Byte
  BY LayoutAssumption DEF Byte
<1>4. c = [p EXCEPT ![h + 4] = f]
  BY DEF SetFlag
<1>5. c \in [Cell -> Byte] /\ c[h + 4] = f
  BY <1>1, <1>2, <1>3, <1>4
<1>6. \A i \in Cell : i # h + 4 => c[i] = p[i]
  BY <1>1, <1>4
<1>7. /\ h \in Cell /\ h + 1 \in Cell /\ h + 2 \in Cell /\ h + 3 \in Cell
      /\ h # h + 4 /\ h + 1 # h + 4 /\ h + 2 # h + 4 /\ h + 3 # h + 4
  BY LayoutAssumption DEF Cell
<1>8. Uint32(c, h) = v
  BY <1>1, <1>6, <1>7 DEF Uint32
<1>9. \A i \in Cell : i < h \/ i > h + 4 => c[i] = r[i]
  BY <1>1, <1>6 DEF Cell
<1> HIDE DEF c
<1> QED
  BY <1>5, <1>8, <1>9 DEF Flag, c, p

(* Carving keeps RAM an array of bytes, whatever the header holds. *)
LEMMA CarveType ==
    ASSUME NEW r \in [Cell -> Byte], NEW h \in U32, NEW n \in U32,
           Readable(h), Uint32(r, h) >= n, CanCarve(r, h, n)
    PROVE  /\ Carve(r, h, n) \in [Cell -> Byte]
           /\ Splits(r, h, n) => SplitAt(h, n) \in Cell
<1>1. h \in Nat /\ n \in Nat /\ h + 5 <= RAMSize /\ h + HeaderSize <= RAMSize
  BY WordNat DEF U32, Readable, HeaderSize
<1>2. Claim(r, h, n) \in [Cell -> Byte]
  BY <1>1, WriteHeader DEF Claim
<1>3. Uint32(r, h) \in U32
  BY <1>1, Uint32Type, WordNat
<1>4. CASE Splits(r, h, n)
  <2>1. SplitAt(h, n) \in Nat
    BY <1>1, WordNat, LayoutAssumption DEF SplitAt, HeaderSize
  <2>2. SplitAt(h, n) + 5 <= RAMSize
    BY <1>4 DEF CanCarve
  <2>3. Remainder(r, h, n) - HeaderSize \in U32
    BY <1>1, <1>3, <1>4, WordNat DEF Splits, Remainder, U32, HeaderSize
  <2>4. SetFlag(PutUint32(Claim(r, h, n), SplitAt(h, n),
                Remainder(r, h, n) - HeaderSize), SplitAt(h, n), 0) \in [Cell -> Byte]
    BY <1>2, <2>1, <2>2, <2>3, WriteHeader
  <2>5. SplitAt(h, n) \in Cell
    BY <2>1, <2>2, WordNat DEF Cell
  <2> QED
    BY <1>4, <2>4, <2>5 DEF Carve
<1>5. CASE ~Splits(r, h, n)
  BY <1>2, <1>5 DEF Carve
<1> QED
  BY <1>4, <1>5

(***************************************************************************)
(* Carving a request of n bytes out of a block that lies in RAM: the block *)
(* gets size n and is allocated, what is split off is free and ends where  *)
(* the block ended, and every other byte keeps its value.                  *)
(***************************************************************************)
LEMMA CarveFacts ==
    ASSUME NEW r \in [Cell -> Byte], NEW h \in Nat, NEW n \in U32,
           h + HeaderSize <= RAMSize, Uint32(r, h) >= n,
           h + HeaderSize + Uint32(r, h) <= RAMSize
    PROVE  LET c == Carve(r, h, n)
               s == h + HeaderSize + n
           IN  /\ Uint32(c, h) = n
               /\ Flag(c, h) = 1
               /\ SplitAt(h, n) = s
               /\ CanCarve(r, h, n)
               /\ Splits(r, h, n) =>
                     /\ s + HeaderSize <= h + HeaderSize + Uint32(r, h)
                     /\ Uint32(c, s) = Uint32(r, h) - n - HeaderSize
                     /\ Flag(c, s) = 0
               /\ \A i \in Cell : /\ i < h \/ i > h + 4
                                  /\ Splits(r, h, n) => i < s \/ i > s + 4
                                  => c[i] = r[i]
<1> DEFINE c == Carve(r, h, n)
           s == h + HeaderSize + n
           b == Claim(r, h, n)
           z == Uint32(r, h)
<1>1. /\ n \in Nat /\ z \in Nat /\ z < Word
      /\ h + HeaderSize <= RAMSize /\ h + 5 <= RAMSize
  <2>1. z \in U32
    BY Uint32Type, WordNat DEF HeaderSize
  <2> QED
    BY <2>1, WordNat DEF HeaderSize, U32
<1>2. /\ b \in [Cell -> Byte]
      /\ Uint32(b, h) = n
      /\ Flag(b, h) = 1
      /\ \A i \in Cell : i < h \/ i > h + 4 => b[i] = r[i]
  BY <1>1, WriteHeader DEF Claim
<1>3. s \in Nat /\ s <= RAMSize /\ SplitAt(h, n) = s
  BY <1>1, ModSmall, WordNat DEF SplitAt, HeaderSize
<1>4. Splits(r, h, n) => s + HeaderSize <= h + HeaderSize + z
  BY <1>1 DEF Splits, Remainder, HeaderSize
<1>5. CanCarve(r, h, n)
  BY <1>1, <1>3, <1>4, WordNat DEF CanCarve, HeaderSize
<1>6. CASE Splits(r, h, n)
  <2> DEFINE v == Remainder(r, h, n) - HeaderSize
  <2>1. v \in U32 /\ v = z - n - HeaderSize
    BY <1>1, <1>6, WordNat DEF Splits, Remainder, HeaderSize, U32
  <2>2. c = SetFlag(PutUint32(b, s, v), s, 0)
    BY <1>3, <1>6 DEF Carve
  <2>3. s + 5 <= RAMSize
    BY <1>1, <1>3, <1>4, <1>6, WordNat DEF HeaderSize
  <2> HIDE DEF v, b, c, s, z
  <2>4. /\ c \in [Cell -> Byte]
        /\ Uint32(c, s) = v
        /\ Flag(c, s) = 0
        /\ \A i \in Cell : i < s \/ i > s + 4 => c[i] = b[i]
    <3>1. b \in [Cell -> Byte] /\ s \in Nat /\ v \in U32 /\ 0 \in {0, 1}
      BY <1>2, <1>3, <2>1
    <3> QED
      BY ONLY <3>1, <2>2, <2>3, WriteHeader
  <2>5. \A i \in h .. (h + 4) : c[i] = b[i]
    BY <1>1, <1>3, <2>4, WordNat DEF Cell, s, HeaderSize
  <2>6. Uint32(c, h) = n /\ Flag(c, h) = 1
    BY <1>2, <2>5, SameHeader
  <2>7. \A i \in Cell : (i < h \/ i > h + 4) /\ (i < s \/ i > s + 4) => c[i] = r[i]
    BY <1>2, <2>4
  <2> QED
    BY <1>3, <1>4, <1>5, <1>6, <2>1, <2>4, <2>6, <2>7 DEF c, s, z, b
<1>7. CASE ~Splits(r, h, n)
  <2>1. c = b
    BY <1>7 DEF Carve
  <2> QED
    BY <1>2, <1>3, <1>5, <1>7, <2>1
<1> QED
  BY <1>6, <1>7

(* Reset installs one free block over all of RAM. *)
LEMMA ResetFacts ==
    /\ ResetRAM \in [Cell -> Byte]
    /\ Uint32(ResetRAM, 0) = RAMSize - HeaderSize
    /\ Flag(ResetRAM, 0) = 0
<1> DEFINE z == [i \in Cell |-> 0]
<1>1. z \in [Cell -> Byte] /\ RAMSize - HeaderSize \in U32 /\ 0 + 3 < RAMSize
  BY LayoutAssumption, WordNat DEF Byte, U32, HeaderSize
<1>2. 4 \in Cell /\ z[4] = 0
  BY LayoutAssumption DEF Cell, HeaderSize
<1> HIDE DEF z
<1>3. /\ PutUint32(z, 0, RAMSize - HeaderSize) \in [Cell -> Byte]
      /\ Uint32(PutUint32(z, 0, RAMSize - HeaderSize), 0) = RAMSize - HeaderSize
      /\ \A i \in Cell : i < 0 \/ i > 0 + 3
             => PutUint32(z, 0, RAMSize - HeaderSize)[i] = z[i]
  BY ONLY <1>1, PutGet
<1>4. ResetRAM = PutUint32(z, 0, RAMSize - HeaderSize)
  BY DEF ResetRAM, z
<1> QED
  BY <1>2, <1>3, <1>4 DEF Flag

-----------------------------------------------------------------------------
(* Tilings. *)

LEMMA TileTypes ==
    ASSUME NEW r \in [Cell -> Byte], NEW H \in SUBSET Cell, Tiles(r, H), NEW h \in H
    PROVE  /\ h \in Nat
           /\ h + HeaderSize <= RAMSize
           /\ Uint32(r, h) \in Nat
           /\ Uint32(r, h) < Word
           /\ BlockEnd(r, h) \in Nat
           /\ BlockEnd(r, h) = h + HeaderSize + Uint32(r, h)
           /\ h + HeaderSize <= BlockEnd(r, h)
           /\ BlockEnd(r, h) <= RAMSize
<1>1. h \in Nat /\ h + HeaderSize <= RAMSize
  BY WordNat DEF Cell, Tiles
<1>2. Uint32(r, h) \in Nat /\ Uint32(r, h) < Word
  BY <1>1, Uint32Type, WordNat DEF U32, HeaderSize
<1> QED
  BY <1>1, <1>2 DEF BlockEnd, HeaderSize, Tiles

(* Blocks of a tiling are apart, headers included. *)
LEMMA TilesApart ==
    ASSUME NEW r \in [Cell -> Byte], NEW H \in SUBSET Cell, Tiles(r, H),
           NEW h \in H, NEW k \in H, k # h
    PROVE  BlockEnd(r, k) <= h \/ BlockEnd(r, h) <= k
<1>1. h \in Nat /\ k \in Nat
  BY TileTypes
<1>2. (h > k => h >= BlockEnd(r, k)) /\ (k > h => k >= BlockEnd(r, h))
  BY DEF Tiles
<1> QED
  BY <1>1, <1>2

(* A tiling depends on the sizes in the headers only. *)
LEMMA SameSizesTile ==
    ASSUME NEW r, NEW c, NEW H, Tiles(r, H),
           \A k \in H : Uint32(c, k) = Uint32(r, k)
    PROVE  /\ Tiles(c, H)
           /\ \A k \in H : BlockEnd(c, k) = BlockEnd(r, k)
<1>1. \A k \in H : BlockEnd(c, k) = BlockEnd(r, k)
  BY DEF BlockEnd
<1> QED
  BY <1>1 DEF Tiles

(* The header and the data of block h. *)
Block(r, h) == h .. (BlockEnd(r, h) - 1)

(* A write into the data of one block touches no header and no other block. *)
LEMMA WriteTiles ==
    ASSUME NEW r \in [Cell -> Byte], NEW H \in SUBSET Cell, Tiles(r, H),
           NEW h \in H, NEW c \in [Cell -> Byte],
           \A i \in Cell : i < h + HeaderSize \/ i >= BlockEnd(r, h) => c[i] = r[i]
    PROVE  /\ Tiles(c, H)
           /\ \A k \in H : Uint32(c, k) = Uint32(r, k) /\ Flag(c, k) = Flag(r, k)
           /\ \A k \in H : k # h => \A i \in Block(r, k) : c[i] = r[i]
<1>1. ASSUME NEW k \in H, NEW i \in Block(r, k), k # h \/ i < h + HeaderSize
      PROVE  c[i] = r[i]
  <2>1. /\ k \in Nat /\ h \in Nat /\ BlockEnd(r, k) \in Nat /\ BlockEnd(r, h) \in Nat
        /\ BlockEnd(r, k) <= RAMSize
    BY TileTypes
  <2>2. k # h => BlockEnd(r, k) <= h \/ BlockEnd(r, h) <= k
    BY TilesApart
  <2>3. i \in Cell /\ (i < h + HeaderSize \/ i >= BlockEnd(r, h))
    BY <1>1, <2>1, <2>2, WordNat DEF Block, Cell, HeaderSize
  <2> QED
    BY <2>3
<1>2. ASSUME NEW k \in H
      PROVE  Uint32(c, k) = Uint32(r, k) /\ Flag(c, k) = Flag(r, k)
  <2>1. k \in Nat /\ h \in Nat /\ k + HeaderSize <= BlockEnd(r, k) /\ BlockEnd(r, k) \in Nat
    BY TileTypes
  <2>2. \A i \in k .. (k + 4) : i \in Block(r, k) /\ (k = h => i < h + HeaderSize)
    BY <2>1 DEF Block, HeaderSize
  <2>3. \A i \in k .. (k + 4) : c[i] = r[i]
    BY <1>1, <2>2
  <2> QED
    BY <2>1, <2>3, SameHeader
<1>3. Tiles(c, H)
  BY <1>2, SameSizesTile
<1> QED
  BY <1>1, <1>2, <1>3

(* Clearing a header's flag frees its block and changes nothing else. *)
LEMMA ClearTiles ==
    ASSUME NEW r \in [Cell -> Byte], NEW H \in SUBSET Cell, Tiles(r, H), NEW h \in H
    PROVE  LET c == SetFlag(r, h, 0)
           IN  /\ c \in [Cell -> Byte]
               /\ Tiles(c, H)
               /\ Flag(c, h) = 0
               /\ \A k \in H : Uint32(c, k) = Uint32(r, k)
               /\ \A k \in H : k # h => Flag(c, k) = Flag(r, k)
               /\ \A i \in Cell : i # h + 4 => c[i] = r[i]
<1> DEFINE c == SetFlag(r, h, 0)
<1>1. h \in Nat /\ h + HeaderSize <= RAMSize /\ h + 4 \in Cell /\ 0 \in Byte
  BY TileTypes, WordNat, LayoutAssumption DEF Cell, Byte, HeaderSize
<1>2. c \in [Cell -> Byte] /\ c[h + 4] = 0 /\ \A i \in Cell : i # h + 4 => c[i] = r[i]
  BY <1>1 DEF SetFlag
<1> HIDE DEF c
<1>3. ASSUME NEW k \in H
      PROVE  Uint32(c, k) = Uint32(r, k) /\ (k # h => Flag(c, k) = Flag(r, k))
  <2>1. /\ k \in Nat /\ k + HeaderSize <= RAMSize /\ BlockEnd(r, k) \in Nat
        /\ BlockEnd(r, h) \in Nat /\ k + HeaderSize <= BlockEnd(r, k)
        /\ h + HeaderSize <= BlockEnd(r, h)
    BY TileTypes
  <2>2. k = h \/ BlockEnd(r, k) <= h \/ BlockEnd(r, h) <= k
    BY TilesApart
  <2>3. /\ k \in Cell /\ k + 1 \in Cell /\ k + 2 \in Cell
        /\ k + 3 \in Cell /\ k + 4 \in Cell
    BY <2>1, WordNat DEF Cell, HeaderSize
  <2>4. /\ k # h + 4 /\ k + 1 # h + 4 /\ k + 2 # h + 4 /\ k + 3 # h + 4
        /\ k # h => k + 4 # h + 4
    BY <1>1, <2>1, <2>2 DEF HeaderSize
  <2> QED
    BY <1>2, <2>3, <2>4 DEF Uint32, Flag
<1>4. Tiles(c, H)
  BY <1>3, SameSizesTile
<1> QED
  BY <1>2, <1>3, <1>4 DEF Flag, c

(* Reset's RAM is tiled by one free block. *)
LEMMA ResetTiles == Tiles(ResetRAM, {0})
<1>1. BlockEnd(ResetRAM, 0) = RAMSize
  BY ResetFacts, WordNat DEF BlockEnd, HeaderSize
<1> QED
  BY <1>1, LayoutAssumption DEF Tiles, HeaderSize
(* Allocating n bytes in the free block h of a tiling, unless that severs  *)
(* the chain: what is left is a block of its own, free, and no byte of the *)
(* other blocks changes. *)
Carved(r, H, h, n) ==
    IF Splits(r, h, n) THEN H \cup {h + HeaderSize + n} ELSE H

LEMMA CarveTiles ==
    ASSUME NEW r \in [Cell -> Byte], NEW H \in SUBSET Cell, Tiles(r, H),
           NEW h \in H, NEW n \in Nat, Uint32(r, h) >= n, ~Severs(r, h, n)
    PROVE  LET c == Carve(r, h, n)
               K == Carved(r, H, h, n)
           IN  /\ c \in [Cell -> Byte]
               /\ CanCarve(r, h, n)
               /\ h + HeaderSize + n <= RAMSize
               /\ K \in SUBSET Cell /\ H \subseteq K
               /\ Tiles(c, K)
               /\ Uint32(c, h) = n /\ Flag(c, h) = 1
               /\ \A k \in H : k # h => /\ Uint32(c, k) = Uint32(r, k)
                                        /\ Flag(c, k) = Flag(r, k)
                                        /\ \A i \in Block(r, k) : c[i] = r[i]
               /\ \A k \in K \ H : Flag(c, k) = 0
<1> DEFINE c == Carve(r, h, n)
           K == Carved(r, H, h, n)
           s == h + HeaderSize + n
           z == Uint32(r, h)
           w == Splits(r, h, n)
<1>1. /\ h \in Nat /\ z \in Nat /\ BlockEnd(r, h) \in Nat
      /\ h + HeaderSize <= RAMSize /\ BlockEnd(r, h) = h + HeaderSize + z
      /\ BlockEnd(r, h) <= RAMSize /\ n \in U32 /\ h \in U32
  BY TileTypes, WordNat DEF U32, HeaderSize
<1>2. /\ Uint32(c, h) = n /\ Flag(c, h) = 1
      /\ SplitAt(h, n) = s
      /\ CanCarve(r, h, n)
      /\ w => /\ s + HeaderSize <= BlockEnd(r, h)
              /\ Uint32(c, s) = z - n - HeaderSize
              /\ Flag(c, s) = 0
      /\ \A i \in Cell : /\ i < h \/ i > h + 4
                         /\ w => i < s \/ i > s + 4
                         => c[i] = r[i]
  BY <1>1, CarveFacts
<1>3. c \in [Cell -> Byte]
  BY <1>1, <1>2, CarveType DEF Readable
<1>4. s \in Nat /\ s = h + HeaderSize + n /\ s <= BlockEnd(r, h)
  BY <1>1 DEF HeaderSize
<1>5. w = (z - n >= HeaderSize)
  BY DEF Splits, Remainder
<1>6. ~w => z = n \/ s + HeaderSize > RAMSize
  BY <1>1, <1>4, <1>5, WordNat DEF Severs, Remainder, HeaderSize
<1>7. K = IF w THEN H \cup {s} ELSE H
  BY DEF Carved
<1> HIDE DEF c, K, s, z, w
<1>8. \A k \in H : /\ k \in Nat /\ BlockEnd(r, k) \in Nat /\ BlockEnd(r, k) <= RAMSize
                   /\ k + HeaderSize <= BlockEnd(r, k)
  BY TileTypes
<1>9. ASSUME NEW k \in H, k # h
      PROVE  /\ Uint32(c, k) = Uint32(r, k)
             /\ Flag(c, k) = Flag(r, k)
             /\ \A i \in Block(r, k) : c[i] = r[i]
  <2>1. BlockEnd(r, k) <= h \/ BlockEnd(r, h) <= k
    BY <1>9, TilesApart
  <2>2. ASSUME NEW i \in Block(r, k) PROVE c[i] = r[i]
    <3>1. i \in Cell /\ i \in Nat /\ i >= k /\ i < BlockEnd(r, k)
      BY <1>8, WordNat DEF Block, Cell
    <3>2. (i < h \/ i > h + 4) /\ (w => i < s \/ i > s + 4)
      BY <1>1, <1>2, <1>4, <1>8, <2>1, <3>1 DEF HeaderSize
    <3> QED
      BY <1>2, <3>1, <3>2
  <2>3. \A i \in k .. (k + 4) : i \in Block(r, k)
    BY <1>8 DEF Block, HeaderSize
  <2> QED
    BY <1>8, <2>2, <2>3, SameHeader
<1>10. s \in H => s = BlockEnd(r, h)
  BY <1>1, <1>4 DEF Tiles, HeaderSize
<1>11. w => s \notin H
  BY <1>1, <1>2, <1>4, <1>10 DEF HeaderSize
<1>12. BlockEnd(c, h) = s /\ (w => BlockEnd(c, s) = BlockEnd(r, h))
  BY <1>1, <1>2, <1>4, <1>5 DEF BlockEnd, HeaderSize
<1>13. \A k \in H : k # h => BlockEnd(c, k) = BlockEnd(r, k)
  BY <1>9 DEF BlockEnd
<1>14. ASSUME NEW k \in K
       PROVE  /\ k + HeaderSize <= RAMSize
              /\ BlockEnd(c, k) <= RAMSize
              /\ BlockEnd(c, k) \in K \/ BlockEnd(c, k) + HeaderSize > RAMSize
              /\ \A j \in K : j > k => j >= BlockEnd(c, k)
  <2>1. CASE k \in H /\ k # h
    <3>1. /\ BlockEnd(r, k) \in H \/ BlockEnd(r, k) + HeaderSize > RAMSize
          /\ \A j \in H : j > k => j >= BlockEnd(r, k)
          /\ k + HeaderSize <= RAMSize
      BY <2>1 DEF Tiles
    <3>2. s > k => s >= BlockEnd(r, k)
      <4>1. BlockEnd(r, k) <= h \/ BlockEnd(r, h) <= k
        BY <2>1, TilesApart
      <4> QED
        BY <1>1, <1>4, <1>8, <2>1, <4>1 DEF HeaderSize
    <3> QED
      BY <1>7, <1>8, <1>13, <2>1, <3>1, <3>2
  <2>2. CASE k = h
    <3>1. /\ BlockEnd(r, h) \in H \/ BlockEnd(r, h) + HeaderSize > RAMSize
          /\ \A j \in H : j > h => j >= BlockEnd(r, h)
      BY DEF Tiles
    <3>2. s \in K \/ s + HeaderSize > RAMSize
      BY <1>1, <1>4, <1>6, <1>7, <3>1 DEF HeaderSize
    <3>3. \A j \in K : j > h => j >= s
      BY <1>1, <1>4, <1>7, <1>8, <3>1
    <3> QED
      BY <1>1, <1>4, <1>12, <2>2, <3>2, <3>3, WordNat
  <2>3. CASE w /\ k = s
    <3>1. /\ BlockEnd(r, h) \in H \/ BlockEnd(r, h) + HeaderSize > RAMSize
          /\ \A j \in H : j > h => j >= BlockEnd(r, h)
      BY DEF Tiles
    <3>2. s + HeaderSize <= RAMSize /\ s > h
      BY <1>1, <1>2, <1>4, <2>3, WordNat DEF HeaderSize
    <3>3. \A j \in K : j > s => j >= BlockEnd(r, h)
      BY <1>1, <1>4, <1>7, <1>8, <3>1, <3>2
    <3> QED
      BY <1>1, <1>7, <1>12, <2>3, <3>1, <3>2, <3>3
  <2> QED
    BY <1>7, <2>1, <2>2, <2>3
<1>15. K \in SUBSET Cell
  BY <1>1, <1>2, <1>4, <1>7, WordNat DEF Cell, HeaderSize
<1>16. Tiles(c, K)
  BY <1>7, <1>14 DEF Tiles
<1>17. h + HeaderSize + n <= RAMSize
  BY <1>1, <1>4, WordNat DEF HeaderSize
<1> QED
  BY <1>2, <1>3, <1>7, <1>9, <1>15, <1>16, <1>17 DEF c, K

-----------------------------------------------------------------------------
(* Walks. *)

LEMMA NextType ==
    ASSUME NEW r \in [Cell -> Byte], NEW c \in U32, Readable(c)
    PROVE  NextCursor(r, c) \in U32
<1>1. Uint32(r, c) \in Nat /\ c \in Nat
  BY Uint32Type, WordNat DEF Readable, U32, HeaderSize
<1> QED
  BY <1>1, WordNat, LayoutAssumption DEF NextCursor, BlockEnd, U32, HeaderSize

(* The loop of Alloc ends where it stands, or where it would one round on. *)
LEMMA WalkUnfold ==
    ASSUME NEW r \in [Cell -> Byte], NEW n, NEW c \in U32
    PROVE  WalkFrom(r, n, c) =
              IF Stopped(r, n, c) THEN c ELSE WalkFrom(r, n, NextCursor(r, c))
<1> DEFINE T == {x \in U32 : Stopped(r, n, x)}
           N == [x \in U32 |-> IF x \in T THEN x ELSE NextCursor(r, x)]
           G(F) == [x \in U32 |-> IF Stopped(r, n, x) THEN x ELSE F[NextCursor(r, x)]]
           stop == CHOOSE F : F = G(F)
<1>1. N \in [U32 -> U32]
  BY NextType DEF Stopped
<1>2. PICK F : F = [x \in U32 |-> IF x \in T THEN x ELSE F[N[x]]]
  <2> HIDE DEF N, T
  <2> QED BY <1>1, WalkExists
<1>3. F = G(F)
  <2>1. \A x \in U32 : (IF x \in T THEN x ELSE F[N[x]])
                        = IF Stopped(r, n, x) THEN x ELSE F[NextCursor(r, x)]
    OBVIOUS
  <2> QED BY <1>2, <2>1
<1>4. stop = G(stop)
  <2> HIDE DEF G
  <2> QED BY <1>3
<1>5. \A x : WalkFrom(r, n, x) = stop[x]
  BY DEF WalkFrom
<1> HIDE DEF stop
<1>6. stop[c] = IF Stopped(r, n, c) THEN c ELSE stop[NextCursor(r, c)]
  BY <1>4
<1> QED
  BY <1>5, <1>6

(* Within how many rounds it ends. *)
LEMMA WithinUnfold ==
    ASSUME NEW r \in [Cell -> Byte], NEW n
    PROVE  \E W \in [0 .. RAMSize -> [U32 -> BOOLEAN]] :
              /\ WalkStops(r, n) <=> W[RAMSize][0]
              /\ \A c \in U32 : W[0][c] <=> Stopped(r, n, c)
              /\ \A k \in 1 .. RAMSize, c \in U32 :
                    W[k][c] <=> Stopped(r, n, c) \/ W[k - 1][NextCursor(r, c)]
<1> DEFINE S == [U32 -> BOOLEAN]
           a == [c \in U32 |-> Stopped(r, n, c)]
           step == [f \in S |-> [c \in U32 |-> Stopped(r, n, c) \/ f[NextCursor(r, c)]]]
           G == [k \in 1 .. RAMSize |-> step]
           H(F) == [k \in 0 .. RAMSize |->
                       [c \in U32 |-> \/ Stopped(r, n, c)
                                      \/ k > 0 /\ F[k - 1][NextCursor(r, c)]]]
           within == CHOOSE F : F = H(F)
<1>1. a \in S /\ step \in [S -> S] /\ RAMSize \in Nat
  BY WordNat DEF Stopped
<1>2. G \in [1 .. RAMSize -> [S -> S]]
  <2> HIDE DEF step, S
  <2> QED
    BY <1>1
<1>3. PICK F : Iterates(F, a, G, RAMSize)
  <2> HIDE DEF a, S, G
  <2> QED
    BY <1>1, <1>2, IterationExists
<1>4. \A k \in 0 .. RAMSize : F[k] \in S
  <2> HIDE DEF a, S, G
  <2> QED
    BY <1>1, <1>2, <1>3, IterationTyped
<1>5. F[0] = a /\ \A k \in 1 .. RAMSize : F[k] = step[F[k - 1]]
  <2> HIDE DEF a, step
  <2> QED
    BY <1>3 DEF Iterates
<1>6. \A k \in 1 .. RAMSize :
          F[k] = [c \in U32 |-> Stopped(r, n, c) \/ F[k - 1][NextCursor(r, c)]]
  <2> SUFFICES ASSUME NEW k \in 1 .. RAMSize
               PROVE  F[k] = [c \in U32 |-> Stopped(r, n, c) \/ F[k - 1][NextCursor(r, c)]]
    OBVIOUS
  <2>1. F[k - 1] \in S
    <3>1. k - 1 \in 0 .. RAMSize
      BY <1>1
    <3> HIDE DEF S
    <3> QED
      BY <1>4, <3>1
  <2> QED
    BY <1>5, <2>1
<1>7. F = H(F)
  <2>1. ASSUME NEW k \in 0 .. RAMSize
        PROVE  F[k] = [c \in U32 |-> \/ Stopped(r, n, c)
                                     \/ k > 0 /\ F[k - 1][NextCursor(r, c)]]
    <3>1. CASE k = 0
      <4>1. \A c \in U32 : (Stopped(r, n, c) \/ (k > 0 /\ F[k - 1][NextCursor(r, c)]))
                            = Stopped(r, n, c)
        BY <3>1 DEF Stopped
      <4> QED
        BY <1>5, <3>1, <4>1
    <3>2. CASE k \in 1 .. RAMSize
      <4>1. k > 0
        BY <3>2
      <4> QED
        BY <1>6, <3>2, <4>1
    <3> QED
      BY <3>1, <3>2
  <2>2. F = [k \in 0 .. RAMSize |-> F[k]]
    BY <1>3 DEF Iterates
  <2> QED
    BY <2>1, <2>2, Zenon
<1>8. within = H(within)
  <2> HIDE DEF H
  <2> QED
    BY <1>7
<1>9. WalkStops(r, n) = within[RAMSize][0]
  BY DEF WalkStops
<1> HIDE DEF within
<1>10. ASSUME NEW k \in 0 .. RAMSize
       PROVE  within[k] = [c \in U32 |-> \/ Stopped(r, n, c)
                                         \/ k > 0 /\ within[k - 1][NextCursor(r, c)]]
  BY <1>8
<1>11. ASSUME NEW k \in 0 .. RAMSize, NEW c \in U32
       PROVE  within[k][c] = (\/ Stopped(r, n, c)
                              \/ k > 0 /\ within[k - 1][NextCursor(r, c)])
  BY <1>10
<1>12. within \in [0 .. RAMSize -> S]
  <2>1. \A k \in 0 .. RAMSize : within[k] \in S
    <3> SUFFICES ASSUME NEW k \in 0 .. RAMSize PROVE within[k] \in S
      OBVIOUS
    <3> DEFINE T(c) == \/ Stopped(r, n, c)
                       \/ k > 0 /\ within[k - 1][NextCursor(r, c)]
    <3>1. within[k] = [c \in U32 |-> T(c)]
      BY <1>10
    <3>2. \A c : T(c) \in BOOLEAN
      OBVIOUS
    <3> HIDE DEF T
    <3> QED
      BY <3>1, <3>2
  <2>2. within = [k \in 0 .. RAMSize |-> within[k]]
    BY <1>8
  <2> HIDE DEF S
  <2> QED
    BY <2>1, <2>2
<1>13. \A c \in U32 : within[0][c] <=> Stopped(r, n, c)
  <2>1. 0 \in 0 .. RAMSize /\ ~(0 > 0)
    BY <1>1
  <2> QED
    BY <1>11, <2>1
<1>14. \A k \in 1 .. RAMSize, c \in U32 :
          within[k][c] <=> Stopped(r, n, c) \/ within[k - 1][NextCursor(r, c)]
  <2> SUFFICES ASSUME NEW k \in 1 .. RAMSize, NEW c \in U32
               PROVE  within[k][c] <=> Stopped(r, n, c) \/ within[k - 1][NextCursor(r, c)]
    OBVIOUS
  <2>1. k \in 0 .. RAMSize /\ k > 0
    BY <1>1
  <2> QED
    BY <1>11, <2>1
<1> QED
  BY <1>9, <1>12, <1>13, <1>14

LEMMA HeadersUnfold ==
    ASSUME NEW r \in [Cell -> Byte]
    PROVE  \E F : /\ Headers(r) = F[0]
                  /\ \A h \in U32 : F[h] = IF h + HeaderSize > RAMSize THEN {}
                                           ELSE {h} \cup F[NextCursor(r, h)]
<1> DEFINE T == {x \in U32 : x + HeaderSize > RAMSize}
           N == [x \in U32 |-> IF x \in T THEN x ELSE NextCursor(r, x)]
           G(F) == [x \in U32 |-> IF x + HeaderSize > RAMSize THEN {}
                                  ELSE {x} \cup F[NextCursor(r, x)]]
           from == CHOOSE F : F = G(F)
<1>1. \A x \in U32 : x \notin T => NextCursor(r, x) \in U32
  <2> SUFFICES ASSUME NEW x \in U32, x \notin T PROVE NextCursor(r, x) \in U32
    OBVIOUS
  <2>1. Readable(x)
    BY WordNat DEF Readable, U32, HeaderSize
  <2> QED
    BY <2>1, NextType
<1>2. N \in [U32 -> U32]
  BY <1>1
<1>3. PICK F \in [U32 -> SUBSET U32] :
          \A c \in U32, x \in U32 :
              x \in F[c] <=> c \notin T /\ (x = c \/ x \in F[N[c]])
  <2> HIDE DEF N, T
  <2>1. \E F : IsTrail(F, U32, N, T)
    BY <1>2, TrailExists
  <2> QED BY <2>1 DEF IsTrail
<1>4. F = G(F)
  <2>1. ASSUME NEW c \in U32
        PROVE  F[c] = IF c + HeaderSize > RAMSize THEN {} ELSE {c} \cup F[NextCursor(r, c)]
    <3>1. CASE c \in T
      <4>1. \A x \in U32 : x \notin F[c]
        BY <1>3, <3>1
      <4> QED
        BY <3>1, <4>1
    <3>2. CASE c \notin T
      <4>1. N[c] = NextCursor(r, c) /\ NextCursor(r, c) \in U32
        BY <1>1, <3>2
      <4>2. \A x \in U32 : x \in F[c] <=> x = c \/ x \in F[NextCursor(r, c)]
        BY <1>3, <3>2, <4>1
      <4>3. F[c] \subseteq U32 /\ F[NextCursor(r, c)] \subseteq U32
        BY <4>1
      <4>4. F[c] = {c} \cup F[NextCursor(r, c)]
        BY <4>2, <4>3
      <4> QED
        BY <3>2, <4>4
    <3> QED
      BY <3>1, <3>2
  <2> QED
    BY <2>1
<1>5. from = G(from)
  <2> HIDE DEF G
  <2> QED BY <1>4
<1>6. Headers(r) = from[0]
  BY DEF Headers
<1> HIDE DEF from
<1>7. \A h \in U32 : from[h] = IF h + HeaderSize > RAMSize THEN {}
                               ELSE {h} \cup from[NextCursor(r, h)]
  BY <1>5
<1> QED
  BY <1>6, <1>7

(* The walk of a tiling is at the next block, or past the last one. *)
LEMMA TileNext ==
    ASSUME NEW r \in [Cell -> Byte], NEW H \in SUBSET Cell, Tiles(r, H), NEW h \in H
    PROVE  /\ h \in U32 /\ InLoop(h) /\ Readable(h)
           /\ NextCursor(r, h) = BlockEnd(r, h)
           /\ NextCursor(r, h) \in U32
           /\ h < NextCursor(r, h) /\ NextCursor(r, h) <= RAMSize
           /\ \/ NextCursor(r, h) \in H
              \/ NextCursor(r, h) + HeaderSize > RAMSize /\ ~InLoop(NextCursor(r, h))
           /\ \A k \in H : k > h => k >= NextCursor(r, h)
<1> DEFINE e == BlockEnd(r, h)
<1>1. /\ h \in Nat /\ h + HeaderSize <= RAMSize
      /\ e \in Nat /\ h + HeaderSize <= e /\ e <= RAMSize
  BY TileTypes
<1>2. e \in H \/ e + HeaderSize > RAMSize
  BY DEF Tiles
<1>3. \A k \in H : k > h => k >= e
  BY DEF Tiles
<1>4. NextCursor(r, h) = e
  BY <1>1, ModSmall, WordNat DEF NextCursor, HeaderSize
<1> HIDE DEF e
<1>5. (h + HeaderSize) % Word = h + HeaderSize /\ (e + HeaderSize) % Word = e + HeaderSize
  BY <1>1, ModSmall, WordNat DEF HeaderSize
<1>6. InLoop(h) /\ Readable(h) /\ (e + HeaderSize > RAMSize => ~InLoop(e))
  BY <1>1, <1>5, WordNat DEF InLoop, Readable, HeaderSize
<1>7. h \in U32 /\ e \in U32 /\ h < e
  BY <1>1, WordNat DEF U32, HeaderSize
<1> QED
  BY <1>1, <1>2, <1>3, <1>4, <1>6, <1>7 DEF e

(* A walk of the whole chain meets the headers of the tiling and no others. *)
LEMMA HeadersTile ==
    ASSUME NEW r \in [Cell -> Byte], NEW H \in SUBSET Cell, Tiles(r, H)
    PROVE  Headers(r) = H
<1>1. PICK F : /\ Headers(r) = F[0]
               /\ \A h \in U32 : F[h] = IF h + HeaderSize > RAMSize THEN {}
                                        ELSE {h} \cup F[NextCursor(r, h)]
  BY HeadersUnfold
<1> DEFINE Good(h) == F[h] = {k \in H : k >= h}
<1>2. ASSUME NEW h \in H, NextCursor(r, h) \in H => Good(NextCursor(r, h))
      PROVE  Good(h)
  <2> DEFINE e == NextCursor(r, h)
  <2>1. /\ h \in U32 /\ e \in U32 /\ h + HeaderSize <= RAMSize
        /\ \A k \in H : k \in Nat /\ k + HeaderSize <= RAMSize
        /\ h \in Nat /\ e \in Nat /\ h < e
        /\ e \in H \/ e + HeaderSize > RAMSize
        /\ \A k \in H : k > h => k >= e
    BY TileNext, TileTypes, WordNat DEF U32
  <2>2. F[h] = {h} \cup F[e]
    <3>1. ~(h + HeaderSize > RAMSize)
      BY <2>1, WordNat DEF HeaderSize
    <3> HIDE DEF e
    <3>2. F[h] = IF h + HeaderSize > RAMSize THEN {} ELSE {h} \cup F[e]
      BY <1>1, <2>1, Zenon DEF e
    <3> QED
      BY <3>1, <3>2
  <2>3. F[e] = {k \in H : k >= e}
    <3>1. CASE e \in H
      BY <1>2, <3>1
    <3>2. CASE e + HeaderSize > RAMSize
      <4>1. F[e] = {}
        BY <1>1, <2>1, <3>2
      <4>2. \A k \in H : ~(k >= e)
        BY <2>1, <3>2, WordNat DEF HeaderSize
      <4> QED
        BY <4>1, <4>2
    <3> QED
      BY <2>1, <3>1, <3>2
  <2>4. {k \in H : k >= h} = {h} \cup {k \in H : k >= e}
    <3>1. \A k \in H : k >= h <=> k = h \/ k >= e
      BY <2>1
    <3> HIDE DEF e
    <3> QED
      BY <2>1, <3>1
  <2> QED
    BY <2>2, <2>3, <2>4
<1>3. \A h \in H : h \in Nat /\ h <= RAMSize
  BY TileTypes, WordNat DEF HeaderSize
<1>4. \A h \in H : NextCursor(r, h) \in H => h < NextCursor(r, h)
  BY TileNext
<1> HIDE DEF Good
<1>5. ASSUME NEW b \in H, ~Good(b) PROVE FALSE
  <2> DEFINE M == {RAMSize - h : h \in {x \in H : ~Good(x)}}
  <2>1. M \subseteq Nat /\ M # {}
    BY <1>3, <1>5, WordNat
  <2>2. PICK m \in M : \A k \in M : m <= k
    <3> HIDE DEF M
    <3> QED BY <2>1, LeastNumber
  <2>3. PICK h \in H : ~Good(h) /\ m = RAMSize - h
    BY <2>2
  <2>4. NextCursor(r, h) \in H /\ ~Good(NextCursor(r, h))
    BY <1>2, <2>3
  <2>5. RAMSize - NextCursor(r, h) \in M
    BY <2>4
  <2> QED
    BY <1>3, <1>4, <2>2, <2>3, <2>4, <2>5, WordNat
<1>6. Good(0) /\ 0 \in H
  BY <1>5 DEF Tiles
<1> QED
  BY <1>1, <1>3, <1>6 DEF Good

(***************************************************************************)
(* On a tiling the loop of Alloc is a first fit: it stops at the first     *)
(* free block that is large enough, or past the last when there is none.   *)
(***************************************************************************)
LEMMA WalkEndFacts ==
    ASSUME NEW r \in [Cell -> Byte], NEW H \in SUBSET Cell, Tiles(r, H), NEW n
    PROVE  LET e == WalkEnd(r, n)
           IN  /\ \/ e \in H /\ Fits(r, e, n) /\ InLoop(e) /\ Readable(e)
                  \/ e \in U32 /\ e <= RAMSize /\ ~InLoop(e)
               /\ \A h \in H : h < e => ~Fits(r, h, n)
<1> DEFINE W(c) == WalkFrom(r, n, c)
           Good(c) == /\ \/ W(c) \in H /\ Fits(r, W(c), n) /\ InLoop(W(c)) /\ Readable(W(c))
                         \/ W(c) \in U32 /\ W(c) <= RAMSize /\ ~InLoop(W(c))
                      /\ \A h \in H : c <= h /\ h < W(c) => ~Fits(r, h, n)
<1>1. ASSUME NEW h \in H, NextCursor(r, h) \in H => Good(NextCursor(r, h))
      PROVE  Good(h)
  <2> DEFINE e == NextCursor(r, h)
  <2>1. /\ h \in U32 /\ InLoop(h) /\ Readable(h) /\ e \in U32 /\ h < e /\ e <= RAMSize
        /\ e \in H \/ ~InLoop(e)
        /\ \A k \in H : k > h => k >= e
    BY TileNext
  <2>2. h \in Nat /\ e \in Nat /\ \A k \in H : k \in Nat
    BY <2>1, TileTypes, WordNat DEF U32
  <2>3. CASE Fits(r, h, n)
    <3>1. W(h) = h
      BY <2>1, <2>3, WalkUnfold DEF Stopped
    <3> QED
      BY <2>1, <2>2, <2>3, <3>1
  <2>4. CASE ~Fits(r, h, n)
    <3>1. W(h) = W(e)
      BY <2>1, <2>4, WalkUnfold DEF Stopped
    <3>2. e \notin H => W(e) = e
      BY <2>1, WalkUnfold DEF Stopped
    <3>3. CASE e \in H
      <4>1. Good(e)
        BY <1>1, <3>3
      <4> QED
        BY <2>1, <2>2, <2>4, <3>1, <4>1
    <3>4. CASE e \notin H
      BY <2>1, <2>2, <2>4, <3>1, <3>2, <3>4
    <3> QED
      BY <3>3, <3>4
  <2> QED
    BY <2>3, <2>4
<1>2. \A h \in H : h \in Nat /\ h <= RAMSize
  BY TileTypes, WordNat DEF HeaderSize
<1>3. \A h \in H : NextCursor(r, h) \in H => h < NextCursor(r, h)
  BY TileNext
<1> HIDE DEF Good
<1>4. ASSUME NEW b \in H, ~Good(b) PROVE FALSE
  <2> DEFINE M == {RAMSize - h : h \in {x \in H : ~Good(x)}}
  <2>1. M \subseteq Nat /\ M # {}
    BY <1>2, <1>4, WordNat
  <2>2. PICK m \in M : \A k \in M : m <= k
    <3> HIDE DEF M
    <3> QED BY <2>1, LeastNumber
  <2>3. PICK h \in H : ~Good(h) /\ m = RAMSize - h
    BY <2>2
  <2>4. NextCursor(r, h) \in H /\ ~Good(NextCursor(r, h))
    BY <1>1, <2>3
  <2>5. RAMSize - NextCursor(r, h) \in M
    BY <2>4
  <2> QED
    BY <1>2, <1>3, <2>2, <2>3, <2>4, <2>5, WordNat
<1>5. Good(0) /\ 0 \in H
  BY <1>4 DEF Tiles
<1> QED
  BY <1>2, <1>5 DEF Good, WalkEnd

-----------------------------------------------------------------------------
(* Steps of a machine whose heap is tiled. *)

LEMMA TilingUnique ==
    ASSUME NEW r \in [Cell -> Byte], NEW H \in SUBSET Cell, Tiles(r, H)
    PROVE  Headers(r) = H /\ Tiled(r)
  BY HeadersTile DEF Tiled

(* Which headers a set of allocated blocks comes from. *)
LEMMA TakenFacts ==
    ASSUME NEW r, Tiled(r)
    PROVE  /\ \A h \in Headers(r) : h \in Nat
           /\ \A h \in Headers(r) : h + HeaderSize \in Taken(r) <=> Flag(r, h) = 1
           /\ \A a \in Taken(r) : /\ a - HeaderSize \in Headers(r)
                                  /\ a \in Nat /\ a = (a - HeaderSize) + HeaderSize
<1>1. \A h \in Headers(r) : h \in Nat
  BY WordNat DEF Tiled, Cell
<1> QED
  BY <1>1 DEF Taken, HeaderSize

(* A block whose header and data a step leaves alone is the same. *)
LEMMA SameBlockFacts ==
    ASSUME NEW r, Tiled(r), NEW c, NEW h \in Headers(r),
           Uint32(c, h) = Uint32(r, h),
           \A i \in (h + HeaderSize) .. (BlockEnd(r, h) - 1) : c[i] = r[i]
    PROVE  SameBlock(r, c, h + HeaderSize)
<1>1. h \in Nat /\ (h + HeaderSize) - HeaderSize = h
  BY TakenFacts DEF HeaderSize
<1>2. Uint32(r, h) \in Nat /\ BlockEnd(r, h) = h + HeaderSize + Uint32(r, h)
  BY TileTypes DEF Tiled
<1>3. BlockEnd(r, h) - 1 = h + HeaderSize + Uint32(r, h) - 1
  BY <1>1, <1>2 DEF HeaderSize
<1> QED
  BY <1>1, <1>3 DEF SameBlock

(* Reset leaves one free block. *)
LEMMA ResetTiled == Tiled(ResetRAM) /\ Taken(ResetRAM) = {}
<1>1. ResetRAM \in [Cell -> Byte] /\ Flag(ResetRAM, 0) = 0
  BY ResetFacts
<1>2. {0} \in SUBSET Cell
  BY WordNat, LayoutAssumption DEF Cell, HeaderSize
<1>3. Headers(ResetRAM) = {0} /\ Tiled(ResetRAM)
  BY <1>1, <1>2, ResetTiles, TilingUnique
<1> QED
  BY <1>1, <1>3 DEF Taken

(* An allocation that finds a block and does not sever the chain.          *)
LEMMA CarveTiled ==
    ASSUME NEW r, Tiled(r), NEW n \in Nat, InLoop(WalkEnd(r, n)),
           ~Severs(r, WalkEnd(r, n), n)
    PROVE  LET h == WalkEnd(r, n)
               a == h + HeaderSize
               c == Carve(r, h, n)
           IN  /\ h \in Headers(r) /\ h \in Nat /\ Readable(h) /\ CanCarve(r, h, n)
               /\ a \notin Taken(r)
               /\ a + n <= RAMSize
               /\ Tiled(c) /\ h \in Headers(c) /\ Uint32(c, h) = n
               /\ Taken(c) = Taken(r) \cup {a}
               /\ \A b \in Taken(r) : SameBlock(r, c, b)
<1> DEFINE h == WalkEnd(r, n)
           a == h + HeaderSize
           c == Carve(r, h, n)
           H == Headers(r)
           K == Carved(r, H, h, n)
<1>0. r \in [Cell -> Byte] /\ H \in SUBSET Cell /\ Tiles(r, H)
  BY DEF Tiled
<1>1. h \in H /\ Fits(r, h, n) /\ Readable(h)
  BY <1>0, WalkEndFacts
<1>2. /\ h \in Nat /\ Flag(r, h) = 0 /\ Uint32(r, h) >= n
  BY <1>0, <1>1, TileTypes DEF Fits
<1> HIDE DEF h, H
<1>3. /\ c \in [Cell -> Byte] /\ CanCarve(r, h, n) /\ h + HeaderSize + n <= RAMSize
      /\ K \in SUBSET Cell /\ H \subseteq K /\ Tiles(c, K)
      /\ Uint32(c, h) = n /\ Flag(c, h) = 1
      /\ \A k \in H : k # h => /\ Uint32(c, k) = Uint32(r, k)
                               /\ Flag(c, k) = Flag(r, k)
                               /\ \A i \in Block(r, k) : c[i] = r[i]
      /\ \A k \in K \ H : Flag(c, k) = 0
  <2>1. ~Severs(r, h, n)
    BY DEF h
  <2> QED
    BY <1>0, <1>1, <1>2, <2>1, CarveTiles
<1> HIDE DEF c, K
<1>4. Headers(c) = K /\ Tiled(c)
  BY <1>3, TilingUnique
<1>5. a \notin Taken(r)
  BY <1>1, <1>2, TakenFacts DEF H
<1>6. Taken(c) = Taken(r) \cup {a}
  <2>1. \A k \in K : Flag(c, k) = 1 <=> k = h \/ (k \in H /\ Flag(r, k) = 1)
    BY <1>1, <1>2, <1>3
  <2>2. {k \in Headers(c) : Flag(c, k) = 1} = {k \in H : Flag(r, k) = 1} \cup {h}
    BY <1>1, <1>3, <1>4, <2>1
  <2> QED
    BY <2>2 DEF Taken, H
<1>7. ASSUME NEW b \in Taken(r) PROVE SameBlock(r, c, b)
  <2> DEFINE k == b - HeaderSize
  <2>1. k \in H /\ k \in Nat /\ b = k + HeaderSize /\ k # h
    BY <1>5, TakenFacts DEF H
  <2>2. Uint32(c, k) = Uint32(r, k) /\ \A i \in Block(r, k) : c[i] = r[i]
    BY <1>3, <2>1
  <2>3. \A i \in (k + HeaderSize) .. (BlockEnd(r, k) - 1) : i \in Block(r, k)
    <3>1. BlockEnd(r, k) \in Nat
      BY <1>0, <2>1, TileTypes
    <3> QED
      BY <2>1, <3>1 DEF Block, HeaderSize
  <2> HIDE DEF k
  <2>4. SameBlock(r, c, k + HeaderSize)
    BY <2>1, <2>2, <2>3, SameBlockFacts DEF H
  <2> QED
    BY <2>1, <2>4
<1> QED
  BY <1>1, <1>2, <1>3, <1>4, <1>5, <1>6, <1>7 DEF h, c, H

(* A write into the data of an allocated block. *)
LEMMA StoreTiled ==
    ASSUME NEW r, Tiled(r), NEW h \in Headers(r), NEW c \in [Cell -> Byte],
           \A i \in Cell : i < h + HeaderSize \/ i >= BlockEnd(r, h) => c[i] = r[i]
    PROVE  /\ Tiled(c) /\ Taken(c) = Taken(r) /\ Uint32(c, h) = Uint32(r, h)
           /\ \A b \in Taken(r) : b # h + HeaderSize => SameBlock(r, c, b)
<1>0. r \in [Cell -> Byte] /\ Headers(r) \in SUBSET Cell /\ Tiles(r, Headers(r))
  BY DEF Tiled
<1>1. /\ Tiles(c, Headers(r))
      /\ \A k \in Headers(r) : Uint32(c, k) = Uint32(r, k) /\ Flag(c, k) = Flag(r, k)
      /\ \A k \in Headers(r) : k # h => \A i \in Block(r, k) : c[i] = r[i]
  BY <1>0, WriteTiles
<1>2. Headers(c) = Headers(r) /\ Tiled(c)
  BY <1>0, <1>1, TilingUnique
<1>3. Taken(c) = Taken(r)
  BY <1>1, <1>2 DEF Taken
<1>4. ASSUME NEW b \in Taken(r), b # h + HeaderSize PROVE SameBlock(r, c, b)
  <2> DEFINE k == b - HeaderSize
  <2>1. k \in Headers(r) /\ k \in Nat /\ b = k + HeaderSize /\ k # h
    BY <1>4, TakenFacts
  <2>2. Uint32(c, k) = Uint32(r, k) /\ \A i \in Block(r, k) : c[i] = r[i]
    BY <1>1, <2>1
  <2>3. \A i \in (k + HeaderSize) .. (BlockEnd(r, k) - 1) : i \in Block(r, k)
    <3>1. BlockEnd(r, k) \in Nat
      BY <1>0, <2>1, TileTypes
    <3> QED
      BY <2>1, <3>1 DEF Block, HeaderSize
  <2> HIDE DEF k
  <2>4. SameBlock(r, c, k + HeaderSize)
    BY <2>1, <2>2, <2>3, SameBlockFacts
  <2> QED
    BY <2>1, <2>4
<1> QED
  BY <1>1, <1>2, <1>3, <1>4

(* Freeing an allocated block. *)
LEMMA FreeTiled ==
    ASSUME NEW r, Tiled(r), NEW a \in Taken(r)
    PROVE  LET c == SetFlag(r, a - HeaderSize, 0)
           IN  /\ Tiled(c) /\ Taken(c) = Taken(r) \ {a}
               /\ \A b \in Taken(r) : SameBlock(r, c, b)
<1> DEFINE h == a - HeaderSize
           c == SetFlag(r, h, 0)
<1>0. r \in [Cell -> Byte] /\ Headers(r) \in SUBSET Cell /\ Tiles(r, Headers(r))
  BY DEF Tiled
<1>1. h \in Headers(r) /\ h \in Nat /\ a = h + HeaderSize
  BY TakenFacts
<1> HIDE DEF h
<1>2. /\ c \in [Cell -> Byte] /\ Tiles(c, Headers(r)) /\ Flag(c, h) = 0
      /\ \A k \in Headers(r) : Uint32(c, k) = Uint32(r, k)
      /\ \A k \in Headers(r) : k # h => Flag(c, k) = Flag(r, k)
      /\ \A i \in Cell : i # h + 4 => c[i] = r[i]
  BY <1>0, <1>1, ClearTiles
<1> HIDE DEF c
<1>3. Headers(c) = Headers(r) /\ Tiled(c)
  BY <1>0, <1>2, TilingUnique
<1>4. Taken(c) = Taken(r) \ {a}
  <2>1. \A k \in Headers(r) : k \in Nat /\ (Flag(c, k) = 1 <=> k # h /\ Flag(r, k) = 1)
    BY <1>2, TakenFacts
  <2>2. \A k \in Headers(r) : k + HeaderSize = a <=> k = h
    BY <1>1, <2>1 DEF HeaderSize
  <2>3. ASSUME NEW b PROVE b \in Taken(c) <=> b \in Taken(r) /\ b # a
    <3>1. b \in Taken(c) <=> \E k \in Headers(r) : Flag(c, k) = 1 /\ b = k + HeaderSize
      BY <1>3 DEF Taken
    <3>2. b \in Taken(r) <=> \E k \in Headers(r) : Flag(r, k) = 1 /\ b = k + HeaderSize
      BY DEF Taken
    <3> QED
      BY <2>1, <2>2, <3>1, <3>2
  <2> QED
    BY <2>3
<1>5. ASSUME NEW b \in Taken(r) PROVE SameBlock(r, c, b)
  <2> DEFINE k == b - HeaderSize
  <2>1. k \in Headers(r) /\ k \in Nat /\ b = k + HeaderSize
    BY TakenFacts
  <2> HIDE DEF k
  <2>2. /\ BlockEnd(r, k) \in Nat /\ BlockEnd(r, k) <= RAMSize
        /\ h + HeaderSize <= BlockEnd(r, h) /\ BlockEnd(r, h) \in Nat
    BY <1>0, <1>1, <2>1, TileTypes
  <2>3. k # h => BlockEnd(r, k) <= h \/ BlockEnd(r, h) <= k
    BY <1>0, <1>1, <2>1, TilesApart
  <2>4. ASSUME NEW i \in (k + HeaderSize) .. (BlockEnd(r, k) - 1) PROVE c[i] = r[i]
    <3>1. i \in Cell /\ i # h + 4
      BY <1>1, <2>1, <2>2, <2>3, WordNat DEF Cell, HeaderSize
    <3> QED
      BY <1>2, <3>1
  <2>5. SameBlock(r, c, k + HeaderSize)
    BY <1>2, <2>1, <2>4, SameBlockFacts
  <2> QED
    BY <2>1, <2>5
<1> QED
  BY <1>3, <1>4, <1>5 DEF c, h

(* A block that fits on a tiling can be carved, and holds what was asked. *)
LEMMA FittingCarves ==
    ASSUME NEW r, Tiled(r), NEW h \in Headers(r), NEW n \in Nat, Fits(r, h, n)
    PROVE  CanCarve(r, h, n) /\ h \in Nat /\ h + HeaderSize + n <= RAMSize
<1>0. r \in [Cell -> Byte] /\ Headers(r) \in SUBSET Cell /\ Tiles(r, Headers(r))
  BY DEF Tiled
<1>1. /\ h \in Nat /\ Uint32(r, h) \in Nat /\ Uint32(r, h) >= n
      /\ BlockEnd(r, h) = h + HeaderSize + Uint32(r, h) /\ BlockEnd(r, h) <= RAMSize
  BY <1>0, TileTypes DEF Fits
<1>2. h + HeaderSize + n <= RAMSize
  BY <1>1, WordNat DEF HeaderSize
<1>3. CASE Severs(r, h, n)
  BY <1>1, <1>2, <1>3 DEF Severs, CanCarve
<1>4. CASE ~Severs(r, h, n)
  BY <1>0, <1>1, <1>4, CarveTiles
<1> QED
  BY <1>1, <1>2, <1>3, <1>4

-----------------------------------------------------------------------------
(* A loop that ends, ends where WalkEnd says. *)
LEMMA WalkStopsFacts ==
    ASSUME NEW r \in [Cell -> Byte], NEW n, WalkStops(r, n)
    PROVE  WalkEnd(r, n) \in U32 /\ Stopped(r, n, WalkEnd(r, n))
<1>1. PICK W \in [0 .. RAMSize -> [U32 -> BOOLEAN]] :
          /\ WalkStops(r, n) <=> W[RAMSize][0]
          /\ \A c \in U32 : W[0][c] <=> Stopped(r, n, c)
          /\ \A k \in 1 .. RAMSize, c \in U32 :
                W[k][c] <=> Stopped(r, n, c) \/ W[k - 1][NextCursor(r, c)]
  BY WithinUnfold
<1> DEFINE Good(c) == WalkFrom(r, n, c) \in U32 /\ Stopped(r, n, WalkFrom(r, n, c))
           T == {k \in Nat : k <= RAMSize => \A c \in U32 : W[k][c] => Good(c)}
<1>2. \A c \in U32 : Stopped(r, n, c) => Good(c)
  BY WalkUnfold
<1>3. \A c \in U32 : ~Stopped(r, n, c) =>
          NextCursor(r, c) \in U32 /\ (Good(NextCursor(r, c)) => Good(c))
  BY WalkUnfold, NextType DEF Stopped
<1> HIDE DEF Good
<1>4. 0 \in T
  BY <1>1, <1>2
<1>5. ASSUME NEW k \in Nat, k \in T PROVE k + 1 \in T
  <2> SUFFICES ASSUME k + 1 <= RAMSize, NEW c \in U32, W[k + 1][c] PROVE Good(c)
    OBVIOUS
  <2>1. k + 1 \in 1 .. RAMSize /\ (k + 1) - 1 = k /\ k <= RAMSize
    BY WordNat
  <2>2. Stopped(r, n, c) \/ W[k][NextCursor(r, c)]
    BY <1>1, <2>1
  <2>3. \A x \in U32 : W[k][x] => Good(x)
    BY <1>5, <2>1
  <2> QED
    BY <1>2, <1>3, <2>2, <2>3
<1>6. Nat \subseteq T
  <2> HIDE DEF T
  <2> QED
    BY <1>4, <1>5, SetInduction
<1>7. 0 \in U32 /\ RAMSize \in T
  <2>1. 0 \in U32 /\ RAMSize \in Nat
    BY WordNat DEF U32, HeaderSize
  <2> HIDE DEF T
  <2> QED
    BY <1>6, <2>1
<1>8. Good(0)
  BY <1>1, <1>7, WordNat
<1> QED
  BY <1>8 DEF Good, WalkEnd

(* A loop over a tiling ends, as every round is at a later header.         *)
LEMMA TilesStop ==
    ASSUME NEW r \in [Cell -> Byte], NEW H \in SUBSET Cell, Tiles(r, H), NEW n
    PROVE  WalkStops(r, n)
<1>1. PICK W \in [0 .. RAMSize -> [U32 -> BOOLEAN]] :
          /\ WalkStops(r, n) <=> W[RAMSize][0]
          /\ \A c \in U32 : W[0][c] <=> Stopped(r, n, c)
          /\ \A k \in 1 .. RAMSize, c \in U32 :
                W[k][c] <=> Stopped(r, n, c) \/ W[k - 1][NextCursor(r, c)]
  BY WithinUnfold
<1> DEFINE T == {k \in Nat : k <= RAMSize => \A h \in H : RAMSize - h <= k => W[k][h]}
<1>2. \A h \in H : h \in U32 /\ h \in Nat /\ RAMSize - h > 0
  BY TileTypes, TileNext, WordNat DEF HeaderSize
<1>3. 0 \in T
  BY <1>2, WordNat
<1>4. ASSUME NEW k \in Nat, k \in T PROVE k + 1 \in T
  <2> SUFFICES ASSUME k + 1 <= RAMSize, NEW h \in H, RAMSize - h <= k + 1
               PROVE  W[k + 1][h]
    OBVIOUS
  <2> DEFINE e == NextCursor(r, h)
  <2>1. k + 1 \in 1 .. RAMSize /\ (k + 1) - 1 = k /\ k <= RAMSize /\ k \in 0 .. RAMSize
    BY WordNat
  <2>2. h < e /\ e \in U32 /\ (e \in H \/ Stopped(r, n, e))
    BY TileNext DEF Stopped
  <2> HIDE DEF e
  <2>3. W[k][e]
    <3>1. CASE e \in H
      <4>1. RAMSize - e <= k
        BY <1>2, <2>2, <3>1, WordNat
      <4> QED
        BY <1>4, <2>1, <3>1, <4>1
    <3>2. CASE Stopped(r, n, e)
      <4>1. k = 0 \/ k \in 1 .. RAMSize
        BY <2>1
      <4> QED
        BY <1>1, <2>2, <3>2, <4>1
    <3> QED
      BY <2>2, <3>1, <3>2
  <2> QED
    BY <1>1, <1>2, <2>1, <2>3 DEF e
<1>5. Nat \subseteq T
  <2> HIDE DEF T
  <2> QED
    BY <1>3, <1>4, SetInduction
<1>6. 0 \in H /\ RAMSize \in Nat /\ RAMSize \in T
  <2>1. 0 \in H /\ RAMSize \in Nat
    BY WordNat DEF Tiles
  <2> HIDE DEF T
  <2> QED
    BY <1>5, <2>1
<1>7. RAMSize - 0 <= RAMSize
  BY <1>6
<1> QED
  BY <1>1, <1>6, <1>7
===================================================================================
