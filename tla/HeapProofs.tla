------------------------------- MODULE HeapProofs -------------------------------
(***************************************************************************)
(* Proofs about Heap for every RAM size, byte base, set of request sizes,  *)
(* stored bytes and stray addresses.                                       *)
(***************************************************************************)
EXTENDS Heap, HeapLayoutProofs, TLAPS

-----------------------------------------------------------------------------
(***************************************************************************)
(* Type correctness.                                                       *)
(***************************************************************************)
LEMMA TypeInit == Init => TypeOK
<1> SUFFICES ASSUME Init PROVE TypeOK
  OBVIOUS
<1>1. 0 \in U32 /\ 0 \in Cell
  BY WordNat, LayoutAssumption DEF U32, Cell, HeaderSize
<1> QED
  BY <1>1, ResetFacts DEF Init, TypeOK, Answer

LEMMA TypeNext == TypeOK /\ [Next]_vars => TypeOK'
<1> SUFFICES ASSUME TypeOK, [Next]_vars PROVE TypeOK'
  OBVIOUS
<1> USE DEF TypeOK, Answer
<1>0. /\ 0 \in U32 /\ 0 \in Cell
      /\ \A h \in Nat : h <= RAMSize => h \in U32 /\ h + HeaderSize \in U32
  BY WordNat, LayoutAssumption DEF U32, Cell, HeaderSize
<1>1. CASE AllocZero
  BY <1>0, <1>1 DEF AllocZero, callVars, history
<1>2. ASSUME NEW n \in Sizes, BeginAlloc(n) PROVE TypeOK'
  BY <1>0, <1>2, HeapAssumption DEF BeginAlloc, history
<1>3. CASE StepOver
  <2>1. NextCursor(RAM, cursor) \in U32
    <3>1. Uint32(RAM, cursor) \in Nat /\ cursor \in Nat
      BY <1>3, Uint32Type, WordNat DEF StepOver, AtHeader, Readable, U32, HeaderSize
    <3> QED
      BY <3>1, WordNat, LayoutAssumption DEF NextCursor, BlockEnd, U32, HeaderSize
  <2> QED
    BY <1>3, <2>1 DEF StepOver, history
<1>4. CASE TakeBlock
  <2>1. /\ cursor \in U32 /\ size \in U32 /\ Readable(cursor)
        /\ Uint32(RAM, cursor) >= size /\ CanCarve(RAM, cursor, size)
    BY <1>4 DEF TakeBlock, AtHeader, Fits
  <2>2. /\ RAM' \in [Cell -> Byte]
        /\ Splits(RAM, cursor, size) => SplitAt(cursor, size) \in Cell
    BY <1>4, <2>1, CarveType DEF TakeBlock
  <2>3. cursor + HeaderSize \in U32
    BY <1>0, <2>1, WordNat DEF Readable, U32, HeaderSize
  <2>4. hdrs' \subseteq Cell
    BY <1>4, <2>2 DEF TakeBlock
  <2>5. DOMAIN live' \subseteq U32 /\ live' \in [DOMAIN live' -> U32]
    BY <1>4, <2>1, <2>3 DEF TakeBlock, Grant
  <2>6. damaged' \in BOOLEAN
    BY <1>4 DEF TakeBlock, Severs
  <2> QED
    BY <1>0, <1>4, <2>2, <2>3, <2>4, <2>5, <2>6 DEF TakeBlock, Return
<1>5. CASE OutOfMemory
  BY <1>0, <1>5 DEF OutOfMemory, Return, history
<1>6. CASE Panic
  BY <1>6 DEF Panic, Halt, history
<1>7. ASSUME NEW f \in Fills, Fill(f) PROVE TypeOK'
  <2>1. f \in Byte /\ 0 \in Byte
    BY HeapAssumption, LayoutAssumption DEF Byte
  <2>2. RAM' \in [Cell -> Byte]
    BY <1>7, <2>1 DEF Fill, Stored
  <2> QED
    BY <1>7, <2>2 DEF Fill, callVars, history
<1>8. CASE FillPanic
  BY <1>8 DEF FillPanic, Halt, history
<1>9. ASSUME NEW a \in Freeable, Free(a) PROVE TypeOK'
  <2>1. a \in U32
    BY WordNat, HeapAssumption DEF Freeable, Cell, U32, HeaderSize
  <2>2. 0 \in Byte
    BY LayoutAssumption DEF Byte
  <2>3. FreeAnswer(a) \in {"invalid", "double", "ok"}
    BY DEF FreeAnswer
  <2>4. RAM' \in [Cell -> Byte]
    BY <1>9, <2>2 DEF Free, SetFlag
  <2>5. DOMAIN live' \subseteq U32 /\ live' \in [DOMAIN live' -> U32]
    BY <1>9 DEF Free
  <2>6. damaged' \in BOOLEAN
    BY <1>9 DEF Free
  <2> QED
    BY <1>0, <1>9, <2>1, <2>3, <2>4, <2>5, <2>6 DEF Free, callVars
<1>10. CASE Reset
  BY <1>0, <1>10, ResetFacts DEF Reset, Fresh, callVars
<1>11. CASE UNCHANGED vars
  BY <1>11 DEF vars
<1> QED
  BY <1>1, <1>2, <1>3, <1>4, <1>5, <1>6, <1>7, <1>8, <1>9, <1>10, <1>11 DEF Next

(* Every state of the heap is well typed: no value leaves uint32 or byte.  *)
THEOREM TypeCorrect == Spec => []TypeOK
  BY TypeInit, TypeNext, PTL DEF Spec

-----------------------------------------------------------------------------
(***************************************************************************)
(* The invariant: while the chain is whole, the headers tile RAM, and the  *)
(* rest follows from where headers can be.                                 *)
(***************************************************************************)
LEMMA HeaderTypes ==
    ASSUME TypeOK, Tiling, NEW h \in hdrs
    PROVE  /\ h \in Nat
           /\ Uint32(RAM, h) \in Nat
           /\ BlockEnd(RAM, h) \in Nat
           /\ h + HeaderSize <= BlockEnd(RAM, h)
           /\ BlockEnd(RAM, h) <= RAMSize
<1>1. h \in Nat /\ h + HeaderSize <= RAMSize /\ RAM \in [Cell -> Byte]
  BY WordNat DEF TypeOK, Cell, Tiling, Tiles
<1>2. Uint32(RAM, h) \in Nat
  BY <1>1, Uint32Type, WordNat DEF U32, HeaderSize
<1> QED
  BY <1>1, <1>2 DEF BlockEnd, HeaderSize, Tiling, Tiles

LEMMA SoundInit == Init => IInv
<1> SUFFICES ASSUME Init PROVE Sound
  BY TypeInit DEF IInv
<1>1. BlockEnd(RAM, 0) = RAMSize
  BY ResetFacts, WordNat DEF Init, BlockEnd, HeaderSize
<1> QED
  BY <1>1, ResetFacts, LayoutAssumption
     DEF Init, Sound, Tiling, Tiles, OwnerFlags, FirstFitWalk, OOMMeansFull, LastGranted,
         Answer, HeaderSize

(* A header other than the one carved keeps its five bytes.                *)
LEMMA TakeKeepsHeaders ==
    ASSUME TypeOK, Sound, TakeBlock
    PROVE  LET s == cursor + HeaderSize + size
               z == Uint32(RAM, cursor)
               w == Splits(RAM, cursor, size)
           IN  /\ cursor \in hdrs
               /\ size \in Nat /\ z \in Nat /\ z >= size /\ size # 0
               /\ SplitAt(cursor, size) = s
               /\ Uint32(RAM', cursor) = size /\ Flag(RAM', cursor) = 1
               /\ w = (z - size >= HeaderSize)
               /\ w => /\ s + HeaderSize <= BlockEnd(RAM, cursor)
                       /\ Uint32(RAM', s) = z - size - HeaderSize
                       /\ Flag(RAM', s) = 0
               /\ \A k \in hdrs : k # cursor =>
                     /\ Uint32(RAM', k) = Uint32(RAM, k)
                     /\ Flag(RAM', k) = Flag(RAM, k)
               /\ \A i \in Cell : /\ i < cursor \/ i > cursor + 4
                                  /\ w => i < s \/ i > s + 4
                                  => RAM'[i] = RAM[i]
<1> DEFINE s == cursor + HeaderSize + size
           z == Uint32(RAM, cursor)
           w == Splits(RAM, cursor, size)
<1>1. /\ cursor \in hdrs /\ size # 0 /\ size \in U32
      /\ RAM \in [Cell -> Byte] /\ z >= size
      /\ RAM' = Carve(RAM, cursor, size)
  BY DEF TakeBlock, AtHeader, Fits, Sound, FirstFitWalk, TypeOK
<1>2. /\ cursor \in Nat /\ z \in Nat /\ size \in Nat /\ cursor + HeaderSize <= RAMSize
      /\ cursor + HeaderSize + z <= RAMSize
      /\ BlockEnd(RAM, cursor) = cursor + HeaderSize + z
  BY <1>1, HeaderTypes, WordNat DEF Sound, Tiling, Tiles, BlockEnd, U32
<1>3. /\ Uint32(RAM', cursor) = size /\ Flag(RAM', cursor) = 1
      /\ SplitAt(cursor, size) = s
      /\ w => /\ s + HeaderSize <= BlockEnd(RAM, cursor)
              /\ Uint32(RAM', s) = z - size - HeaderSize
              /\ Flag(RAM', s) = 0
      /\ \A i \in Cell : /\ i < cursor \/ i > cursor + 4
                         /\ w => i < s \/ i > s + 4
                         => RAM'[i] = RAM[i]
  BY <1>1, <1>2, CarveFacts
<1>4. ASSUME NEW k \in hdrs, k # cursor
      PROVE  Uint32(RAM', k) = Uint32(RAM, k) /\ Flag(RAM', k) = Flag(RAM, k)
  <2>1. /\ k \in Nat /\ k + HeaderSize <= BlockEnd(RAM, k) /\ BlockEnd(RAM, k) \in Nat
        /\ k + HeaderSize <= RAMSize
    BY HeaderTypes DEF Sound, Tiling, Tiles
  <2>2. k < cursor => cursor >= BlockEnd(RAM, k)
    BY <1>1, <2>1 DEF Sound, Tiling, Tiles
  <2>3. k > cursor => k >= BlockEnd(RAM, cursor)
    BY <1>1, <2>1 DEF Sound, Tiling, Tiles
  <2>4. k < cursor => k + HeaderSize <= cursor
    BY <1>2, <2>1, <2>2 DEF HeaderSize
  <2>5. k > cursor => k >= cursor + HeaderSize /\ (w => k >= s + HeaderSize)
    BY <1>2, <1>3, <2>1, <2>3 DEF HeaderSize
  <2>6. \A i \in k .. (k + 4) : i \in Cell
    BY <2>1, WordNat DEF Cell, HeaderSize
  <2>7. \A i \in k .. (k + 4) : i < cursor \/ i > cursor + 4
    BY <1>2, <1>4, <2>1, <2>4, <2>5 DEF HeaderSize
  <2>8. w => \A i \in k .. (k + 4) : i < s \/ i > s + 4
    BY <1>2, <1>4, <2>1, <2>4, <2>5 DEF HeaderSize
  <2>9. \A i \in k .. (k + 4) : RAM'[i] = RAM[i]
    BY <1>3, <2>6, <2>7, <2>8
  <2> QED
    BY <2>1, <2>9, SameHeader
<1>5. w = (z - size >= HeaderSize)
  BY DEF Splits, Remainder
<1> QED
  BY <1>1, <1>2, <1>3, <1>4, <1>5

LEMMA TakeSound ==
    ASSUME TypeOK, Sound, TakeBlock, ~damaged'
    PROVE  Sound'
<1> DEFINE h == cursor
           s == cursor + HeaderSize + size
           z == Uint32(RAM, h)
           w == Splits(RAM, h, size)
<1>1. /\ h \in hdrs
      /\ size \in Nat /\ z \in Nat /\ z >= size /\ size # 0
      /\ SplitAt(h, size) = s
      /\ Uint32(RAM', h) = size /\ Flag(RAM', h) = 1
      /\ w = (z - size >= HeaderSize)
      /\ w => /\ s + HeaderSize <= BlockEnd(RAM, h)
              /\ Uint32(RAM', s) = z - size - HeaderSize
              /\ Flag(RAM', s) = 0
      /\ \A k \in hdrs : k # h => /\ Uint32(RAM', k) = Uint32(RAM, k)
                                  /\ Flag(RAM', k) = Flag(RAM, k)
  BY TakeKeepsHeaders
<1>2. /\ h \in Nat /\ BlockEnd(RAM, h) \in Nat /\ BlockEnd(RAM, h) <= RAMSize
      /\ BlockEnd(RAM, h) = h + HeaderSize + z /\ s \in Nat
      /\ s = h + HeaderSize + size
  BY <1>1, HeaderTypes DEF Sound, BlockEnd, HeaderSize
<1>3. hdrs' = IF w THEN hdrs \cup {s} ELSE hdrs
  BY <1>1 DEF TakeBlock
<1>4. ~w => z = size \/ s + HeaderSize > RAMSize
  <2>1. ~Severs(RAM, cursor, size)
    BY Zenon DEF TakeBlock
  <2> QED
    BY <1>1, <1>2, <2>1, WordNat DEF Severs, Remainder, HeaderSize
<1>5. w => s \notin hdrs /\ s # h
  BY <1>1, <1>2, <1>3 DEF Sound, Tiling, Tiles, HeaderSize
<1>6. \A k \in hdrs : k # h => BlockEnd(RAM', k) = BlockEnd(RAM, k)
  BY <1>1 DEF BlockEnd
<1>7. BlockEnd(RAM', h) = s
  BY <1>1 DEF BlockEnd
<1>8. w => BlockEnd(RAM', s) = BlockEnd(RAM, h)
  BY <1>1, <1>2 DEF BlockEnd, HeaderSize
<1>9. \A k \in hdrs : /\ k \in Nat /\ BlockEnd(RAM, k) \in Nat
                      /\ k + HeaderSize <= BlockEnd(RAM, k)
  BY HeaderTypes DEF Sound
<1>10. pc' = "idle" /\ ret'.err = "ok" /\ ret'.op = "alloc" /\ ret'.arg = size
       /\ addr' = h + HeaderSize
       /\ DOMAIN live' = DOMAIN live \cup {h + HeaderSize}
       /\ live'[h + HeaderSize] = size
       /\ \A a \in DOMAIN live : a # h + HeaderSize => live'[a] = live[a]
  BY DEF TakeBlock, Return, Grant, Answer
<1> HIDE DEF h, s, z, w
<1>11. Tiling'
  <2>1. 0 \in hdrs'
    BY <1>3 DEF Sound, Tiling, Tiles
  <2>2. ASSUME NEW k \in hdrs, k # h
        PROVE  /\ k + HeaderSize <= RAMSize
               /\ BlockEnd(RAM', k) <= RAMSize
               /\ BlockEnd(RAM', k) \in hdrs' \/ BlockEnd(RAM', k) + HeaderSize > RAMSize
               /\ \A j \in hdrs' : j > k => j >= BlockEnd(RAM', k)
    <3>1. /\ k + HeaderSize <= RAMSize
          /\ BlockEnd(RAM, k) <= RAMSize
          /\ BlockEnd(RAM, k) \in hdrs \/ BlockEnd(RAM, k) + HeaderSize > RAMSize
          /\ \A j \in hdrs : j > k => j >= BlockEnd(RAM, k)
          /\ k > h => k >= BlockEnd(RAM, h)
      BY <1>1 DEF Sound, Tiling, Tiles
    <3>2. w /\ s > k => s >= BlockEnd(RAM, k)
      BY <1>1, <1>2, <1>9, <2>2, <3>1 DEF HeaderSize
    <3> QED
      BY <1>3, <1>6, <2>2, <3>1, <3>2
  <2>3. /\ h + HeaderSize <= RAMSize
        /\ BlockEnd(RAM', h) <= RAMSize
        /\ BlockEnd(RAM', h) \in hdrs' \/ BlockEnd(RAM', h) + HeaderSize > RAMSize
        /\ \A j \in hdrs' : j > h => j >= BlockEnd(RAM', h)
    <3>1. /\ h + HeaderSize <= RAMSize
          /\ BlockEnd(RAM, h) \in hdrs \/ BlockEnd(RAM, h) + HeaderSize > RAMSize
          /\ \A j \in hdrs : j > h => j >= BlockEnd(RAM, h)
      BY <1>1 DEF Sound, Tiling, Tiles
    <3>2. s <= BlockEnd(RAM, h)
      BY <1>1, <1>2 DEF HeaderSize
    <3>3. s \in hdrs' \/ s + HeaderSize > RAMSize
      BY <1>1, <1>2, <1>3, <1>4, <3>1
    <3>4. \A j \in hdrs' : j > h => j >= s
      BY <1>2, <1>3, <1>9, <3>1, <3>2
    <3> QED
      BY <1>2, <1>7, <3>1, <3>2, <3>3, <3>4, WordNat
  <2>4. ASSUME w
        PROVE  /\ s + HeaderSize <= RAMSize
               /\ BlockEnd(RAM', s) <= RAMSize
               /\ BlockEnd(RAM', s) \in hdrs' \/ BlockEnd(RAM', s) + HeaderSize > RAMSize
               /\ \A j \in hdrs' : j > s => j >= BlockEnd(RAM', s)
    <3>1. /\ BlockEnd(RAM, h) \in hdrs \/ BlockEnd(RAM, h) + HeaderSize > RAMSize
          /\ \A j \in hdrs : j > h => j >= BlockEnd(RAM, h)
      BY <1>1 DEF Sound, Tiling, Tiles
    <3>2. s + HeaderSize <= RAMSize /\ s > h
      BY <1>1, <1>2, <2>4, WordNat DEF HeaderSize
    <3>3. \A j \in hdrs' : j > s => j >= BlockEnd(RAM, h)
      BY <1>2, <1>3, <1>9, <3>1, <3>2
    <3> QED
      BY <1>2, <1>3, <1>8, <2>4, <3>1, <3>2, <3>3
  <2> QED
    BY <1>3, <2>1, <2>2, <2>3, <2>4 DEF Tiling, Tiles
<1>12. OwnerFlags'
  <2>1. \A k \in hdrs : k # h => (k + HeaderSize \in DOMAIN live' <=> k + HeaderSize \in DOMAIN live)
    BY <1>2, <1>9, <1>10 DEF HeaderSize
  <2>2. \A k \in hdrs : k # h =>
            Flag(RAM', k) = IF k + HeaderSize \in DOMAIN live' THEN 1 ELSE 0
    BY <1>1, <2>1 DEF Sound, OwnerFlags
  <2>3. Flag(RAM', h) = IF h + HeaderSize \in DOMAIN live' THEN 1 ELSE 0
    BY <1>1, <1>10
  <2>4. w => s + HeaderSize \notin DOMAIN live'
    <3>1. w => s + HeaderSize \notin DOMAIN live
      <4> SUFFICES ASSUME w, s + HeaderSize \in DOMAIN live PROVE FALSE
        OBVIOUS
      <4>1. s \in hdrs
        BY <1>2 DEF Sound, OwnerFlags, HeaderSize
      <4> QED
        BY <1>2, <1>5, <4>1 DEF HeaderSize
    <3> QED
      BY <1>2, <1>5, <1>10, <3>1 DEF HeaderSize
  <2>5. \A k \in hdrs' :
            Flag(RAM', k) = IF k + HeaderSize \in DOMAIN live' THEN 1 ELSE 0
    BY <1>1, <1>3, <2>2, <2>3, <2>4
  <2>6. ASSUME NEW a \in DOMAIN live'
        PROVE  /\ a >= HeaderSize
               /\ a - HeaderSize \in hdrs'
               /\ Uint32(RAM', a - HeaderSize) = live'[a]
               /\ live'[a] # 0
    <3>1. CASE a = h + HeaderSize
      <4>1. a - HeaderSize = h /\ a >= HeaderSize
        BY <1>2, <3>1 DEF HeaderSize
      <4> QED
        BY <1>1, <1>3, <1>10, <3>1, <4>1
    <3>2. CASE a # h + HeaderSize
      <4>1. a \in DOMAIN live /\ live'[a] = live[a]
        BY <1>10, <3>2
      <4>2. /\ a \in Nat /\ a >= HeaderSize /\ a - HeaderSize \in hdrs
            /\ Uint32(RAM, a - HeaderSize) = live[a]
            /\ live[a] # 0
        BY <4>1, WordNat DEF Sound, OwnerFlags, TypeOK, U32
      <4>3. a - HeaderSize # h
        BY <1>2, <3>2, <4>2 DEF HeaderSize
      <4> QED
        BY <1>1, <1>3, <4>1, <4>2, <4>3
    <3> QED
      BY <3>1, <3>2
  <2> QED
    BY <2>5, <2>6 DEF OwnerFlags
<1> QED
  BY <1>10, <1>11, <1>12 DEF Sound, FirstFitWalk, OOMMeansFull, LastGranted

(* Headers are at least HeaderSize apart.                                  *)
LEMMA HeadersApart ==
    ASSUME TypeOK, Tiling, NEW h \in hdrs, NEW k \in hdrs, k # h
    PROVE  k + HeaderSize <= h \/ BlockEnd(RAM, h) <= k
<1>1. /\ h \in Nat /\ k \in Nat /\ BlockEnd(RAM, k) \in Nat
      /\ k + HeaderSize <= BlockEnd(RAM, k)
  BY HeaderTypes
<1>2. (h > k => h >= BlockEnd(RAM, k)) /\ (k > h => k >= BlockEnd(RAM, h))
  BY DEF Tiling, Tiles
<1> QED
  BY <1>1, <1>2 DEF HeaderSize

LEMMA FreeSound ==
    ASSUME TypeOK, Sound, NEW a \in Freeable, Free(a), ~damaged'
    PROVE  Sound'
<1>1. pc' = "idle" /\ ret'.op = "free" /\ addr' = 0 /\ hdrs' = hdrs
  BY DEF Free, Answer, callVars
<1>2. CASE FreeAnswer(a) = "ok"
  <2> DEFINE h == a - HeaderSize
  <2>1. /\ h \in hdrs /\ h \in Nat /\ h + 4 \in Cell /\ RAM \in [Cell -> Byte]
        /\ a = h + HeaderSize
    <3>1. h \in hdrs
      <4>1. damaged' = (damaged \/ h \notin hdrs)
        BY <1>2 DEF Free
      <4> QED
        BY Zenon, <4>1
    <3>2. h \in Nat /\ h + HeaderSize <= RAMSize
      BY <3>1, WordNat DEF TypeOK, Cell, Sound, Tiling, Tiles
    <3>3. a \in Int
      BY WordNat, HeapAssumption DEF Freeable, TypeOK, Cell, U32, HeaderSize
    <3> QED
      BY <3>1, <3>2, <3>3, WordNat DEF TypeOK, Cell, HeaderSize
  <2>2. /\ RAM' = [RAM EXCEPT ![h + 4] = 0]
        /\ live' = [b \in DOMAIN live \ {a} |-> live[b]]
        /\ Flag(RAM, h) # 0
    BY <1>2 DEF Free, SetFlag, FreeAnswer
  <2> HIDE DEF h
  <2>3. RAM'[h + 4] = 0 /\ \A i \in Cell : i # h + 4 => RAM'[i] = RAM[i]
    BY <2>1, <2>2
  <2>4. ASSUME NEW k \in hdrs
        PROVE  /\ Uint32(RAM', k) = Uint32(RAM, k)
               /\ k # h => Flag(RAM', k) = Flag(RAM, k)
    <3>1. k \in Nat /\ k + HeaderSize <= RAMSize /\ h + HeaderSize <= BlockEnd(RAM, h)
          /\ BlockEnd(RAM, h) \in Nat
      BY <2>1, HeaderTypes DEF Sound, Tiling, Tiles
    <3>2. k = h \/ k + HeaderSize <= h \/ BlockEnd(RAM, h) <= k
      BY <2>1, HeadersApart DEF Sound
    <3>3. /\ k \in Cell /\ k + 1 \in Cell /\ k + 2 \in Cell
          /\ k + 3 \in Cell /\ k + 4 \in Cell
      BY <3>1, WordNat DEF Cell, HeaderSize
    <3>4. /\ k # h + 4 /\ k + 1 # h + 4 /\ k + 2 # h + 4 /\ k + 3 # h + 4
          /\ k # h => k + 4 # h + 4
      BY <2>1, <3>1, <3>2 DEF HeaderSize
    <3> QED
      BY <2>3, <3>3, <3>4 DEF Uint32, Flag
  <2>5. Tiling'
    <3>1. \A k \in hdrs : BlockEnd(RAM', k) = BlockEnd(RAM, k)
      BY <2>4 DEF BlockEnd
    <3> QED
      BY <1>1, <3>1 DEF Sound, Tiling, Tiles
  <2>6. OwnerFlags'
    <3>1. \A k \in hdrs : k \in Nat
      BY HeaderTypes DEF Sound
    <3>2. \A k \in hdrs : Flag(RAM', k) = IF k + HeaderSize \in DOMAIN live' THEN 1 ELSE 0
      <4> SUFFICES ASSUME NEW k \in hdrs
                   PROVE  Flag(RAM', k) = IF k + HeaderSize \in DOMAIN live' THEN 1 ELSE 0
        OBVIOUS
      <4>1. CASE k = h
        BY <2>1, <2>2, <2>3, <4>1 DEF Flag
      <4>2. CASE k # h
        <5>1. k + HeaderSize # a
          BY <2>1, <3>1, <4>2 DEF HeaderSize
        <5>2. k + HeaderSize \in DOMAIN live' <=> k + HeaderSize \in DOMAIN live
          BY <2>2, <5>1
        <5> QED
          BY <2>4, <4>2, <5>2 DEF Sound, OwnerFlags
      <4> QED
        BY <4>1, <4>2
    <3>3. \A b \in DOMAIN live' : /\ b >= HeaderSize
                                  /\ b - HeaderSize \in hdrs
                                  /\ Uint32(RAM', b - HeaderSize) = live'[b]
                                  /\ live'[b] # 0
      BY <2>2, <2>4 DEF Sound, OwnerFlags
    <3> QED
      BY <1>1, <3>2, <3>3 DEF OwnerFlags
  <2> QED
    BY <1>1, <2>5, <2>6 DEF Sound, FirstFitWalk, OOMMeansFull, LastGranted
<1>3. CASE FreeAnswer(a) # "ok"
  <2>1. RAM' = RAM /\ live' = live
    BY <1>3 DEF Free
  <2> QED
    BY <1>1, <2>1 DEF Sound, Tiling, Tiles, OwnerFlags, FirstFitWalk, OOMMeansFull, LastGranted
<1> QED
  BY <1>2, <1>3

LEMMA FillSound ==
    ASSUME TypeOK, Sound, NEW f \in Fills, Fill(f)
    PROVE  Sound'
<1>1. /\ pc' = "idle" /\ ret' = ret /\ addr' = addr /\ hdrs' = hdrs
      /\ live' = live /\ cursor' = cursor /\ size' = size
  BY DEF Fill, callVars, history
<1>2. /\ ret.op = "alloc" /\ ret.err = "ok" /\ addr \in DOMAIN live
      /\ live[addr] = ret.arg
  BY DEF Fill, Sound, LastGranted
<1> DEFINE h == addr - HeaderSize
           n == ret.arg
<1>3. /\ h \in hdrs /\ h \in Nat /\ addr = h + HeaderSize /\ n \in Nat
      /\ BlockEnd(RAM, h) = addr + n
  <2>1. h \in hdrs /\ Uint32(RAM, h) = n /\ addr >= HeaderSize
    BY <1>2 DEF Sound, OwnerFlags
  <2>2. addr \in Nat /\ n \in Nat
    BY <1>2, WordNat DEF TypeOK, U32
  <2> QED
    BY <2>1, <2>2 DEF BlockEnd, HeaderSize
<1>4. RAM' = [i \in Cell |-> IF i \in addr .. (addr + n - 1)
                             THEN IF i = addr + n - 1 THEN 0 ELSE f
                             ELSE RAM[i]]
  BY DEF Fill, Stored
<1> HIDE DEF h, n
<1>5. \A i \in Cell : i < addr \/ i >= addr + n => RAM'[i] = RAM[i]
  BY <1>3, <1>4 DEF Cell, HeaderSize
<1>6. ASSUME NEW k \in hdrs
      PROVE  Uint32(RAM', k) = Uint32(RAM, k) /\ Flag(RAM', k) = Flag(RAM, k)
  <2>1. k \in Nat /\ k + HeaderSize <= RAMSize
    BY HeaderTypes DEF Sound, Tiling, Tiles
  <2>2. k = h \/ k + HeaderSize <= h \/ BlockEnd(RAM, h) <= k
    BY <1>3, HeadersApart DEF Sound
  <2>3. \A i \in k .. (k + 4) : i \in Cell /\ (i < addr \/ i >= addr + n)
    BY <1>3, <2>1, <2>2, WordNat DEF Cell, HeaderSize
  <2>4. \A i \in k .. (k + 4) : RAM'[i] = RAM[i]
    BY <1>5, <2>3
  <2> QED
    BY <2>1, <2>4, SameHeader
<1>7. \A k \in hdrs : BlockEnd(RAM', k) = BlockEnd(RAM, k)
  BY <1>6 DEF BlockEnd
<1>8. Tiling' /\ OwnerFlags'
  BY <1>1, <1>6, <1>7 DEF Sound, Tiling, Tiles, OwnerFlags
<1> QED
  BY <1>1, <1>2, <1>8 DEF Sound, FirstFitWalk, OOMMeansFull, LastGranted

LEMMA StepOverSound ==
    ASSUME TypeOK, Sound, StepOver
    PROVE  Sound'
<1>1. /\ pc = "walk" /\ RAM' = RAM /\ pc' = pc /\ size' = size /\ ret' = ret /\ addr' = addr
      /\ hdrs' = hdrs /\ live' = live
      /\ InLoop(cursor) /\ ~Fits(RAM, cursor, size)
      /\ cursor' = NextCursor(RAM, cursor)
  BY DEF StepOver, AtHeader, history
<1>2. /\ cursor \in hdrs /\ size # 0
      /\ \A h \in hdrs : h < cursor => ~Fits(RAM, h, size)
  BY <1>1 DEF Sound, FirstFitWalk
<1>3. /\ BlockEnd(RAM, cursor) \in Nat /\ BlockEnd(RAM, cursor) <= RAMSize
      /\ cursor \in Nat /\ cursor' = BlockEnd(RAM, cursor)
  BY <1>1, <1>2, HeaderTypes, ModSmall, WordNat DEF Sound, NextCursor, HeaderSize
<1>4. cursor' \in hdrs \/ (cursor' <= RAMSize /\ ~InLoop(cursor'))
  <2>1. cursor' \in hdrs \/ cursor' + HeaderSize > RAMSize
    BY <1>2, <1>3 DEF Sound, Tiling, Tiles
  <2>2. (cursor' + HeaderSize) % Word = cursor' + HeaderSize
    BY <1>3, ModSmall, WordNat DEF HeaderSize
  <2> QED
    BY <1>3, <2>1, <2>2, WordNat DEF InLoop, HeaderSize
<1>5. \A h \in hdrs : h < cursor' => ~Fits(RAM, h, size)
  <2> SUFFICES ASSUME NEW h \in hdrs, h < cursor' PROVE ~Fits(RAM, h, size)
    OBVIOUS
  <2>1. h \in Nat
    BY HeaderTypes DEF Sound
  <2>2. h > cursor => h >= cursor'
    BY <1>2, <1>3 DEF Sound, Tiling, Tiles
  <2> QED
    BY <1>1, <1>2, <1>3, <2>1, <2>2
<1> QED
  BY <1>1, <1>2, <1>4, <1>5
     DEF Sound, Tiling, Tiles, OwnerFlags, FirstFitWalk, OOMMeansFull, LastGranted

(* The loop ends without a block only past the last header. *)
LEMMA OutOfMemorySound ==
    ASSUME TypeOK, Sound, OutOfMemory
    PROVE  Sound'
<1>1. /\ pc = "walk" /\ ~InLoop(cursor) /\ RAM' = RAM /\ hdrs' = hdrs /\ live' = live
      /\ pc' = "idle" /\ ret'.op = "alloc" /\ ret'.err = "oom" /\ ret'.arg = size
      /\ addr' = 0
  BY DEF OutOfMemory, Return, Answer, history
<1>2. ASSUME NEW h \in hdrs PROVE ~Fits(RAM, h, size)
  <2>1. /\ h \in Nat /\ h + HeaderSize <= RAMSize
        /\ (h + HeaderSize) % Word = h + HeaderSize
    BY HeaderTypes, ModSmall, WordNat DEF Sound, Tiling, Tiles, HeaderSize
  <2>2. h # cursor /\ cursor \notin hdrs
    <3>1. \A k \in hdrs : InLoop(k)
      <4> SUFFICES ASSUME NEW k \in hdrs PROVE InLoop(k)
        OBVIOUS
      <4>1. k \in Nat /\ k + HeaderSize <= RAMSize
        BY HeaderTypes DEF Sound, Tiling, Tiles
      <4>2. (k + HeaderSize) % Word = k + HeaderSize
        BY <4>1, ModSmall, WordNat DEF HeaderSize
      <4> QED
        BY <4>1, <4>2 DEF InLoop
    <3> QED
      BY <1>1, <3>1
  <2>3. cursor <= RAMSize /\ cursor \in Nat
    BY <1>1, <2>2, WordNat DEF Sound, FirstFitWalk, TypeOK, U32
  <2>4. (cursor + HeaderSize) % Word = cursor + HeaderSize
    BY <2>3, ModSmall, WordNat DEF HeaderSize
  <2>5. h < cursor
    BY <1>1, <2>1, <2>3, <2>4, WordNat DEF InLoop, HeaderSize
  <2> QED
    BY <1>1, <2>5 DEF Sound, FirstFitWalk
<1> QED
  BY <1>1, <1>2
     DEF Sound, Tiling, Tiles, OwnerFlags, FirstFitWalk, OOMMeansFull, LastGranted

(* On a whole chain no index is out of range. *)
LEMMA NoPanicStep ==
    ASSUME TypeOK, Sound
    PROVE  ~Panic /\ ~FillPanic
<1>1. ASSUME Panic PROVE FALSE
  <2>1. pc = "walk" /\ InLoop(cursor)
    BY <1>1 DEF Panic
  <2>2. cursor \in hdrs
    BY <2>1 DEF Sound, FirstFitWalk
  <2>3. /\ Readable(cursor) /\ cursor \in Nat
        /\ cursor + HeaderSize <= RAMSize
        /\ cursor + HeaderSize + Uint32(RAM, cursor) <= RAMSize
    BY <2>2, HeaderTypes DEF Sound, Tiling, Tiles, Readable, BlockEnd
  <2>4. Uint32(RAM, cursor) >= size /\ ~CanCarve(RAM, cursor, size)
    BY <1>1, <2>3 DEF Panic, Fits
  <2> QED
    BY <2>3, <2>4, CarveFacts DEF TypeOK
<1>2. ASSUME FillPanic PROVE FALSE
  <2>1. addr \in DOMAIN live /\ live[addr] = ret.arg /\ addr + ret.arg > RAMSize
    BY <1>2 DEF FillPanic, Sound, LastGranted
  <2>2. /\ addr \in Nat /\ addr >= HeaderSize /\ addr - HeaderSize \in hdrs
        /\ Uint32(RAM, addr - HeaderSize) = ret.arg
    BY <2>1, WordNat DEF Sound, OwnerFlags, TypeOK, U32
  <2>3. BlockEnd(RAM, addr - HeaderSize) <= RAMSize
    BY <2>2 DEF Sound, Tiling, Tiles
  <2>4. BlockEnd(RAM, addr - HeaderSize) = addr + ret.arg
    BY <2>2, WordNat DEF BlockEnd, HeaderSize, TypeOK, U32
  <2> QED
    BY <2>1, <2>2, <2>3, <2>4, WordNat DEF TypeOK, U32
<1> QED
  BY <1>1, <1>2

LEMMA SoundNext == IInv /\ [Next]_vars => IInv'
<1> SUFFICES ASSUME IInv, [Next]_vars PROVE IInv'
  OBVIOUS
<1>1. TypeOK /\ TypeOK'
  BY TypeNext DEF IInv
<1> SUFFICES ASSUME ~damaged' PROVE Sound'
  BY <1>1 DEF IInv
<1>2. CASE Reset
  <2>1. /\ RAM' = ResetRAM /\ hdrs' = {0} /\ pc' = "idle" /\ addr' = 0
        /\ ret'.op = "reset" /\ DOMAIN live' = {}
    BY <1>2 DEF Reset, Fresh, Answer, callVars
  <2>2. BlockEnd(RAM', 0) = RAMSize
    BY <2>1, ResetFacts, WordNat DEF BlockEnd, HeaderSize
  <2> QED
    BY <2>1, <2>2, ResetFacts, LayoutAssumption
       DEF Sound, Tiling, Tiles, OwnerFlags, FirstFitWalk, OOMMeansFull, LastGranted, HeaderSize
<1>3. ~Reset => Sound
  <2>1. ~Reset => (damaged => damaged')
    BY DEF Next, vars, AllocZero, BeginAlloc, StepOver, TakeBlock, OutOfMemory, Panic,
           Fill, FillPanic, Free, Halt, history
  <2> QED
    BY <2>1 DEF IInv
<1>4. ASSUME Sound PROVE ~Reset => Sound'
  <2>1. CASE AllocZero
    BY <1>4, <2>1
       DEF AllocZero, callVars, history, Answer, Sound, Tiling, Tiles, OwnerFlags,
           FirstFitWalk, OOMMeansFull, LastGranted
  <2>2. ASSUME NEW n \in Sizes, BeginAlloc(n) PROVE Sound'
    <3>1. /\ pc' = "walk" /\ cursor' = 0 /\ size' = n /\ n # 0 /\ RAM' = RAM /\ ret' = ret
          /\ addr' = addr /\ hdrs' = hdrs /\ live' = live
      BY <2>2 DEF BeginAlloc, history
    <3>2. \A h \in hdrs : ~(h < 0)
      BY <1>1, <1>4, HeaderTypes DEF Sound
    <3> QED
      BY <1>4, <3>1, <3>2
         DEF Sound, Tiling, Tiles, OwnerFlags, FirstFitWalk, OOMMeansFull, LastGranted
  <2>3. CASE StepOver
    BY <1>1, <1>4, <2>3, StepOverSound
  <2>4. CASE TakeBlock
    BY <1>1, <1>4, <2>4, TakeSound
  <2>5. CASE OutOfMemory
    BY <1>1, <1>4, <2>5, OutOfMemorySound
  <2>6. CASE Panic \/ FillPanic
    BY <1>1, <1>4, <2>6, NoPanicStep
  <2>7. ASSUME NEW f \in Fills, Fill(f) PROVE Sound'
    BY <1>1, <1>4, <2>7, FillSound
  <2>8. ASSUME NEW a \in Freeable, Free(a) PROVE Sound'
    BY <1>1, <1>4, <2>8, FreeSound
  <2>9. CASE UNCHANGED vars
    BY <1>4, <2>9
       DEF vars, Sound, Tiling, Tiles, OwnerFlags, FirstFitWalk, OOMMeansFull, LastGranted
  <2> QED
    BY <2>1, <2>2, <2>3, <2>4, <2>5, <2>6, <2>7, <2>8, <2>9 DEF Next
<1> QED
  BY <1>2, <1>3, <1>4

(* Owned blocks are apart because their headers are. *)
LEMMA SoundApart ==
    ASSUME TypeOK, Sound
    PROVE  OwnedApart
<1>1. ASSUME NEW a \in DOMAIN live
      PROVE  /\ a \in Nat /\ a >= HeaderSize /\ a - HeaderSize \in hdrs
             /\ live[a] \in Nat
             /\ BlockEnd(RAM, a - HeaderSize) = a + live[a]
             /\ a + live[a] <= RAMSize
  <2>1. /\ a \in Nat /\ a >= HeaderSize /\ a - HeaderSize \in hdrs /\ live[a] \in Nat
        /\ Uint32(RAM, a - HeaderSize) = live[a]
    BY WordNat DEF Sound, OwnerFlags, TypeOK, U32
  <2>2. BlockEnd(RAM, a - HeaderSize) <= RAMSize
    BY <2>1 DEF Sound, Tiling, Tiles
  <2> QED
    BY <2>1, <2>2 DEF BlockEnd, HeaderSize
<1>2. ASSUME NEW a \in DOMAIN live PROVE Extent(a, live[a]) \subseteq Cell
  BY <1>1, WordNat DEF Extent, Cell, HeaderSize
<1>3. ASSUME NEW a \in DOMAIN live, NEW b \in DOMAIN live, a # b
      PROVE  Extent(a, live[a]) \cap Extent(b, live[b]) = {}
  <2>1. a - HeaderSize # b - HeaderSize
    BY <1>1, <1>3 DEF HeaderSize
  <2>2. /\ \/ (b - HeaderSize) + HeaderSize <= a - HeaderSize
           \/ a + live[a] <= b - HeaderSize
        /\ \/ (a - HeaderSize) + HeaderSize <= b - HeaderSize
           \/ b + live[b] <= a - HeaderSize
    BY <1>1, <2>1, HeadersApart DEF Sound
  <2>3. a + live[a] <= b - HeaderSize \/ b + live[b] <= a - HeaderSize
    BY <1>1, <2>2 DEF HeaderSize
  <2> QED
    BY <1>1, <2>3 DEF Extent, HeaderSize
<1> QED
  BY <1>2, <1>3 DEF OwnedApart

(* The inductive invariant holds in every reachable state. *)
THEOREM Invariant == Spec => []IInv
  BY SoundInit, SoundNext, PTL DEF Spec

(***************************************************************************)
(* While the chain is whole: headers tile RAM, flags say exactly what the  *)
(* clients own, owned blocks do not overlap, Alloc is a first fit that     *)
(* reports out-of-memory honestly, and nothing panics.                     *)
(***************************************************************************)
THEOREM HeapSafe ==
    Spec => [](/\ ChainTiles /\ FlagsMatchOwners /\ LiveDisjoint
               /\ WalkIsFirstFit /\ HonestOOM /\ NoPanic)
<1>1. IInv => /\ ChainTiles /\ FlagsMatchOwners /\ LiveDisjoint
              /\ WalkIsFirstFit /\ HonestOOM /\ NoPanic
  BY SoundApart
     DEF IInv, Sound, ChainTiles, FlagsMatchOwners, LiveDisjoint, WalkIsFirstFit,
         HonestOOM, NoPanic
<1> QED
  BY <1>1, Invariant, PTL

-----------------------------------------------------------------------------
(***************************************************************************)
(* A heap that stays whole implements the pool of disjoint blocks.         *)
(***************************************************************************)
(* What the owned blocks say about RAM. *)
LEMMA OwnedFacts ==
    ASSUME TypeOK, Sound, NEW a \in DOMAIN live
    PROVE  /\ a \in Nat /\ a >= HeaderSize /\ a - HeaderSize \in hdrs
           /\ live[a] \in Nat /\ live[a] # 0
           /\ a + live[a] <= RAMSize
           /\ BlockEnd(RAM, a - HeaderSize) = a + live[a]
<1>1. /\ a \in Nat /\ a >= HeaderSize /\ a - HeaderSize \in hdrs /\ live[a] \in Nat
      /\ Uint32(RAM, a - HeaderSize) = live[a] /\ live[a] # 0
  BY WordNat DEF Sound, OwnerFlags, TypeOK, U32
<1>2. BlockEnd(RAM, a - HeaderSize) <= RAMSize
  BY <1>1 DEF Sound, Tiling, Tiles
<1> QED
  BY <1>1, <1>2 DEF BlockEnd, HeaderSize

OwnedChain ==
    /\ \A x, y \in hdrs : y # x => y + HeaderSize <= x \/ BlockEnd(RAM, x) <= y
    /\ \A x \in DOMAIN live : BlockEnd(RAM, x - HeaderSize) = x + live[x]

(* The same facts in one formula, to be used in the state after a step. *)
LEMMA OwnedChainHolds ==
    ASSUME TypeOK, Sound
    PROVE  OwnedChain
  BY HeadersApart, OwnedFacts DEF Sound, OwnedChain

LEMMA TakeIsPoolAlloc ==
    ASSUME TypeOK, TypeOK', Sound, Sound', TakeBlock
    PROVE  Pool!PoolAlloc(cursor + HeaderSize)
<1> DEFINE h == cursor
           a == cursor + HeaderSize
           n == size
           s == cursor + HeaderSize + size
           w == Splits(RAM, cursor, size)
<1>1. /\ h \in hdrs /\ n \in Nat /\ n # 0
      /\ SplitAt(h, n) = s
      /\ \A i \in Cell : /\ i < h \/ i > h + 4
                         /\ w => i < s \/ i > s + 4
                         => RAM'[i] = RAM[i]
  BY TakeKeepsHeaders
<1>2. h \in Nat /\ a = h + HeaderSize /\ s = a + n
  BY <1>1, HeaderTypes DEF Sound
<1>3. hdrs' = IF w THEN hdrs \cup {s} ELSE hdrs
  BY <1>1 DEF TakeBlock
<1>4. /\ DOMAIN live' = DOMAIN live \cup {a} /\ live'[a] = n
      /\ \A b \in DOMAIN live : b # a => live'[b] = live[b]
      /\ ret' = Answer("alloc", n, "ok")
  BY DEF TakeBlock, Return, Grant
<1>5. a \notin DOMAIN live
  <2>1. Flag(RAM, h) = 0
    BY DEF TakeBlock, Fits
  <2> QED
    BY <1>1, <2>1 DEF Sound, OwnerFlags
<1>6. OwnedApart'
  <2>1. (TypeOK /\ Sound => OwnedApart)'
    BY SoundApart, PTL
  <2> QED
    BY <2>1
<1> HIDE DEF a, h, n, s, w
<1>7. /\ Extent(a, n) \subseteq Cell
      /\ \A b \in DOMAIN live : Extent(a, n) \cap Extent(b, live[b]) = {}
  BY <1>4, <1>5, <1>6 DEF OwnedApart
<1>8. ASSUME NEW b \in DOMAIN live
      PROVE  Bytes(RAM', b, live'[b]) = Bytes(RAM, b, live[b])
  <2>1. /\ b \in Nat /\ b >= HeaderSize /\ live[b] \in Nat /\ b + live[b] <= RAMSize
        /\ live'[b] = live[b] /\ b # a /\ b - HeaderSize \in hdrs
    BY <1>4, <1>5, OwnedFacts
  <2>2. ASSUME NEW i \in b .. (b + live[b] - 1) PROVE RAM'[i] = RAM[i]
    <3>1. i \in Cell /\ i \in Nat /\ i \in Extent(b, live[b])
      BY <2>1, WordNat DEF Cell, Extent, HeaderSize
    <3>2. i < h \/ i > h + 4
      <4>1. i \notin Extent(a, n)
        BY <1>7, <3>1
      <4> QED
        BY <1>1, <1>2, <3>1, <4>1 DEF Extent, HeaderSize
    <3>3. w => i < s \/ i > s + 4
      <4> SUFFICES ASSUME w PROVE i < s \/ i > s + 4
        OBVIOUS
      <4>1. s \in hdrs' /\ b - HeaderSize \in hdrs' /\ s # b - HeaderSize
        <5>1. s + HeaderSize \notin DOMAIN live
          <6>1. s + HeaderSize \in DOMAIN live => s \in hdrs
            BY <1>1, <1>2, OwnedFacts DEF HeaderSize
          <6>2. s > h /\ s < BlockEnd(RAM, h) /\ BlockEnd(RAM, h) \in Nat
            <7>1. s + HeaderSize <= BlockEnd(RAM, cursor) /\ BlockEnd(RAM, cursor) \in Nat
              BY <1>1, TakeKeepsHeaders, HeaderTypes DEF Sound, s, w, h
            <7> QED
              BY <1>1, <1>2, <7>1 DEF h, HeaderSize
          <6>3. s \notin hdrs
            BY <1>1, <1>2, <6>2 DEF Sound, Tiling, Tiles
          <6> QED
            BY <6>1, <6>3
        <5>2. s # b - HeaderSize
          BY <1>1, <1>2, <2>1, <5>1 DEF HeaderSize
        <5> QED
          BY <1>3, <2>1, <5>2
      <4>2. (OwnedChain)'
        BY OwnedChainHolds, PTL
      <4>3. /\ \A x, y \in hdrs' : y # x =>
                   y + HeaderSize <= x \/ BlockEnd(RAM', x) <= y
            /\ \A x \in DOMAIN live' :
                   BlockEnd(RAM', x - HeaderSize) = x + live'[x]
        BY <4>2 DEF OwnedChain
      <4>4. s + HeaderSize <= b - HeaderSize \/ b + live[b] <= s
        BY <1>4, <2>1, <4>1, <4>3
      <4> QED
        BY <1>1, <1>2, <2>1, <3>1, <4>4 DEF HeaderSize
    <3> QED
      BY <1>1, <3>1, <3>2, <3>3
  <2>3. \A i \in 0 .. (live[b] - 1) : b + i \in b .. (b + live[b] - 1)
    BY <2>1
  <2> QED
    BY <2>1, <2>2, <2>3 DEF Bytes
<1>9. Bytes(RAM', a, live'[a]) \in [0 .. (n - 1) -> Byte]
  <2>1. \A i \in 0 .. (n - 1) : a + i \in Cell
    BY <1>1, <1>2, <1>7 DEF Extent, Cell, HeaderSize
  <2>2. RAM' \in [Cell -> Byte]
    BY DEF TypeOK
  <2> QED
    BY <1>4, <2>1, <2>2 DEF Bytes
<1>10. /\ DOMAIN Contents' = DOMAIN live'
       /\ \A b \in DOMAIN live' : Contents'[b] = Bytes(RAM', b, live'[b])
       /\ \A b \in DOMAIN live : Contents[b] = Bytes(RAM, b, live[b])
  BY DEF Contents
<1>11. Pool!PoolAlloc(a)
  <2>1. \A b \in DOMAIN live : live'[b] = live[b] /\ Contents'[b] = Contents[b]
    BY <1>4, <1>5, <1>8, <1>10
  <2>2. Contents'[a] \in [0 .. (live'[a] - 1) -> Byte]
    BY <1>4, <1>9, <1>10
  <2>3. live'[a] \in Nat \ {0}
    BY <1>1, <1>4
  <2> QED
    BY <1>4, <1>5, <1>7, <1>10, <2>1, <2>2, <2>3
       DEF Pool!PoolAlloc, Pool!Vacant, Pool!Contents, Pool!Extent, Pool!Cell, Pool!Byte,
           Extent, Cell, Byte, Answer, Pool!HeaderSize, HeaderSize
<1> QED
  BY <1>11 DEF a

LEMMA FillIsPoolWrite ==
    ASSUME TypeOK, TypeOK', Sound, NEW f \in Fills, Fill(f)
    PROVE  addr \in DOMAIN live /\ Pool!PoolWrite(addr)
<1>1. live' = live /\ ret' = ret /\ addr' = addr
  BY DEF Fill, callVars, history
<1>2. addr \in DOMAIN live /\ live[addr] = ret.arg
  BY DEF Fill, Sound, LastGranted
<1>3. OwnedApart
  BY SoundApart
<1>4. ASSUME NEW b \in DOMAIN live, b # addr
      PROVE  Bytes(RAM', b, live[b]) = Bytes(RAM, b, live[b])
  <2>1. /\ b \in Nat /\ live[b] \in Nat /\ b >= HeaderSize /\ b + live[b] <= RAMSize
        /\ addr \in Nat /\ live[addr] \in Nat /\ addr >= HeaderSize
    BY <1>2, OwnedFacts
  <2>2. Extent(addr, live[addr]) \cap Extent(b, live[b]) = {}
    BY <1>2, <1>3, <1>4 DEF OwnedApart
  <2>3. ASSUME NEW i \in 0 .. (live[b] - 1) PROVE RAM'[b + i] = RAM[b + i]
    <3>1. b + i \in Cell /\ b + i \in Extent(b, live[b])
      BY <2>1, WordNat DEF Cell, Extent, HeaderSize
    <3>2. b + i \notin addr .. (addr + live[addr] - 1)
      BY <2>1, <2>2, <3>1 DEF Extent, HeaderSize
    <3> QED
      BY <1>2, <3>1, <3>2 DEF Fill, Stored
  <2> QED
    BY <2>3 DEF Bytes
<1>5. Bytes(RAM', addr, live[addr]) \in [0 .. (live[addr] - 1) -> Byte]
  <2>1. /\ addr \in Nat /\ live[addr] \in Nat /\ addr + live[addr] <= RAMSize
        /\ RAM' \in [Cell -> Byte]
    BY <1>2, OwnedFacts DEF TypeOK
  <2>2. \A i \in 0 .. (live[addr] - 1) : addr + i \in Cell
    BY <2>1, WordNat DEF Cell
  <2> QED
    BY <2>1, <2>2 DEF Bytes
<1>6. /\ Contents  = [b \in DOMAIN live |-> Bytes(RAM, b, live[b])]
      /\ Contents' = [b \in DOMAIN live |-> Bytes(RAM', b, live[b])]
  BY <1>1 DEF Contents
<1>7. Contents' = [Contents EXCEPT ![addr] = Contents'[addr]]
  BY <1>2, <1>4, <1>6
<1>8. Contents'[addr] \in [0 .. (live[addr] - 1) -> Byte]
  BY <1>2, <1>5, <1>6
<1> QED
  BY <1>1, <1>2, <1>6, <1>7, <1>8
     DEF Pool!PoolWrite, Pool!Contents, Pool!Byte, Byte

LEMMA FreeIsPoolFree ==
    ASSUME TypeOK, Sound, NEW a \in Freeable, Free(a), ~damaged'
    PROVE  (a \in DOMAIN live /\ Pool!PoolFree(a)) \/ Pool!PoolFreeFails
<1>1. CASE FreeAnswer(a) = "ok"
  <2>1. /\ a - HeaderSize \in hdrs /\ Flag(RAM, a - HeaderSize) # 0
        /\ RAM' = SetFlag(RAM, a - HeaderSize, 0)
        /\ live' = [b \in DOMAIN live \ {a} |-> live[b]]
        /\ ret' = Answer("free", a, "ok")
    <3>1. damaged' = (damaged \/ a - HeaderSize \notin hdrs)
      BY <1>1 DEF Free
    <3>2. a - HeaderSize \in hdrs
      BY Zenon, <3>1
    <3> QED
      BY <1>1, <3>2 DEF Free, FreeAnswer
  <2>2. a \in Int /\ (a - HeaderSize) + HeaderSize = a
    BY WordNat, HeapAssumption DEF Freeable, TypeOK, Cell, U32, HeaderSize
  <2>3. a \in DOMAIN live
    BY <2>1, <2>2 DEF Sound, OwnerFlags
  <2>4. OwnedApart
    BY SoundApart
  <2>5. ASSUME NEW b \in DOMAIN live, b # a
        PROVE  Bytes(RAM', b, live[b]) = Bytes(RAM, b, live[b])
    <3>1. /\ b \in Nat /\ live[b] \in Nat /\ b >= HeaderSize
          /\ a \in Nat /\ live[a] \in Nat /\ a >= HeaderSize
      BY <2>3, OwnedFacts
    <3>2. Extent(a, live[a]) \cap Extent(b, live[b]) = {}
      BY <2>3, <2>4, <2>5 DEF OwnedApart
    <3>3. ASSUME NEW i \in 0 .. (live[b] - 1) PROVE RAM'[b + i] = RAM[b + i]
      <4>1. b + i \in Extent(b, live[b]) /\ (a - HeaderSize) + 4 \in Extent(a, live[a])
        BY <3>1 DEF Extent, HeaderSize
      <4>2. b + i # (a - HeaderSize) + 4
        BY <3>2, <4>1
      <4> QED
        BY <2>1, <4>2 DEF SetFlag
    <3> QED
      BY <3>3 DEF Bytes
  <2>6. /\ Contents  = [b \in DOMAIN live |-> Bytes(RAM, b, live[b])]
        /\ Contents' = [b \in DOMAIN live \ {a} |-> Bytes(RAM', b, live[b])]
    <3>1. DOMAIN live' = DOMAIN live \ {a} /\ \A b \in DOMAIN live' : live'[b] = live[b]
      BY <2>1
    <3> QED
      BY <3>1 DEF Contents
  <2>7. Contents' = [b \in DOMAIN live \ {a} |-> Contents[b]]
    BY <2>5, <2>6
  <2> QED
    BY <2>1, <2>3, <2>7 DEF Pool!PoolFree, Answer
<1>2. CASE FreeAnswer(a) # "ok"
  <2>1. RAM' = RAM /\ live' = live /\ ret' = Answer("free", a, FreeAnswer(a))
    BY <1>2 DEF Free
  <2>2. a \notin DOMAIN live
    <3> SUFFICES ASSUME a \in DOMAIN live PROVE FALSE
      OBVIOUS
    <3>1. /\ a \in Nat /\ a >= HeaderSize /\ a - HeaderSize \in hdrs
          /\ live[a] \in Nat /\ live[a] # 0 /\ a + live[a] <= RAMSize
      BY OwnedFacts
    <3>2. InRange(a)
      BY <3>1, WordNat DEF InRange
    <3>3. Flag(RAM, a - HeaderSize) = 1
      BY <3>1 DEF Sound, OwnerFlags, HeaderSize
    <3> QED
      BY <1>2, <3>2, <3>3 DEF FreeAnswer
  <2>3. Contents' = Contents
    BY <2>1 DEF Contents
  <2>4. FreeAnswer(a) \in {"invalid", "double"}
    BY <1>2 DEF FreeAnswer
  <2> QED
    BY <2>1, <2>2, <2>3, <2>4 DEF Pool!PoolFreeFails, Answer
<1> QED
  BY <1>1, <1>2

LEMMA ResetIsPoolReset ==
    ASSUME Reset
    PROVE  Pool!PoolReset
<1>1. /\ live' = [a \in {} |-> 0] /\ ret' = [op |-> "reset", arg |-> 0, err |-> "ok"]
  BY DEF Reset, Fresh, Answer
<1>2. Contents' = [a \in {} |-> 0]
  BY <1>1 DEF Contents
<1> QED
  BY <1>1, <1>2 DEF Pool!PoolReset, Pool!NoBlocks

LEMMA PoolStep ==
    ASSUME TypeOK, TypeOK', Sound, Sound', ~damaged', [Next]_vars
    PROVE  [Pool!PoolNext]_(Pool!poolVars)
<1> USE DEF Pool!PoolNext
<1>0. live' = live /\ RAM' = RAM => Contents' = Contents
  BY DEF Contents
<1>1. CASE AllocZero
  BY <1>0, <1>1 DEF AllocZero, history, Answer, Pool!PoolAllocFails
<1>2. ASSUME NEW n \in Sizes, BeginAlloc(n) PROVE UNCHANGED Pool!poolVars
  BY <1>0, <1>2 DEF BeginAlloc, history, Pool!poolVars
<1>3. CASE StepOver
  BY <1>0, <1>3 DEF StepOver, history, Pool!poolVars
<1>4. CASE TakeBlock
  <2>1. Pool!PoolAlloc(cursor + HeaderSize)
    BY <1>4, TakeIsPoolAlloc
  <2>2. cursor + HeaderSize \in DOMAIN live'
    BY <1>4 DEF TakeBlock, Grant
  <2> QED
    BY <2>1, <2>2
<1>5. CASE OutOfMemory
  <2>1. size # 0
    BY <1>5 DEF OutOfMemory, Sound, FirstFitWalk
  <2> QED
    BY <1>0, <1>5, <2>1 DEF OutOfMemory, Return, history, Answer, Pool!PoolAllocFails
<1>6. CASE Panic \/ FillPanic
  BY <1>6, NoPanicStep
<1>7. ASSUME NEW f \in Fills, Fill(f) PROVE Pool!PoolNext
  BY <1>7, FillIsPoolWrite
<1>8. ASSUME NEW a \in Freeable, Free(a) PROVE Pool!PoolNext
  BY <1>8, FreeIsPoolFree
<1>9. CASE Reset
  BY <1>9, ResetIsPoolReset
<1>10. CASE UNCHANGED vars
  BY <1>0, <1>10 DEF vars, Pool!poolVars
<1> QED
  BY <1>1, <1>2, <1>3, <1>4, <1>5, <1>6, <1>7, <1>8, <1>9, <1>10 DEF Next

LEMMA OnlyResetRepairs ==
    ASSUME damaged, ~damaged', [Next]_vars
    PROVE  Reset
<1>1. ~UNCHANGED damaged /\ ~UNCHANGED vars
  BY DEF vars
<1> QED
  BY <1>1 DEF Next, AllocZero, BeginAlloc, StepOver, TakeBlock, OutOfMemory, Panic,
              Fill, FillPanic, Free, Grant, Return, Halt, history

(***************************************************************************)
(* The heap implements BlockPool until a remainder of 1 to 5 bytes is      *)
(* dropped in front of a header or a stray address is freed; a Reset of    *)
(* the damaged heap is the pool's.                                         *)
(***************************************************************************)
THEOREM ImplementsPool == Spec => PoolUntilDamaged
<1>1. Init => Pool!PoolInit
  <2> SUFFICES ASSUME Init PROVE Pool!PoolInit
    OBVIOUS
  <2>1. Contents = [a \in {} |-> 0]
    BY DEF Init, Contents
  <2> QED
    BY <2>1 DEF Init, Pool!PoolInit, Pool!NoBlocks, Answer
<1>2. IInv /\ IInv' /\ [Next]_vars => [damaged' \/ Pool!PoolNext]_(Pool!poolVars)
  <2>1. CASE damaged
    BY <2>1, OnlyResetRepairs, ResetIsPoolReset DEF Pool!PoolNext
  <2>2. CASE ~damaged
    BY <2>2, PoolStep DEF IInv
  <2> QED
    BY <2>1, <2>2
<1> QED
  BY <1>1, <1>2, Invariant, PTL DEF Spec, PoolUntilDamaged

-----------------------------------------------------------------------------
(***************************************************************************)
(* Over a whole chain every round of Alloc's loop moves the cursor on, and *)
(* not past the end of RAM: there are at most RAMSize rounds               *)
(* (heap.go:66-95).  It is the safety half of AllocReturns.                *)
(***************************************************************************)
WalkAdvances ==
    [][StepOver /\ ~damaged => cursor < cursor' /\ cursor' <= RAMSize]_vars

LEMMA RoundAdvances ==
    ASSUME IInv, StepOver, ~damaged
    PROVE  cursor < cursor' /\ cursor' <= RAMSize
<1>1. /\ pc = "walk" /\ InLoop(cursor) /\ cursor' = NextCursor(RAM, cursor)
      /\ TypeOK /\ Sound
  BY DEF StepOver, AtHeader, IInv
<1>2. cursor \in hdrs
  BY <1>1 DEF Sound, FirstFitWalk
<1>3. cursor < NextCursor(RAM, cursor) /\ NextCursor(RAM, cursor) <= RAMSize
  BY <1>1, <1>2, TileNext DEF TypeOK, Sound, Tiling
<1> QED
  BY <1>1, <1>3

THEOREM EveryRoundAdvances == Spec => WalkAdvances
<1>1. IInv /\ [Next]_vars
      => [StepOver /\ ~damaged => cursor < cursor' /\ cursor' <= RAMSize]_vars
  BY RoundAdvances
<1> QED
  BY <1>1, Invariant, PTL DEF Spec, WalkAdvances

-----------------------------------------------------------------------------
(***************************************************************************)
(* The loop of Alloc and its one-step form.                                *)
(***************************************************************************)
(* From where the loop is, the walk ends where it ends from offset 0.      *)
OnCourse == pc = "walk" => WalkFrom(RAM, size, cursor) = WalkEnd(RAM, size)

LEMMA OnCourseNext == TypeOK /\ OnCourse /\ [Next]_vars => OnCourse'
<1> SUFFICES ASSUME TypeOK, OnCourse, [Next]_vars PROVE OnCourse'
  OBVIOUS
<1>1. CASE StepOver
  <2>1. WalkFrom(RAM, size, cursor) = WalkFrom(RAM, size, NextCursor(RAM, cursor))
    BY <1>1, WalkUnfold DEF Stopped, StepOver, AtHeader, TypeOK
  <2> QED
    BY <1>1, <2>1 DEF StepOver, AtHeader, OnCourse
<1>2. ASSUME NEW n \in Sizes, BeginAlloc(n) PROVE OnCourse'
  BY <1>2 DEF BeginAlloc, OnCourse, WalkEnd
<1>3. CASE TakeBlock \/ OutOfMemory \/ Panic \/ FillPanic
  BY <1>3 DEF TakeBlock, OutOfMemory, Panic, FillPanic, Return, Halt, OnCourse
<1>4. CASE AllocZero \/ Reset
  BY <1>4 DEF AllocZero, Reset, callVars, OnCourse
<1>5. ASSUME NEW f \in Fills, Fill(f) PROVE OnCourse'
  BY <1>5 DEF Fill, callVars, OnCourse
<1>6. ASSUME NEW a \in Freeable, Free(a) PROVE OnCourse'
  BY <1>6 DEF Free, callVars, OnCourse
<1>7. CASE UNCHANGED vars
  BY <1>7 DEF vars, OnCourse
<1> QED
  BY <1>1, <1>2, <1>3, <1>4, <1>5, <1>6, <1>7 DEF Next

(* A step that leaves the loop leaves it where the walk ends.              *)
LEMMA WalkStep ==
    ASSUME TypeOK, OnCourse, [Next]_vars, pc = "walk", pc' # "walk"
    PROVE  cursor = WalkEnd(RAM, size)
<1>1. ~InLoop(cursor) \/ ~Readable(cursor) \/ Fits(RAM, cursor, size)
  <2>1. TakeBlock \/ OutOfMemory \/ Panic
    BY DEF Next, vars, AllocZero, BeginAlloc, StepOver, Fill, FillPanic, Free, Reset
  <2> QED
    BY <2>1 DEF TakeBlock, OutOfMemory, Panic
<1>2. WalkFrom(RAM, size, cursor) = cursor
  BY <1>1, WalkUnfold DEF Stopped, TypeOK
<1> QED
  BY <1>2 DEF OnCourse

(***************************************************************************)
(* The loop leaves where the one-step walk of FluxVM stops, whatever the   *)
(* clients freed and stored before.                                        *)
(***************************************************************************)
THEOREM LoopIsWalk == Spec => LoopMatchesWalkEnd
<1>1. Init => OnCourse
  BY DEF Init, OnCourse
<1>2. TypeOK /\ OnCourse /\ [Next]_vars
      => [pc = "walk" /\ pc' # "walk" => cursor = WalkEnd(RAM, size)]_vars
  BY WalkStep
<1> QED
  BY <1>1, <1>2, OnCourseNext, TypeCorrect, PTL DEF Spec, LoopMatchesWalkEnd
=================================================================================
