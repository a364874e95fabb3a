---------------------------------- MODULE FlxFile ----------------------------------
(***************************************************************************)
(* The .flx file, byte for byte: what Compiler.Binary writes, what is on   *)
(* disk while os.WriteFile is at it or when it fails half-way, and what    *)
(* CPU.LoadBinary makes of the bytes os.ReadFile got meanwhile.  Codegen   *)
(* has the file as a record; here that record is earned.                   *)
(***************************************************************************)
EXTENDS Integers, Sequences

CONSTANTS Base,         \* values of a byte: 256 in the code
          FlxMagic,     \* four bytes
          Images,       \* compiled programs: constants and code, as bytes
          Found,        \* what may lie at the file's path before
          Slacks,       \* capacities os.ReadFile leaves behind the bytes it read
          WriteSize,    \* of one write call
          ReadSize      \* of one read call

Byte  == 0 .. (Base - 1)
Bytes == Seq(Byte)
Word  == Base * Base * Base * Base

FlxVersion    == 1
FlxHeaderSize == 15

ASSUME FlxAssumption ==
    /\ Base \in Nat /\ Base >= 2
    /\ FlxMagic \in Bytes /\ Len(FlxMagic) = 4
    /\ Images \subseteq [consts : Seq(Bytes), code : Bytes]
    /\ Found \subseteq Bytes
    /\ Slacks \subseteq Nat /\ {WriteSize, ReadSize} \subseteq Nat \ {0}

VARIABLES disk,         \* the file
          pending,      \* what the compiler has still to write of it
          pc,           \* the VM: "start", "reading", "header", "pool", or an end
          data,         \* what it has read
          slack,        \* cap(data) - len(data)
          consts, code, \* what LoadBinary has taken from it
          found,        \* the file at the start
          torn          \* whether it was truncated with bytes of it already read

writer == <<disk, pending, torn>>
vars == <<writer, pc, data, slack, consts, code, found>>

-----------------------------------------------------------------------------
(* Mutant of U16: nothing cuts the number to 16 bits. *)
U16Uncut(n) == << n \div Base, n % Base >>

(* binary.BigEndian. *)
U16(n) == << (n \div Base) % Base, n % Base >>
U32(n) == U16(n \div (Base * Base)) \o U16(n)

Uint16(s, i) == s[i] * Base + s[i + 1]
Uint32(s, i) == Uint16(s, i) * (Base * Base) + Uint16(s, i + 2)

encodeConstantPool(cs) ==
    LET upto[k \in 0 .. Len(cs)] ==
            IF k = 0 THEN <<>> ELSE upto[k - 1] \o U32(Len(cs[k])) \o cs[k]
    IN  upto[Len(cs)]

(* Mutant of Binary: the offset does not count the header. *)
BinaryFromPool(p) ==
    LET pool == encodeConstantPool(p.consts)
    IN  FlxMagic \o <<FlxVersion>> \o U16(Len(p.consts))
        \o U32(Len(pool)) \o U32(Len(p.code)) \o pool \o p.code

Binary(p) ==
    LET pool == encodeConstantPool(p.consts)
    IN  FlxMagic \o <<FlxVersion>> \o U16(Len(p.consts))
        \o U32(FlxHeaderSize + Len(pool)) \o U32(Len(p.code)) \o pool \o p.code

-----------------------------------------------------------------------------
(* Mutant of BeginWrite: the file is opened to append to it. *)
BeginAppend(p) ==
    /\ pending = <<>>
    /\ disk' = disk
    /\ pending' = Binary(p)
    /\ torn' = torn
    /\ UNCHANGED <<pc, data, slack, consts, code, found>>

(* The compiler: os.WriteFile truncates the file and then writes it.  Any  *)
(* write may fail, and so may the process.                                 *)
BeginWrite(p) ==
    /\ pending = <<>>
    /\ disk' = <<>>
    /\ pending' = Binary(p)
    /\ torn' = (torn \/ (pc = "reading" /\ data # <<>>))
    /\ UNCHANGED <<pc, data, slack, consts, code, found>>

Piece(s, n) == SubSeq(s, 1, IF Len(s) < n THEN Len(s) ELSE n)

Write ==
    /\ pending # <<>>
    /\ disk' = disk \o Piece(pending, WriteSize)
    /\ pending' = SubSeq(pending, WriteSize + 1, Len(pending))
    /\ UNCHANGED <<torn, pc, data, slack, consts, code, found>>

(* The last write call got n bytes to the disk. *)
WriteFails(n) ==
    /\ n < Len(pending)
    /\ disk' = disk \o Piece(pending, n)
    /\ pending' = <<>>
    /\ UNCHANGED <<torn, pc, data, slack, consts, code, found>>

-----------------------------------------------------------------------------
(* The machine: os.ReadFile reads until there is nothing more. *)
Open ==
    /\ pc = "start"
    /\ pc' = "reading"
    /\ UNCHANGED <<writer, data, slack, consts, code, found>>

Unread == SubSeq(disk, Len(data) + 1, Len(disk))

Read ==
    /\ pc = "reading"
    /\ Unread # <<>>
    /\ data' = data \o Piece(Unread, ReadSize)
    /\ UNCHANGED <<writer, pc, slack, consts, code, found>>

EndOfFile ==
    /\ pc = "reading"
    /\ Unread = <<>>
    /\ pc' = "header"
    /\ slack' \in Slacks
    /\ UNCHANGED <<writer, data, consts, code, found>>

End(how) ==
    /\ pc' = how
    /\ UNCHANGED <<writer, data, slack, consts, code, found>>

constCount == Uint16(data, 6)
codeOffset == Uint32(data, 8)
codeSize   == Uint32(data, 12)

(* The sum is a uint32, in the check and in the slice. *)
codeEnd    == (codeOffset + codeSize) % Word

(* Mutant of Extends: the offset alone is compared. *)
ExtendsByOffset == codeOffset > Len(data)

Extends == codeEnd > Len(data)

HeaderOK ==
    /\ Len(data) >= FlxHeaderSize
    /\ SubSeq(data, 1, 4) = FlxMagic
    /\ data[5] = FlxVersion
    /\ ~Extends

RefuseHeader == pc = "header" /\ ~HeaderOK /\ End("refused")

(* data[lo:hi]: Go lets a slice reach into the capacity, where the buffer  *)
(* is 0, and panics on any other range.                                    *)
SliceOK(lo, hi) == lo <= hi /\ hi <= Len(data) + slack

Slice(lo, hi) == [k \in 1 .. (hi - lo) |-> IF lo + k <= Len(data) THEN data[lo + k] ELSE 0]

PanicOnPool == pc = "header" /\ HeaderOK /\ ~SliceOK(FlxHeaderSize, codeOffset) /\ End("panicked")

BeginPool == pc = "header" /\ HeaderOK /\ SliceOK(FlxHeaderSize, codeOffset) /\ End("pool")

(* parseConstants: the cursor is behind what was parsed. *)
cursor == FlxHeaderSize + Len(encodeConstantPool(consts))

Body == cursor + 4

BodyLen == Uint32(data \o [k \in 1 .. slack |-> 0], cursor + 1)

(* Mutant of ConstantFits: the length's own four bytes are forgotten. *)
ConstantFitsLoose == Body <= codeOffset /\ cursor + BodyLen <= codeOffset

ConstantFits == Body <= codeOffset /\ Body + BodyLen <= codeOffset

RefuseConstant ==
    /\ pc = "pool" /\ Len(consts) < constCount
    /\ ~ConstantFits
    /\ End("refused")

ParseConstant ==
    /\ pc = "pool" /\ Len(consts) < constCount
    /\ ConstantFits
    /\ consts' = Append(consts, Slice(Body, Body + BodyLen))
    /\ UNCHANGED <<writer, pc, data, slack, code, found>>

PanicOnCode ==
    /\ pc = "pool" /\ Len(consts) = constCount
    /\ ~SliceOK(codeOffset, codeEnd)
    /\ End("panicked")

CopyCode ==
    /\ pc = "pool" /\ Len(consts) = constCount
    /\ SliceOK(codeOffset, codeEnd)
    /\ code' = Slice(codeOffset, codeEnd)
    /\ pc' = "loaded"
    /\ UNCHANGED <<writer, data, slack, consts, found>>

-----------------------------------------------------------------------------
Init ==
    /\ found \in Found /\ disk = found
    /\ pending = <<>>
    /\ pc = "start"
    /\ data = <<>> /\ slack = 0
    /\ consts = <<>> /\ code = <<>>
    /\ torn = FALSE

Next ==
    \/ \E p \in Images : BeginWrite(p)
    \/ Write
    \/ \E n \in 0 .. (WriteSize - 1) : WriteFails(n)
    \/ Open \/ Read \/ EndOfFile
    \/ RefuseHeader \/ PanicOnPool \/ BeginPool
    \/ RefuseConstant \/ ParseConstant \/ PanicOnCode \/ CopyCode

Spec == Init /\ [][Next]_vars

-----------------------------------------------------------------------------
Ends == {"loaded", "refused", "panicked"}

TypeOK ==
    /\ disk \in Bytes /\ pending \in Bytes
    /\ pc \in {"start", "reading", "header", "pool"} \cup Ends
    /\ data \in Bytes /\ slack \in Slacks \cup {0}
    /\ consts \in Seq(Bytes) /\ code \in Bytes
    /\ torn \in BOOLEAN

FitsCount(p) == Len(p.consts) < Base * Base

FitsWord(p) == Len(Binary(p)) < Word

Prefix(s, t) == Len(s) <= Len(t) /\ s = SubSeq(t, 1, Len(s))

(* Wherever writing stops and whatever of it a read meets, unless the      *)
(* file is truncated with bytes of it already read: a machine that loads   *)
(* anything loads the file it found or one compiled program, whole; a      *)
(* half-written file is refused and never makes the loader fail (compiler  *)
(* main.go:162; cpu.go:118). Files of a word's size and more, which the    *)
(* header cannot describe, are left out, and of pools with more constants  *)
(* than the count can say it is only said that the file is whole           *)
(* (ARCHITECTURE.md:54 has them counted, codegen.go:107 cuts the count).   *)
WholeUnlessTorn ==
    pc \in Ends /\ ~torn /\ (\A p \in Images : FitsWord(p)) =>
        \/ data = found
        \/ \E p \in Images : Prefix(data, Binary(p)) /\ data # Binary(p) /\ pc = "refused"
        \/ \E p \in Images : /\ data = Binary(p)
                             /\ FitsCount(p) => /\ pc = "loaded"
                                                /\ consts = p.consts /\ code = p.code

(* Truncated and written anew while it is read or not (vm/main.go:29,      *)
(* compiler main.go:162): whatever the machine has read, each byte stands  *)
(* where it stood in the file found or in one program's. A torn read       *)
(* mixes the two, and the mixture can load (LoadsOneFile), but nothing of  *)
(* it is shifted.                                                          *)
ReadInPlace ==
    LET files == {found} \cup { Binary(p) : p \in Images }
    IN  \A k \in 1 .. Len(data) : \E s \in files : k <= Len(s) /\ data[k] = s[k]

(* Where the n-th constant of the pool ends, if n fit in front of the code. *)
PoolEnd(n) ==
    LET end[k \in 0 .. constCount] ==
            IF k = 0 THEN FlxHeaderSize
            ELSE LET start == end[k - 1]
                 IN  IF start + 4 <= codeOffset
                     THEN start + 4 + Uint32(data, start + 1)
                     ELSE codeOffset + 1
    IN  end[n]

(* A file as codegen.go:82-92 and ARCHITECTURE.md:61 describe it, a pool   *)
(* entry being four bytes of length and the string: the code section       *)
(* inside the file, behind a pool that begins with constCount constants.   *)
Described ==
    /\ Len(data) >= FlxHeaderSize
    /\ SubSeq(data, 1, 4) = FlxMagic /\ data[5] = FlxVersion
    /\ codeOffset >= FlxHeaderSize
    /\ codeOffset + codeSize <= Len(data)
    /\ PoolEnd(constCount) <= codeOffset

(* Whatever the bytes are, those of a torn read too, exactly the files of  *)
(* that format are loaded, and as they say: the pool is the constants      *)
(* again, the code is what the header points at (cpu.go:104-157).          *)
(* README.md:108 says that an entry's length is a Uint16; it is four bytes *)
(* where it is written (codegen.go:124) and where it is read (cpu.go:141). *)
LoadsAsDescribed ==
    pc \in Ends /\ Len(data) < Word =>
        /\ pc = "loaded" <=> Described
        /\ pc = "loaded" =>
              /\ Len(consts) = constCount
              /\ Prefix(FlxMagic \o SubSeq(data, 5, FlxHeaderSize)
                        \o encodeConstantPool(consts), SubSeq(data, 1, codeOffset))
              /\ code = SubSeq(data, codeOffset + 1, codeOffset + codeSize)
              /\ Len(code) = codeSize

(* The loader panics, where it should refuse, only on a code offset inside *)
(* the header or a range that wraps around 32 bits (cpu.go:118-122, 129).  *)
PanicsOnlyOn ==
    pc = "panicked" =>
        /\ SubSeq(data, 1, 4) = FlxMagic
        /\ codeOffset < FlxHeaderSize \/ codeOffset + codeSize >= Word

-----------------------------------------------------------------------------
(* A claim of a comment that the code does not keep. *)

(* flux-vm "loads and executes a compiled flux .flx file" (vm/main.go:1):  *)
(* the bytes it has loaded are those of one file.                          *)
LoadsOneFile == pc = "loaded" => data = found \/ \E p \in Images : data = Binary(p)
====================================================================================
