---------------------------------- MODULE Codegen ----------------------------------
(***************************************************************************)
(* The flux compiler's back end: codegen.go's walk over the AST, the label *)
(* fixups, the file runEmitBinary writes and LoadBinary's reading of it.   *)
(*                                                                         *)
(* The sources are ASTs as the parser delimits them (ParserProofs).        *)
(* Registers may be any number: the lexer only makes R1 to R16, but the    *)
(* emitters check every name, for ASTs that do not come from it.           *)
(***************************************************************************)
EXTENDS Ast

CONSTANTS Sources,      \* ASTs
          CountLimit    \* values of the header's constant count: 2^16

ASSUME CodegenAssumption ==
    /\ CountLimit \in Nat \ {0}
    /\ \A p \in Sources : IsProgram(p)

VARIABLES src,      \* the program
          phase,    \* "emit", "patch", then "refused" or "written", "loaded"
          pos,      \* the statement the walk is at
          ins,      \* bytecode: the instructions, by offset
          size,     \* and its length
          consts,   \* constants; constMap is its inverse
          labels,   \* label -> offset
          fixups,   \* jumpFixups
          errors,   \* the statements an error was recorded for
          open,     \* the body being emitted: its header, and where it ends
          file,     \* what runEmitBinary wrote
          vm        \* what LoadBinary made of it

walk == <<pos, ins, size, consts, labels, fixups, errors, open>>
vars == <<src, phase, walk, file, vm>>

NoBody == [header |-> 0, until |-> 0]

NoFile == [count |-> 0, consts |-> <<>>, ins |-> <<>>, size |-> 0]

-----------------------------------------------------------------------------
Stmt == src[pos]

InBody == open # NoBody

AtStmt ==
    /\ phase = "emit"
    /\ pos <= Len(src)
    /\ InBody => pos < open.until

Code(op, a, b, v) == [op |-> op, a |-> a, b |-> b, v |-> v]

Emit(i) ==
    /\ ins' = [o \in DOMAIN ins \cup {size} |-> IF o = size THEN i ELSE ins[o]]
    /\ size' = size + InsSize(i.op)

EmitNothing == UNCHANGED <<ins, size>>

(* encodeRegister fails for a name that is not R1..R16. *)
BadRegister(st) ==
    \/ st.op \in TwoRegister \cup {"ALLOC", "FREE", "MOV_INT", "MOV_STR", "SEND_REG", "ON_CHAT"}
         /\ st.a \notin Registers
    \/ st.op \in TwoRegister /\ st.b \notin Registers

Record(k) == errors' = errors \cup {k}

(* addConstant: the index of s in the pool, which gets s if it is new. *)
Known(s) == \E i \in 1 .. Len(consts) : consts[i] = s

(* Mutant of ConstIndex: constMap gives the first index for every known one. *)
ConstIndexFirst(s) == IF Known(s) THEN 0 ELSE Len(consts)

ConstIndex(s) ==
    IF Known(s) THEN (CHOOSE i \in 1 .. Len(consts) : consts[i] = s) - 1 ELSE Len(consts)

AddConstant(s) == consts' = IF Known(s) THEN consts ELSE Append(consts, s)

-----------------------------------------------------------------------------
(* The emitters.  int64 literals are cut to uint32, pins to a byte. *)
Encoded(st) ==
    CASE st.op \in {"ALLOC", "MOV_INT"} -> Code(st.op, st.a, 0, st.v % WordSize)
      [] st.op = "FREE"                 -> Code("FREE", st.a, 0, 0)
      [] st.op \in TwoRegister          -> Code(st.op, st.a, st.b, 0)
      [] st.op = "TRIGGER_PIN"          -> Code(st.op, st.a % 256, st.b % 256, 0)
      [] st.op = "SEND_REG"             -> Code("SEND_CHAT", 0, 0, st.a)
      [] st.op = "RET"                  -> Code("RET", 0, 0, 0)

Plain == TwoRegister \cup {"ALLOC", "FREE", "MOV_INT", "TRIGGER_PIN", "SEND_REG", "RET"}

EmitPlain ==
    /\ AtStmt
    /\ Stmt.op \in Plain
    /\ IF BadRegister(Stmt) THEN EmitNothing /\ Record(pos)
       ELSE Emit(Encoded(Stmt)) /\ UNCHANGED errors
    /\ pos' = pos + 1
    /\ UNCHANGED <<src, phase, consts, labels, fixups, open, file, vm>>

(* A constant's index; SEND_CHAT sets the top bit of the operand. *)
EmitString ==
    /\ AtStmt
    /\ Stmt.op \in {"MOV_STR", "SEND_STR"}
    /\ IF BadRegister(Stmt) THEN EmitNothing /\ Record(pos) /\ UNCHANGED consts
       ELSE /\ Emit(IF Stmt.op = "MOV_STR"
                    THEN Code("MOV_STR", Stmt.a, 0, ConstIndex(Stmt.s))
                    ELSE Code("SEND_CHAT", 0, 0, (WordSize \div 2) + ConstIndex(Stmt.s)))
            /\ AddConstant(Stmt.s)
            /\ UNCHANGED errors
    /\ pos' = pos + 1
    /\ UNCHANGED <<src, phase, labels, fixups, open, file, vm>>

(* Mutant of EmitLabel: a second definition replaces the first. *)
EmitLabelAgain ==
    /\ AtStmt
    /\ Stmt.op = "LABEL"
    /\ labels' = [l \in DOMAIN labels \cup {Stmt.l} |->
                     IF l = Stmt.l THEN size ELSE labels[l]]
    /\ pos' = pos + 1
    /\ UNCHANGED <<src, phase, ins, size, consts, fixups, errors, open, file, vm>>

EmitLabel ==
    /\ AtStmt
    /\ Stmt.op = "LABEL"
    /\ IF Stmt.l \in DOMAIN labels THEN Record(pos) /\ UNCHANGED labels
       ELSE /\ labels' = [l \in DOMAIN labels \cup {Stmt.l} |->
                             IF l = Stmt.l THEN size ELSE labels[l]]
            /\ UNCHANGED errors
    /\ pos' = pos + 1
    /\ UNCHANGED <<src, phase, ins, size, consts, fixups, open, file, vm>>

(* emitJump and emitCall: a placeholder, and a fixup to patch it. *)
EmitJump ==
    /\ AtStmt
    /\ Stmt.op \in Branch
    /\ Emit(Code(Stmt.op, 0, 0, 0))
    /\ fixups' = Append(fixups, [offset |-> size, label |-> Stmt.l, stmt |-> pos])
    /\ pos' = pos + 1
    /\ UNCHANGED <<src, phase, consts, labels, errors, open, file, vm>>

(* emitOnChat: the header with placeholders, then the body.  The trigger   *)
(* is in the pool before the register is looked at; after an error the     *)
(* body is not walked.                                                     *)
BeginOnChat ==
    /\ AtStmt
    /\ Stmt.op = "ON_CHAT"
    /\ AddConstant(Stmt.s)
    /\ IF BadRegister(Stmt)
       THEN /\ EmitNothing /\ Record(pos)
            /\ pos' = pos + 1 + Stmt.body
            /\ UNCHANGED open
       ELSE /\ Emit([op |-> "ON_CHAT", a |-> Stmt.a, b |-> 0, v |-> ConstIndex(Stmt.s),
                     off |-> 0, len |-> 0])
            /\ pos' = pos + 1
            /\ open' = [header |-> size, until |-> pos + 1 + Stmt.body]
            /\ UNCHANGED errors
    /\ UNCHANGED <<src, phase, labels, fixups, file, vm>>

(* Mutant of BodyStart: the body is taken to begin at its header. *)
BodyStartAtHeader == open.header

BodyStart == open.header + InsSize("ON_CHAT")

(* The body is done: its range is patched into the header. *)
EndOnChat ==
    /\ phase = "emit"
    /\ InBody
    /\ pos = open.until
    /\ ins' = [ins EXCEPT ![open.header].off = BodyStart,
                          ![open.header].len = size - BodyStart]
    /\ open' = NoBody
    /\ UNCHANGED <<src, phase, pos, size, consts, labels, fixups, errors, file, vm>>

EndWalk ==
    /\ phase = "emit"
    /\ pos > Len(src)
    /\ ~InBody
    /\ phase' = "patch"
    /\ UNCHANGED <<src, walk, file, vm>>

(* Mutant of Target: offsets count from the start of the file. *)
TargetInFile(f) == labels[f.label] + 15

Target(f) == labels[f.label]

(* resolveJumps, one fixup at a time. *)
Resolve ==
    /\ phase = "patch"
    /\ fixups # <<>>
    /\ LET f == Head(fixups)
       IN  IF f.label \in DOMAIN labels
           THEN ins' = [ins EXCEPT ![f.offset].v = Target(f)] /\ UNCHANGED errors
           ELSE Record(f.stmt) /\ UNCHANGED ins
    /\ fixups' = Tail(fixups)
    /\ UNCHANGED <<src, phase, pos, size, consts, labels, open, file, vm>>

-----------------------------------------------------------------------------
(* runEmitBinary: with errors nothing is written. *)
Refuse ==
    /\ phase = "patch"
    /\ fixups = <<>>
    /\ errors # {}
    /\ phase' = "refused"
    /\ UNCHANGED <<src, walk, file, vm>>

(* Binary: the header's constant count has 16 bits. *)
WriteFile ==
    /\ phase = "patch"
    /\ fixups = <<>>
    /\ errors = {}
    /\ phase' = "written"
    /\ file' = [count |-> Len(consts) % CountLimit, consts |-> consts,
                ins |-> ins, size |-> size]
    /\ UNCHANGED <<src, walk, vm>>

(* LoadBinary and parseConstants: as many constants as the header says. *)
LoadFile ==
    /\ phase = "written"
    /\ phase' = "loaded"
    /\ vm' = [ins |-> file.ins, size |-> file.size,
              consts |-> SubSeq(file.consts, 1, file.count)]
    /\ UNCHANGED <<src, walk, file>>

-----------------------------------------------------------------------------
(* codegen.New; src is the parser's program. *)
New ==
    /\ phase = "emit"
    /\ pos = 1
    /\ ins = [o \in {} |-> 0]
    /\ size = 0
    /\ consts = <<>>
    /\ labels = [l \in {} |-> 0]
    /\ fixups = <<>>
    /\ errors = {}
    /\ open = NoBody
    /\ file = NoFile
    /\ vm = [ins |-> <<>>, size |-> 0, consts |-> <<>>]

Init == src \in Sources /\ New

Next ==
    \/ EmitPlain \/ EmitString \/ EmitLabel \/ EmitJump
    \/ BeginOnChat \/ EndOnChat \/ EndWalk \/ Resolve
    \/ Refuse \/ WriteFile \/ LoadFile

Spec == Init /\ [][Next]_vars

-----------------------------------------------------------------------------
Opcodes == TwoRegister \cup JumpOps \cup
           {"ALLOC", "FREE", "MOV_INT", "MOV_STR", "TRIGGER_PIN", "SEND_CHAT", "CALL", "RET"}

Instruction == [op : Opcodes, a : Nat, b : Nat, v : Nat]

Header == [op : {"ON_CHAT"}, a : Nat, b : Nat, v : Nat, off : Nat, len : Nat]

TypeOK ==
    /\ phase \in {"emit", "patch", "refused", "written", "loaded"}
    /\ pos \in 1 .. (Len(src) + 1)
    /\ DOMAIN ins \subseteq Nat
    /\ \A o \in DOMAIN ins : ins[o] \in Instruction \cup Header
    /\ size \in Nat
    /\ consts \in Seq(Strings)
    /\ DOMAIN labels \subseteq Labels
    /\ fixups \in Seq([offset : Nat, label : Labels, stmt : 1 .. Len(src)])
    /\ errors \subseteq 1 .. Len(src)
    /\ open \in [header : Nat, until : 0 .. (Len(src) + 1)]

(* Between two emitters: the instructions tile the code, and every label,  *)
(* patched target and finished body lies on one of their boundaries; what  *)
(* is still to be patched is where the fixups and the open body say.       *)
Boundaries == DOMAIN ins \cup {size}

Tiled ==
    /\ 0 \in Boundaries
    /\ \A o \in DOMAIN ins : o < size /\ o + InsSize(ins[o].op) \in Boundaries

TargetsTiled ==
    /\ \A l \in DOMAIN labels : labels[l] \in Boundaries
    /\ \A o \in DOMAIN ins : ins[o].op \in Branch => ins[o].v \in Boundaries
    /\ \A k \in 1 .. Len(fixups) :
          /\ fixups[k].offset \in DOMAIN ins
          /\ ins[fixups[k].offset].op \in Branch

BodiesTiled ==
    \A o \in DOMAIN ins : ins[o].op = "ON_CHAT" /\ (InBody => o # open.header) =>
        /\ ins[o].off = o + InsSize("ON_CHAT")
        /\ ins[o].off + ins[o].len \in Boundaries

OpenBody ==
    InBody => /\ phase = "emit"
              /\ open.header \in DOMAIN ins
              /\ ins[open.header].op = "ON_CHAT"
              /\ \E k \in 1 .. Len(src) :
                    /\ src[k].op = "ON_CHAT"
                    /\ open.until = k + 1 + src[k].body
                    /\ pos \in (k + 1) .. open.until

(* The inductive invariant of CodegenProofs. *)
CodegenInv == TypeOK /\ Tiled /\ TargetsTiled /\ BodiesTiled /\ OpenBody

Compiled == [ins |-> ins, size |-> size, consts |-> consts]

(* What a compiled program promises the machine: instructions back to      *)
(* back, labels and bodies on instruction boundaries, for every source the *)
(* compiler accepts (codegen.go:138-177, 288-325, 371-453).                *)
EmitsWellFormed ==
    phase \in {"written", "loaded"} /\ size < WordSize => WellFormed(Compiled)

-----------------------------------------------------------------------------
(* A reference layout, from the source alone.                              *)
Opcode(st) == IF st.op \in {"SEND_REG", "SEND_STR"} THEN "SEND_CHAT" ELSE st.op

Instructions == {k \in 1 .. Len(src) : src[k].op # "LABEL"}

StmtSize(st) == IF st.op = "LABEL" THEN 0 ELSE InsSize(Opcode(st))

Offset(k) ==
    LET off[j \in 1 .. (Len(src) + 1)] ==
            IF j = 1 THEN 0 ELSE off[j - 1] + StmtSize(src[j - 1])
    IN  off[k]

(* Instruction i is the encoding of statement k, *)
OperandsOf(k, i) ==
    LET st == src[k]
        Constant(v) == v + 1 \in DOMAIN consts /\ consts[v + 1] = st.s
    IN  /\ i.op = Opcode(st)
        /\ st.op \in Plain => i = Encoded(st)
        /\ st.op = "MOV_STR"  => i.a = st.a /\ Constant(i.v)
        /\ st.op = "SEND_STR" => Constant(i.v - (WordSize \div 2))
        /\ st.op = "ON_CHAT"  => i.a = st.a /\ Constant(i.v)

(* with its label's offset, *)
JumpsTo(k, i) ==
    \E j \in 1 .. Len(src) :
        src[j].op = "LABEL" /\ src[j].l = src[k].l /\ i.v = Offset(j)

(* and the range of its body. *)
SpansBody(k, i) ==
    /\ i.off = Offset(k + 1)
    /\ i.off + i.len = Offset(k + 1 + src[k].body)

LayoutOf(k, i) ==
    /\ OperandsOf(k, i)
    /\ src[k].op \in Branch => JumpsTo(k, i)
    /\ src[k].op = "ON_CHAT" => SpansBody(k, i)

(* The bytes written are the source: every statement at the offset the     *)
(* sizes before it add up to, every jump at its label, every body's range  *)
(* around its statements, every string operand at its string, whatever     *)
(* forward references and shared strings came between.                     *)
Translated ==
    phase = "written" =>
        /\ size = Offset(Len(src) + 1)
        /\ DOMAIN ins = {Offset(k) : k \in Instructions}
        /\ \A k \in Instructions : LayoutOf(k, ins[Offset(k)])

(* A file is refused exactly for the faults of the source: registers that  *)
(* do not exist, labels defined twice, labels used and never defined.  The *)
(* body of a faulty ON_CHAT counts for nothing, so that its labels are     *)
(* undefined to the rest.                                                  *)
Skipped(k) ==
    \E h \in 1 .. (k - 1) : /\ src[h].op = "ON_CHAT" /\ BadRegister(src[h])
                            /\ k <= h + src[h].body

Defines(k, l) == src[k].op = "LABEL" /\ src[k].l = l /\ ~Skipped(k)

Faulty(k) ==
    /\ ~Skipped(k)
    /\ \/ BadRegister(src[k])
       \/ src[k].op = "LABEL" /\ \E j \in 1 .. (k - 1) : Defines(j, src[k].l)
       \/ /\ src[k].op \in Branch
          /\ \A j \in 1 .. Len(src) : ~Defines(j, src[k].l)

ErrorsExact ==
    phase \in {"refused", "written"} => errors = {k \in 1 .. Len(src) : Faulty(k)}

(* What the walk has done by a state in its midst: the faults recorded are *)
(* those found so far, and without any the code is laid out up to pos, but *)
(* for the jumps that wait for their label and the body that is not closed.*)
Pending == {fixups[i].stmt : i \in 1 .. Len(fixups)}

Found(k) ==
    /\ ~Skipped(k)
    /\ \/ BadRegister(src[k])
       \/ src[k].op = "LABEL" /\ \E j \in 1 .. (k - 1) : Defines(j, src[k].l)
       \/ src[k].op \in Branch /\ k \notin Pending /\ src[k].l \notin DOMAIN labels

FixupsRefer ==
    /\ \A i \in 1 .. Len(fixups) :
          LET k == fixups[i].stmt
          IN  k < pos /\ ~Skipped(k) /\ src[k].op \in Branch /\ fixups[i].label = src[k].l
    /\ \A i, j \in 1 .. Len(fixups) : i < j => fixups[i].stmt < fixups[j].stmt

FaultsFound ==
    /\ ~Skipped(pos)
    /\ \A l \in Labels : l \in DOMAIN labels <=> \E j \in 1 .. (pos - 1) : Defines(j, l)
    /\ phase = "emit" =>
          \A k \in 1 .. (pos - 1) : src[k].op \in Branch /\ ~Skipped(k) => k \in Pending
    /\ errors = {k \in 1 .. (pos - 1) : Found(k)}

EncodedSoFar(k, i) ==
    /\ OperandsOf(k, i)
    /\ src[k].op \in Branch /\ k \notin Pending => JumpsTo(k, i)
    /\ src[k].op = "ON_CHAT" /\ (InBody => open.header # Offset(k)) => SpansBody(k, i)

LaidOut ==
    /\ size = Offset(pos)
    /\ DOMAIN ins = {Offset(k) : k \in {j \in Instructions : j < pos}}
    /\ \A l \in DOMAIN labels : \E j \in 1 .. (pos - 1) :
          src[j].op = "LABEL" /\ src[j].l = l /\ labels[l] = Offset(j)
    /\ \A i \in 1 .. Len(fixups) : fixups[i].offset = Offset(fixups[i].stmt)
    /\ InBody => \E k \in 1 .. (pos - 1) :
          /\ src[k].op = "ON_CHAT"
          /\ open = [header |-> Offset(k), until |-> k + 1 + src[k].body]
    /\ \A k \in Instructions : k < pos => EncodedSoFar(k, ins[Offset(k)])

Phases ==
    /\ phase # "emit" => pos = Len(src) + 1
    /\ phase \notin {"emit", "patch"} => fixups = <<>>
    /\ phase \in {"written", "loaded"} => errors = {}

(* The inductive invariant of Translated and ErrorsExact. *)
WalkInv == Phases /\ FixupsRefer /\ FaultsFound /\ (errors = {} => LaidOut)
=====================================================================================
