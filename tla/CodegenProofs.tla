------------------------------- MODULE CodegenProofs -------------------------------
(***************************************************************************)
(* Proofs about Codegen for every set of parsed programs: the code it      *)
(* accepts is well formed, which is what FluxVM assumes of its programs.   *)
(***************************************************************************)
EXTENDS Codegen, Induction, TLAPS

(* The source is a program from beginning to end. *)
SInv == IsProgram(src) /\ CodegenInv

(* Two to the number of bits of a word. *)
LEMMA WordSizeFacts == WordSize \in Nat /\ WordSize >= 2
<1> DEFINE G(F) == [k \in 0 .. WordBits |-> IF k = 0 THEN 1 ELSE 2 * F[k - 1]]
           power == CHOOSE F : F = G(F)
<1>1. WordBits \in Nat /\ WordBits \in 1 .. WordBits /\ WordBits \in 0 .. WordBits
  BY AluAssumption
<1>2. \E F : F = G(F)
  BY <1>1, DoublingExists DEF Doubles
<1>3. power = G(power)
  <2> HIDE DEF G
  <2> QED
    BY <1>2
<1>4. Doubles(power, WordBits)
  <2> HIDE DEF power
  <2> QED
    BY <1>3 DEF Doubles
<1>5. WordSize = power[WordBits]
  BY DEF WordSize, Pow2
<1> HIDE DEF power
<1> QED
  BY <1>1, <1>4, <1>5, DoublingFacts

LEMMA SizePositive ==
    ASSUME NEW op
    PROVE  InsSize(op) \in Nat /\ InsSize(op) > 0
  BY DEF InsSize, AluOps, JumpOps

LEMMA StatementTyped ==
    ASSUME SInv, AtStmt
    PROVE  /\ Stmt \in Statement
           /\ pos \in 1 .. Len(src) /\ Len(src) \in Nat
           /\ pos + 1 \in 1 .. (Len(src) + 1)
<1>1. src \in Seq(Statement)
  BY DEF SInv, IsProgram
<1>2. Len(src) \in Nat /\ pos \in 1 .. Len(src)
  BY <1>1 DEF SInv, CodegenInv, TypeOK, AtStmt
<1>3. Stmt \in Statement
  BY <1>1, <1>2 DEF Stmt
<1> QED
  BY <1>2, <1>3

LEMMA EncodedTyped ==
    ASSUME NEW st \in Statement, st.op \in Plain
    PROVE  /\ Encoded(st) \in Instruction
           /\ Encoded(st).op \notin Branch \cup {"ON_CHAT"}
<1>1. /\ st.a \in Nat /\ st.b \in Nat /\ st.v \in Nat
      /\ st.a % 256 \in Nat /\ st.b % 256 \in Nat
  BY DEF Statement
<1>2. st.v % WordSize \in Nat
  BY <1>1, WordSizeFacts
<1>3. \A op, a, b, v : /\ Code(op, a, b, v).op = op
                       /\ op \in Opcodes /\ a \in Nat /\ b \in Nat /\ v \in Nat
                            => Code(op, a, b, v) \in Instruction
  BY DEF Code, Instruction
<1>4. CASE st.op \in {"ALLOC", "MOV_INT"}
  <2>1. Encoded(st) = Code(st.op, st.a, 0, st.v % WordSize)
    BY <1>4 DEF Encoded, TwoRegister, AluOps
  <2>2. st.op \in Opcodes /\ st.op \notin Branch \cup {"ON_CHAT"}
    BY <1>4 DEF Opcodes, Branch, JumpOps
  <2> QED
    BY <1>1, <1>2, <1>3, <2>1, <2>2
<1>5. CASE st.op = "FREE"
  <2>1. Encoded(st) = Code("FREE", st.a, 0, 0)
    BY <1>5 DEF Encoded, TwoRegister, AluOps
  <2>2. "FREE" \in Opcodes /\ "FREE" \notin Branch \cup {"ON_CHAT"}
    BY DEF Opcodes, Branch, JumpOps
  <2> QED
    BY <1>1, <1>3, <2>1, <2>2
<1>6. CASE st.op \in TwoRegister
  <2>1. Encoded(st) = Code(st.op, st.a, st.b, 0)
    BY <1>6 DEF Encoded, TwoRegister, AluOps
  <2>2. st.op \in Opcodes /\ st.op \notin Branch \cup {"ON_CHAT"}
    BY <1>6 DEF Opcodes, Branch, JumpOps, TwoRegister, AluOps
  <2> QED
    BY <1>1, <1>3, <2>1, <2>2
<1>7. CASE st.op = "TRIGGER_PIN"
  <2>1. Encoded(st) = Code("TRIGGER_PIN", st.a % 256, st.b % 256, 0)
    BY <1>7 DEF Encoded, TwoRegister, AluOps
  <2>2. "TRIGGER_PIN" \in Opcodes /\ "TRIGGER_PIN" \notin Branch \cup {"ON_CHAT"}
    BY DEF Opcodes, Branch, JumpOps
  <2> QED
    BY <1>1, <1>3, <2>1, <2>2
<1>8. CASE st.op = "SEND_REG"
  <2>1. Encoded(st) = Code("SEND_CHAT", 0, 0, st.a)
    BY <1>8 DEF Encoded, TwoRegister, AluOps
  <2>2. "SEND_CHAT" \in Opcodes /\ "SEND_CHAT" \notin Branch \cup {"ON_CHAT"}
    BY DEF Opcodes, Branch, JumpOps
  <2> QED
    BY <1>1, <1>3, <2>1, <2>2
<1>9. CASE st.op = "RET"
  <2>1. Encoded(st) = Code("RET", 0, 0, 0)
    BY <1>9 DEF Encoded, TwoRegister, AluOps
  <2>2. "RET" \in Opcodes /\ "RET" \notin Branch \cup {"ON_CHAT"}
    BY DEF Opcodes, Branch, JumpOps
  <2> QED
    BY <1>3, <2>1, <2>2
<1> QED
  BY <1>4, <1>5, <1>6, <1>7, <1>8, <1>9 DEF Plain

LEMMA PoolTyped ==
    ASSUME TypeOK, NEW s \in Strings
    PROVE  /\ ConstIndex(s) \in Nat
           /\ AddConstant(s) => consts' \in Seq(Strings)
<1>1. consts \in Seq(Strings) /\ Len(consts) \in Nat
  BY DEF TypeOK
<1>2. ConstIndex(s) \in Nat
  <2>1. CASE Known(s)
    <3>1. (CHOOSE i \in 1 .. Len(consts) : consts[i] = s) \in 1 .. Len(consts)
      BY <2>1 DEF Known
    <3> QED
      BY <1>1, <2>1, <3>1 DEF ConstIndex
  <2> QED
    BY <1>1, <2>1 DEF ConstIndex
<1> QED
  BY <1>1, <1>2 DEF AddConstant

-----------------------------------------------------------------------------
(* What emitting one instruction does to the code.                         *)
LEMMA EmitKeeps ==
    ASSUME TypeOK, Tiled, NEW i \in Instruction \cup Header, Emit(i)
    PROVE  /\ DOMAIN ins' = DOMAIN ins \cup {size}
           /\ size \notin DOMAIN ins
           /\ \A o \in DOMAIN ins : ins'[o] = ins[o]
           /\ ins'[size] = i
           /\ DOMAIN ins' \subseteq Nat
           /\ \A o \in DOMAIN ins' : ins'[o] \in Instruction \cup Header
           /\ size' \in Nat
           /\ Boundaries \subseteq Boundaries'
           /\ Tiled'
<1>1. /\ DOMAIN ins' = DOMAIN ins \cup {size}
      /\ size \notin DOMAIN ins /\ size \in Nat
      /\ \A o \in DOMAIN ins : ins'[o] = ins[o]
      /\ ins'[size] = i
      /\ size' = size + InsSize(i.op)
  <2>1. size \notin DOMAIN ins /\ size \in Nat
    BY DEF TypeOK, Tiled
  <2> QED
    BY <2>1 DEF Emit
<1>2. size' \in Nat /\ size' > size
  BY <1>1, SizePositive
<1>3. DOMAIN ins' \subseteq Nat /\ \A o \in DOMAIN ins' : ins'[o] \in Instruction \cup Header
  BY <1>1 DEF TypeOK
<1>4. Boundaries' = Boundaries \cup {size'}
  BY <1>1 DEF Boundaries
<1>5. Tiled'
  <2>1. 0 \in Boundaries'
    BY <1>4 DEF Tiled
  <2>2. ASSUME NEW o \in DOMAIN ins'
        PROVE  o < size' /\ o + InsSize(ins'[o].op) \in Boundaries'
    <3>1. CASE o \in DOMAIN ins
      <4>1. o < size /\ o + InsSize(ins[o].op) \in Boundaries /\ o \in Nat
        BY <3>1 DEF Tiled, TypeOK
      <4>2. ins'[o] = ins[o]
        BY <1>1, <3>1
      <4> QED
        BY <1>1, <1>2, <1>4, <4>1, <4>2
    <3>2. CASE o = size
      BY <1>1, <1>2, <1>4, <3>2
    <3> QED
      BY <1>1, <3>1, <3>2
  <2> QED
    BY <2>1, <2>2 DEF Tiled
<1> QED
  BY <1>1, <1>2, <1>3, <1>4, <1>5

(* Emitting keeps targets and bodies on boundaries when a branch comes     *)
(* with a target on one, or a fixup, and a header opens its body.          *)
LEMMA EmitTiles ==
    ASSUME CodegenInv, NEW i \in Instruction \cup Header, Emit(i), UNCHANGED labels,
           i.op \in Branch => i.v \in Boundaries,
           \/ UNCHANGED fixups
           \/ i.op \in Branch /\ \E l, k : fixups' =
                  Append(fixups, [offset |-> size, label |-> l, stmt |-> k]),
           \/ i.op # "ON_CHAT" /\ UNCHANGED open
           \/ i.op = "ON_CHAT" /\ ~InBody /\ open' # NoBody /\ open'.header = size
    PROVE  Tiled' /\ TargetsTiled' /\ BodiesTiled'
<1>1. /\ DOMAIN ins' = DOMAIN ins \cup {size} /\ size \notin DOMAIN ins
      /\ \A o \in DOMAIN ins : ins'[o] = ins[o]
      /\ ins'[size] = i /\ Tiled'
      /\ Boundaries \subseteq Boundaries'
  BY EmitKeeps DEF CodegenInv
<1>2. TargetsTiled'
  <2>1. \A l \in DOMAIN labels' : labels'[l] \in Boundaries'
    BY <1>1 DEF CodegenInv, TargetsTiled
  <2>2. \A o \in DOMAIN ins' : ins'[o].op \in Branch => ins'[o].v \in Boundaries'
    BY <1>1 DEF CodegenInv, TargetsTiled
  <2>3. \A k \in 1 .. Len(fixups') : /\ fixups'[k].offset \in DOMAIN ins'
                                     /\ ins'[fixups'[k].offset].op \in Branch
    <3>1. CASE UNCHANGED fixups
      BY <1>1, <3>1 DEF CodegenInv, TargetsTiled
    <3>2. CASE i.op \in Branch /\ \E l, k : fixups' =
                  Append(fixups, [offset |-> size, label |-> l, stmt |-> k])
      <4>1. PICK l, k : fixups' =
                  Append(fixups, [offset |-> size, label |-> l, stmt |-> k])
        BY <3>2
      <4>2. fixups \in Seq([offset : Nat, label : Labels, stmt : 1 .. Len(src)])
        BY DEF CodegenInv, TypeOK
      <4>3. /\ Len(fixups') = Len(fixups) + 1 /\ Len(fixups) \in Nat
            /\ \A j \in 1 .. Len(fixups) : fixups'[j] = fixups[j]
            /\ fixups'[Len(fixups) + 1].offset = size
        BY <4>1, <4>2
      <4> QED
        BY <1>1, <3>2, <4>3 DEF CodegenInv, TargetsTiled
    <3> QED
      BY <3>1, <3>2
  <2> QED
    BY <2>1, <2>2, <2>3 DEF TargetsTiled
<1>3. BodiesTiled'
  <2> SUFFICES ASSUME NEW o \in DOMAIN ins', ins'[o].op = "ON_CHAT",
                      InBody' => o # open'.header
               PROVE  /\ ins'[o].off = o + InsSize("ON_CHAT")
                      /\ ins'[o].off + ins'[o].len \in Boundaries'
    BY DEF BodiesTiled
  <2>1. o # size
    BY <1>1 DEF InBody
  <2>2. o \in DOMAIN ins /\ ins'[o] = ins[o]
    BY <1>1, <2>1
  <2>3. InBody => o # open.header
    BY DEF InBody
  <2>4. ins[o].off = o + InsSize("ON_CHAT") /\ ins[o].off + ins[o].len \in Boundaries
    BY <2>2, <2>3 DEF CodegenInv, BodiesTiled
  <2> QED
    BY <1>1, <2>2, <2>4
<1> QED
  BY <1>1, <1>2, <1>3

(* Nothing that boundaries depend on changes. *)
LEMMA SameCode ==
    ASSUME Tiled, TargetsTiled, BodiesTiled, UNCHANGED <<ins, size, labels, fixups, open>>
    PROVE  Tiled' /\ TargetsTiled' /\ BodiesTiled'
  BY DEF Tiled, TargetsTiled, BodiesTiled, Boundaries, InBody

(* The statement after one walked in a body is still in the body. *)
LEMMA NextInBody ==
    ASSUME SInv, AtStmt, UNCHANGED <<src, phase, open>>, pos' = pos + 1,
           DOMAIN ins \subseteq DOMAIN ins', \A o \in DOMAIN ins : ins'[o].op = ins[o].op
    PROVE  OpenBody'
<1> SUFFICES ASSUME InBody'
             PROVE  /\ phase' = "emit"
                    /\ open'.header \in DOMAIN ins'
                    /\ ins'[open'.header].op = "ON_CHAT"
                    /\ \E k \in 1 .. Len(src') :
                          /\ src'[k].op = "ON_CHAT"
                          /\ open'.until = k + 1 + src'[k].body
                          /\ pos' \in (k + 1) .. open'.until
  BY DEF OpenBody
<1>1. InBody
  BY DEF InBody
<1>2. /\ open.header \in DOMAIN ins /\ ins[open.header].op = "ON_CHAT" /\ phase = "emit"
  BY <1>1 DEF SInv, CodegenInv, OpenBody
<1>3. PICK k \in 1 .. Len(src) : /\ src[k].op = "ON_CHAT"
                                 /\ open.until = k + 1 + src[k].body
                                 /\ pos \in (k + 1) .. open.until
  BY <1>1 DEF SInv, CodegenInv, OpenBody
<1>4. Len(src) \in Nat /\ pos < open.until /\ open.until \in Int
  BY <1>1, StatementTyped DEF AtStmt, SInv, CodegenInv, TypeOK
<1>5. pos' \in (k + 1) .. open'.until
  BY <1>3, <1>4
<1> QED
  BY <1>2, <1>3, <1>5

-----------------------------------------------------------------------------
(* Every step keeps the invariant.  An instruction other than ON_CHAT.     *)
LEMMA EmittedStep ==
    ASSUME SInv, AtStmt, NEW i \in Instruction \cup Header, Emit(i), i.op # "ON_CHAT",
           UNCHANGED <<src, phase, labels, errors, open>>, pos' = pos + 1,
           consts' \in Seq(Strings),
           i.op \in Branch => i.v \in Boundaries,
           \/ UNCHANGED fixups
           \/ i.op \in Branch /\ \E l \in Labels : fixups' =
                  Append(fixups, [offset |-> size, label |-> l, stmt |-> pos])
    PROVE  SInv'
<1>1. CodegenInv /\ TypeOK /\ Tiled
  BY DEF SInv, CodegenInv
<1>2. /\ DOMAIN ins' = DOMAIN ins \cup {size}
      /\ \A o \in DOMAIN ins : ins'[o] = ins[o]
      /\ DOMAIN ins' \subseteq Nat
      /\ \A o \in DOMAIN ins' : ins'[o] \in Instruction \cup Header
      /\ size' \in Nat
  BY <1>1, EmitKeeps
<1>3. Tiled' /\ TargetsTiled' /\ BodiesTiled'
  <2>1. \/ UNCHANGED fixups
        \/ i.op \in Branch /\ \E l, k : fixups' =
               Append(fixups, [offset |-> size, label |-> l, stmt |-> k])
    OBVIOUS
  <2> QED
    BY <1>1, <2>1, EmitTiles
<1>4. OpenBody'
  BY <1>2, NextInBody
<1>5. TypeOK'
  <2>1. pos' \in 1 .. (Len(src') + 1) /\ pos \in 1 .. Len(src)
    BY StatementTyped
  <2>2. fixups' \in Seq([offset : Nat, label : Labels, stmt : 1 .. Len(src')])
    <3> DEFINE F == [offset : Nat, label : Labels, stmt : 1 .. Len(src)]
    <3>1. fixups \in Seq(F) /\ size \in Nat
      BY <1>1 DEF TypeOK
    <3>2. \A l \in Labels : [offset |-> size, label |-> l, stmt |-> pos] \in F
      BY <2>1, <3>1
    <3> HIDE DEF F
    <3>3. UNCHANGED fixups => fixups' \in Seq(F)
      BY <3>1
    <3>4. ASSUME \E l \in Labels : fixups' =
                    Append(fixups, [offset |-> size, label |-> l, stmt |-> pos])
          PROVE  fixups' \in Seq(F)
      <4>1. PICK l \in Labels : fixups' =
                  Append(fixups, [offset |-> size, label |-> l, stmt |-> pos])
        BY <3>4
      <4> DEFINE g == [offset |-> size, label |-> l, stmt |-> pos]
      <4>2. g \in F /\ fixups' = Append(fixups, g)
        BY <3>2, <4>1
      <4> HIDE DEF g
      <4> QED
        BY <3>1, <4>2
    <3>5. fixups' \in Seq(F)
      BY <3>3, <3>4
    <3> QED
      BY <3>5 DEF F
  <2> QED
    BY <1>1, <1>2, <2>1, <2>2 DEF TypeOK
<1> QED
  BY <1>3, <1>4, <1>5 DEF SInv, CodegenInv

(* A statement that only records an error. *)
LEMMA FaultyStep ==
    ASSUME SInv, AtStmt, EmitNothing, Record(pos), pos' = pos + 1,
           UNCHANGED <<src, phase, consts, labels, fixups, open>>
    PROVE  SInv'
<1>1. Tiled' /\ TargetsTiled' /\ BodiesTiled'
  BY SameCode DEF SInv, CodegenInv, EmitNothing
<1>2. OpenBody'
  BY NextInBody DEF EmitNothing
<1>3. TypeOK'
  <2>1. pos' \in 1 .. (Len(src') + 1) /\ pos \in 1 .. Len(src)
    BY StatementTyped
  <2> QED
    BY <2>1 DEF SInv, CodegenInv, TypeOK, EmitNothing, Record
<1> QED
  BY <1>1, <1>2, <1>3 DEF SInv, CodegenInv

LEMMA EmitPlainStep == SInv /\ EmitPlain => SInv'
<1> SUFFICES ASSUME SInv, EmitPlain PROVE SInv'
  OBVIOUS
<1>1. AtStmt /\ Stmt \in Statement /\ Stmt.op \in Plain
  BY StatementTyped DEF EmitPlain
<1>2. CASE BadRegister(Stmt)
  BY <1>1, <1>2, FaultyStep DEF EmitPlain
<1>3. CASE ~BadRegister(Stmt)
  <2>1. Encoded(Stmt) \in Instruction /\ Encoded(Stmt).op \notin Branch \cup {"ON_CHAT"}
    BY <1>1, EncodedTyped
  <2>2. consts' \in Seq(Strings)
    BY DEF EmitPlain, SInv, CodegenInv, TypeOK
  <2> QED
    BY <1>1, <1>3, <2>1, <2>2, EmittedStep DEF EmitPlain
<1> QED
  BY <1>2, <1>3

LEMMA EmitStringStep == SInv /\ EmitString => SInv'
<1> SUFFICES ASSUME SInv, EmitString PROVE SInv'
  OBVIOUS
<1>1. AtStmt /\ Stmt \in Statement
  BY StatementTyped DEF EmitString
<1>2. CASE BadRegister(Stmt)
  BY <1>1, <1>2, FaultyStep DEF EmitString
<1>3. CASE ~BadRegister(Stmt)
  <2> DEFINE i == IF Stmt.op = "MOV_STR"
                  THEN Code("MOV_STR", Stmt.a, 0, ConstIndex(Stmt.s))
                  ELSE Code("SEND_CHAT", 0, 0, (WordSize \div 2) + ConstIndex(Stmt.s))
  <2>1. Emit(i) /\ AddConstant(Stmt.s) /\ UNCHANGED errors
    BY <1>3 DEF EmitString
  <2>2. ConstIndex(Stmt.s) \in Nat /\ consts' \in Seq(Strings)
    BY <1>1, <2>1, PoolTyped DEF SInv, CodegenInv, Statement
  <2>3. WordSize \div 2 \in Nat /\ Stmt.a \in Nat
    BY <1>1, WordSizeFacts DEF Statement
  <2>4. i \in Instruction /\ i.op \notin Branch \cup {"ON_CHAT"}
    <3>1. CASE Stmt.op = "MOV_STR"
      BY <2>2, <2>3, <3>1 DEF Code, Instruction, Opcodes, Branch, JumpOps
    <3>2. CASE Stmt.op # "MOV_STR"
      BY <2>2, <2>3, <3>2 DEF Code, Instruction, Opcodes, Branch, JumpOps
    <3> QED
      BY <3>1, <3>2
  <2> HIDE DEF i
  <2> QED
    BY <1>1, <2>1, <2>2, <2>4, EmittedStep DEF EmitString
<1> QED
  BY <1>2, <1>3

LEMMA EmitJumpStep == SInv /\ EmitJump => SInv'
<1> SUFFICES ASSUME SInv, EmitJump PROVE SInv'
  OBVIOUS
<1>1. AtStmt /\ Stmt \in Statement /\ Stmt.op \in Branch /\ Stmt.l \in Labels
  BY StatementTyped DEF EmitJump, Statement
<1> DEFINE i == Code(Stmt.op, 0, 0, 0)
<1>2. /\ i \in Instruction /\ i.op \in Branch
      /\ i.op # "ON_CHAT" /\ i.v = 0
  BY <1>1 DEF Code, Instruction, Opcodes, Branch, JumpOps
<1>3. i.v \in Boundaries /\ consts \in Seq(Strings)
  BY <1>2 DEF SInv, CodegenInv, Tiled, TypeOK
<1>4. Emit(i) /\ fixups' = Append(fixups, [offset |-> size, label |-> Stmt.l, stmt |-> pos])
  BY DEF EmitJump
<1> HIDE DEF i
<1> QED
  BY <1>1, <1>2, <1>3, <1>4, EmittedStep DEF EmitJump

LEMMA EmitLabelStep == SInv /\ EmitLabel => SInv'
<1> SUFFICES ASSUME SInv, EmitLabel PROVE SInv'
  OBVIOUS
<1>1. AtStmt /\ Stmt \in Statement /\ Stmt.l \in Labels
  BY StatementTyped DEF EmitLabel, Statement
<1>2. CASE Stmt.l \in DOMAIN labels
  BY <1>1, <1>2, FaultyStep DEF EmitLabel, EmitNothing
<1>3. CASE Stmt.l \notin DOMAIN labels
  <2>1. labels' = [l \in DOMAIN labels \cup {Stmt.l} |->
                      IF l = Stmt.l THEN size ELSE labels[l]]
    BY <1>3 DEF EmitLabel
  <2>2. UNCHANGED <<src, phase, ins, size, consts, fixups, errors, open>> /\ pos' = pos + 1
    BY <1>3 DEF EmitLabel
  <2>3. Tiled' /\ BodiesTiled'
    BY <2>2 DEF SInv, CodegenInv, Tiled, BodiesTiled, Boundaries, InBody
  <2>4. TargetsTiled'
    BY <2>1, <2>2 DEF SInv, CodegenInv, TargetsTiled, Boundaries
  <2>5. OpenBody'
    BY <1>1, <2>2, NextInBody
  <2>6. TypeOK'
    BY <1>1, <2>1, <2>2, StatementTyped DEF SInv, CodegenInv, TypeOK
  <2> QED
    BY <2>2, <2>3, <2>4, <2>5, <2>6 DEF SInv, CodegenInv
<1> QED
  BY <1>2, <1>3

(* The header opens its body, or counts as faulty and takes it along. *)
LEMMA BeginOnChatStep == SInv /\ BeginOnChat => SInv'
<1> SUFFICES ASSUME SInv, BeginOnChat PROVE SInv'
  OBVIOUS
<1>1. AtStmt /\ Stmt \in Statement /\ Stmt.op = "ON_CHAT" /\ Stmt.body \in Nat
  BY StatementTyped DEF BeginOnChat, Statement
<1>2. pos \in 1 .. Len(src) /\ Len(src) \in Nat
  BY <1>1, StatementTyped
<1>3. /\ pos + Stmt.body <= Len(src)
      /\ \A j \in (pos + 1) .. (pos + Stmt.body) : src[j].op # "ON_CHAT"
  BY <1>1, <1>2 DEF SInv, Stmt, IsProgram, TopLevel
<1>4. ~InBody
  <2> SUFFICES ASSUME InBody PROVE FALSE
    OBVIOUS
  <2>1. PICK k \in 1 .. Len(src) : /\ src[k].op = "ON_CHAT"
                                   /\ open.until = k + 1 + src[k].body
                                   /\ pos \in (k + 1) .. open.until
    BY DEF SInv, CodegenInv, OpenBody
  <2>2. src \in Seq(Statement)
    BY DEF SInv, IsProgram
  <2>3. src[k].body \in Nat
    <3>1. src[k] \in Statement
      BY <2>1, <2>2
    <3> QED
      BY <3>1 DEF Statement
  <2>4. pos \in (k + 1) .. (k + src[k].body)
    BY <1>1, <2>1, <2>3 DEF AtStmt
  <2> QED
    BY <1>1, <2>1, <2>4 DEF SInv, Stmt, IsProgram, TopLevel
<1>5. consts' \in Seq(Strings) /\ ConstIndex(Stmt.s) \in Nat
  BY <1>1, PoolTyped DEF BeginOnChat, SInv, CodegenInv, Statement
<1>6. UNCHANGED <<src, phase, labels, fixups>>
  BY DEF BeginOnChat
<1>7. CASE BadRegister(Stmt)
  <2>1. UNCHANGED <<ins, size, open>> /\ errors' = errors \cup {pos} /\ pos' = pos + 1 + Stmt.body
    BY <1>7 DEF BeginOnChat, EmitNothing, Record
  <2>2. Tiled' /\ TargetsTiled' /\ BodiesTiled'
    BY <1>6, <2>1, SameCode DEF SInv, CodegenInv
  <2>3. OpenBody'
    BY <1>4, <2>1 DEF OpenBody, InBody
  <2>4. TypeOK'
    <3>1. pos' \in 1 .. (Len(src) + 1)
      BY <1>1, <1>2, <1>3, <2>1
    <3>2. errors' \subseteq 1 .. Len(src)
      BY <1>2, <2>1 DEF SInv, CodegenInv, TypeOK
    <3> QED
      BY <1>5, <1>6, <2>1, <3>1, <3>2 DEF SInv, CodegenInv, TypeOK
  <2> QED
    BY <1>6, <2>2, <2>3, <2>4 DEF SInv, CodegenInv
<1>8. CASE ~BadRegister(Stmt)
  <2> DEFINE i == [op |-> "ON_CHAT", a |-> Stmt.a, b |-> 0, v |-> ConstIndex(Stmt.s),
                   off |-> 0, len |-> 0]
  <2>1. /\ Emit(i) /\ pos' = pos + 1 /\ UNCHANGED errors
        /\ open' = [header |-> size, until |-> pos + 1 + Stmt.body]
    BY <1>8 DEF BeginOnChat
  <2>2. i \in Header /\ i.op = "ON_CHAT" /\ i.op \notin Branch
    BY <1>1, <1>5 DEF Header, Statement, Branch, JumpOps
  <2>3. open' # NoBody
    BY <1>1, <1>2, <2>1 DEF NoBody
  <2> HIDE DEF i
  <2>4. /\ DOMAIN ins' = DOMAIN ins \cup {size} /\ ins'[size] = i
        /\ DOMAIN ins' \subseteq Nat
        /\ \A o \in DOMAIN ins' : ins'[o] \in Instruction \cup Header
        /\ size' \in Nat
    BY <2>1, <2>2, EmitKeeps DEF SInv, CodegenInv
  <2>5. Tiled' /\ TargetsTiled' /\ BodiesTiled'
    BY <1>4, <1>6, <2>1, <2>2, <2>3, EmitTiles DEF SInv, CodegenInv
  <2>6. OpenBody'
    <3>1. pos' \in (pos + 1) .. open'.until /\ open'.until = pos + 1 + src'[pos].body
      BY <1>1, <1>2, <1>6, <2>1 DEF Stmt
    <3>2. src'[pos].op = "ON_CHAT" /\ pos \in 1 .. Len(src') /\ phase' = "emit"
      BY <1>1, <1>2, <1>6 DEF Stmt, AtStmt
    <3>3. open'.header \in DOMAIN ins' /\ ins'[open'.header].op = "ON_CHAT"
      BY <2>1, <2>2, <2>4
    <3> QED
      BY <3>1, <3>2, <3>3 DEF OpenBody
  <2>7. TypeOK'
    <3>1. pos' \in 1 .. (Len(src) + 1)
      BY <1>2, <2>1
    <3>2. open' \in [header : Nat, until : 0 .. (Len(src) + 1)]
      BY <1>1, <1>2, <1>3, <2>1 DEF SInv, CodegenInv, TypeOK
    <3> QED
      BY <1>5, <1>6, <2>1, <2>4, <3>1, <3>2 DEF SInv, CodegenInv, TypeOK
  <2> QED
    BY <1>6, <2>5, <2>6, <2>7 DEF SInv, CodegenInv
<1> QED
  BY <1>7, <1>8

LEMMA EndOnChatStep == SInv /\ EndOnChat => SInv'
<1> SUFFICES ASSUME SInv, EndOnChat PROVE SInv'
  OBVIOUS
<1> DEFINE h == open.header
<1>1. /\ InBody /\ open' = NoBody
      /\ UNCHANGED <<src, phase, pos, size, consts, labels, fixups, errors>>
      /\ ins' = [ins EXCEPT ![h].off = BodyStart, ![h].len = size - BodyStart]
  BY DEF EndOnChat
<1>2. h \in DOMAIN ins /\ ins[h].op = "ON_CHAT" /\ h \in Nat /\ size \in Nat
  BY <1>1 DEF SInv, CodegenInv, OpenBody, TypeOK
<1>3. ins[h] \in Header
  BY <1>2 DEF SInv, CodegenInv, TypeOK, Instruction, Opcodes, TwoRegister, AluOps, Branch, JumpOps
<1>4. BodyStart = h + 14 /\ InsSize("ON_CHAT") = 14
  BY DEF BodyStart, InsSize, AluOps, JumpOps
<1>5. BodyStart <= size
  <2>1. h + 14 \in Boundaries
    BY <1>2, <1>4 DEF SInv, CodegenInv, Tiled
  <2> QED
    BY <1>4, <2>1 DEF SInv, CodegenInv, Tiled, TypeOK, Boundaries
<1>6. /\ DOMAIN ins' = DOMAIN ins
      /\ \A o \in DOMAIN ins : o # h => ins'[o] = ins[o]
      /\ ins'[h] \in Header
      /\ ins'[h].off = h + 14 /\ ins'[h].off + ins'[h].len = size
  <2>1. ins'[h] = [ins[h] EXCEPT !.off = BodyStart, !.len = size - BodyStart]
    BY <1>1, <1>2
  <2>2. DOMAIN ins' = DOMAIN ins /\ \A o \in DOMAIN ins : o # h => ins'[o] = ins[o]
    BY <1>1
  <2>3. /\ ins'[h].off = BodyStart /\ ins'[h].len = size - BodyStart
        /\ ins'[h] \in Header
    <3>1. BodyStart \in Nat /\ size - BodyStart \in Nat
      BY <1>2, <1>4, <1>5
    <3> HIDE DEF h
    <3> QED
      BY <1>3, <2>1, <3>1 DEF Header
  <2>4. (h + 14) + (size - (h + 14)) = size
    BY <1>2
  <2> QED
    BY <1>4, <2>2, <2>3, <2>4
<1>7. \A o \in DOMAIN ins : ins'[o].op = ins[o].op
  BY <1>2, <1>6 DEF Header
<1>8. Boundaries' = Boundaries /\ size \in Boundaries
  BY <1>1, <1>6 DEF Boundaries
<1> HIDE DEF h
<1>9. Tiled'
  BY <1>1, <1>6, <1>7, <1>8 DEF SInv, CodegenInv, Tiled
<1>10. TargetsTiled'
  <2>1. \A o \in DOMAIN ins' : ins'[o].op \in Branch => ins'[o] = ins[o]
    BY <1>2, <1>6, <1>7 DEF Branch, JumpOps
  <2> QED
    BY <1>1, <1>6, <1>7, <1>8, <2>1 DEF SInv, CodegenInv, TargetsTiled
<1>11. BodiesTiled'
  <2> SUFFICES ASSUME NEW o \in DOMAIN ins', ins'[o].op = "ON_CHAT"
               PROVE  /\ ins'[o].off = o + InsSize("ON_CHAT")
                      /\ ins'[o].off + ins'[o].len \in Boundaries'
    BY DEF BodiesTiled
  <2>1. CASE o = h
    BY <1>1, <1>4, <1>6, <1>8, <2>1
  <2>2. CASE o # h
    BY <1>6, <1>8, <2>2 DEF SInv, CodegenInv, BodiesTiled, h
  <2> QED
    BY <2>1, <2>2
<1>12. OpenBody'
  BY <1>1 DEF OpenBody, InBody
<1>13. TypeOK'
  <2>1. \A o \in DOMAIN ins' : ins'[o] \in Instruction \cup Header
    BY <1>6 DEF SInv, CodegenInv, TypeOK
  <2>2. open' \in [header : Nat, until : 0 .. (Len(src') + 1)]
    BY <1>1 DEF NoBody, SInv, CodegenInv, TypeOK
  <2> QED
    BY <1>1, <1>6, <2>1, <2>2 DEF SInv, CodegenInv, TypeOK
<1> QED
  BY <1>1, <1>9, <1>10, <1>11, <1>12, <1>13 DEF SInv, CodegenInv

LEMMA ResolveStep == SInv /\ Resolve => SInv'
<1> SUFFICES ASSUME SInv, Resolve PROVE SInv'
  OBVIOUS
<1> DEFINE f == Head(fixups)
           F == [offset : Nat, label : Labels, stmt : 1 .. Len(src)]
<1>1. /\ fixups # <<>> /\ fixups' = Tail(fixups)
      /\ UNCHANGED <<src, phase, pos, size, consts, labels, open>>
  BY DEF Resolve
<1>2. fixups \in Seq(F)
  BY DEF SInv, CodegenInv, TypeOK
<1>3. /\ f \in F /\ f.offset \in Nat /\ f.stmt \in 1 .. Len(src)
      /\ f.offset \in DOMAIN ins /\ ins[f.offset].op \in Branch
  <2>1. 1 \in 1 .. Len(fixups) /\ f = fixups[1] /\ f \in F
    <3> HIDE DEF F
    <3> QED
      BY <1>1, <1>2
  <2> QED
    BY <2>1 DEF SInv, CodegenInv, TargetsTiled
<1>4. /\ fixups' \in Seq(F) /\ Len(fixups') = Len(fixups) - 1 /\ Len(fixups) \in Nat
      /\ \A k \in 1 .. Len(fixups') : fixups'[k] = fixups[k + 1]
  <2> HIDE DEF F
  <2> QED
    BY <1>1, <1>2
<1> HIDE DEF f
<1>5. /\ DOMAIN ins' = DOMAIN ins
      /\ \A o \in DOMAIN ins : o # f.offset => ins'[o] = ins[o]
      /\ ins'[f.offset] \in Instruction
      /\ ins'[f.offset].op = ins[f.offset].op
      /\ ins'[f.offset].v \in Boundaries
      /\ errors' \subseteq 1 .. Len(src)
  <2>1. ins[f.offset] \in Instruction
    BY <1>3 DEF SInv, CodegenInv, TypeOK, Header, Branch, JumpOps
  <2>2. CASE f.label \in DOMAIN labels
    <3>1. ins' = [ins EXCEPT ![f.offset].v = labels[f.label]] /\ UNCHANGED errors
      BY <2>2 DEF Resolve, Target, f
    <3>2. labels[f.label] \in Boundaries
      BY <2>2 DEF SInv, CodegenInv, TargetsTiled
    <3>3. labels[f.label] \in Nat
      BY <3>2 DEF Boundaries, SInv, CodegenInv, TypeOK
    <3>4. ins'[f.offset] = [ins[f.offset] EXCEPT !.v = labels[f.label]]
      BY <1>3, <3>1
    <3> QED
      BY <1>3, <2>1, <3>1, <3>2, <3>3, <3>4 DEF Instruction, SInv, CodegenInv, TypeOK
  <2>3. CASE f.label \notin DOMAIN labels
    <3>1. UNCHANGED ins /\ errors' = errors \cup {f.stmt}
      BY <2>3 DEF Resolve, Record, f
    <3> QED
      BY <1>3, <2>1, <3>1 DEF SInv, CodegenInv, TypeOK, TargetsTiled
  <2> QED
    BY <2>2, <2>3
<1>6. \A o \in DOMAIN ins : ins'[o].op = ins[o].op
  BY <1>5
<1>7. Boundaries' = Boundaries
  BY <1>1, <1>5 DEF Boundaries
<1>8. Tiled'
  BY <1>1, <1>5, <1>6, <1>7 DEF SInv, CodegenInv, Tiled
<1>9. TargetsTiled'
  <2>1. \A o \in DOMAIN ins' : ins'[o].op \in Branch => ins'[o].v \in Boundaries'
    BY <1>5, <1>6, <1>7 DEF SInv, CodegenInv, TargetsTiled
  <2>2. \A k \in 1 .. Len(fixups') : /\ fixups'[k].offset \in DOMAIN ins'
                                     /\ ins'[fixups'[k].offset].op \in Branch
    <3> SUFFICES ASSUME NEW k \in 1 .. Len(fixups')
                 PROVE  /\ fixups'[k].offset \in DOMAIN ins'
                        /\ ins'[fixups'[k].offset].op \in Branch
      OBVIOUS
    <3>1. k + 1 \in 1 .. Len(fixups) /\ fixups'[k] = fixups[k + 1]
      BY <1>4
    <3>2. fixups[k + 1].offset \in DOMAIN ins /\ ins[fixups[k + 1].offset].op \in Branch
      BY <3>1 DEF SInv, CodegenInv, TargetsTiled
    <3> QED
      BY <1>5, <1>6, <3>1, <3>2
  <2> QED
    BY <1>1, <1>7, <2>1, <2>2 DEF SInv, CodegenInv, TargetsTiled
<1>10. BodiesTiled'
  <2>1. \A o \in DOMAIN ins : ins[o].op = "ON_CHAT" => ins'[o] = ins[o]
    BY <1>3, <1>5 DEF Branch, JumpOps
  <2> QED
    BY <1>1, <1>5, <1>6, <1>7, <2>1 DEF SInv, CodegenInv, BodiesTiled, InBody
<1>11. OpenBody'
  BY <1>1 DEF Resolve, SInv, CodegenInv, OpenBody, InBody
<1>12. TypeOK'
  <2>1. \A o \in DOMAIN ins' : ins'[o] \in Instruction \cup Header
    BY <1>5 DEF SInv, CodegenInv, TypeOK
  <2>2. fixups' \in Seq([offset : Nat, label : Labels, stmt : 1 .. Len(src')])
    BY <1>1, <1>4
  <2> QED
    BY <1>1, <1>5, <2>1, <2>2 DEF SInv, CodegenInv, TypeOK
<1> QED
  BY <1>1, <1>8, <1>9, <1>10, <1>11, <1>12 DEF SInv, CodegenInv

LEMMA NewSInv == IsProgram(src) /\ New => SInv
<1> SUFFICES ASSUME IsProgram(src), New PROVE SInv
  OBVIOUS
<1>1. src \in Seq(Statement)
  BY DEF IsProgram
<1>2. DOMAIN ins = {} /\ DOMAIN labels = {} /\ size = 0 /\ fixups = <<>> /\ ~InBody
  BY DEF New, InBody
<1>3. TypeOK
  <2>1. open \in [header : Nat, until : 0 .. (Len(src) + 1)] /\ pos \in 1 .. (Len(src) + 1)
    BY <1>1 DEF New, NoBody
  <2>2. /\ consts \in Seq(Strings)
        /\ fixups \in Seq([offset : Nat, label : Labels, stmt : 1 .. Len(src)])
    BY DEF New
  <2> QED
    BY <1>2, <2>1, <2>2 DEF TypeOK, New
<1>4. Tiled /\ TargetsTiled /\ BodiesTiled /\ OpenBody
  BY <1>2 DEF Tiled, TargetsTiled, BodiesTiled, OpenBody, Boundaries
<1> QED
  BY <1>3, <1>4 DEF SInv, CodegenInv

LEMMA InitSInv == Init => SInv
  BY NewSInv, CodegenAssumption DEF Init

LEMMA Step == SInv /\ [Next]_vars => SInv'
<1> SUFFICES ASSUME SInv, [Next]_vars PROVE SInv'
  OBVIOUS
<1>1. ASSUME UNCHANGED <<src, walk>>, phase' \in {"patch", "refused", "written", "loaded", phase},
             phase' = phase \/ ~InBody
      PROVE  SInv'
  <2>1. UNCHANGED <<src, pos, ins, size, consts, labels, fixups, errors, open>>
    BY <1>1 DEF walk
  <2>2. Tiled' /\ TargetsTiled' /\ BodiesTiled'
    BY <2>1, SameCode DEF SInv, CodegenInv
  <2>3. OpenBody'
    BY <1>1, <2>1 DEF SInv, CodegenInv, OpenBody, InBody
  <2>4. TypeOK'
    BY <1>1, <2>1 DEF SInv, CodegenInv, TypeOK
  <2> QED
    BY <2>1, <2>2, <2>3, <2>4 DEF SInv, CodegenInv
<1>2. CASE EmitPlain
  BY <1>2, EmitPlainStep
<1>3. CASE EmitString
  BY <1>3, EmitStringStep
<1>4. CASE EmitLabel
  BY <1>4, EmitLabelStep
<1>5. CASE EmitJump
  BY <1>5, EmitJumpStep
<1>6. CASE BeginOnChat
  BY <1>6, BeginOnChatStep
<1>7. CASE EndOnChat
  BY <1>7, EndOnChatStep
<1>8. CASE Resolve
  BY <1>8, ResolveStep
<1>9. CASE EndWalk
  BY <1>1, <1>9 DEF EndWalk
<1>10. CASE Refuse \/ WriteFile \/ LoadFile
  <2>1. ~InBody
    BY <1>10 DEF Refuse, WriteFile, LoadFile, SInv, CodegenInv, OpenBody
  <2> QED
    BY <1>1, <1>10, <2>1 DEF Refuse, WriteFile, LoadFile
<1>11. CASE UNCHANGED vars
  BY <1>1, <1>11 DEF vars
<1> QED
  BY <1>2, <1>3, <1>4, <1>5, <1>6, <1>7, <1>8, <1>9, <1>10, <1>11 DEF Next

LEMMA SInvWellFormed == SInv => EmitsWellFormed
<1> SUFFICES ASSUME SInv, phase \in {"written", "loaded"}, size < WordSize
             PROVE  WellFormed(Compiled)
  BY DEF EmitsWellFormed
<1>1. ~InBody
  BY DEF SInv, CodegenInv, OpenBody
<1>2. Compiled.ins = ins /\ Compiled.size = size
  BY DEF Compiled
<1>3. DOMAIN ins \subseteq Nat /\ size \in Nat
  BY DEF SInv, CodegenInv, TypeOK
<1>4. \A p \in Boundaries : Fetchable(Compiled, p) /\ p \in Nat /\ p <= size
  BY <1>2, <1>3 DEF Boundaries, Fetchable, SInv, CodegenInv, Tiled
<1>5. ASSUME NEW o \in DOMAIN ins
      PROVE  InstructionOK(Compiled, o)
  <2>1. ins[o] \in Instruction \cup Header /\ o \in Nat
    BY DEF SInv, CodegenInv, TypeOK
  <2>2. ins[o].a \in Nat /\ ins[o].v \in Nat
    BY <2>1 DEF Instruction, Header
  <2>3. Fetchable(Compiled, o + InsSize(ins[o].op))
    BY <1>4 DEF SInv, CodegenInv, Tiled
  <2>4. ins[o].op \in Branch => Fetchable(Compiled, ins[o].v)
    BY <1>4 DEF SInv, CodegenInv, TargetsTiled
  <2>5. ASSUME ins[o].op = "ON_CHAT"
        PROVE  /\ ins[o].off \in Nat /\ ins[o].len \in Nat
               /\ Fetchable(Compiled, ins[o].off)
               /\ Fetchable(Compiled, (o + InsSize("ON_CHAT") + ins[o].len) % WordSize)
    <3>1. ins[o] \in Header
      BY <2>1, <2>5 DEF Instruction, Opcodes, TwoRegister, AluOps, Branch, JumpOps
    <3>2. ins[o].off \in Nat /\ ins[o].len \in Nat
      BY <3>1 DEF Header
    <3>3. /\ ins[o].off = o + InsSize("ON_CHAT")
          /\ ins[o].off + ins[o].len \in Boundaries
      BY <1>1, <2>5 DEF SInv, CodegenInv, BodiesTiled
    <3>4. ins[o].off \in Boundaries
      BY <2>5, <3>3 DEF SInv, CodegenInv, Tiled
    <3>5. o + InsSize("ON_CHAT") + ins[o].len \in 0 .. (WordSize - 1)
      BY <1>3, <1>4, <3>2, <3>3, WordSizeFacts
    <3>6. (o + InsSize("ON_CHAT") + ins[o].len) % WordSize
             = o + InsSize("ON_CHAT") + ins[o].len
      <4> DEFINE e == o + InsSize("ON_CHAT") + ins[o].len
      <4> HIDE DEF e
      <4>1. e \in 0 .. (WordSize - 1) => e % WordSize = e
        BY WordSizeFacts
      <4> QED
        BY <3>5, <4>1 DEF e
    <3> QED
      BY <1>4, <3>2, <3>3, <3>4, <3>6
  <2> QED
    BY <1>2, <2>2, <2>3, <2>4, <2>5 DEF InstructionOK, Branch
<1>6. Fetchable(Compiled, 0)
  BY <1>4 DEF SInv, CodegenInv, Tiled
<1> QED
  BY <1>2, <1>3, <1>5, <1>6 DEF WellFormed

-----------------------------------------------------------------------------
(* Between any two emitters, for every set of parsed programs: the         *)
(* instructions tile the code, labels, targets and finished bodies lie on  *)
(* instruction boundaries, and every fixup and the open body's header are  *)
(* where the emitters left them (codegen.go:138-177, 288-325, 371-453).    *)
THEOREM CodegenInvariant == Spec => []CodegenInv
<1>1. Init => SInv
  BY InitSInv
<1>2. SInv /\ [Next]_vars => SInv'
  BY Step
<1>3. SInv => CodegenInv
  BY DEF SInv
<1> QED
  BY <1>1, <1>2, <1>3, PTL DEF Spec

(* Every program the compiler writes is well formed, which is all that     *)
(* FluxVM assumes of the programs it runs: the theorem ControlSafe of      *)
(* FluxVMProofs holds of everything this compiler compiles.                *)
THEOREM CompiledWellFormed == Spec => []EmitsWellFormed
<1>1. Init => SInv
  BY InitSInv
<1>2. SInv /\ [Next]_vars => SInv'
  BY Step
<1>3. SInv => EmitsWellFormed
  BY SInvWellFormed
<1> QED
  BY <1>1, <1>2, <1>3, PTL DEF Spec

(* What lies in the file and in the machine, and nothing is written twice. *)
FileInv ==
    /\ consts \in Seq(Strings)
    /\ phase = "written" => file = [count |-> Len(consts) % CountLimit, consts |-> consts,
                                    ins |-> ins, size |-> size]
    /\ phase = "loaded" => vm = [ins |-> ins, size |-> size,
                                 consts |-> SubSeq(consts, 1, Len(consts) % CountLimit)]

LEMMA FileInvStep == SInv /\ FileInv /\ [Next]_vars => FileInv'
<1> SUFFICES ASSUME SInv, FileInv, [Next]_vars PROVE FileInv'
  OBVIOUS
<1>1. consts' \in Seq(Strings)
  BY Step DEF SInv, CodegenInv, TypeOK
<1>2. CASE phase' \notin {"written", "loaded"}
  BY <1>1, <1>2 DEF FileInv
<1>3. CASE WriteFile
  BY <1>1, <1>3 DEF WriteFile, walk, FileInv
<1>4. CASE LoadFile
  <2>1. /\ phase' = "loaded" /\ UNCHANGED <<consts, ins, size>>
        /\ file.count = Len(consts) % CountLimit /\ file.consts = consts
        /\ file.ins = ins /\ file.size = size
    BY <1>4 DEF LoadFile, walk, FileInv
  <2>2. vm' = [ins |-> file.ins, size |-> file.size,
               consts |-> SubSeq(file.consts, 1, file.count)]
    BY <1>4 DEF LoadFile
  <2>3. vm' = [ins |-> ins, size |-> size,
               consts |-> SubSeq(consts, 1, Len(consts) % CountLimit)]
    BY <2>1, <2>2
  <2> QED
    BY <1>1, <2>1, <2>3 DEF FileInv
<1>5. CASE UNCHANGED vars
  BY <1>5 DEF vars, walk, FileInv
<1>6. ASSUME EmitPlain \/ EmitString \/ EmitLabel \/ EmitJump \/ BeginOnChat \/ EndOnChat
             \/ EndWalk \/ Resolve \/ Refuse
      PROVE  phase' \notin {"written", "loaded"}
  BY <1>6 DEF EmitPlain, EmitString, EmitLabel, EmitJump, BeginOnChat, EndOnChat,
              EndWalk, Resolve, Refuse, AtStmt
<1> QED
  BY <1>2, <1>3, <1>4, <1>5, <1>6 DEF Next

-----------------------------------------------------------------------------
(* ErrorsExact.  What is skipped and what defines a label is the source's  *)
(* own; the walk is never at a statement that is skipped.                  *)
FaultInv == Phases /\ FixupsRefer /\ FaultsFound

LEMMA SourceFixed ==
    ASSUME UNCHANGED src
    PROVE  /\ \A k : Skipped(k)' <=> Skipped(k)
           /\ \A k, l : Defines(k, l)' <=> Defines(k, l)
  BY DEF Skipped, Defines

LEMMA SourceTyped ==
    ASSUME SInv
    PROVE  /\ src \in Seq(Statement) /\ Len(src) \in Nat
           /\ \A k \in 1 .. Len(src) :
                 src[k] \in Statement /\ src[k].l \in Labels /\ src[k].body \in Nat
           /\ pos \in 1 .. (Len(src) + 1)
<1>1. src \in Seq(Statement)
  BY DEF SInv, IsProgram
<1>2. \A k \in 1 .. Len(src) : src[k] \in Statement
  BY <1>1
<1>3. \A st \in Statement : st.l \in Labels /\ st.body \in Nat
  BY DEF Statement
<1>4. Len(src) \in Nat
  BY <1>1
<1> QED
  BY <1>1, <1>2, <1>3, <1>4 DEF SInv, CodegenInv, TypeOK

LEMMA FixupTyped ==
    ASSUME SInv
    PROVE  /\ Len(fixups) \in Nat
           /\ \A i \in 1 .. Len(fixups) :
                 fixups[i].stmt \in 1 .. Len(src) /\ fixups[i].stmt \in Nat
<1> DEFINE F == [offset : Nat, label : Labels, stmt : 1 .. Len(src)]
<1>1. fixups \in Seq(F)
  BY DEF SInv, CodegenInv, TypeOK
<1>2. \A f \in F : f.stmt \in 1 .. Len(src)
  OBVIOUS
<1> HIDE DEF F
<1>3. Len(fixups) \in Nat /\ \A i \in 1 .. Len(fixups) : fixups[i] \in F
  BY <1>1
<1> QED
  BY <1>2, <1>3, SourceTyped

LEMMA NotSkippedNext ==
    ASSUME SInv, AtStmt, ~Skipped(pos), ~(Stmt.op = "ON_CHAT" /\ BadRegister(Stmt))
    PROVE  ~Skipped(pos + 1)
<1> SUFFICES ASSUME NEW h \in 1 .. ((pos + 1) - 1),
                    src[h].op = "ON_CHAT", BadRegister(src[h]), pos + 1 <= h + src[h].body
             PROVE  FALSE
  BY DEF Skipped
<1>1. pos \in 1 .. Len(src) /\ Len(src) \in Nat
  BY StatementTyped
<1>2. h # pos
  BY DEF Stmt
<1>3. h \in 1 .. (pos - 1) /\ src[h].body \in Nat
  BY <1>1, <1>2, SourceTyped
<1> QED
  BY <1>1, <1>3 DEF Skipped

(* Bodies do not nest, so the walk goes on right behind a skipped one.     *)
LEMMA SkipsBody ==
    ASSUME SInv, AtStmt, ~Skipped(pos), Stmt.op = "ON_CHAT", BadRegister(Stmt)
    PROVE  /\ pos + Stmt.body <= Len(src) /\ Stmt.body \in Nat
           /\ \A j \in (pos + 1) .. (pos + Stmt.body) : Skipped(j)
           /\ ~Skipped(pos + 1 + Stmt.body)
<1>1. pos \in 1 .. Len(src) /\ Len(src) \in Nat /\ Stmt.body \in Nat
  BY StatementTyped, SourceTyped DEF Stmt
<1>2. /\ pos + Stmt.body <= Len(src)
      /\ \A j \in (pos + 1) .. (pos + Stmt.body) : src[j].op # "ON_CHAT"
  BY <1>1 DEF SInv, Stmt, IsProgram, TopLevel
<1>3. ASSUME NEW j \in (pos + 1) .. (pos + Stmt.body) PROVE Skipped(j)
  <2>1. pos \in 1 .. (j - 1) /\ j <= pos + src[pos].body
    BY <1>1 DEF Stmt
  <2> QED
    BY <2>1 DEF Skipped, Stmt
<1>4. ASSUME NEW h \in 1 .. ((pos + 1 + Stmt.body) - 1), src[h].op = "ON_CHAT",
             BadRegister(src[h]), pos + 1 + Stmt.body <= h + src[h].body
      PROVE  FALSE
  <2>1. h # pos
    BY <1>1, <1>4 DEF Stmt
  <2>2. h \notin (pos + 1) .. (pos + Stmt.body)
    BY <1>2, <1>4
  <2>3. h \in 1 .. (pos - 1)
    BY <1>1, <2>1, <2>2
  <2>4. src[h].body \in Nat
    BY <1>1, <2>3, SourceTyped
  <2> QED
    BY <1>1, <1>4, <2>3, <2>4 DEF Skipped
<1> QED
  BY <1>1, <1>2, <1>3, <1>4 DEF Skipped

(* During the walk every branch walked is pending. *)
LEMMA FoundEarly ==
    ASSUME SInv, FaultInv, phase = "emit"
    PROVE  \A k \in 1 .. (pos - 1) :
              k \in errors <=> /\ ~Skipped(k)
                               /\ \/ BadRegister(src[k])
                                  \/ /\ src[k].op = "LABEL"
                                     /\ \E j \in 1 .. (k - 1) : Defines(j, src[k].l)
  BY DEF FaultInv, FaultsFound, Found

(* A walked statement: what must be known of errors, labels and fixups.    *)
LEMMA WalkedStep ==
    ASSUME SInv, FaultInv, UNCHANGED <<src, phase>>, phase = "emit",
           pos' \in (pos + 1) .. (Len(src) + 1), ~Skipped(pos'),
           \A j \in (pos + 1) .. (pos' - 1) : Skipped(j),
           Pending' = Pending \cup {k \in {pos} : src[k].op \in Branch},
           FixupsRefer',
           \A l \in Labels : l \in DOMAIN labels' <=> l \in DOMAIN labels \/ Defines(pos, l),
           errors' = errors \cup {k \in {pos} : BadRegister(src[k]) \/
                                    (src[k].op = "LABEL" /\ src[k].l \in DOMAIN labels)}
    PROVE  FaultInv'
<1>0. pos \in 1 .. Len(src) /\ Len(src) \in Nat /\ pos' \in Nat /\ pos \in Nat
  BY SourceTyped
<1>1. /\ \A k : Skipped(k)' <=> Skipped(k)
      /\ \A k, l : Defines(k, l)' <=> Defines(k, l)
  BY SourceFixed
<1>2. Phases'
  BY <1>0 DEF Phases, FaultInv
<1>3. 1 .. (pos' - 1) = (1 .. (pos - 1)) \cup {pos} \cup ((pos + 1) .. (pos' - 1))
  BY <1>0
<1>4. ASSUME NEW l \in Labels
      PROVE  l \in DOMAIN labels' <=> \E j \in 1 .. (pos' - 1) : Defines(j, l)
  <2>1. \A j \in (pos + 1) .. (pos' - 1) : ~Defines(j, l)
    BY DEF Defines
  <2> QED
    BY <1>3, <2>1 DEF FaultInv, FaultsFound
<1>5. ASSUME NEW k \in 1 .. (pos' - 1), src[k].op \in Branch, ~Skipped(k)
      PROVE  k \in Pending'
  BY <1>3, <1>5 DEF FaultInv, FaultsFound
<1>6. errors' = {k \in 1 .. (pos' - 1) : Found(k)'}
  <2>1. errors' \subseteq 1 .. (pos' - 1)
    BY <1>0, <1>3 DEF FaultInv, FaultsFound
  <2>2. ASSUME NEW k \in 1 .. (pos' - 1) PROVE k \in errors' <=> Found(k)'
    <3>1. Found(k)' <=> /\ ~Skipped(k)
                        /\ \/ BadRegister(src[k])
                           \/ /\ src[k].op = "LABEL"
                              /\ \E j \in 1 .. (k - 1) : Defines(j, src[k].l)
      BY <1>1, <1>5 DEF Found
    <3>2. CASE k \in 1 .. (pos - 1)
      BY <1>0, <3>1, <3>2, FoundEarly
    <3>3. CASE k = pos
      <4>1. pos \notin errors /\ ~Skipped(pos) /\ src[pos].l \in Labels
        BY <1>0, SourceTyped DEF FaultInv, FaultsFound
      <4>2. src[pos].l \in DOMAIN labels <=> \E j \in 1 .. (pos - 1) : Defines(j, src[pos].l)
        BY <4>1 DEF FaultInv, FaultsFound
      <4> QED
        BY <3>1, <3>3, <4>1, <4>2
    <3>4. CASE k \in (pos + 1) .. (pos' - 1)
      <4>1. k \notin errors /\ k # pos
        BY <1>0, <3>4 DEF FaultInv, FaultsFound
      <4> QED
        BY <3>1, <3>4, <4>1
    <3> QED
      BY <1>3, <3>2, <3>3, <3>4
  <2> QED
    BY <2>1, <2>2
<1>7. FaultsFound'
  BY <1>1, <1>4, <1>5, <1>6 DEF FaultsFound
<1> QED
  BY <1>2, <1>7 DEF FaultInv

(* Fixups refer to what they referred to. *)
LEMMA SameFixups ==
    ASSUME SInv, FixupsRefer, UNCHANGED <<src, fixups>>, pos' \in Nat, pos' >= pos
    PROVE  FixupsRefer' /\ Pending' = Pending
<1>1. \A k : Skipped(k)' <=> Skipped(k)
  BY SourceFixed
<1>2. Pending' = Pending
  BY DEF Pending
<1>4. \A i \in 1 .. Len(fixups) : fixups[i].stmt \in 1 .. Len(src)
  BY FixupTyped
<1>5. pos \in Nat /\ Len(src) \in Nat
  BY SourceTyped
<1>6. \A i \in 1 .. Len(fixups) : fixups[i].stmt < pos => fixups[i].stmt < pos'
  BY <1>4, <1>5
<1> QED
  BY <1>1, <1>2, <1>6 DEF FixupsRefer

LEMMA KindsApart ==
    /\ \A op \in Plain \cup {"MOV_STR", "SEND_STR", "ON_CHAT", "LABEL"} : op \notin Branch
    /\ \A op \in Plain \cup {"MOV_STR", "SEND_STR", "ON_CHAT"} \cup Branch : op # "LABEL"
    /\ \A st : st.op \in Branch \cup {"LABEL"} => ~BadRegister(st)
  BY DEF Plain, Branch, JumpOps, TwoRegister, AluOps, BadRegister

(* A statement that is neither a branch nor a label. *)
LEMMA OrdinaryFault ==
    ASSUME SInv, FaultInv, AtStmt, UNCHANGED <<src, phase, labels, fixups>>,
           Stmt.op \in Plain \cup {"MOV_STR", "SEND_STR", "ON_CHAT"},
           errors' = IF BadRegister(Stmt) THEN errors \cup {pos} ELSE errors,
           pos' = IF Stmt.op = "ON_CHAT" /\ BadRegister(Stmt)
                  THEN pos + 1 + Stmt.body ELSE pos + 1
    PROVE  FaultInv'
<1>1. /\ pos \in 1 .. Len(src) /\ Len(src) \in Nat /\ Stmt = src[pos] /\ phase = "emit"
      /\ ~Skipped(pos)
  BY StatementTyped DEF Stmt, AtStmt, FaultInv, FaultsFound
<1>2. /\ pos' \in (pos + 1) .. (Len(src) + 1) /\ ~Skipped(pos')
      /\ \A j \in (pos + 1) .. (pos' - 1) : Skipped(j)
  <2>1. CASE Stmt.op = "ON_CHAT" /\ BadRegister(Stmt)
    <3>1. /\ pos + Stmt.body <= Len(src) /\ Stmt.body \in Nat
          /\ \A j \in (pos + 1) .. (pos + Stmt.body) : Skipped(j)
          /\ ~Skipped(pos + 1 + Stmt.body)
      BY <1>1, <2>1, SkipsBody
    <3>2. pos' = pos + 1 + Stmt.body /\ pos' - 1 = pos + Stmt.body
      BY <1>1, <2>1, <3>1
    <3> QED
      BY <1>1, <3>1, <3>2
  <2>2. CASE ~(Stmt.op = "ON_CHAT" /\ BadRegister(Stmt))
    <3>1. ~Skipped(pos + 1)
      BY <1>1, <2>2, NotSkippedNext
    <3> QED
      BY <1>1, <2>2, <3>1
  <2> QED
    BY <2>1, <2>2
<1>3. FixupsRefer' /\ Pending' = Pending
  <2>1. pos' \in Nat /\ pos' >= pos
    BY <1>1, <1>2
  <2> QED
    BY <2>1, SameFixups DEF FaultInv
<1>4. Stmt.op \notin Branch /\ Stmt.op # "LABEL"
  BY KindsApart
<1>5. Pending' = Pending \cup {k \in {pos} : src[k].op \in Branch}
  BY <1>1, <1>3, <1>4
<1>6. \A l \in Labels : l \in DOMAIN labels' <=> l \in DOMAIN labels \/ Defines(pos, l)
  BY <1>1, <1>4 DEF Defines
<1>7. errors' = errors \cup {k \in {pos} : BadRegister(src[k]) \/
                                (src[k].op = "LABEL" /\ src[k].l \in DOMAIN labels)}
  BY <1>1, <1>4
<1> QED
  BY <1>1, <1>2, <1>3, <1>5, <1>6, <1>7, WalkedStep

LEMMA LabelFault == SInv /\ FaultInv /\ EmitLabel => FaultInv'
<1> SUFFICES ASSUME SInv, FaultInv, EmitLabel PROVE FaultInv'
  OBVIOUS
<1>1. /\ AtStmt /\ pos \in 1 .. Len(src) /\ Len(src) \in Nat /\ Stmt = src[pos]
      /\ phase = "emit" /\ ~Skipped(pos) /\ Stmt.op = "LABEL"
  BY StatementTyped DEF EmitLabel, Stmt, AtStmt, FaultInv, FaultsFound
<1>2. Stmt.op \notin Branch /\ ~BadRegister(Stmt)
  BY <1>1, KindsApart
<1>3. ~Skipped(pos + 1)
  BY <1>1, NotSkippedNext
<1>4. UNCHANGED <<src, phase, fixups>> /\ pos' = pos + 1
  BY DEF EmitLabel
<1>5. FixupsRefer' /\ Pending' = Pending
  BY <1>1, <1>4, SameFixups DEF FaultInv
<1>6. \A l \in Labels : l \in DOMAIN labels' <=> l \in DOMAIN labels \/ Defines(pos, l)
  BY <1>1 DEF EmitLabel, Defines
<1>7. errors' = errors \cup {k \in {pos} : BadRegister(src[k]) \/
                                (src[k].op = "LABEL" /\ src[k].l \in DOMAIN labels)}
  BY <1>1, <1>2 DEF EmitLabel, Record
<1>8. Pending' = Pending \cup {k \in {pos} : src[k].op \in Branch}
  BY <1>1, <1>2, <1>5
<1>9. pos' \in (pos + 1) .. (Len(src) + 1) /\ \A j \in (pos + 1) .. (pos' - 1) : Skipped(j)
  BY <1>1, <1>4
<1> QED
  BY <1>1, <1>3, <1>4, <1>5, <1>6, <1>7, <1>8, <1>9, WalkedStep

LEMMA JumpFault == SInv /\ FaultInv /\ EmitJump => FaultInv'
<1> SUFFICES ASSUME SInv, FaultInv, EmitJump PROVE FaultInv'
  OBVIOUS
<1>1. /\ AtStmt /\ pos \in 1 .. Len(src) /\ Len(src) \in Nat /\ Stmt = src[pos]
      /\ phase = "emit" /\ ~Skipped(pos) /\ Stmt.op \in Branch
  BY StatementTyped DEF EmitJump, Stmt, AtStmt, FaultInv, FaultsFound
<1>2. Stmt.op # "LABEL" /\ ~BadRegister(Stmt) /\ Stmt.op # "ON_CHAT"
  BY <1>1, KindsApart
<1>3. ~Skipped(pos + 1)
  BY <1>1, <1>2, NotSkippedNext
<1> DEFINE F == [offset : Nat, label : Labels, stmt : 1 .. Len(src)]
           g == [offset |-> size, label |-> Stmt.l, stmt |-> pos]
<1>4. UNCHANGED <<src, phase, labels, errors>> /\ pos' = pos + 1 /\ fixups' = Append(fixups, g)
  BY DEF EmitJump
<1>5. fixups \in Seq(F) /\ \A i \in 1 .. Len(fixups) : fixups[i].stmt \in Nat
  <2>1. fixups \in Seq(F)
    BY DEF SInv, CodegenInv, TypeOK
  <2> QED
    BY <2>1, FixupTyped
<1>6. g.label = Stmt.l /\ g.stmt = pos
  OBVIOUS
<1> HIDE DEF F, g
<1>7. /\ Len(fixups') = Len(fixups) + 1 /\ Len(fixups) \in Nat
      /\ \A i \in 1 .. Len(fixups) : fixups'[i] = fixups[i]
      /\ fixups'[Len(fixups) + 1] = g
  BY <1>4, <1>5
<1>8. Pending' = Pending \cup {pos}
  <2>1. 1 .. Len(fixups') = (1 .. Len(fixups)) \cup {Len(fixups) + 1}
    BY <1>7
  <2> QED
    BY <1>6, <1>7, <2>1 DEF Pending
<1>9. FixupsRefer'
  <2>1. \A k : Skipped(k)' <=> Skipped(k)
    BY <1>4, SourceFixed
  <2>2. ASSUME NEW i \in 1 .. Len(fixups')
        PROVE  LET k == fixups'[i].stmt
               IN  /\ k < pos' /\ ~Skipped(k) /\ src'[k].op \in Branch
                   /\ fixups'[i].label = src'[k].l
    <3>1. CASE i = Len(fixups) + 1
      BY <1>1, <1>4, <1>6, <1>7, <3>1
    <3>2. CASE i \in 1 .. Len(fixups)
      <4>1. /\ fixups[i].stmt < pos /\ ~Skipped(fixups[i].stmt)
            /\ src[fixups[i].stmt].op \in Branch
            /\ fixups[i].label = src[fixups[i].stmt].l
        BY <3>2 DEF FaultInv, FixupsRefer
      <4>2. fixups[i].stmt < pos'
        BY <1>1, <1>4, <1>5, <3>2, <4>1
      <4> QED
        BY <1>4, <1>7, <3>2, <4>1, <4>2
    <3> QED
      BY <1>7, <3>1, <3>2
  <2>3. ASSUME NEW i \in 1 .. Len(fixups'), NEW j \in 1 .. Len(fixups'), i < j
        PROVE  fixups'[i].stmt < fixups'[j].stmt
    <3>1. i \in 1 .. Len(fixups)
      BY <1>7, <2>3
    <3>2. CASE j = Len(fixups) + 1
      <4>1. fixups[i].stmt < pos
        BY <3>1 DEF FaultInv, FixupsRefer
      <4> QED
        BY <1>6, <1>7, <3>1, <3>2, <4>1
    <3>3. CASE j \in 1 .. Len(fixups)
      BY <1>7, <2>3, <3>1, <3>3 DEF FaultInv, FixupsRefer
    <3> QED
      BY <1>7, <3>2, <3>3
  <2> QED
    BY <2>1, <2>2, <2>3 DEF FixupsRefer
<1>10. Pending' = Pending \cup {k \in {pos} : src[k].op \in Branch}
  BY <1>1, <1>8
<1>11. \A l \in Labels : l \in DOMAIN labels' <=> l \in DOMAIN labels \/ Defines(pos, l)
  BY <1>1, <1>2, <1>4 DEF Defines
<1>12. errors' = errors \cup {k \in {pos} : BadRegister(src[k]) \/
                                (src[k].op = "LABEL" /\ src[k].l \in DOMAIN labels)}
  BY <1>1, <1>2, <1>4
<1>13. pos' \in (pos + 1) .. (Len(src) + 1) /\ \A j \in (pos + 1) .. (pos' - 1) : Skipped(j)
  BY <1>1, <1>4
<1> QED
  BY <1>1, <1>3, <1>4, <1>9, <1>10, <1>11, <1>12, <1>13, WalkedStep

(* Taking the first fixup leaves the others, which are of later statements. *)
LEMMA FirstFixup ==
    ASSUME SInv, FixupsRefer, fixups # <<>>, fixups' = Tail(fixups), UNCHANGED <<src, pos>>
    PROVE  /\ Head(fixups).stmt \in 1 .. Len(src) /\ Head(fixups).stmt < pos
           /\ ~Skipped(Head(fixups).stmt) /\ src[Head(fixups).stmt].op \in Branch
           /\ Head(fixups).label = src[Head(fixups).stmt].l
           /\ Head(fixups).stmt \in Pending /\ Head(fixups) = fixups[1]
           /\ 1 \in 1 .. Len(fixups)
           /\ Pending' = Pending \ {Head(fixups).stmt}
           /\ Len(fixups') = Len(fixups) - 1 /\ Len(fixups) \in Nat
           /\ \A i \in 1 .. Len(fixups') : fixups'[i] = fixups[i + 1]
           /\ FixupsRefer'
<1> DEFINE F == [offset : Nat, label : Labels, stmt : 1 .. Len(src)]
<1>1. fixups \in Seq(F)
  BY DEF SInv, CodegenInv, TypeOK
<1>2. \A i \in 1 .. Len(fixups) : fixups[i].stmt \in 1 .. Len(src)
  BY FixupTyped
<1> HIDE DEF F
<1>3. /\ Head(fixups) = fixups[1] /\ 1 \in 1 .. Len(fixups)
      /\ Len(fixups') = Len(fixups) - 1 /\ Len(fixups) \in Nat
      /\ \A i \in 1 .. Len(fixups') : fixups'[i] = fixups[i + 1]
  BY <1>1
<1>4. \A k : Skipped(k)' <=> Skipped(k)
  BY SourceFixed
<1>5. \A i \in 1 .. Len(fixups') : i + 1 \in 1 .. Len(fixups)
  BY <1>3
<1>6. FixupsRefer'
  <2>1. ASSUME NEW i \in 1 .. Len(fixups')
        PROVE  LET k == fixups'[i].stmt
               IN  /\ k < pos' /\ ~Skipped(k) /\ src'[k].op \in Branch
                   /\ fixups'[i].label = src'[k].l
    BY <1>3, <1>5 DEF FixupsRefer
  <2>2. ASSUME NEW i \in 1 .. Len(fixups'), NEW j \in 1 .. Len(fixups'), i < j
        PROVE  fixups'[i].stmt < fixups'[j].stmt
    <3>1. i + 1 < j + 1 /\ i + 1 \in 1 .. Len(fixups) /\ j + 1 \in 1 .. Len(fixups)
      BY <1>5, <2>2
    <3> QED
      BY <1>3, <3>1 DEF FixupsRefer
  <2> QED
    BY <1>4, <2>1, <2>2 DEF FixupsRefer
<1>7. Pending' = Pending \ {fixups[1].stmt}
  <2>1. ASSUME NEW i \in 1 .. Len(fixups')
        PROVE  fixups'[i].stmt \in Pending /\ fixups'[i].stmt # fixups[1].stmt
    <3>1. 1 < i + 1 /\ i + 1 \in 1 .. Len(fixups)
      BY <1>5
    <3>2. fixups[1].stmt < fixups[i + 1].stmt
      BY <1>3, <3>1 DEF FixupsRefer
    <3> QED
      BY <1>2, <1>3, <3>1, <3>2 DEF Pending
  <2>2. ASSUME NEW i \in 1 .. Len(fixups), fixups[i].stmt # fixups[1].stmt
        PROVE  fixups[i].stmt \in Pending'
    <3>1. i - 1 \in 1 .. Len(fixups') /\ fixups'[i - 1] = fixups[(i - 1) + 1] /\ (i - 1) + 1 = i
      BY <1>3, <2>2
    <3>2. fixups'[i - 1].stmt \in Pending'
      BY <3>1 DEF Pending
    <3> QED
      BY <3>1, <3>2
  <2> QED
    BY <2>1, <2>2 DEF Pending
<1>8. fixups[1].stmt \in Pending /\ fixups[1].stmt \in 1 .. Len(src)
  BY <1>2, <1>3 DEF Pending
<1>9. LET k == fixups[1].stmt
      IN  k < pos /\ ~Skipped(k) /\ src[k].op \in Branch /\ fixups[1].label = src[k].l
  BY <1>3 DEF FixupsRefer
<1> QED
  BY <1>3, <1>6, <1>7, <1>8, <1>9

LEMMA ResolveFault == SInv /\ FaultInv /\ Resolve => FaultInv'
<1> SUFFICES ASSUME SInv, FaultInv, Resolve PROVE FaultInv'
  OBVIOUS
<1>0. PICK k0 : k0 = Head(fixups).stmt
  OBVIOUS
<1>1. /\ fixups # <<>> /\ fixups' = Tail(fixups)
      /\ UNCHANGED <<src, phase, pos, size, consts, labels, open>> /\ phase = "patch"
  BY DEF Resolve
<1>2. /\ k0 \in 1 .. Len(src) /\ k0 < pos /\ ~Skipped(k0)
      /\ src[k0].op \in Branch /\ Head(fixups).label = src[k0].l /\ k0 \in Pending
      /\ Pending' = Pending \ {k0} /\ FixupsRefer'
  BY <1>0, <1>1, FirstFixup DEF FaultInv
<1>3. errors' = IF src[k0].l \in DOMAIN labels THEN errors ELSE errors \cup {k0}
  BY <1>0, <1>2 DEF Resolve, Record
<1>4. Phases'
  BY <1>1 DEF Phases, FaultInv
<1>5. pos \in Nat /\ k0 \in 1 .. (pos - 1)
  BY <1>2, SourceTyped
<1>6. /\ \A k : Skipped(k)' <=> Skipped(k)
      /\ \A k, l : Defines(k, l)' <=> Defines(k, l)
  BY <1>1, SourceFixed
<1>7. errors' = {k \in 1 .. (pos' - 1) : Found(k)'}
  <2>1. errors' \subseteq 1 .. (pos' - 1)
    BY <1>1, <1>3, <1>5 DEF FaultInv, FaultsFound
  <2>2. ASSUME NEW k \in 1 .. (pos' - 1) PROVE k \in errors' <=> Found(k)'
    <3>1. k \in errors <=> Found(k)
      BY <1>1 DEF FaultInv, FaultsFound
    <3>2. CASE k # k0
      <4>1. Found(k)' <=> Found(k)
        BY <1>1, <1>2, <1>6, <3>2 DEF Found
      <4> QED
        BY <1>3, <3>1, <3>2, <4>1
    <3>3. CASE k = k0
      <4>1. ~BadRegister(src[k0]) /\ src[k0].op # "LABEL"
        BY <1>2, KindsApart
      <4>2. ~Found(k0)
        BY <1>2, <4>1 DEF Found
      <4>3. Found(k0)' <=> src[k0].l \notin DOMAIN labels
        BY <1>1, <1>2, <1>6, <4>1 DEF Found
      <4> QED
        BY <1>3, <3>1, <3>3, <4>2, <4>3
    <3> QED
      BY <3>2, <3>3
  <2> QED
    BY <2>1, <2>2
<1>8. FaultsFound'
  BY <1>1, <1>6, <1>7 DEF FaultInv, FaultsFound
<1> QED
  BY <1>2, <1>4, <1>8 DEF FaultInv

LEMMA NewFaults == IsProgram(src) /\ New => FaultInv
<1> SUFFICES ASSUME IsProgram(src), New PROVE FaultInv
  OBVIOUS
<1>1. pos = 1 /\ phase = "emit" /\ fixups = <<>> /\ Len(fixups) = 0 /\ errors = {}
      /\ DOMAIN labels = {}
  BY DEF New
<1>2. 1 .. (pos - 1) = {} /\ 1 .. Len(fixups) = {}
  BY <1>1
<1> QED
  BY <1>1, <1>2 DEF FaultInv, Phases, FixupsRefer, FaultsFound, Skipped

LEMMA FaultStep == SInv /\ FaultInv /\ [Next]_vars => FaultInv'
<1> SUFFICES ASSUME SInv, FaultInv, [Next]_vars PROVE FaultInv'
  OBVIOUS
<1>1. ASSUME UNCHANGED <<src, pos, labels, fixups, errors>>, Phases',
             phase' = "emit" => phase = "emit"
      PROVE  FaultInv'
  <2>1. /\ \A k : Skipped(k)' <=> Skipped(k)
        /\ \A k, l : Defines(k, l)' <=> Defines(k, l)
    BY <1>1, SourceFixed
  <2>2. FixupsRefer' /\ Pending' = Pending
    BY <1>1, SameFixups, SourceTyped DEF FaultInv
  <2>3. \A k : Found(k)' <=> Found(k)
    BY <1>1, <2>1, <2>2 DEF Found
  <2>4. FaultsFound'
    BY <1>1, <2>1, <2>2, <2>3 DEF FaultInv, FaultsFound
  <2> QED
    BY <1>1, <2>2, <2>4 DEF FaultInv
<1>2. CASE EmitPlain
  BY <1>2, OrdinaryFault DEF EmitPlain, Record, Plain, TwoRegister, AluOps
<1>3. CASE EmitString
  BY <1>3, OrdinaryFault DEF EmitString, Record
<1>4. CASE EmitLabel
  BY <1>4, LabelFault
<1>5. CASE EmitJump
  BY <1>5, JumpFault
<1>6. CASE BeginOnChat
  BY <1>6, OrdinaryFault DEF BeginOnChat, Record
<1>7. CASE EndOnChat
  BY <1>1, <1>7 DEF EndOnChat, Phases
<1>8. CASE Resolve
  BY <1>8, ResolveFault
<1>9. CASE EndWalk
  <2>1. pos = Len(src) + 1
    BY <1>9, SourceTyped DEF EndWalk
  <2> QED
    BY <1>1, <1>9, <2>1 DEF EndWalk, walk, Phases
<1>10. CASE Refuse \/ WriteFile \/ LoadFile
  BY <1>1, <1>10 DEF Refuse, WriteFile, LoadFile, walk, Phases, FaultInv
<1>11. CASE UNCHANGED vars
  BY <1>1, <1>11 DEF vars, walk, Phases, FaultInv
<1> QED
  BY <1>2, <1>3, <1>4, <1>5, <1>6, <1>7, <1>8, <1>9, <1>10, <1>11 DEF Next

(* A program is refused exactly for its faults, at every set of parsed     *)
(* programs: bad registers, labels defined twice and labels used and never *)
(* defined, where the body of a faulty ON_CHAT counts for nothing          *)
(* (codegen.go:164-170, 288-300, 371-453).                                 *)
THEOREM RefusesExactly == Spec => []ErrorsExact
<1>1. Init => SInv /\ FaultInv
  BY InitSInv, NewFaults, CodegenAssumption DEF Init
<1>2. SInv /\ FaultInv /\ [Next]_vars => SInv' /\ FaultInv'
  BY Step, FaultStep
<1>3. SInv /\ FaultInv => ErrorsExact
  <2> SUFFICES ASSUME SInv, FaultInv, phase \in {"refused", "written"}
               PROVE  errors = {k \in 1 .. Len(src) : Faulty(k)}
    BY DEF ErrorsExact
  <2>1. fixups = <<>> /\ pos = Len(src) + 1 /\ Len(src) \in Nat
    BY SourceTyped DEF FaultInv, Phases
  <2>2. Pending = {} /\ pos - 1 = Len(src)
    BY <2>1 DEF Pending
  <2>3. \A k \in 1 .. Len(src) : Found(k) <=> Faulty(k)
    BY <2>2, SourceTyped DEF Found, Faulty, FaultInv, FaultsFound
  <2> QED
    BY <2>2, <2>3 DEF FaultInv, FaultsFound
<1> QED
  BY <1>1, <1>2, <1>3, PTL DEF Spec

-----------------------------------------------------------------------------
(* Translated.  Offsets are the sums of the sizes before them.             *)
LEMMA SizesTyped ==
    ASSUME NEW st
    PROVE  /\ StmtSize(st) \in Nat
           /\ st.op # "LABEL" => StmtSize(st) = InsSize(Opcode(st)) /\ StmtSize(st) > 0
           /\ st.op = "LABEL" => StmtSize(st) = 0
  BY SizePositive DEF StmtSize

LEMMA OffsetIsSum ==
    ASSUME SInv
    PROVE  \E F : /\ IsSum(F, [j \in 1 .. Len(src) |-> StmtSize(src[j])], Len(src))
                  /\ \A k : Offset(k) = F[k]
<1> DEFINE n == Len(src)
           W == [j \in 1 .. n |-> StmtSize(src[j])]
           G(F) == [j \in 1 .. (n + 1) |-> IF j = 1 THEN 0 ELSE F[j - 1] + StmtSize(src[j - 1])]
<1>1. n \in Nat /\ W \in [1 .. n -> Nat]
  BY SourceTyped, SizesTyped
<1>2. ASSUME NEW F, F = G(F) PROVE IsSum(F, W, n)
  <2>1. DOMAIN F = 1 .. (n + 1) /\ F[1] = 0
    BY <1>1, <1>2
  <2>2. ASSUME NEW j \in 1 .. n PROVE F[j + 1] = F[j] + W[j]
    <3>1. j + 1 \in 1 .. (n + 1) /\ j + 1 # 1 /\ (j + 1) - 1 = j
      BY <1>1
    <3>2. F[j + 1] = G(F)[j + 1]
      BY <1>2
    <3> QED
      BY <3>1, <3>2
  <2>3. \A j \in 1 .. (n + 1) : F[j] \in Nat
    <3> DEFINE T == {m \in Nat : m + 1 <= n + 1 => F[m + 1] \in Nat}
    <3>1. 0 \in T
      BY <2>1
    <3>2. ASSUME NEW m \in Nat, m \in T PROVE m + 1 \in T
      <4> SUFFICES ASSUME (m + 1) + 1 <= n + 1 PROVE F[(m + 1) + 1] \in Nat
        OBVIOUS
      <4>1. m + 1 \in 1 .. n /\ F[m + 1] \in Nat /\ W[m + 1] \in Nat
        BY <1>1, <3>2
      <4> QED
        BY <2>2, <4>1
    <3>3. Nat \subseteq T
      <4> HIDE DEF T
      <4> QED
        BY <3>1, <3>2, SetInduction
    <3>4. \A j \in 1 .. (n + 1) : j - 1 \in Nat /\ (j - 1) + 1 = j /\ (j - 1) + 1 <= n + 1
      BY <1>1
    <3> QED
      BY <3>3, <3>4
  <2>4. F = [j \in 1 .. (n + 1) |-> F[j]]
    BY <1>2
  <2>5. F \in [1 .. (n + 1) -> Nat]
    <3> HIDE DEF G
    <3> QED
      BY <2>1, <2>3, <2>4
  <2> QED
    BY <2>1, <2>2, <2>5 DEF IsSum
<1>3. \E F : F = G(F)
  <2>1. PICK F : IsSum(F, W, n)
    <3> HIDE DEF W
    <3> QED
      BY <1>1, SumsExist
  <2>2. ASSUME NEW j \in 1 .. (n + 1)
        PROVE  F[j] = IF j = 1 THEN 0 ELSE F[j - 1] + StmtSize(src[j - 1])
    <3>1. CASE j = 1
      BY <2>1, <3>1 DEF IsSum
    <3>2. CASE j # 1
      <4>1. j - 1 \in 1 .. n /\ (j - 1) + 1 = j
        BY <1>1, <3>2
      <4>2. F[(j - 1) + 1] = F[j - 1] + W[j - 1]
        <5> HIDE DEF W
        <5> QED
          BY <2>1, <4>1 DEF IsSum
      <4> QED
        BY <3>2, <4>1, <4>2
    <3> QED
      BY <3>1, <3>2
  <2>3. F = [j \in 1 .. (n + 1) |-> F[j]]
    BY <2>1 DEF IsSum
  <2>4. F = G(F)
    BY <2>2, <2>3
  <2> QED
    BY <2>4
<1> DEFINE off == CHOOSE F : F = G(F)
<1>4. off = G(off)
  <2> HIDE DEF G
  <2> QED
    BY <1>3
<1>5. \A k : Offset(k) = off[k]
  BY DEF Offset
<1>6. IsSum(off, W, n)
  <2> HIDE DEF off, G, W
  <2> QED
    BY <1>2, <1>4
<1> QED
  <2> HIDE DEF off
  <2> QED
    BY <1>5, <1>6

LEMMA OffsetFacts ==
    ASSUME SInv
    PROVE  /\ Offset(1) = 0
           /\ \A k \in 1 .. (Len(src) + 1) : Offset(k) \in Nat
           /\ \A k \in 1 .. Len(src) : Offset(k + 1) = Offset(k) + StmtSize(src[k])
           /\ \A j \in 1 .. Len(src) : \A k \in (j + 1) .. (Len(src) + 1) :
                 Offset(j) + StmtSize(src[j]) <= Offset(k)
<1> DEFINE n == Len(src)
           W == [j \in 1 .. n |-> StmtSize(src[j])]
<1>1. PICK F : IsSum(F, W, n) /\ \A k : Offset(k) = F[k]
  BY OffsetIsSum
<1>2. n \in Nat /\ W \in [1 .. n -> Nat] /\ \A j \in 1 .. n : W[j] = StmtSize(src[j])
  BY SourceTyped, SizesTyped
<1> HIDE DEF W
<1>3. \A j \in 1 .. n : \A k \in (j + 1) .. (n + 1) : F[j] + W[j] <= F[k]
  BY <1>1, <1>2, SumsGrow
<1> QED
  BY <1>1, <1>2, <1>3 DEF IsSum

(* Two instructions have two offsets. *)
LEMMA OffsetsApart ==
    ASSUME SInv, NEW j \in Instructions, NEW k \in 1 .. (Len(src) + 1), j < k
    PROVE  Offset(j) < Offset(k)
<1>1. j \in 1 .. Len(src) /\ k \in (j + 1) .. (Len(src) + 1) /\ Len(src) \in Nat
  BY SourceTyped DEF Instructions
<1>2. StmtSize(src[j]) > 0 /\ StmtSize(src[j]) \in Nat
  BY SizesTyped DEF Instructions
<1>3. Offset(j) + StmtSize(src[j]) <= Offset(k) /\ Offset(j) \in Nat /\ Offset(k) \in Nat
  BY <1>1, OffsetFacts
<1> QED
  BY <1>2, <1>3

LEMMA OffsetsDiffer ==
    ASSUME SInv, NEW j \in Instructions, NEW k \in Instructions, Offset(j) = Offset(k)
    PROVE  j = k
<1>1. j \in 1 .. Len(src) /\ k \in 1 .. Len(src) /\ Len(src) \in Nat
  BY SourceTyped DEF Instructions
<1>2. Offset(j) \in Nat
  BY <1>1, OffsetFacts
<1>3. ~(j < k) /\ ~(k < j)
  BY <1>1, <1>2, OffsetsApart
<1> QED
  BY <1>1, <1>3

(* The reference layout is the source's own. *)
LEMMA OffsetFixed ==
    ASSUME UNCHANGED src
    PROVE  /\ \A k : Offset(k)' = Offset(k)
           /\ Instructions' = Instructions
           /\ \A k, i : JumpsTo(k, i)' <=> JumpsTo(k, i)
           /\ \A k, i : SpansBody(k, i)' <=> SpansBody(k, i)
<1>1. \A k : Offset(k)' = Offset(k)
  BY DEF Offset
<1>2. Instructions' = Instructions
  BY DEF Instructions
<1>3. \A k, i : JumpsTo(k, i)' <=> JumpsTo(k, i)
  BY <1>1 DEF JumpsTo
<1>4. \A k, i : SpansBody(k, i)' <=> SpansBody(k, i)
  BY <1>1 DEF SpansBody
<1> QED
  BY <1>1, <1>2, <1>3, <1>4

(* The pool only grows at its end. *)
PoolKept ==
    /\ DOMAIN consts \subseteq DOMAIN consts'
    /\ \A j \in DOMAIN consts : consts'[j] = consts[j]

LEMMA ConstantAdded ==
    ASSUME SInv, NEW s \in Strings, AddConstant(s)
    PROVE  /\ PoolKept
           /\ ConstIndex(s) \in Nat
           /\ ConstIndex(s) + 1 \in DOMAIN consts'
           /\ consts'[ConstIndex(s) + 1] = s
<1>1. consts \in Seq(Strings) /\ Len(consts) \in Nat /\ DOMAIN consts = 1 .. Len(consts)
  BY DEF SInv, CodegenInv, TypeOK
<1>2. CASE Known(s)
  <2> DEFINE i == CHOOSE i \in 1 .. Len(consts) : consts[i] = s
  <2>1. i \in 1 .. Len(consts) /\ consts[i] = s
    BY <1>2 DEF Known
  <2>2. ConstIndex(s) = i - 1 /\ consts' = consts
    BY <1>2 DEF ConstIndex, AddConstant
  <2> HIDE DEF i
  <2>3. ConstIndex(s) + 1 = i /\ ConstIndex(s) \in Nat
    BY <1>1, <2>1, <2>2
  <2> QED
    BY <1>1, <2>1, <2>2, <2>3 DEF PoolKept
<1>3. CASE ~Known(s)
  <2>1. ConstIndex(s) = Len(consts) /\ consts' = Append(consts, s)
    BY <1>3 DEF ConstIndex, AddConstant
  <2>2. /\ DOMAIN consts' = 1 .. (Len(consts) + 1)
        /\ \A j \in 1 .. Len(consts) : consts'[j] = consts[j]
        /\ consts'[Len(consts) + 1] = s
    BY <1>1, <2>1
  <2> QED
    BY <1>1, <2>1, <2>2 DEF PoolKept
<1> QED
  BY <1>2, <1>3

(* An instruction that is not written again stays the encoding it is. *)
LEMMA StaysEncoded ==
    ASSUME UNCHANGED src, NEW k, NEW i, EncodedSoFar(k, i), PoolKept,
           k \in Pending /\ src[k].op \in Branch => k \in Pending',
           src[k].op = "ON_CHAT" /\ InBody /\ open.header = Offset(k) =>
               InBody' /\ open'.header = Offset(k)
    PROVE  EncodedSoFar(k, i)'
<1>1. /\ Offset(k)' = Offset(k)
      /\ JumpsTo(k, i)' <=> JumpsTo(k, i)
      /\ SpansBody(k, i)' <=> SpansBody(k, i)
  BY OffsetFixed
<1>2. OperandsOf(k, i)'
  BY DEF EncodedSoFar, OperandsOf, PoolKept
<1> QED
  BY <1>1, <1>2 DEF EncodedSoFar

(* An instruction is emitted: it is at its offset, and so is what follows. *)
LEMMA EmittedLaid ==
    ASSUME SInv, LaidOut, AtStmt, UNCHANGED <<src, labels>>, pos' = pos + 1,
           NEW k0, k0 = pos, NEW i \in Instruction \cup Header, Emit(i),
           src[k0].op # "LABEL", i.op = Opcode(src[k0]),
           OperandsOf(k0, i)', PoolKept,
           \/ src[k0].op \notin Branch /\ UNCHANGED fixups
           \/ src[k0].op \in Branch /\ fixups' =
                  Append(fixups, [offset |-> size, label |-> src[k0].l, stmt |-> k0]),
           \/ src[k0].op # "ON_CHAT" /\ UNCHANGED open
           \/ /\ src[k0].op = "ON_CHAT" /\ ~InBody
              /\ open' = [header |-> size, until |-> k0 + 1 + src[k0].body]
    PROVE  LaidOut'
<1>1. /\ k0 \in 1 .. Len(src) /\ Len(src) \in Nat /\ pos \in Nat
      /\ 1 .. (pos' - 1) = (1 .. (pos - 1)) \cup {k0}
  BY StatementTyped
<1>2. /\ DOMAIN ins' = DOMAIN ins \cup {size} /\ size \notin DOMAIN ins
      /\ \A o \in DOMAIN ins : ins'[o] = ins[o]
      /\ ins'[size] = i
  BY EmitKeeps DEF SInv, CodegenInv
<1>3. size = Offset(k0)
  BY DEF LaidOut
<1>4. /\ \A k : Offset(k)' = Offset(k)
      /\ Instructions' = Instructions
  BY OffsetFixed
<1>5. k0 \in Instructions
  BY <1>1 DEF Instructions
<1>6. {j \in Instructions : j < pos'} = {j \in Instructions : j < pos} \cup {k0}
  BY <1>1, <1>5 DEF Instructions
<1>7. size' = Offset(k0 + 1)
  <2>1. size' = size + InsSize(i.op)
    BY DEF Emit
  <2>2. Offset(k0 + 1) = Offset(k0) + StmtSize(src[k0])
    BY <1>1, OffsetFacts
  <2> QED
    BY <1>3, <2>1, <2>2 DEF StmtSize
<1>8. DOMAIN ins' = {Offset(k) : k \in {j \in Instructions : j < pos'}}
  BY <1>2, <1>3, <1>6 DEF LaidOut
<1>9. \A l \in DOMAIN labels : \E j \in 1 .. (pos' - 1) :
          src[j].op = "LABEL" /\ src[j].l = l /\ labels[l] = Offset(j)
  BY <1>1 DEF LaidOut
<1> DEFINE F == [offset : Nat, label : Labels, stmt : 1 .. Len(src)]
           g == [offset |-> size, label |-> src[k0].l, stmt |-> k0]
<1>10. fixups \in Seq(F)
  BY DEF SInv, CodegenInv, TypeOK
<1>11. g.offset = size /\ g.stmt = k0
  OBVIOUS
<1> HIDE DEF F, g
<1>12. /\ \A j \in 1 .. Len(fixups') : fixups'[j].offset = Offset(fixups'[j].stmt)
       /\ Pending \subseteq Pending'
       /\ src[k0].op \in Branch => k0 \in Pending'
  <2>1. CASE src[k0].op \notin Branch /\ UNCHANGED fixups
    BY <2>1 DEF LaidOut, Pending
  <2>2. CASE src[k0].op \in Branch /\ fixups' = Append(fixups, g)
    <3>1. /\ Len(fixups') = Len(fixups) + 1 /\ Len(fixups) \in Nat
          /\ \A j \in 1 .. Len(fixups) : fixups'[j] = fixups[j]
          /\ fixups'[Len(fixups) + 1] = g
      BY <1>10, <2>2
    <3>2. Pending \subseteq Pending' /\ k0 \in Pending'
      BY <1>11, <3>1 DEF Pending
    <3> QED
      BY <1>3, <1>11, <3>1, <3>2 DEF LaidOut
  <2> QED
    BY <2>1, <2>2 DEF g
<1>13. InBody' => \E k \in 1 .. (pos' - 1) :
           /\ src[k].op = "ON_CHAT"
           /\ open' = [header |-> Offset(k), until |-> k + 1 + src[k].body]
  <2>1. CASE src[k0].op # "ON_CHAT" /\ UNCHANGED open
    BY <1>1, <2>1 DEF LaidOut, InBody
  <2>2. CASE src[k0].op = "ON_CHAT" /\
             open' = [header |-> size, until |-> k0 + 1 + src[k0].body]
    BY <1>1, <1>3, <2>2
  <2> QED
    BY <2>1, <2>2
<1>14. ASSUME NEW k \in Instructions, k < pos', NEW c, c = ins'[Offset(k)]
       PROVE  EncodedSoFar(k, c)'
  <2>1. CASE k = k0
    <3>1. c = i
      BY <1>2, <1>3, <1>14, <2>1
    <3>2. OperandsOf(k, i)'
      BY <2>1
    <3>3. src[k].op = "ON_CHAT" => InBody' /\ open'.header = Offset(k)
      <4>1. ASSUME src[k].op = "ON_CHAT"
            PROVE  open' = [header |-> Offset(k), until |-> k0 + 1 + src[k0].body]
        BY <1>3, <2>1, <4>1
      <4>2. src[k0].body \in Nat
        BY <1>1, SourceTyped
      <4> QED
        BY <1>1, <4>1, <4>2 DEF InBody, NoBody
    <3>4. EncodedSoFar(k, i)'
      BY <1>4, <1>12, <2>1, <3>2, <3>3 DEF EncodedSoFar
    <3> QED
      BY <3>1, <3>4
  <2>2. CASE k # k0
    <3>1. k < pos /\ Offset(k) \in DOMAIN ins /\ EncodedSoFar(k, ins[Offset(k)])
      BY <1>6, <1>14, <2>2 DEF LaidOut
    <3>3. EncodedSoFar(k, c)
      BY <1>2, <1>14, <3>1
    <3>4. src[k].op = "ON_CHAT" /\ InBody /\ open.header = Offset(k) =>
               InBody' /\ open'.header = Offset(k)
      BY DEF InBody
    <3> QED
      BY <1>12, <3>3, <3>4, StaysEncoded
  <2> QED
    BY <2>1, <2>2
<1> QED
  BY <1>3, <1>4, <1>7, <1>8, <1>9, <1>12, <1>13, <1>14 DEF LaidOut

LEMMA PlainLaid == SInv /\ LaidOut /\ EmitPlain /\ ~BadRegister(Stmt) => LaidOut'
<1> SUFFICES ASSUME SInv, LaidOut, EmitPlain, ~BadRegister(Stmt) PROVE LaidOut'
  OBVIOUS
<1>0. PICK k0 : k0 = pos
  OBVIOUS
<1>1. PICK i : i = Encoded(Stmt)
  OBVIOUS
<1>2. /\ AtStmt /\ Stmt = src[k0] /\ Stmt \in Statement /\ Stmt.op \in Plain
      /\ Emit(i) /\ pos' = pos + 1
      /\ UNCHANGED <<src, labels, consts, fixups, open>>
  BY <1>0, <1>1, StatementTyped DEF EmitPlain, Stmt
<1>3. i \in Instruction
  BY <1>1, <1>2, EncodedTyped
<1>4. src[k0].op \notin Branch \cup {"LABEL", "ON_CHAT", "MOV_STR", "SEND_STR"}
  BY <1>2 DEF Plain, Branch, JumpOps, TwoRegister, AluOps
<1>5. i.op = Opcode(src[k0])
  BY <1>1, <1>2 DEF Encoded, Opcode, Code, Plain, TwoRegister, AluOps
<1>6. i = Encoded(src[k0])
  BY <1>1, <1>2
<1>7. OperandsOf(k0, i)'
  BY <1>2, <1>4, <1>5, <1>6 DEF OperandsOf
<1>8. PoolKept
  BY <1>2 DEF PoolKept
<1> QED
  BY <1>0, <1>2, <1>3, <1>4, <1>5, <1>7, <1>8, EmittedLaid

LEMMA StringLaid == SInv /\ LaidOut /\ EmitString /\ ~BadRegister(Stmt) => LaidOut'
<1> SUFFICES ASSUME SInv, LaidOut, EmitString, ~BadRegister(Stmt) PROVE LaidOut'
  OBVIOUS
<1>0. PICK k0 : k0 = pos
  OBVIOUS
<1>1. PICK x : x = ConstIndex(Stmt.s)
  OBVIOUS
<1>2. PICK i : i = IF Stmt.op = "MOV_STR" THEN Code("MOV_STR", Stmt.a, 0, x)
                   ELSE Code("SEND_CHAT", 0, 0, (WordSize \div 2) + x)
  OBVIOUS
<1>3. /\ AtStmt /\ Stmt = src[k0] /\ Stmt \in Statement /\ Stmt.op \in {"MOV_STR", "SEND_STR"}
      /\ Stmt.s \in Strings /\ Stmt.a \in Nat
      /\ Emit(i) /\ pos' = pos + 1 /\ AddConstant(Stmt.s)
      /\ UNCHANGED <<src, labels, fixups, open>>
  BY <1>0, <1>1, <1>2, StatementTyped DEF EmitString, Stmt, Statement
<1>4. /\ PoolKept /\ x \in Nat /\ x + 1 \in DOMAIN consts' /\ consts'[x + 1] = src[k0].s
  BY <1>1, <1>3, ConstantAdded
<1>5. WordSize \div 2 \in Nat
  BY WordSizeFacts
<1>6. src[k0].op \notin Branch \cup {"LABEL", "ON_CHAT"} \cup Plain
  BY <1>3 DEF Plain, Branch, JumpOps, TwoRegister, AluOps
<1>7. CASE Stmt.op = "MOV_STR"
  <2>1. i = Code("MOV_STR", Stmt.a, 0, x)
    BY <1>2, <1>7
  <2>2. i \in Instruction /\ i.op = Opcode(src[k0]) /\ i.a = src[k0].a /\ i.v = x
    BY <1>3, <1>4, <1>7, <2>1 DEF Code, Instruction, Opcodes, Opcode
  <2>3. OperandsOf(k0, i)'
    BY <1>3, <1>4, <1>6, <1>7, <2>2 DEF OperandsOf
  <2> QED
    BY <1>0, <1>3, <1>4, <1>6, <2>2, <2>3, EmittedLaid
<1>8. CASE Stmt.op = "SEND_STR"
  <2>1. i = Code("SEND_CHAT", 0, 0, (WordSize \div 2) + x)
    BY <1>2, <1>8
  <2>2. /\ i \in Instruction /\ i.op = Opcode(src[k0])
        /\ i.v = (WordSize \div 2) + x
    BY <1>3, <1>4, <1>5, <1>8, <2>1 DEF Code, Instruction, Opcodes, Opcode
  <2>3. i.v - (WordSize \div 2) = x
    BY <1>4, <1>5, <2>2
  <2>4. OperandsOf(k0, i)'
    BY <1>3, <1>4, <1>6, <1>8, <2>2, <2>3 DEF OperandsOf
  <2> QED
    BY <1>0, <1>3, <1>4, <1>6, <2>2, <2>4, EmittedLaid
<1> QED
  BY <1>3, <1>7, <1>8

LEMMA JumpLaid == SInv /\ LaidOut /\ EmitJump => LaidOut'
<1> SUFFICES ASSUME SInv, LaidOut, EmitJump PROVE LaidOut'
  OBVIOUS
<1>0. PICK k0 : k0 = pos
  OBVIOUS
<1>1. PICK i : i = Code(src[k0].op, 0, 0, 0)
  OBVIOUS
<1>2. /\ AtStmt /\ Stmt = src[k0] /\ Stmt.op \in Branch
      /\ Emit(i) /\ pos' = pos + 1
      /\ UNCHANGED <<src, labels, consts, open>>
      /\ fixups' = Append(fixups, [offset |-> size, label |-> src[k0].l, stmt |-> k0])
  BY <1>0, <1>1 DEF EmitJump, Stmt
<1>3. src[k0].op \notin Plain \cup {"LABEL", "ON_CHAT", "MOV_STR", "SEND_STR", "SEND_REG"}
  BY <1>2 DEF Plain, Branch, JumpOps, TwoRegister, AluOps
<1>4. i \in Instruction /\ i.op = Opcode(src[k0])
  BY <1>1, <1>2, <1>3 DEF Code, Instruction, Opcodes, Opcode, Branch, JumpOps
<1>5. OperandsOf(k0, i)'
  BY <1>2, <1>3, <1>4 DEF OperandsOf
<1>6. PoolKept
  BY <1>2 DEF PoolKept
<1> QED
  BY <1>0, <1>2, <1>3, <1>4, <1>5, <1>6, EmittedLaid

(* Bodies do not nest. *)
LEMMA NoBodyAtOnChat ==
    ASSUME SInv, AtStmt, Stmt.op = "ON_CHAT"
    PROVE  ~InBody
<1> SUFFICES ASSUME InBody PROVE FALSE
  OBVIOUS
<1>1. PICK k \in 1 .. Len(src) : /\ src[k].op = "ON_CHAT"
                                 /\ open.until = k + 1 + src[k].body
                                 /\ pos \in (k + 1) .. open.until
  BY DEF SInv, CodegenInv, OpenBody
<1>2. src[k].body \in Nat /\ pos < open.until
  BY SourceTyped DEF AtStmt
<1>3. pos \in (k + 1) .. (k + src[k].body)
  BY <1>1, <1>2
<1> QED
  BY <1>1, <1>3 DEF SInv, Stmt, IsProgram, TopLevel

LEMMA BeginLaid == SInv /\ LaidOut /\ BeginOnChat /\ ~BadRegister(Stmt) => LaidOut'
<1> SUFFICES ASSUME SInv, LaidOut, BeginOnChat, ~BadRegister(Stmt) PROVE LaidOut'
  OBVIOUS
<1>0. PICK k0 : k0 = pos
  OBVIOUS
<1>1. PICK x : x = ConstIndex(Stmt.s)
  OBVIOUS
<1>2. PICK i : i = [op |-> "ON_CHAT", a |-> Stmt.a, b |-> 0, v |-> x, off |-> 0, len |-> 0]
  OBVIOUS
<1>3. /\ AtStmt /\ Stmt = src[k0] /\ Stmt \in Statement /\ Stmt.op = "ON_CHAT"
      /\ Stmt.s \in Strings /\ Stmt.a \in Nat
      /\ Emit(i) /\ pos' = pos + 1 /\ AddConstant(Stmt.s)
      /\ UNCHANGED <<src, labels, fixups>>
      /\ open' = [header |-> size, until |-> k0 + 1 + src[k0].body]
  BY <1>0, <1>1, <1>2, StatementTyped DEF BeginOnChat, Stmt, Statement
<1>4. /\ PoolKept /\ x \in Nat /\ x + 1 \in DOMAIN consts' /\ consts'[x + 1] = src[k0].s
  BY <1>1, <1>3, ConstantAdded
<1>5. src[k0].op \notin Branch \cup {"LABEL", "MOV_STR", "SEND_STR"} \cup Plain
  BY <1>3 DEF Plain, Branch, JumpOps, TwoRegister, AluOps
<1>6. i \in Header /\ i.op = Opcode(src[k0]) /\ i.a = src[k0].a /\ i.v = x
  BY <1>2, <1>3, <1>4 DEF Header, Opcode
<1>7. OperandsOf(k0, i)'
  BY <1>3, <1>4, <1>5, <1>6 DEF OperandsOf
<1>8. ~InBody
  BY <1>3, NoBodyAtOnChat
<1> QED
  BY <1>0, <1>3, <1>4, <1>5, <1>6, <1>7, <1>8, EmittedLaid

LEMMA LabelLaid ==
    SInv /\ LaidOut /\ EmitLabel /\ Stmt.l \notin DOMAIN labels => LaidOut'
<1> SUFFICES ASSUME SInv, LaidOut, EmitLabel, Stmt.l \notin DOMAIN labels PROVE LaidOut'
  OBVIOUS
<1>0. PICK k0 : k0 = pos
  OBVIOUS
<1>1. /\ AtStmt /\ Stmt = src[k0] /\ src[k0].op = "LABEL" /\ pos' = pos + 1
      /\ UNCHANGED <<src, ins, size, consts, fixups, open>>
      /\ labels' = [l \in DOMAIN labels \cup {src[k0].l} |->
                       IF l = src[k0].l THEN size ELSE labels[l]]
  BY <1>0 DEF EmitLabel, Stmt
<1>2. /\ k0 \in 1 .. Len(src) /\ Len(src) \in Nat /\ pos \in Nat
      /\ 1 .. (pos' - 1) = (1 .. (pos - 1)) \cup {k0}
  BY <1>0, <1>1, StatementTyped
<1>3. /\ \A k : Offset(k)' = Offset(k)
      /\ Instructions' = Instructions
  BY <1>1, OffsetFixed
<1>4. size = Offset(k0) /\ size' = Offset(k0 + 1)
  <2>1. Offset(k0 + 1) = Offset(k0) + StmtSize(src[k0]) /\ Offset(k0) \in Nat
    BY <1>2, OffsetFacts
  <2>2. StmtSize(src[k0]) = 0
    BY <1>1, SizesTyped
  <2> QED
    BY <1>0, <1>1, <2>1, <2>2 DEF LaidOut
<1>5. {j \in Instructions : j < pos'} = {j \in Instructions : j < pos}
  BY <1>0, <1>1, <1>2 DEF Instructions
<1>6. ASSUME NEW l \in DOMAIN labels'
      PROVE  \E j \in 1 .. (pos' - 1) :
                src[j].op = "LABEL" /\ src[j].l = l /\ labels'[l] = Offset(j)
  <2>1. CASE l = src[k0].l
    BY <1>1, <1>2, <1>4, <2>1
  <2>2. CASE l # src[k0].l
    <3>1. l \in DOMAIN labels /\ labels'[l] = labels[l]
      BY <1>1, <2>2
    <3>2. PICK j \in 1 .. (pos - 1) :
              src[j].op = "LABEL" /\ src[j].l = l /\ labels[l] = Offset(j)
      BY <3>1 DEF LaidOut
    <3> QED
      BY <1>2, <3>1, <3>2
  <2> QED
    BY <2>1, <2>2
<1>7. InBody' => \E k \in 1 .. (pos' - 1) :
           /\ src[k].op = "ON_CHAT"
           /\ open' = [header |-> Offset(k), until |-> k + 1 + src[k].body]
  BY <1>1, <1>2 DEF LaidOut, InBody
<1>8. ASSUME NEW k \in Instructions, k < pos', NEW c, c = ins'[Offset(k)]
      PROVE  EncodedSoFar(k, c)'
  <2>1. k < pos /\ EncodedSoFar(k, c)
    BY <1>1, <1>5, <1>8 DEF LaidOut
  <2>2. PoolKept /\ Pending' = Pending /\ (InBody' <=> InBody)
    BY <1>1 DEF PoolKept, Pending, InBody
  <2> QED
    BY <1>1, <2>1, <2>2, StaysEncoded
<1>9. /\ DOMAIN ins' = {Offset(k) : k \in {j \in Instructions : j < pos'}}
      /\ \A j \in 1 .. Len(fixups') : fixups'[j].offset = Offset(fixups'[j].stmt)
  BY <1>1, <1>5 DEF LaidOut
<1>10. size' = Offset(pos')
  BY <1>0, <1>1, <1>4
<1>11. UNCHANGED src
  BY <1>1
<1> QED
  BY <1>3, <1>6, <1>7, <1>8, <1>9, <1>10, <1>11 DEF LaidOut

(* The body's end is patched into its header, and nothing else changes.    *)
LEMMA EndLaid == SInv /\ LaidOut /\ EndOnChat => LaidOut'
<1> SUFFICES ASSUME SInv, LaidOut, EndOnChat PROVE LaidOut'
  OBVIOUS
<1>1. /\ InBody /\ pos = open.until /\ ~InBody'
      /\ UNCHANGED <<src, pos, size, consts, labels, fixups>>
      /\ ins' = [ins EXCEPT ![open.header].off = BodyStart,
                            ![open.header].len = size - BodyStart]
  BY DEF EndOnChat, InBody
<1>2. PICK k0 \in 1 .. (pos - 1) :
          /\ src[k0].op = "ON_CHAT"
          /\ open = [header |-> Offset(k0), until |-> k0 + 1 + src[k0].body]
  BY <1>1 DEF LaidOut
<1>3. /\ k0 \in 1 .. Len(src) /\ k0 \in Instructions /\ k0 < pos /\ Len(src) \in Nat
      /\ src[k0].op \notin Branch \cup {"LABEL", "MOV_STR", "SEND_STR"} \cup Plain
  BY <1>2, SourceTyped DEF Instructions, Plain, Branch, JumpOps, TwoRegister, AluOps
<1>4. /\ \A k : Offset(k)' = Offset(k)
      /\ Instructions' = Instructions
      /\ \A k, i : SpansBody(k, i)' <=> SpansBody(k, i)
  BY <1>1, OffsetFixed
<1>5. PICK h : h = Offset(k0)
  OBVIOUS
<1>6. /\ h \in DOMAIN ins /\ h \in Nat /\ size \in Nat /\ open.header = h
      /\ ins[h].op = "ON_CHAT"
  <2>1. h \in DOMAIN ins /\ open.header = h
    BY <1>2, <1>3, <1>5 DEF LaidOut
  <2> QED
    BY <1>1, <2>1 DEF SInv, CodegenInv, TypeOK, OpenBody
<1>7. ins[h] \in Header
  BY <1>6 DEF SInv, CodegenInv, TypeOK, Instruction, Opcodes, TwoRegister, AluOps, Branch, JumpOps
<1>8. BodyStart = h + InsSize("ON_CHAT")
  BY <1>6 DEF BodyStart
<1>9. /\ DOMAIN ins' = DOMAIN ins
      /\ \A o \in DOMAIN ins : o # h => ins'[o] = ins[o]
      /\ ins'[h].op = ins[h].op /\ ins'[h].a = ins[h].a /\ ins'[h].v = ins[h].v
      /\ ins'[h].off = BodyStart /\ ins'[h].len = size - BodyStart
  <2>1. ins'[h] = [ins[h] EXCEPT !.off = BodyStart, !.len = size - BodyStart]
    BY <1>1, <1>6
  <2>2. DOMAIN ins' = DOMAIN ins /\ \A o \in DOMAIN ins : o # h => ins'[o] = ins[o]
    BY <1>1, <1>6
  <2> QED
    BY <1>7, <2>1, <2>2 DEF Header
<1>10. BodyStart = Offset(k0 + 1) /\ BodyStart \in Nat
  <2>1. Offset(k0 + 1) = Offset(k0) + StmtSize(src[k0])
    BY <1>3, OffsetFacts
  <2>2. StmtSize(src[k0]) = InsSize("ON_CHAT")
    BY <1>2, <1>3 DEF StmtSize, Opcode
  <2> QED
    BY <1>5, <1>6, <1>8, <2>1, <2>2, SizePositive
<1>11. size = Offset(k0 + 1 + src[k0].body)
  BY <1>1, <1>2 DEF LaidOut
<1>12. PoolKept /\ Pending' = Pending
  BY <1>1 DEF PoolKept, Pending
<1>13. ASSUME NEW k \in Instructions, k < pos', NEW c, c = ins'[Offset(k)]
       PROVE  EncodedSoFar(k, c)'
  <2>1. k < pos /\ Offset(k) \in DOMAIN ins /\ EncodedSoFar(k, ins[Offset(k)])
    BY <1>1, <1>13 DEF LaidOut
  <2>2. CASE k = k0
    <3>1. c = ins'[h] /\ OperandsOf(k, ins[h])
      BY <1>5, <1>13, <2>1, <2>2 DEF EncodedSoFar
    <3>2. OperandsOf(k, c)
      BY <1>3, <1>9, <2>2, <3>1 DEF OperandsOf
    <3>3. OperandsOf(k, c)'
      BY <1>1, <3>2 DEF OperandsOf
    <3>4. SpansBody(k, c)
      <4>1. c.off = Offset(k + 1) /\ c.off + c.len = size
        BY <1>6, <1>9, <1>10, <2>2, <3>1
      <4> QED
        BY <1>11, <2>2, <4>1 DEF SpansBody
    <3>5. SpansBody(k, c)'
      BY <1>4, <3>4
    <3> QED
      BY <1>1, <1>3, <2>2, <3>3, <3>5 DEF EncodedSoFar
  <2>3. CASE k # k0
    <3>1. Offset(k) # h
      BY <1>3, <1>5, <2>3, OffsetsDiffer
    <3>2. EncodedSoFar(k, c)
      BY <1>9, <1>13, <2>1, <3>1
    <3> QED
      BY <1>1, <1>6, <1>12, <3>1, <3>2, StaysEncoded
  <2> QED
    BY <2>2, <2>3
<1>14. /\ size' = Offset(pos')
       /\ DOMAIN ins' = {Offset(k) : k \in {j \in Instructions : j < pos'}}
       /\ \A l \in DOMAIN labels' : \E j \in 1 .. (pos' - 1) :
             src[j].op = "LABEL" /\ src[j].l = l /\ labels'[l] = Offset(j)
       /\ \A j \in 1 .. Len(fixups') : fixups'[j].offset = Offset(fixups'[j].stmt)
  BY <1>1, <1>9 DEF LaidOut
<1>15. UNCHANGED src /\ ~InBody'
  BY <1>1
<1> QED
  BY <1>4, <1>13, <1>14, <1>15 DEF LaidOut

LEMMA ResolveLaid ==
    ASSUME SInv, FaultInv, LaidOut, Resolve, errors' = {}
    PROVE  LaidOut'
<1>0. PICK k0 : k0 = Head(fixups).stmt
  OBVIOUS
<1>1. /\ fixups # <<>> /\ fixups' = Tail(fixups)
      /\ UNCHANGED <<src, phase, pos, size, consts, labels, open>>
  BY DEF Resolve
<1>2. /\ k0 \in 1 .. Len(src) /\ k0 < pos /\ src[k0].op \in Branch
      /\ Head(fixups).label = src[k0].l /\ Head(fixups) = fixups[1] /\ 1 \in 1 .. Len(fixups)
      /\ Pending' = Pending \ {k0}
      /\ Len(fixups') = Len(fixups) - 1 /\ Len(fixups) \in Nat
      /\ \A i \in 1 .. Len(fixups') : fixups'[i] = fixups[i + 1]
  BY <1>0, <1>1, FirstFixup DEF FaultInv
<1>3. PICK h : h = Offset(k0)
  OBVIOUS
<1>4. /\ src[k0].l \in DOMAIN labels
      /\ ins' = [ins EXCEPT ![h].v = labels[src[k0].l]]
  <2>1. Head(fixups).offset = h
    BY <1>0, <1>2, <1>3 DEF LaidOut
  <2>2. src[k0].l \in DOMAIN labels
    BY <1>2 DEF Resolve, Record
  <2> QED
    BY <1>2, <2>1, <2>2 DEF Resolve, Target
<1>5. k0 \in Instructions /\ src[k0].op \notin Plain \cup {"MOV_STR", "SEND_STR", "ON_CHAT"}
  BY <1>2 DEF Instructions, Plain, Branch, JumpOps, TwoRegister, AluOps
<1>6. h \in DOMAIN ins /\ ins[h].op \in Branch
  <2>1. h \in DOMAIN ins /\ OperandsOf(k0, ins[h])
    BY <1>2, <1>3, <1>5 DEF LaidOut, EncodedSoFar
  <2> QED
    BY <1>2, <2>1 DEF OperandsOf, Opcode, Branch, JumpOps
<1>7. ins[h] \in Instruction
  BY <1>6 DEF SInv, CodegenInv, TypeOK, Header, Branch, JumpOps
<1>8. /\ DOMAIN ins' = DOMAIN ins
      /\ \A o \in DOMAIN ins : o # h => ins'[o] = ins[o]
      /\ ins'[h].op = ins[h].op /\ ins'[h].v = labels[src[k0].l]
  <2>1. ins'[h] = [ins[h] EXCEPT !.v = labels[src[k0].l]]
    BY <1>4, <1>6
  <2>2. DOMAIN ins' = DOMAIN ins /\ \A o \in DOMAIN ins : o # h => ins'[o] = ins[o]
    BY <1>4, <1>6
  <2> QED
    BY <1>7, <2>1, <2>2 DEF Instruction
<1>9. /\ \A k : Offset(k)' = Offset(k)
      /\ Instructions' = Instructions
      /\ \A k, i : JumpsTo(k, i)' <=> JumpsTo(k, i)
  BY <1>1, OffsetFixed
<1>10. PoolKept /\ (InBody' <=> InBody)
  BY <1>1 DEF PoolKept, InBody
<1>11. ASSUME NEW k \in Instructions, k < pos', NEW c, c = ins'[Offset(k)]
       PROVE  EncodedSoFar(k, c)'
  <2>1. k < pos /\ Offset(k) \in DOMAIN ins /\ EncodedSoFar(k, ins[Offset(k)])
    BY <1>1, <1>11 DEF LaidOut
  <2>2. CASE k = k0
    <3>1. c = ins'[h] /\ OperandsOf(k, ins[h])
      BY <1>3, <1>11, <2>1, <2>2 DEF EncodedSoFar
    <3>2. OperandsOf(k, c)'
      BY <1>1, <1>5, <1>8, <2>2, <3>1 DEF OperandsOf
    <3>3. JumpsTo(k, c)
      <4>1. PICK j \in 1 .. (pos - 1) :
                src[j].op = "LABEL" /\ src[j].l = src[k0].l /\ labels[src[k0].l] = Offset(j)
        BY <1>4 DEF LaidOut
      <4>2. j \in 1 .. Len(src)
        BY SourceTyped
      <4> QED
        BY <1>8, <2>2, <3>1, <4>1, <4>2 DEF JumpsTo
    <3>4. JumpsTo(k, c)'
      BY <1>9, <3>3
    <3> QED
      BY <1>1, <1>5, <2>2, <3>2, <3>4 DEF EncodedSoFar
  <2>3. CASE k # k0
    <3>1. Offset(k) # h
      BY <1>3, <1>5, <2>3, OffsetsDiffer
    <3>2. EncodedSoFar(k, c)
      BY <1>8, <1>11, <2>1, <3>1
    <3> QED
      BY <1>1, <1>2, <1>10, <2>3, <3>2, StaysEncoded
  <2> QED
    BY <2>2, <2>3
<1>12. \A j \in 1 .. Len(fixups') : fixups'[j].offset = Offset(fixups'[j].stmt)
  <2>1. \A j \in 1 .. Len(fixups') : j + 1 \in 1 .. Len(fixups)
    BY <1>2
  <2> QED
    BY <1>2, <2>1 DEF LaidOut
<1>13. /\ size' = Offset(pos')
       /\ DOMAIN ins' = {Offset(k) : k \in {j \in Instructions : j < pos'}}
       /\ \A l \in DOMAIN labels' : \E j \in 1 .. (pos' - 1) :
             src[j].op = "LABEL" /\ src[j].l = l /\ labels'[l] = Offset(j)
       /\ InBody' => \E k \in 1 .. (pos' - 1) :
             /\ src[k].op = "ON_CHAT"
             /\ open' = [header |-> Offset(k), until |-> k + 1 + src[k].body]
  BY <1>1, <1>8, <1>10 DEF LaidOut
<1> QED
  BY <1>1, <1>9, <1>11, <1>12, <1>13 DEF LaidOut

LEMMA NewLaid ==
    ASSUME SInv, New
    PROVE  LaidOut
<1>1. /\ pos = 1 /\ size = 0 /\ DOMAIN ins = {} /\ DOMAIN labels = {} /\ Len(fixups) = 0
      /\ ~InBody
  BY DEF New, InBody
<1>2. {j \in Instructions : j < pos} = {} /\ 1 .. Len(fixups) = {}
  BY <1>1, SourceTyped DEF Instructions
<1>3. Offset(1) = 0
  BY OffsetFacts
<1> QED
  BY <1>1, <1>2, <1>3 DEF LaidOut

LEMMA LaidStep ==
    ASSUME SInv, FaultInv, errors = {} => LaidOut, [Next]_vars, errors' = {}
    PROVE  LaidOut'
<1>1. errors = {} /\ LaidOut
  <2>1. errors \subseteq errors'
    BY DEF Next, EmitPlain, EmitString, EmitLabel, EmitJump, BeginOnChat, EndOnChat, EndWalk,
           Resolve, Refuse, WriteFile, LoadFile, Record, vars, walk
  <2> QED
    BY <2>1
<1>2. ASSUME UNCHANGED <<src, pos, ins, size, consts, labels, fixups, open>> PROVE LaidOut'
  <2>1. /\ \A k : Offset(k)' = Offset(k)
        /\ Instructions' = Instructions
    BY <1>2, OffsetFixed
  <2>2. PoolKept /\ Pending' = Pending /\ (InBody' <=> InBody)
    BY <1>2 DEF PoolKept, Pending, InBody
  <2>3. ASSUME NEW k \in Instructions, k < pos', NEW c, c = ins'[Offset(k)]
        PROVE  EncodedSoFar(k, c)'
    <3>1. EncodedSoFar(k, c)
      BY <1>1, <1>2, <2>3 DEF LaidOut
    <3> QED
      BY <1>2, <2>2, <3>1, StaysEncoded
  <2> QED
    BY <1>1, <1>2, <2>1, <2>2, <2>3 DEF LaidOut
<1>3. CASE EmitPlain
  <2>1. ~BadRegister(Stmt)
    BY <1>3 DEF EmitPlain, Record
  <2> QED
    BY <1>1, <1>3, <2>1, PlainLaid
<1>4. CASE EmitString
  <2>1. ~BadRegister(Stmt)
    BY <1>4 DEF EmitString, Record
  <2> QED
    BY <1>1, <1>4, <2>1, StringLaid
<1>5. CASE EmitLabel
  <2>1. Stmt.l \notin DOMAIN labels
    BY <1>5 DEF EmitLabel, Record
  <2> QED
    BY <1>1, <1>5, <2>1, LabelLaid
<1>6. CASE EmitJump
  BY <1>1, <1>6, JumpLaid
<1>7. CASE BeginOnChat
  <2>1. ~BadRegister(Stmt)
    BY <1>7 DEF BeginOnChat, Record
  <2> QED
    BY <1>1, <1>7, <2>1, BeginLaid
<1>8. CASE EndOnChat
  BY <1>1, <1>8, EndLaid
<1>9. CASE Resolve
  BY <1>1, <1>9, ResolveLaid
<1>10. CASE EndWalk \/ Refuse \/ WriteFile \/ LoadFile \/ UNCHANGED vars
  BY <1>2, <1>10 DEF EndWalk, Refuse, WriteFile, LoadFile, vars, walk
<1> QED
  BY <1>3, <1>4, <1>5, <1>6, <1>7, <1>8, <1>9, <1>10 DEF Next

LEMMA NewWalk == IsProgram(src) /\ New => WalkInv
  BY NewSInv, NewFaults, NewLaid DEF FaultInv, WalkInv

LEMMA WalkStep == SInv /\ WalkInv /\ [Next]_vars => WalkInv'
  BY FaultStep, LaidStep DEF FaultInv, WalkInv

(* By any state of the walk, for every set of parsed programs, the faults  *)
(* recorded are those found so far and, when there are none, the code so   *)
(* far is the source's so far (codegen.go:138-177, 288-325, 371-453).      *)
THEOREM WalkInvariant == Spec => []WalkInv
<1>1. Init => SInv /\ WalkInv
  BY InitSInv, NewWalk, CodegenAssumption DEF Init
<1>2. SInv /\ WalkInv /\ [Next]_vars => SInv' /\ WalkInv'
  BY Step, WalkStep
<1> QED
  BY <1>1, <1>2, PTL DEF Spec

(* When the walk and the fixups are done the layout is complete.           *)
LEMMA LayoutComplete ==
    ASSUME SInv, WalkInv, phase \in {"written", "loaded"}
    PROVE  /\ size = Offset(Len(src) + 1)
           /\ DOMAIN ins = {Offset(k) : k \in Instructions}
           /\ \A k \in Instructions : LayoutOf(k, ins[Offset(k)])
<1>1. LaidOut /\ fixups = <<>> /\ pos = Len(src) + 1
  BY DEF WalkInv, Phases
<1>2. Pending = {} /\ ~InBody
  BY <1>1 DEF Pending, SInv, CodegenInv, OpenBody
<1>3. {j \in Instructions : j < pos} = Instructions
  BY <1>1, SourceTyped DEF Instructions
<1>4. ASSUME NEW k \in Instructions PROVE LayoutOf(k, ins[Offset(k)])
  <2>1. k < pos
    BY <1>3
  <2>2. EncodedSoFar(k, ins[Offset(k)])
    BY <1>1, <2>1 DEF LaidOut
  <2> QED
    BY <1>2, <2>2 DEF EncodedSoFar, LayoutOf
<1> QED
  BY <1>1, <1>3, <1>4 DEF LaidOut

(* What the compiler writes is the source: every statement at its offset,  *)
(* every jump at its label, every body's range around its statements and   *)
(* every string operand at its string, for every set of parsed programs    *)
(* (codegen.go:138-177, 288-325, 371-453).                                 *)
THEOREM WritesTheSource == Spec => []Translated
<1>1. Init => SInv /\ WalkInv
  BY InitSInv, NewWalk, CodegenAssumption DEF Init
<1>2. SInv /\ WalkInv /\ [Next]_vars => SInv' /\ WalkInv'
  BY Step, WalkStep
<1>3. SInv /\ WalkInv => Translated
  BY LayoutComplete DEF Translated
<1> QED
  BY <1>1, <1>2, <1>3, PTL DEF Spec

-----------------------------------------------------------------------------
(* What a program that was compiled is besides: every register exists, and *)
(* a label has one place.                                                  *)
LEMMA AcceptedSound ==
    ASSUME SInv, WalkInv, phase \in {"written", "loaded"}
    PROVE  /\ \A k \in 1 .. Len(src) : ~BadRegister(src[k])
           /\ \A j, k \in 1 .. Len(src) :
                 src[j].op = "LABEL" /\ src[k].op = "LABEL" /\ src[j].l = src[k].l => j = k
<1> DEFINE n == Len(src)
           B == {k \in 1 .. n : BadRegister(src[k])}
<1>1. n \in Nat /\ pos = n + 1 /\ errors = {}
  BY SourceTyped DEF WalkInv, Phases
<1>2. \A k \in 1 .. n : ~Found(k)
  BY <1>1 DEF WalkInv, FaultsFound
<1>3. B = {}
  <2> SUFFICES ASSUME B # {} PROVE FALSE
    OBVIOUS
  <2>1. B \subseteq Nat
    BY <1>1
  <2>2. PICK m \in B : \A k \in B : m <= k
    <3> HIDE DEF B
    <3> QED
      BY <2>1, LeastNumber
  <2>3. ~Skipped(m)
    <3> SUFFICES ASSUME NEW h \in 1 .. (m - 1), BadRegister(src[h]) PROVE FALSE
      BY DEF Skipped
    <3>1. h \in B /\ h < m
      BY <1>1, <2>2
    <3> QED
      BY <1>1, <2>1, <2>2, <3>1
  <2> QED
    BY <1>2, <2>2, <2>3 DEF Found
<1>4. \A k \in 1 .. n : ~Skipped(k)
  BY <1>1, <1>3 DEF Skipped
<1>5. ASSUME NEW j \in 1 .. n, NEW k \in 1 .. n, j < k,
             src[j].op = "LABEL", src[k].op = "LABEL", src[j].l = src[k].l
      PROVE  FALSE
  <2>1. j \in 1 .. (k - 1) /\ Defines(j, src[k].l)
    BY <1>1, <1>4, <1>5 DEF Defines
  <2> QED
    BY <1>2, <1>4, <1>5, <2>1 DEF Found
<1>6. \A j, k \in 1 .. n : j < k \/ k < j \/ j = k
  BY <1>1
<1> QED
  BY <1>3, <1>5, <1>6

(* Offsets never decrease, and say how many instructions lie before.       *)
LEMMA OffsetsGrow ==
    ASSUME SInv, NEW j \in 1 .. (Len(src) + 1), NEW k \in 1 .. (Len(src) + 1), j <= k
    PROVE  Offset(j) \in Nat /\ Offset(k) \in Nat /\ Offset(j) <= Offset(k)
<1>1. Offset(j) \in Nat /\ Offset(k) \in Nat /\ Len(src) \in Nat
  BY OffsetFacts, SourceTyped
<1>2. CASE j = k
  BY <1>1, <1>2
<1>3. CASE j < k
  <2>1. j \in 1 .. Len(src) /\ k \in (j + 1) .. (Len(src) + 1)
    BY <1>1, <1>3
  <2>2. Offset(j) + StmtSize(src[j]) <= Offset(k) /\ StmtSize(src[j]) \in Nat
    BY <2>1, OffsetFacts, SizesTyped
  <2> QED
    BY <1>1, <2>2
<1> QED
  BY <1>1, <1>2, <1>3

(* Every instruction of a compiled program is a statement's. *)
LEMMA InstructionPlaced ==
    ASSUME SInv, WalkInv, phase \in {"written", "loaded"}, NEW k \in Instructions
    PROVE  /\ Offset(k) \in DOMAIN ins /\ LayoutOf(k, ins[Offset(k)])
           /\ ins[Offset(k)].op = Opcode(src[k])
           /\ Offset(k + 1) = Offset(k) + InsSize(Opcode(src[k]))
           /\ Offset(k) < size /\ Offset(k + 1) <= size
<1>1. Offset(k) \in DOMAIN ins /\ LayoutOf(k, ins[Offset(k)]) /\ size = Offset(Len(src) + 1)
  BY LayoutComplete
<1>2. k \in 1 .. Len(src) /\ src[k].op # "LABEL" /\ Len(src) \in Nat
  BY SourceTyped DEF Instructions
<1>3. Offset(k + 1) = Offset(k) + StmtSize(src[k]) /\ StmtSize(src[k]) = InsSize(Opcode(src[k]))
  BY <1>2, OffsetFacts, SizesTyped
<1>4. Offset(k) < size /\ Offset(k + 1) <= size
  BY <1>1, <1>2, OffsetsApart, OffsetsGrow
<1> QED
  BY <1>1, <1>3, <1>4 DEF LayoutOf, OperandsOf

(* Operands fit their fields when the code and the pool fit theirs.        *)
LEMMA OperandsFit ==
    ASSUME SInv, WalkInv, phase \in {"written", "loaded"}, NEW k \in Instructions,
           size < WordSize, Len(consts) <= WordSize \div 2, 16 < WordSize \div 2
    PROVE  LET i == ins[Offset(k)]
           IN  /\ i.v \in 0 .. (WordSize - 1)
               /\ src[k].op = "ON_CHAT" => /\ i.off \in 0 .. (WordSize - 1)
                                           /\ i.len \in 0 .. (WordSize - 1)
<1> DEFINE i == ins[Offset(k)]
           st == src[k]
<1>1. LayoutOf(k, i) /\ size \in Nat /\ WordSize \in Nat /\ WordSize >= 2
  BY InstructionPlaced, WordSizeFacts DEF SInv, CodegenInv, TypeOK
<1>2. k \in 1 .. Len(src) /\ st.op # "LABEL" /\ Len(src) \in Nat /\ st \in Statement
  BY SourceTyped DEF Instructions
<1>3. st.op \in Plain \cup Branch \cup {"MOV_STR", "SEND_STR", "ON_CHAT"}
  BY <1>2 DEF Statement, Kinds, Plain, Branch, TwoRegister, JumpOps
<1>4. \A j \in 1 .. (Len(src) + 1) : Offset(j) \in 0 .. (WordSize - 1) /\ Offset(j) <= size
  <2> SUFFICES ASSUME NEW j \in 1 .. (Len(src) + 1)
               PROVE  Offset(j) \in 0 .. (WordSize - 1) /\ Offset(j) <= size
    OBVIOUS
  <2>1. Offset(j) \in Nat /\ Offset(j) <= Offset(Len(src) + 1)
    BY <1>2, OffsetsGrow
  <2>2. Offset(Len(src) + 1) = size
    BY LayoutComplete
  <2> QED
    BY <1>1, <2>1, <2>2
<1>5. ASSUME st.op \in Plain PROVE i.v \in 0 .. (WordSize - 1)
  <2>1. i = Encoded(st)
    BY <1>1, <1>5 DEF LayoutOf, OperandsOf
  <2>2. st.op = "SEND_REG" => st.a \in 1 .. 16
    BY <1>2, AcceptedSound DEF BadRegister, Registers
  <2>3. st.v % WordSize \in 0 .. (WordSize - 1)
    BY <1>1, <1>2 DEF Statement
  <2> HIDE DEF i, st
  <2>4. Encoded(st).v \in {0, st.v % WordSize} \cup (IF st.op = "SEND_REG" THEN {st.a} ELSE {})
    BY <1>5 DEF Encoded, Code, Plain, TwoRegister, AluOps
  <2>5. i.v = 0 \/ i.v = st.v % WordSize \/ (st.op = "SEND_REG" /\ i.v = st.a)
    BY <2>1, <2>4
  <2>6. 16 < WordSize
    BY <1>1
  <2>7. st.op = "SEND_REG" => st.a \in 0 .. (WordSize - 1)
    BY <1>1, <2>2, <2>6
  <2>8. 0 \in 0 .. (WordSize - 1)
    BY <1>1
  <2> QED
    BY <2>3, <2>5, <2>7, <2>8
<1>6. ASSUME st.op \in Branch PROVE i.v \in 0 .. (WordSize - 1)
  <2>1. PICK j \in 1 .. Len(src) : i.v = Offset(j)
    BY <1>1, <1>6 DEF LayoutOf, JumpsTo
  <2> QED
    BY <1>2, <1>4, <2>1
<1>7. \A x \in Int : x + 1 \in DOMAIN consts => x \in 0 .. ((WordSize \div 2) - 1)
  BY <1>1 DEF SInv, CodegenInv, TypeOK
<1>8. ASSUME st.op \in {"MOV_STR", "SEND_STR", "ON_CHAT"} PROVE i.v \in 0 .. (WordSize - 1)
  <2>1. i.v \in Nat
    BY InstructionPlaced DEF SInv, CodegenInv, TypeOK, Instruction, Header
  <2>2. st.op # "SEND_STR" => i.v + 1 \in DOMAIN consts
    BY <1>1, <1>8 DEF LayoutOf, OperandsOf
  <2>3. st.op = "SEND_STR" => i.v - (WordSize \div 2) + 1 \in DOMAIN consts
    BY <1>1, <1>8 DEF LayoutOf, OperandsOf
  <2> HIDE DEF i, st
  <2> QED
    BY <1>1, <1>7, <2>1, <2>2, <2>3
<1>9. ASSUME st.op = "ON_CHAT"
      PROVE  i.off \in 0 .. (WordSize - 1) /\ i.len \in 0 .. (WordSize - 1)
  <2>1. i.off = Offset(k + 1) /\ i.off + i.len = Offset(k + 1 + st.body)
    BY <1>1, <1>9 DEF LayoutOf, SpansBody
  <2>2. st.body \in Nat /\ k + st.body <= Len(src)
    BY <1>2, <1>9, SourceTyped DEF SInv, IsProgram
  <2>3. k + 1 \in 1 .. (Len(src) + 1) /\ k + 1 + st.body \in 1 .. (Len(src) + 1)
    BY <1>2, <2>2
  <2>4. i.len \in Nat
    <3>1. Offset(k) \in DOMAIN ins /\ i.op = "ON_CHAT"
      BY <1>9, InstructionPlaced DEF Opcode
    <3>2. i \in Instruction \cup Header
      BY <3>1 DEF SInv, CodegenInv, TypeOK
    <3>3. "ON_CHAT" \notin Opcodes
      BY DEF Opcodes, TwoRegister, AluOps, JumpOps
    <3> QED
      BY <3>1, <3>2, <3>3 DEF Instruction, Header
  <2> HIDE DEF i, st
  <2>5. Offset(k + 1) \in 0 .. (WordSize - 1) /\ Offset(k + 1 + st.body) \in 0 .. (WordSize - 1)
    BY <1>4, <2>3
  <2> QED
    BY <1>1, <2>1, <2>4, <2>5
<1> QED
  BY <1>3, <1>5, <1>6, <1>8, <1>9
====================================================================================
