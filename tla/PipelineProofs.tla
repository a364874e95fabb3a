------------------------------- MODULE PipelineProofs -------------------------------
(***************************************************************************)
(* Proofs about the whole of flux, for every alphabet, every set of        *)
(* sources and every size of the machine, from the theorems about its      *)
(* parts: each stage's inductive invariant holds on what the stage before  *)
(* hands it.                                                               *)
(***************************************************************************)
EXTENDS Pipeline, TLAPS, SequenceTheorems, FiniteSetTheorems

(* The components with their theorems, at Pipeline's own instances. *)
PP == INSTANCE ParserProofs

CP == INSTANCE CodegenProofs WITH
         src <- program, errors <- faults,
         Sources <- {}, Strings <- Words, Labels <- Words

VP == INSTANCE FluxVMProofs WITH
         code <- vm, Programs <- {}, Strings <- Words

-----------------------------------------------------------------------------
(* The assumptions of the components follow from Pipeline's. *)

LEMMA ParserStep ==
    /\ PP!Init => PP!ParserInv
    /\ PP!ParserInv /\ [PP!Next]_(PP!vars) => PP!ParserInv'
<1>1. Sources \subseteq PP!Words /\ MaxInt \in Nat
  BY PipelineAssumption DEF PP!Words, PP!Characters, PP!Quote, PP!NUL,
                            Words, Characters, Quote, NUL
<1> QED
  BY PP!ParserInit, PP!ParserNext, <1>1, LexerAssumption
  DEF PP!keywords, PP!registers, PP!registerTokens, PP!Quote, PP!NUL,
      keywords, registers, registerTokens, Quote, NUL

LEMMA CompilerStep ==
    /\ CP!IsProgram(program) /\ CP!New => CP!SInv
    /\ CP!SInv /\ [CP!Next]_(CP!vars) => CP!SInv'
    /\ CP!SInv /\ CP!FileInv /\ [CP!Next]_(CP!vars) => CP!FileInv'
    /\ CP!SInv => CP!EmitsWellFormed
    /\ CP!IsProgram(program) /\ CP!New => CP!WalkInv
    /\ CP!SInv /\ CP!WalkInv /\ [CP!Next]_(CP!vars) => CP!WalkInv'
  BY CP!NewSInv, CP!Step, CP!FileInvStep, CP!SInvWellFormed, CP!NewWalk, CP!WalkStep,
     PipelineAssumption
  DEF CP!WordSize, CP!Pow2, V!WordSize, V!Pow2

LEMMA MachineStep ==
    /\ VP!WellFormed(vm) /\ vm.consts \in Seq(Words) /\ VP!Boot => VP!ControlInv
    /\ VP!ControlInv /\ [VP!Next]_(VP!vars) => VP!ControlInv'
    /\ /\ VP!WellFormed(vm) /\ VP!Narrow(vm) /\ VP!Boot
       /\ \A k \in DOMAIN vm.consts : VP!Sized(vm.consts[k])
       => VP!TypeOK /\ VP!HeapInv /\ VP!ReferInv
    /\ /\ VP!ControlInv /\ VP!TypeOK /\ VP!HeapInv /\ VP!ReferInv
       /\ [VP!Next]_(VP!vars)
       => VP!TypeOK' /\ VP!HeapInv' /\ VP!ReferInv'
<1>1. VP!WordSize = VP!Word /\ MaxCallStackDepth \in Nat
  BY PipelineAssumption DEF VP!WordSize, VP!Word, VP!Pow2, V!WordSize, V!Pow2
<1>2. RAMSize >= VP!HeaderSize /\ RAMSize + VP!HeaderSize < VP!Word
  BY PipelineAssumption DEF VP!HeaderSize, VP!Word
<1>3. \A u \in Users : VP!Sized(u)
  BY PipelineAssumption DEF VP!Sized, VP!Byte
<1>4. /\ VP!WellFormed(vm) /\ VP!Narrow(vm) /\ VP!Boot => VP!TypeOK
      /\ VP!Boot /\ (\A k \in DOMAIN vm.consts : VP!Sized(vm.consts[k])) => VP!HeapInv
      /\ VP!Boot => VP!ReferInv
  BY VP!TypedBoot, VP!BootHeap, VP!ReferBoot, PipelineAssumption, <1>1, <1>2, <1>3
<1>5. /\ VP!ControlInv /\ VP!HeapInv /\ [VP!Next]_(VP!vars) => VP!ControlInv' /\ VP!HeapInv'
      /\ VP!TypeOK /\ VP!ControlInv /\ VP!ControlInv' /\ VP!HeapInv /\ [VP!Next]_(VP!vars)
         => VP!TypeOK'
      /\ VP!ControlInv /\ VP!TypeOK /\ VP!HeapInv /\ VP!ReferInv /\ [VP!Next]_(VP!vars)
         => VP!ReferInv'
  BY VP!SafeNext, VP!TypedNext, VP!ReferNext, PipelineAssumption, <1>1, <1>2, <1>3
<1>6. /\ VP!WellFormed(vm) /\ vm.consts \in Seq(Words) /\ VP!Boot => VP!ControlInv
      /\ VP!ControlInv /\ [VP!Next]_(VP!vars) => VP!ControlInv'
  BY VP!BootControl, VP!ControlNext, PipelineAssumption, <1>1, <1>2, <1>3
<1> QED
  BY <1>4, <1>5, <1>6

-----------------------------------------------------------------------------
(* Two instances of a module with the same substitution mean the same.     *)

LEMMA SameParser ==
    (P!Init <=> PP!Init) /\ (P!Next <=> PP!Next)
  BY DEF P!Init, P!Next, P!NextToken, P!NoStmt, P!BeginStatement, P!TakeOperand,
          P!WrongOperand, P!TooLarge, P!EndStatement, P!LabelStatement, P!Unexpected,
          P!CloseBlock, P!NextStatement, P!EndOfInput, P!Past, P!Ch, P!First, P!Quote,
          P!NUL, P!Word, P!Token, P!AfterString, P!LookupIdent, P!AtStatement, P!keywords,
          P!Form, P!Stay, P!Fits, P!Overflows, P!nextToken, P!Expected, P!Value, P!GiveUp,
          P!Append1, P!Kind, P!BodyEnds, P!Characters, P!Operand, P!Register, P!Comma,
          P!Integer, P!Loose, P!Either, P!String, P!AluOps, P!Branch, P!Name, P!registers,
          P!registerTokens, P!BlockStarters, P!JumpOps, PP!Init, PP!Next, PP!NextToken,
          PP!NoStmt, PP!BeginStatement, PP!TakeOperand, PP!WrongOperand, PP!TooLarge,
          PP!EndStatement, PP!LabelStatement, PP!Unexpected, PP!CloseBlock,
          PP!NextStatement, PP!EndOfInput, PP!Past, PP!Ch, PP!First, PP!Quote, PP!NUL,
          PP!Word, PP!Token, PP!AfterString, PP!LookupIdent, PP!AtStatement, PP!keywords,
          PP!Form, PP!Stay, PP!Fits, PP!Overflows, PP!nextToken, PP!Expected, PP!Value,
          PP!GiveUp, PP!Append1, PP!Kind, PP!BodyEnds, PP!Characters, PP!Operand,
          PP!Register, PP!Comma, PP!Integer, PP!Loose, PP!Either, PP!String, PP!AluOps,
          PP!Branch, PP!Name, PP!registers, PP!registerTokens, PP!BlockStarters, PP!JumpOps

LEMMA SameProgram ==
    /\ P!BuildsProgram <=> PP!BuildsProgram
    /\ PP!BuildsProgram <=> CP!IsProgram(program)
  BY DEF P!BuildsProgram, P!IsProgram, P!Statement, P!TopLevel, P!Kinds, P!TwoRegister,
          P!JumpOps, P!AluOps, P!Words, P!Characters, P!NUL, P!Quote, PP!BuildsProgram,
          PP!IsProgram, PP!Statement, PP!TopLevel, PP!Kinds, PP!TwoRegister, PP!JumpOps,
          PP!AluOps, PP!Words, PP!Characters, PP!NUL, PP!Quote, CP!IsProgram, CP!Statement,
          CP!TopLevel, CP!Kinds, CP!TwoRegister, CP!JumpOps, CP!AluOps, Words, Characters,
          NUL, Quote

LEMMA SameCompiler ==
    (C!New <=> CP!New) /\ (C!Next <=> CP!Next)
  BY DEF C!New, C!Next, C!NoBody, C!NoFile, C!EmitPlain, C!EmitString, C!EmitLabel,
          C!EmitJump, C!BeginOnChat, C!EndOnChat, C!EndWalk, C!Resolve, C!Refuse,
          C!WriteFile, C!LoadFile, C!AtStmt, C!Stmt, C!Plain, C!BadRegister,
          C!EmitNothing, C!Record, C!Emit, C!Encoded, C!Code, C!ConstIndex, C!WordSize,
          C!Pow2, C!AddConstant, C!Branch, C!InBody, C!BodyStart, C!walk, C!Target,
          C!TwoRegister, C!Registers, C!InsSize, C!Known, C!JumpOps, C!AluOps, CP!New,
          CP!Next, CP!NoBody, CP!NoFile, CP!EmitPlain, CP!EmitString, CP!EmitLabel,
          CP!EmitJump, CP!BeginOnChat, CP!EndOnChat, CP!EndWalk, CP!Resolve, CP!Refuse,
          CP!WriteFile, CP!LoadFile, CP!AtStmt, CP!Stmt, CP!Plain, CP!BadRegister,
          CP!EmitNothing, CP!Record, CP!Emit, CP!Encoded, CP!Code, CP!ConstIndex,
          CP!WordSize, CP!Pow2, CP!AddConstant, CP!Branch, CP!InBody, CP!BodyStart,
          CP!walk, CP!Target, CP!TwoRegister, CP!Registers, CP!InsSize, CP!Known,
          CP!JumpOps, CP!AluOps

LEMMA SameMachine ==
    (V!Boot <=> VP!Boot) /\ (V!Next <=> VP!Next)
<1> USE DEF
      V!Registers, V!ResetRAM, V!NoEvent, V!PutUint32, V!Cell, V!HeaderSize, V!AluOps,
      V!Pending, V!Matches, V!StringResult, V!AllocAddr, V!StringStored, V!Sub,
      V!WordSize, V!Panic, V!InBody, V!FreeFails, V!Freed, V!AtOp, V!AllocResult, V!Ins,
      V!Allocated, V!Register, V!Advance, V!Fail, V!InPool, V!Const, V!SkipBody,
      V!AluResult, V!JumpTo, V!FallThrough, V!StackFull, V!ReturnPC, V!InRun, V!InsSize,
      V!Unchecked, V!WalkEnd, V!WalkFrom, V!Breaks, V!Severs, V!Store, V!InRange,
      V!Flag, V!SetFlag, V!InLoop, V!Readable, V!CanCarve, V!Carve, V!Wrap, V!FromBits,
      V!Places, V!Bit, V!JumpOps, V!U32, V!Fits, V!NextCursor, V!Word, V!Splits,
      V!SplitAt, V!Claim, V!Remainder, V!Uint32, V!BlockEnd, V!Pow2, V!Stopped,
      V!WalkStops, VP!Registers, VP!ResetRAM, VP!NoEvent, VP!PutUint32, VP!Cell,
      VP!HeaderSize, VP!AluOps, VP!Pending, VP!Matches, VP!StringResult, VP!AllocAddr,
      VP!StringStored, VP!Sub, VP!WordSize, VP!Panic, VP!InBody, VP!FreeFails, VP!Freed,
      VP!AtOp, VP!AllocResult, VP!Ins, VP!Allocated, VP!Register, VP!Advance, VP!Fail,
      VP!InPool, VP!Const, VP!SkipBody, VP!AluResult, VP!JumpTo, VP!FallThrough,
      VP!StackFull, VP!ReturnPC, VP!InRun, VP!InsSize, VP!Unchecked, VP!WalkEnd,
      VP!WalkFrom, VP!Breaks, VP!Severs, VP!Store, VP!InRange, VP!Flag, VP!SetFlag,
      VP!InLoop, VP!Readable, VP!CanCarve, VP!Carve, VP!Wrap, VP!FromBits, VP!Places,
      VP!Bit, VP!JumpOps, VP!U32, VP!Fits, VP!NextCursor, VP!Word, VP!Splits,
      VP!SplitAt, VP!Claim, VP!Remainder, VP!Uint32, VP!BlockEnd, VP!Pow2, VP!Stopped,
      VP!WalkStops
<1>1. V!Boot <=> VP!Boot
  BY DEF V!Boot, VP!Boot
<1>2. /\ V!Alloc <=> VP!Alloc
      /\ V!Free <=> VP!Free
      /\ V!MovReg <=> VP!MovReg
      /\ V!MovInt <=> VP!MovInt
      /\ V!MovStr <=> VP!MovStr
  BY DEF V!Alloc, V!Free, V!MovReg, V!MovInt, V!MovStr, VP!Alloc, VP!Free, VP!MovReg,
         VP!MovInt, VP!MovStr
<1>3. /\ V!Output <=> VP!Output
      /\ V!OnChat <=> VP!OnChat
      /\ V!Cmp <=> VP!Cmp
  BY DEF V!Output, V!OnChat, V!Cmp, VP!Output, VP!OnChat, VP!Cmp
<1>4. /\ V!Jmp <=> VP!Jmp
      /\ V!Jz <=> VP!Jz
      /\ V!Jnz <=> VP!Jnz
      /\ V!Call <=> VP!Call
      /\ V!Ret <=> VP!Ret
      /\ V!Unknown <=> VP!Unknown
      /\ V!Truncated <=> VP!Truncated
  BY DEF V!Jmp, V!Jz, V!Jnz, V!Call, V!Ret, V!Unknown, V!Truncated, VP!Jmp, VP!Jz, VP!Jnz,
         VP!Call, VP!Ret, VP!Unknown, VP!Truncated
<1>5. /\ V!RunDone <=> VP!RunDone
      /\ V!SkipSub <=> VP!SkipSub
      /\ V!FireSub <=> VP!FireSub
      /\ V!FirePanic <=> VP!FirePanic
      /\ V!EndBody <=> VP!EndBody
      /\ V!EndDelivery <=> VP!EndDelivery
      /\ V!Quit <=> VP!Quit
  BY DEF V!RunDone, V!SkipSub, V!FireSub, V!FirePanic, V!EndBody, V!EndDelivery, V!Quit,
         VP!RunDone, VP!SkipSub, VP!FireSub, VP!FirePanic, VP!EndBody, VP!EndDelivery,
         VP!Quit
<1>6. \A u, m : V!Deliver(u, m) <=> VP!Deliver(u, m)
  BY DEF V!Deliver, VP!Deliver
<1>7. \A op : V!Arith(op) <=> VP!Arith(op)
  BY DEF V!Arith, VP!Arith
<1>8. V!Internal <=> VP!Internal
  BY <1>2, <1>3, <1>4, <1>5, <1>7
  DEF V!Internal, VP!Internal, V!Instruction, VP!Instruction
<1> QED
  BY <1>1, <1>5, <1>6, <1>8 DEF V!Next, VP!Next

LEMMA SameControl ==
    /\ V!WellFormed(vm) <=> VP!WellFormed(vm)
    /\ V!FetchOnBoundary <=> VP!FetchOnBoundary
    /\ V!StackDiscipline <=> VP!StackDiscipline
  BY DEF V!WellFormed, V!FetchOnBoundary, V!StackDiscipline, V!Fetchable,
          V!InstructionOK, V!InHandler, V!InsSize, V!JumpOps, V!WordSize, V!AluOps,
          VP!WellFormed, VP!FetchOnBoundary, VP!StackDiscipline, VP!Fetchable,
          VP!InstructionOK, VP!InHandler, VP!InsSize, VP!JumpOps, VP!WordSize,
          VP!AluOps, V!Pow2, VP!Pow2
-----------------------------------------------------------------------------
(* The compiler has not begun, or it compiles what an accepted source was  *)
(* parsed to; the machine has not begun, or runs what was loaded.          *)
CompilerInv ==
    \/ CP!New
    \/ pc = "done" /\ errors = 0 /\ CP!SInv /\ CP!FileInv /\ CP!WalkInv

Sound == VP!TypeOK /\ VP!HeapInv /\ VP!ReferInv

MachineInv ==
    \/ VP!Boot
    \/ /\ Loaded
       /\ size < V!WordSize => VP!ControlInv
       /\ Representable => Sound

PipelineInv == PP!ParserInv /\ CompilerInv /\ MachineInv

LEMMA SameWords ==
    /\ CP!WordSize = V!WordSize /\ VP!WordSize = V!WordSize /\ VP!Word = V!WordSize
    /\ V!Tag = V!WordSize \div 2
  BY PipelineAssumption DEF CP!WordSize, CP!Pow2, VP!WordSize, VP!Pow2, VP!Word,
                            V!WordSize, V!Pow2, V!Tag

(* What was loaded is what the machine may be given.                       *)
LEMMA LoadedWellFormed ==
    ASSUME CompilerInv, Loaded, size < V!WordSize
    PROVE  /\ errors = 0 /\ pc = "done"
           /\ VP!WellFormed(vm) /\ vm.consts \in Seq(Words)
<1>1. /\ pc = "done" /\ errors = 0 /\ CP!SInv /\ CP!FileInv /\ phase = "loaded"
  BY DEF CompilerInv, Loaded, CP!New
<1>2. CP!WellFormed(CP!Compiled)
  BY <1>1, CompilerStep, SameWords DEF CP!EmitsWellFormed
<1>3. vm = [ins |-> ins, size |-> size,
            consts |-> SubSeq(consts, 1, Len(consts) % CountLimit)]
  BY <1>1 DEF CP!FileInv
<1>4. VP!WellFormed(vm)
  <2>1. vm.ins = CP!Compiled.ins /\ vm.size = CP!Compiled.size
    BY <1>3 DEF CP!Compiled
  <2> HIDE DEF CP!Compiled
  <2> QED
    BY <1>2, <2>1 DEF VP!WellFormed, VP!Fetchable, VP!InstructionOK, VP!InsSize, VP!JumpOps,
                    VP!WordSize, VP!Pow2, VP!AluOps, CP!WellFormed, CP!Fetchable, CP!InstructionOK,
                    CP!InsSize, CP!JumpOps, CP!WordSize, CP!Pow2, CP!AluOps
<1>5. vm.consts \in Seq(Words)
  <2> DEFINE n == Len(consts) % CountLimit
  <2>1. consts \in Seq(Words) /\ Len(consts) \in Nat
    BY <1>1 DEF CP!FileInv
  <2>2. n \in Nat /\ n <= Len(consts)
    BY <2>1, PipelineAssumption
  <2>3. \A k \in 1 .. n : consts[k] \in Words
    BY <2>1, <2>2
  <2> HIDE DEF n
  <2>4. SubSeq(consts, 1, n) \in Seq(Words)
    BY <2>2, <2>3, SubSeqProperties
  <2> QED
    BY <1>3, <2>4 DEF n
<1> QED
  BY <1>1, <1>4, <1>5

(* And what is representable is loaded as it was compiled.                 *)
LEMMA LoadedWhole ==
    ASSUME CompilerInv, Loaded, Representable
    PROVE  /\ CP!SInv /\ CP!WalkInv /\ phase \in {"written", "loaded"}
           /\ vm.ins = ins /\ vm.size = size /\ vm.consts = consts
           /\ size < V!WordSize /\ Len(consts) <= V!Tag /\ 16 < V!Tag
<1>1. /\ CP!SInv /\ CP!WalkInv /\ CP!FileInv /\ phase = "loaded"
  BY DEF CompilerInv, Loaded, CP!New
<1>2. /\ size < V!WordSize /\ Len(consts) < CountLimit /\ Len(consts) <= V!Tag
  BY DEF Representable
<1>3. vm = [ins |-> ins, size |-> size,
            consts |-> SubSeq(consts, 1, Len(consts) % CountLimit)]
  BY <1>1 DEF CP!FileInv
<1>4. consts \in Seq(Words) /\ Len(consts) \in Nat
  BY <1>1 DEF CP!FileInv
<1>5. Len(consts) % CountLimit = Len(consts)
  BY <1>2, <1>4, PipelineAssumption
<1>6. SubSeq(consts, 1, Len(consts)) = consts
  BY <1>4
<1> QED
  BY <1>1, <1>2, <1>3, <1>5, <1>6, PipelineAssumption

LEMMA LoadedNarrow ==
    ASSUME CompilerInv, Loaded, Representable
    PROVE  /\ VP!Narrow(vm)
           /\ \A k \in DOMAIN vm.consts : VP!Sized(vm.consts[k])
<1>1. /\ CP!SInv /\ CP!WalkInv /\ phase \in {"written", "loaded"}
      /\ vm.ins = ins /\ vm.size = size /\ vm.consts = consts
      /\ size < V!WordSize /\ Len(consts) <= V!Tag /\ 16 < V!Tag
  BY LoadedWhole
<1>2. \A k \in DOMAIN vm.consts : VP!Sized(vm.consts[k])
  BY <1>1 DEF Representable, V!Sized, VP!Sized, V!Byte, VP!Byte
<1>3. VP!U32 = 0 .. (CP!WordSize - 1)
  BY SameWords DEF VP!U32
<1>4. ASSUME NEW o \in DOMAIN ins
      PROVE  /\ ins[o].v \in VP!U32
             /\ ins[o].op = "ON_CHAT" => ins[o].off \in VP!U32 /\ ins[o].len \in VP!U32
  <2>1. PICK k \in CP!Instructions : o = CP!Offset(k)
    BY <1>1, CP!LayoutComplete, PipelineAssumption
  <2>2. ins[o].op = CP!Opcode(program[k])
    BY <1>1, <2>1, CP!InstructionPlaced, PipelineAssumption
  <2>3. ins[o].op = "ON_CHAT" => program[k].op = "ON_CHAT"
    BY <2>2 DEF CP!Opcode
  <2>4. /\ ins[o].v \in 0 .. (CP!WordSize - 1)
        /\ program[k].op = "ON_CHAT" => /\ ins[o].off \in 0 .. (CP!WordSize - 1)
                                        /\ ins[o].len \in 0 .. (CP!WordSize - 1)
    BY <1>1, <2>1, CP!OperandsFit, PipelineAssumption, SameWords
  <2> QED
    BY <1>3, <2>3, <2>4
<1>5. size \in VP!U32
  <2>1. size \in Nat /\ CP!WordSize \in Nat
    BY <1>1, CP!WordSizeFacts, PipelineAssumption DEF CP!SInv, CP!CodegenInv, CP!TypeOK
  <2> QED
    BY <1>1, <1>3, <2>1, SameWords
<1> QED
  BY <1>1, <1>2, <1>4, <1>5 DEF VP!Narrow

LEMMA LoadedControl ==
    ASSUME CompilerInv, MachineInv, Loaded, size < V!WordSize
    PROVE  VP!ControlInv
  BY LoadedWellFormed, MachineStep DEF MachineInv

LEMMA LoadedSound ==
    ASSUME CompilerInv, MachineInv, Loaded, Representable
    PROVE  VP!ControlInv /\ Sound
<1>1. size < V!WordSize
  BY DEF Representable
<1>2. ASSUME VP!Boot PROVE Sound
  <2>1. VP!WellFormed(vm) /\ VP!Narrow(vm)
        /\ \A k \in DOMAIN vm.consts : VP!Sized(vm.consts[k])
    BY <1>1, LoadedWellFormed, LoadedNarrow
  <2> QED
    BY <1>2, <2>1, MachineStep DEF Sound
<1>3. ~VP!Boot => Sound
  BY DEF MachineInv
<1> QED
  BY <1>1, <1>2, <1>3, LoadedControl
LEMMA PipelineInit == Init => PipelineInv
  BY ParserStep, SameParser, SameCompiler, SameMachine
  DEF Init, PipelineInv, CompilerInv, MachineInv

(* The parser moves only before the compiler does. *)
LEMMA ParseStep == PipelineInv /\ Parse => PipelineInv'
<1> SUFFICES ASSUME PipelineInv, Parse PROVE PipelineInv'
  OBVIOUS
<1>1. PP!Next /\ UNCHANGED <<compiler, machine>>
  BY SameParser DEF Parse
<1>2. PP!ParserInv'
  BY <1>1, ParserStep DEF PipelineInv
<1>3. pc # "done"
  BY <1>1 DEF PP!Next, PP!BeginStatement, PP!TakeOperand, PP!WrongOperand, PP!TooLarge,
              PP!EndStatement, PP!LabelStatement, PP!Unexpected, PP!CloseBlock,
              PP!NextStatement, PP!EndOfInput, PP!AtStatement
<1>4. CP!New /\ CP!New'
  BY <1>1, <1>3 DEF PipelineInv, CompilerInv, CP!New, CP!NoBody, CP!NoFile, compiler
<1>5. VP!Boot /\ VP!Boot'
  <2>1. ~Loaded
    BY <1>4 DEF Loaded, CP!New
  <2>2. VP!Boot
    BY <2>1 DEF PipelineInv, MachineInv
  <2> QED
    BY <1>1, <2>2 DEF VP!Boot, machine, VP!NoEvent, VP!ResetRAM
<1> QED
  BY <1>2, <1>4, <1>5 DEF PipelineInv, CompilerInv, MachineInv

(* The compiler starts on a program, and the machine waits for it.         *)
LEMMA CompileStep == PipelineInv /\ Compile => PipelineInv'
<1> SUFFICES ASSUME PipelineInv, Compile PROVE PipelineInv'
  OBVIOUS
<1>1. pc = "done" /\ errors = 0 /\ CP!Next /\ UNCHANGED <<parser, machine>>
  BY SameCompiler DEF Compile
<1>2. PP!ParserInv'
  <2>1. UNCHANGED PP!vars
    BY <1>1 DEF parser, PP!vars
  <2> QED
    BY <2>1, ParserStep DEF PipelineInv
<1>3. CP!SInv /\ CP!FileInv /\ CP!WalkInv
  <2>1. CASE CP!New
    <3>1. CP!IsProgram(program)
      BY SameProgram DEF PipelineInv, PP!ParserInv
    <3>2. CP!FileInv
      BY <2>1 DEF CP!New, CP!FileInv
    <3> QED
      BY <2>1, <3>1, <3>2, CompilerStep
  <2>2. CASE ~CP!New
    BY <2>2 DEF PipelineInv, CompilerInv
  <2> QED
    BY <2>1, <2>2
<1>4. CP!SInv' /\ CP!FileInv' /\ CP!WalkInv'
  BY <1>1, <1>3, CompilerStep
<1>5. CompilerInv'
  BY <1>1, <1>4 DEF CompilerInv, parser
<1>6. ~Loaded
  BY <1>1 DEF Loaded, CP!Next, CP!EmitPlain, CP!EmitString, CP!EmitLabel, CP!EmitJump,
              CP!BeginOnChat, CP!EndOnChat, CP!EndWalk, CP!Resolve, CP!Refuse,
              CP!WriteFile, CP!LoadFile, CP!AtStmt
<1>7. VP!Boot'
  BY <1>1, <1>6 DEF PipelineInv, MachineInv, VP!Boot, machine, VP!NoEvent, VP!ResetRAM
<1> QED
  BY <1>2, <1>5, <1>7 DEF PipelineInv, MachineInv

LEMMA ExecuteStep == PipelineInv /\ Execute => PipelineInv'
<1> SUFFICES ASSUME PipelineInv, Execute PROVE PipelineInv'
  OBVIOUS
<1>1. Loaded /\ VP!Next /\ UNCHANGED <<parser, compiler>>
  BY SameMachine DEF Execute, Loaded
<1>2. PP!ParserInv'
  <2>1. UNCHANGED PP!vars
    BY <1>1 DEF parser, PP!vars
  <2> QED
    BY <2>1, ParserStep DEF PipelineInv
<1>3. CompilerInv'
  <2>1. UNCHANGED CP!vars
    BY <1>1 DEF parser, compiler, CP!vars, CP!walk
  <2>2. pc = "done" /\ errors = 0 /\ CP!SInv /\ CP!FileInv /\ CP!WalkInv
    BY <1>1 DEF PipelineInv, CompilerInv, CP!New, Loaded
  <2>3. CP!SInv' /\ CP!FileInv' /\ CP!WalkInv'
    BY <2>1, <2>2, CompilerStep
  <2> QED
    BY <1>1, <2>2, <2>3 DEF CompilerInv, parser
<1>4. MachineInv'
  <2>1. Loaded' /\ size' = size
    BY <1>1 DEF Loaded, compiler
  <2>2. size < V!WordSize => VP!ControlInv
    BY <1>1, LoadedControl DEF PipelineInv
  <2>3. size < V!WordSize => VP!ControlInv'
    BY <1>1, <2>2, MachineStep
  <2>4. (size < V!WordSize)' <=> size < V!WordSize
    BY <2>1 DEF V!WordSize
  <2>5. Representable => Sound'
    BY <1>1, LoadedSound, MachineStep DEF PipelineInv, Sound
  <2>6. Representable' <=> Representable
    BY <1>1 DEF Representable, Loaded, compiler, V!WordSize, V!Tag, V!Sized
  <2> QED
    BY <2>1, <2>3, <2>4, <2>5, <2>6 DEF MachineInv
<1> QED
  BY <1>2, <1>3, <1>4 DEF PipelineInv

LEMMA PipelineStutter == PipelineInv /\ UNCHANGED vars => PipelineInv'
<1> SUFFICES ASSUME PipelineInv, UNCHANGED vars PROVE PipelineInv'
  OBVIOUS
<1>1. UNCHANGED PP!vars /\ UNCHANGED CP!vars /\ UNCHANGED VP!vars
      /\ UNCHANGED <<pc, errors, phase, size>>
  BY DEF vars, parser, compiler, machine, PP!vars, CP!vars, CP!walk, VP!vars
<1>2. PP!ParserInv'
  BY <1>1, ParserStep DEF PipelineInv
<1>3. CompilerInv'
  <2>1. CASE CP!New
    <3>1. CP!New'
      BY <2>1 DEF CP!New, CP!NoBody, CP!NoFile, vars, compiler
    <3> QED
      BY <3>1 DEF CompilerInv
  <2>2. CASE ~CP!New
    BY <1>1, <2>2, CompilerStep DEF PipelineInv, CompilerInv
  <2> QED
    BY <2>1, <2>2
<1>4. MachineInv'
  <2>1. CASE VP!Boot
    <3>1. VP!Boot'
      BY <2>1 DEF VP!Boot, VP!NoEvent, VP!ResetRAM, vars, machine
    <3> QED
      BY <3>1 DEF MachineInv
  <2>2. CASE ~VP!Boot
    <3>1. Loaded /\ Loaded' /\ ((size < V!WordSize)' <=> size < V!WordSize)
      BY <1>1, <2>2 DEF PipelineInv, MachineInv, Loaded, V!WordSize
    <3>2. Representable' <=> Representable
      BY DEF Representable, Loaded, vars, compiler, V!WordSize, V!Tag, V!Sized
    <3>3. Representable => Sound'
      BY <1>1, <3>1, LoadedSound, MachineStep DEF PipelineInv, Sound
    <3>4. size < V!WordSize => VP!ControlInv'
      BY <1>1, <2>2, MachineStep DEF PipelineInv, MachineInv
    <3> QED
      BY <3>1, <3>2, <3>3, <3>4 DEF MachineInv
  <2> QED
    BY <2>1, <2>2
<1> QED
  BY <1>2, <1>3, <1>4 DEF PipelineInv

(***************************************************************************)
(* From characters to chat lines: no source makes the machine decode what  *)
(* is not an instruction, or grow its call stack past the limit.           *)
(***************************************************************************)
THEOREM SourcesRunOnInstructions == Spec => []RunsOnInstructions
<1>1. PipelineInv /\ [Next]_vars => PipelineInv'
  BY ParseStep, CompileStep, ExecuteStep, PipelineStutter DEF Next
<1>2. PipelineInv => RunsOnInstructions
  <2> SUFFICES ASSUME PipelineInv, Loaded, size < V!WordSize
               PROVE  /\ errors = 0 /\ P!BuildsProgram
                      /\ V!WellFormed(vm) /\ V!FetchOnBoundary /\ V!StackDiscipline
    BY DEF RunsOnInstructions
  <2>1. errors = 0 /\ VP!WellFormed(vm)
    BY LoadedWellFormed DEF PipelineInv
  <2>2. P!BuildsProgram
    BY SameProgram DEF PipelineInv, PP!ParserInv
  <2>3. VP!FetchOnBoundary /\ VP!StackDiscipline
    BY LoadedControl DEF PipelineInv, VP!ControlInv
  <2> QED
    BY <2>1, <2>2, <2>3, SameControl
<1> QED
  BY PipelineInit, <1>1, <1>2, PTL DEF Spec

-----------------------------------------------------------------------------
(* The refinement of FluxLang.  Numbers of statements and offsets of       *)
(* instructions tell the same places apart: both are counted.              *)
(* The statements before k that are instructions. *)
Before(k) == {j \in 1 .. (k - 1) : program[j].op # "LABEL"}

LEMMA BeforeFacts ==
    ASSUME CP!SInv
    PROVE  /\ \A k \in 1 .. (Len(program) + 1) :
                 IsFiniteSet(Before(k)) /\ Cardinality(Before(k)) \in Nat
           /\ \A k \in CP!Instructions : Cardinality(Before(k + 1)) = Cardinality(Before(k)) + 1
           /\ \A j, k \in 1 .. (Len(program) + 1) :
                 j <= k => Cardinality(Before(j)) <= Cardinality(Before(k))
           /\ \A j \in CP!Instructions, k \in 1 .. (Len(program) + 1) :
                 j < k => Cardinality(Before(j)) < Cardinality(Before(k))
<1> DEFINE n == Len(program)
<1>0. n \in Nat
  BY CP!SourceTyped, PipelineAssumption
<1>1. \A k \in 1 .. (n + 1) : IsFiniteSet(Before(k)) /\ Cardinality(Before(k)) \in Nat
  <2> SUFFICES ASSUME NEW k \in 1 .. (n + 1)
               PROVE  IsFiniteSet(Before(k)) /\ Cardinality(Before(k)) \in Nat
    OBVIOUS
  <2>1. IsFiniteSet(1 .. (k - 1))
    BY <1>0, FS_Interval
  <2>2. Before(k) \in SUBSET (1 .. (k - 1))
    BY DEF Before
  <2> QED
    BY <2>1, <2>2, FS_Subset, FS_CardinalityType
<1>2. \A j, k \in 1 .. (n + 1) : j <= k => Cardinality(Before(j)) <= Cardinality(Before(k))
  <2> SUFFICES ASSUME NEW j \in 1 .. (n + 1), NEW k \in 1 .. (n + 1), j <= k
               PROVE  Cardinality(Before(j)) <= Cardinality(Before(k))
    OBVIOUS
  <2>1. Before(j) \in SUBSET Before(k)
    BY <1>0 DEF Before
  <2> QED
    BY <1>1, <2>1, FS_Subset
<1>3. \A k \in CP!Instructions : Cardinality(Before(k + 1)) = Cardinality(Before(k)) + 1
  <2> SUFFICES ASSUME NEW k \in CP!Instructions
               PROVE  Cardinality(Before(k + 1)) = Cardinality(Before(k)) + 1
    OBVIOUS
  <2>1. k \in 1 .. n /\ program[k].op # "LABEL"
    BY DEF CP!Instructions
  <2>2. Before(k + 1) = Before(k) \cup {k} /\ k \notin Before(k)
    BY <1>0, <2>1 DEF Before
  <2> QED
    BY <1>0, <1>1, <2>1, <2>2, FS_AddElement
<1>4. ASSUME NEW j \in CP!Instructions, NEW k \in 1 .. (n + 1), j < k
      PROVE  Cardinality(Before(j)) < Cardinality(Before(k))
  <2>1. j \in 1 .. (n + 1) /\ j + 1 \in 1 .. (n + 1) /\ j + 1 <= k
    BY <1>0, <1>4 DEF CP!Instructions
  <2>2. Cardinality(Before(j + 1)) <= Cardinality(Before(k))
    BY <1>2, <2>1
  <2>3. Cardinality(Before(j + 1)) = Cardinality(Before(j)) + 1
    BY <1>3
  <2> QED
    BY <1>1, <2>1, <2>2, <2>3
<1> QED
  BY <1>1, <1>2, <1>3, <1>4

LEMMA OffsetsCount ==
    ASSUME CP!SInv, NEW I, I = {CP!Offset(j) : j \in CP!Instructions},
           NEW k \in 1 .. (Len(program) + 1)
    PROVE  /\ IsFiniteSet({o \in I : o < CP!Offset(k)})
           /\ Cardinality({o \in I : o < CP!Offset(k)}) = Cardinality(Before(k))
<1> DEFINE S == Before(k)
           T == {o \in I : o < CP!Offset(k)}
           f == [j \in S |-> CP!Offset(j)]
<1>1. Len(program) \in Nat
  BY CP!SourceTyped, PipelineAssumption
<1>2. \A j \in S : j \in CP!Instructions /\ j < k
  BY <1>1 DEF Before, CP!Instructions
<1>3. \A j \in CP!Instructions : j < k => j \in S
  BY <1>1 DEF Before, CP!Instructions
<1>4. \A j \in CP!Instructions : j < k <=> CP!Offset(j) < CP!Offset(k)
  <2> SUFFICES ASSUME NEW j \in CP!Instructions PROVE j < k <=> CP!Offset(j) < CP!Offset(k)
    OBVIOUS
  <2>1. j \in 1 .. (Len(program) + 1)
    BY <1>1 DEF CP!Instructions
  <2>2. j < k => CP!Offset(j) < CP!Offset(k)
    BY CP!OffsetsApart, PipelineAssumption
  <2>3. k <= j => CP!Offset(k) <= CP!Offset(j) /\ CP!Offset(k) \in Nat /\ CP!Offset(j) \in Nat
    BY <2>1, CP!OffsetsGrow, PipelineAssumption
  <2> QED
    BY <1>1, <2>1, <2>2, <2>3
<1> HIDE DEF S
<1>5. f \in [S -> T]
  BY <1>2, <1>4
<1>6. \A a, b \in S : f[a] = f[b] => a = b
  BY <1>2, CP!OffsetsDiffer, PipelineAssumption
<1>7. \A t \in T : \E j \in S : f[j] = t
  BY <1>3, <1>4
<1>8. f \in Bijection(S, T)
  <2> HIDE DEF f, T
  <2> QED
    BY <1>5, <1>6, <1>7 DEF Bijection, Injection, Surjection, IsInjective
<1>9. ExistsBijection(S, T)
  BY <1>8 DEF ExistsBijection
<1>10. IsFiniteSet(S)
  BY BeforeFacts DEF S
<1> HIDE DEF T
<1>11. IsFiniteSet(T) /\ Cardinality(T) = Cardinality(S)
  BY <1>9, <1>10, FS_Bijection
<1> QED
  BY <1>11 DEF S, T

(* The places of a compiled program: every instruction is a statement's,   *)
(* and the number of instructions before a place tells it from the others. *)
Count(p) == Cardinality({o \in DOMAIN ins : o < p})

Rank(k) == Cardinality(Before(k))

LEMMA PlacesCounted ==
    ASSUME CP!SInv, CP!WalkInv, phase \in {"written", "loaded"}
    PROVE  /\ \A k \in 1 .. (Len(program) + 1) : Count(CP!Offset(k)) = Rank(k) /\ Rank(k) \in Nat
           /\ \A p \in Nat : p >= size => Count(p) = Rank(Len(program) + 1)
           /\ Count(0) = 0
<1>1. /\ size = CP!Offset(Len(program) + 1) /\ DOMAIN ins = {CP!Offset(j) : j \in CP!Instructions}
      /\ Len(program) \in Nat
  BY CP!LayoutComplete, CP!SourceTyped, PipelineAssumption
<1>2. \A k \in 1 .. (Len(program) + 1) : Count(CP!Offset(k)) = Rank(k) /\ Rank(k) \in Nat
  BY <1>1, OffsetsCount, BeforeFacts DEF Count, Rank
<1>3. ASSUME NEW p \in Nat, p >= size PROVE Count(p) = Rank(Len(program) + 1)
  <2>1. \A o \in DOMAIN ins : o \in Nat /\ o < size /\ size \in Nat
    BY DEF CP!SInv, CP!CodegenInv, CP!TypeOK, CP!Tiled
  <2>2. {o \in DOMAIN ins : o < p} = {o \in DOMAIN ins : o < size}
    BY <1>3, <2>1
  <2>3. Len(program) + 1 \in 1 .. (Len(program) + 1)
    BY <1>1
  <2> QED
    BY <1>1, <1>2, <2>2, <2>3 DEF Count
<1>4. Count(0) = 0
  <2>1. {o \in DOMAIN ins : o < 0} = {}
    BY DEF CP!SInv, CP!CodegenInv, CP!TypeOK
  <2> QED
    BY <2>1, FS_EmptySet DEF Count
<1> QED
  BY <1>2, <1>3, <1>4

LEMMA RanksOrder ==
    ASSUME CP!SInv
    PROVE  /\ \A k \in CP!Instructions : /\ k \in 1 .. Len(program) /\ k + 1 \in 1 .. (Len(program) + 1)
                                      /\ Rank(k + 1) = Rank(k) + 1
           /\ \A j \in CP!Instructions, k \in 1 .. (Len(program) + 1) :
                 Rank(j) < Rank(k) <=> CP!Offset(j) < CP!Offset(k)
           /\ \A j, k \in CP!Instructions : Rank(j) = Rank(k) => j = k
<1>1. Len(program) \in Nat
  BY CP!SourceTyped, PipelineAssumption
<1>2. \A k \in CP!Instructions : k \in 1 .. Len(program) /\ k + 1 \in 1 .. (Len(program) + 1)
                              /\ k \in 1 .. (Len(program) + 1)
  BY <1>1 DEF CP!Instructions
<1>3. \A k \in 1 .. (Len(program) + 1) : Rank(k) \in Nat
  BY BeforeFacts DEF Rank
<1>4. ASSUME NEW j \in CP!Instructions, NEW k \in 1 .. (Len(program) + 1)
      PROVE  (Rank(j) < Rank(k) <=> CP!Offset(j) < CP!Offset(k)) /\ (Rank(j) < Rank(k) <=> j < k)
  <2>1. j < k => Rank(j) < Rank(k) /\ CP!Offset(j) < CP!Offset(k)
    BY CP!OffsetsApart, BeforeFacts, PipelineAssumption DEF Rank
  <2>2. k <= j => /\ Rank(k) <= Rank(j) /\ CP!Offset(k) <= CP!Offset(j)
                  /\ CP!Offset(k) \in Nat /\ CP!Offset(j) \in Nat
    BY <1>2, BeforeFacts, CP!OffsetsGrow, PipelineAssumption DEF Rank
  <2>3. j \in Nat /\ k \in Nat /\ Rank(j) \in Nat /\ Rank(k) \in Nat
    BY <1>1, <1>2, <1>3
  <2> QED
    BY <2>1, <2>2, <2>3
<1>5. ASSUME NEW j \in CP!Instructions, NEW k \in CP!Instructions, Rank(j) = Rank(k) PROVE j = k
  <2>1. j \in Nat /\ k \in Nat /\ Rank(j) \in Nat
    BY <1>1, <1>2, <1>3
  <2>2. ~(j < k) /\ ~(k < j)
    BY <1>2, <1>4, <1>5, <2>1
  <2> QED
    BY <2>1, <2>2
<1>6. \A k \in CP!Instructions : Rank(k + 1) = Rank(k) + 1
  BY BeforeFacts DEF Rank
<1> QED
  BY <1>2, <1>4, <1>5, <1>6

Bound == CompilerInv /\ Loaded /\ Representable

LEMMA Numbers ==
    ASSUME Bound
    PROVE  /\ Statements = program /\ Len(program) \in Nat
           /\ \A k \in 1 .. (Len(program) + 1) :
                 Number(vm, CP!Offset(k)) = Meaning!Number(k) /\ Meaning!Number(k) \in Nat
           /\ \A p \in Nat : p >= size => Number(vm, p) = Meaning!End
           /\ Number(vm, 0) = 1
           /\ \A k \in CP!Instructions :
                 /\ k \in 1 .. Len(program) /\ k + 1 \in 1 .. (Len(program) + 1)
                 /\ Meaning!Number(k + 1) = Meaning!Number(k) + 1
                 /\ Meaning!Index(Meaning!Number(k)) = k
           /\ \A j \in CP!Instructions, k \in 1 .. (Len(program) + 1) :
                 Meaning!Number(j) < Meaning!Number(k) <=> CP!Offset(j) < CP!Offset(k)
           /\ \A j \in CP!Instructions :
                 Meaning!Number(j) < Meaning!End /\ CP!Offset(j) < size
<1>1. /\ CP!SInv /\ CP!WalkInv /\ phase \in {"written", "loaded"}
      /\ vm.ins = ins /\ vm.size = size
  BY LoadedWhole DEF Bound
<1>2. Statements = program
  BY DEF Bound, Statements
<1>3. \A S : Meaning!Cardinality(S) = Cardinality(S)
  BY DEF Meaning!Cardinality, Cardinality
<1>4. \A k : Meaning!Number(k) = Rank(k) + 1
  <2> TAKE k
  <2>1. {j \in 1 .. (k - 1) : Statements[j].op # "LABEL"} = Before(k)
    BY <1>2 DEF Before
  <2> QED
    BY <1>3, <2>1 DEF Meaning!Number, Rank
<1>5. \A p : Number(vm, p) = Count(p) + 1
  BY <1>1, <1>3 DEF Number, Count
<1>6. /\ \A k \in 1 .. (Len(program) + 1) :
            Count(CP!Offset(k)) = Rank(k) /\ Rank(k) \in Nat
      /\ \A p \in Nat : p >= size => Count(p) = Rank(Len(program) + 1)
      /\ Count(0) = 0 /\ Len(program) \in Nat
  BY <1>1, PlacesCounted, CP!SourceTyped, PipelineAssumption
<1>7. /\ \A k \in CP!Instructions :
            /\ k \in 1 .. Len(program) /\ k + 1 \in 1 .. (Len(program) + 1)
            /\ Rank(k + 1) = Rank(k) + 1
      /\ \A j \in CP!Instructions, k \in 1 .. (Len(program) + 1) :
            Rank(j) < Rank(k) <=> CP!Offset(j) < CP!Offset(k)
      /\ \A j, k \in CP!Instructions : Rank(j) = Rank(k) => j = k
  BY <1>1, RanksOrder, PipelineAssumption
<1>8. \A k \in CP!Instructions : CP!Offset(k) < size
  BY <1>1, CP!InstructionPlaced, PipelineAssumption
<1>9. size = CP!Offset(Len(program) + 1)
  BY <1>1, CP!LayoutComplete, PipelineAssumption
<1>10. Meaning!End = Rank(Len(program) + 1) + 1
  BY <1>2, <1>4 DEF Meaning!End
<1>11. ASSUME NEW k \in CP!Instructions PROVE Meaning!Index(Meaning!Number(k)) = k
  <2>1. \A i \in 1 .. Len(program) :
            Statements[i].op # "LABEL" /\ Meaning!Number(i) = Meaning!Number(k) <=> i = k
    <3> SUFFICES ASSUME NEW i \in 1 .. Len(program)
                 PROVE  Statements[i].op # "LABEL" /\ Meaning!Number(i) = Meaning!Number(k)
                            <=> i = k
      OBVIOUS
    <3>1. Statements[i].op # "LABEL" <=> i \in CP!Instructions
      BY <1>2 DEF CP!Instructions
    <3>2. k \in 1 .. (Len(program) + 1) /\ i \in 1 .. (Len(program) + 1)
      BY <1>6, <1>7
    <3>3. Meaning!Number(i) = Meaning!Number(k) <=> Rank(i) = Rank(k)
      BY <1>4, <1>6, <3>2
    <3> QED
      BY <1>7, <3>1, <3>3
  <2> QED
    BY <1>2, <1>7, <2>1 DEF Meaning!Index
<1>12. \A k \in 1 .. (Len(program) + 1) :
          Number(vm, CP!Offset(k)) = Meaning!Number(k) /\ Meaning!Number(k) \in Nat
  BY <1>4, <1>5, <1>6
<1>13. \A p \in Nat : p >= size => Number(vm, p) = Meaning!End
  BY <1>5, <1>6, <1>10
<1>14. Number(vm, 0) = 1
  BY <1>5, <1>6
<1>15. \A k \in CP!Instructions : Meaning!Number(k + 1) = Meaning!Number(k) + 1
  BY <1>4, <1>7
<1>16. \A j \in CP!Instructions, k \in 1 .. (Len(program) + 1) :
          Meaning!Number(j) < Meaning!Number(k) <=> CP!Offset(j) < CP!Offset(k)
  <2> SUFFICES ASSUME NEW j \in CP!Instructions, NEW k \in 1 .. (Len(program) + 1)
               PROVE  Meaning!Number(j) < Meaning!Number(k) <=> CP!Offset(j) < CP!Offset(k)
    OBVIOUS
  <2>1. j \in 1 .. (Len(program) + 1)
    BY <1>6, <1>7
  <2>2. Meaning!Number(j) < Meaning!Number(k) <=> Rank(j) < Rank(k)
    BY <1>4, <1>6, <2>1
  <2> QED
    BY <1>7, <2>2
<1>17. \A j \in CP!Instructions : Meaning!Number(j) < Meaning!End
  <2>1. Len(program) + 1 \in 1 .. (Len(program) + 1)
    BY <1>6
  <2> QED
    BY <1>4, <1>8, <1>9, <1>10, <1>16, <2>1
<1> QED
  BY <1>2, <1>6, <1>7, <1>8, <1>11, <1>12, <1>13, <1>14, <1>15, <1>16, <1>17

(* The header of an ON_CHAT.                                               *)
LEMMA HeaderFacts ==
    ASSUME Bound, NEW h \in CP!Instructions, program[h].op = "ON_CHAT"
    PROVE  LET i == vm.ins[CP!Offset(h)]
               e == h + 1 + program[h].body
           IN  /\ program[h].body \in Nat /\ e \in 1 .. (Len(program) + 1)
               /\ program[h].a \in 1 .. 16
               /\ i.v \in Nat /\ i.v + 1 \in 1 .. Len(vm.consts)
               /\ VP!RecordOf(CP!Offset(h)) =
                     [pattern    |-> program[h].s,       userVarReg |-> program[h].a,
                      bodyOffset |-> CP!Offset(h + 1),
                      bodyLength |-> CP!Offset(e) - CP!Offset(h + 1)]
               /\ i.a = program[h].a
               /\ CP!Offset(h + 1) = CP!Offset(h) + 14
               /\ CP!Offset(h + 1) \in Nat /\ CP!Offset(e) \in Nat
               /\ i.off = CP!Offset(h + 1) /\ i.len = CP!Offset(e) - CP!Offset(h + 1)
               /\ CP!Offset(e) <= size
               /\ Meaning!Behind(Meaning!Number(h)) = Meaning!Number(e)
<1> DEFINE i == vm.ins[CP!Offset(h)]
           e == h + 1 + program[h].body
<1>1. /\ CP!SInv /\ CP!WalkInv /\ phase \in {"written", "loaded"}
      /\ vm.ins = ins /\ vm.size = size /\ vm.consts = consts
  BY LoadedWhole DEF Bound
<1>2. /\ i = ins[CP!Offset(h)] /\ CP!LayoutOf(h, i) /\ CP!Offset(h) \in DOMAIN ins
      /\ i.op = "ON_CHAT"
      /\ CP!Offset(h + 1) = CP!Offset(h) + CP!InsSize("ON_CHAT")
  BY <1>1, CP!InstructionPlaced, PipelineAssumption DEF CP!Opcode
<1>3. /\ h \in 1 .. Len(program) /\ program[h].body \in Nat /\ Len(program) \in Nat
      /\ h + program[h].body <= Len(program)
  BY <1>1, CP!SourceTyped, PipelineAssumption DEF CP!SInv, CP!IsProgram, CP!Instructions
<1>4. e \in 1 .. (Len(program) + 1) /\ h + 1 \in 1 .. (Len(program) + 1)
  BY <1>3
<1>5. program[h].a \in 1 .. 16
  BY <1>1, <1>3, CP!AcceptedSound, PipelineAssumption DEF CP!BadRegister, CP!Registers
<1>6. /\ i.a = program[h].a
      /\ i.v + 1 \in DOMAIN consts /\ consts[i.v + 1] = program[h].s
      /\ i.off = CP!Offset(h + 1) /\ i.off + i.len = CP!Offset(e)
  BY <1>2 DEF CP!LayoutOf, CP!OperandsOf, CP!SpansBody
<1>7. /\ CP!Offset(h + 1) \in Nat /\ CP!Offset(e) \in Nat /\ CP!Offset(e) <= size
  <2>1. CP!Offset(Len(program) + 1) = size
    BY <1>1, CP!LayoutComplete, PipelineAssumption
  <2>2. Len(program) + 1 \in 1 .. (Len(program) + 1) /\ e <= Len(program) + 1
    BY <1>3
  <2> HIDE DEF e
  <2> QED
    BY <1>1, <1>4, <2>1, <2>2, CP!OffsetsGrow, PipelineAssumption
<1>8. i.v \in Nat /\ i.len \in Nat /\ i.off \in Nat /\ consts \in Seq(Words)
  <2>1. i \in CP!Instruction \cup CP!Header /\ consts \in Seq(Words)
    BY <1>1, <1>2 DEF CP!SInv, CP!CodegenInv, CP!TypeOK
  <2>2. "ON_CHAT" \notin CP!Opcodes
    BY DEF CP!Opcodes, CP!TwoRegister, CP!AluOps, CP!JumpOps
  <2> HIDE DEF i
  <2> QED
    BY <1>2, <2>1, <2>2 DEF CP!Instruction, CP!Header
<1>9. i.len = CP!Offset(e) - CP!Offset(h + 1)
  <2> HIDE DEF i, e
  <2> QED
    BY <1>6, <1>7, <1>8
<1>10. i.v + 1 \in 1 .. Len(vm.consts)
  BY <1>1, <1>6, <1>8
<1>11. VP!RecordOf(CP!Offset(h)) =
          [pattern    |-> program[h].s,     userVarReg |-> program[h].a,
           bodyOffset |-> CP!Offset(h + 1),
           bodyLength |-> CP!Offset(e) - CP!Offset(h + 1)]
  <2>1. VP!RecordOf(CP!Offset(h)) = [pattern |-> vm.consts[i.v + 1], userVarReg |-> i.a,
                                     bodyOffset |-> i.off, bodyLength |-> i.len]
    BY DEF VP!RecordOf, VP!Const
  <2> HIDE DEF i, e
  <2> QED
    BY <1>1, <1>6, <1>9, <2>1
<1>12. Meaning!Behind(Meaning!Number(h)) = Meaning!Number(e)
  <2>1. Meaning!Index(Meaning!Number(h)) = h /\ Statements = program
    BY Numbers
  <2>2. \A x, y \in Int : x + y + 1 = x + 1 + y
    OBVIOUS
  <2>3. h \in Int /\ program[h].body \in Int
    BY <1>3
  <2>4. h + program[h].body + 1 = e
    BY <2>2, <2>3
  <2> HIDE DEF e
  <2> QED
    BY <2>1, <2>4 DEF Meaning!Behind
<1>13. CP!InsSize("ON_CHAT") = 14
  BY DEF CP!InsSize, CP!AluOps, CP!JumpOps
<1> HIDE DEF i, e
<1>14. CP!Offset(h + 1) = CP!Offset(h) + 14
  BY <1>2, <1>13
<1> QED
  BY <1>3, <1>4, <1>5, <1>6, <1>7, <1>8, <1>9, <1>10, <1>11, <1>12, <1>14 DEF i, e

LEMMA MachineAssumptions ==
    /\ VP!WordSize = VP!Word /\ MaxCallStackDepth \in Nat
    /\ RAMSize >= VP!HeaderSize /\ RAMSize + VP!HeaderSize < VP!Word
    /\ \A u \in Users : VP!Sized(u)
<1>1. VP!WordSize = VP!Word /\ MaxCallStackDepth \in Nat
  BY PipelineAssumption DEF VP!WordSize, VP!Word, VP!Pow2, V!WordSize, V!Pow2
<1>2. RAMSize >= VP!HeaderSize /\ RAMSize + VP!HeaderSize < VP!Word
  BY PipelineAssumption DEF VP!HeaderSize, VP!Word
<1>3. \A u \in Users : VP!Sized(u)
  BY PipelineAssumption DEF VP!Sized, VP!Byte
<1> QED
  BY <1>1, <1>2, <1>3

(* The machine runs what the compiler made of an accepted source.          *)
Running == Bound /\ VP!ControlInv /\ Sound

(* An instruction of the code is a statement of the source.                *)
LEMMA PlaceOf ==
    ASSUME Bound, NEW o \in DOMAIN vm.ins
    PROVE  \E k \in CP!Instructions :
              /\ o = CP!Offset(k)
              /\ vm.ins[o].op = CP!Opcode(program[k])
              /\ CP!LayoutOf(k, vm.ins[o])
              /\ CP!Offset(k + 1) = o + CP!InsSize(vm.ins[o].op)
<1>1. /\ CP!SInv /\ CP!WalkInv /\ phase \in {"written", "loaded"} /\ vm.ins = ins
  BY LoadedWhole DEF Bound
<1>2. PICK k \in CP!Instructions : o = CP!Offset(k)
  BY <1>1, CP!LayoutComplete, PipelineAssumption
<1> QED
  BY <1>1, <1>2, CP!InstructionPlaced, PipelineAssumption

(* A subscription is an ON_CHAT of the source.                             *)
LEMMA HandlerFacts ==
    ASSUME Running, NEW n \in DOMAIN subs
    PROVE  \E h \in CP!Instructions :
              LET e == h + 1 + program[h].body
              IN  /\ program[h].op = "ON_CHAT"
                  /\ e \in 1 .. (Len(program) + 1)
                  /\ Handlers(vm, subs)[n] = Meaning!Number(h)
                  /\ subs[n].pattern = program[h].s
                  /\ subs[n].userVarReg = program[h].a
                  /\ program[h].a \in 1 .. 16
                  /\ subs[n].bodyOffset = CP!Offset(h + 1)
                  /\ (subs[n].bodyOffset + subs[n].bodyLength) % V!WordSize = CP!Offset(e)
                  /\ Meaning!Behind(Meaning!Number(h)) = Meaning!Number(e)
<1>1. PICK o \in DOMAIN vm.ins : vm.ins[o].op = "ON_CHAT" /\ subs[n] = VP!RecordOf(o)
  BY DEF Running, Sound, VP!ReferInv, VP!SubsRefer
<1>2. PICK h \in CP!Instructions : o = CP!Offset(h) /\ vm.ins[o].op = CP!Opcode(program[h])
  BY <1>1, PlaceOf DEF Running
<1>3. program[h].op = "ON_CHAT"
  BY <1>1, <1>2 DEF CP!Opcode
<1> DEFINE e == h + 1 + program[h].body
<1>4. /\ e \in 1 .. (Len(program) + 1) /\ program[h].a \in 1 .. 16
      /\ subs[n] = [pattern    |-> program[h].s,       userVarReg |-> program[h].a,
                    bodyOffset |-> CP!Offset(h + 1),
                    bodyLength |-> CP!Offset(e) - CP!Offset(h + 1)]
      /\ CP!Offset(h + 1) \in Nat /\ CP!Offset(e) \in Nat /\ CP!Offset(e) <= size
      /\ Meaning!Behind(Meaning!Number(h)) = Meaning!Number(e)
  BY <1>1, <1>2, <1>3, HeaderFacts DEF Running
<1>5. Handlers(vm, subs)[n] = Meaning!Number(h)
  <2>1. /\ Number(vm, CP!Offset(h + 1)) = Meaning!Number(h + 1)
        /\ Meaning!Number(h + 1) = Meaning!Number(h) + 1 /\ Meaning!Number(h) \in Nat
    BY Numbers DEF Running
  <2>2. Handlers(vm, subs)[n] = Number(vm, subs[n].bodyOffset) - 1
    BY DEF Handlers
  <2>3. subs[n].bodyOffset = CP!Offset(h + 1)
    BY <1>4
  <2> QED
    BY <2>1, <2>2, <2>3
<1>6. (subs[n].bodyOffset + subs[n].bodyLength) % V!WordSize = CP!Offset(e)
  <2> HIDE DEF e
  <2>1. subs[n].bodyOffset + subs[n].bodyLength = CP!Offset(e)
    BY <1>4
  <2>2. size < V!WordSize /\ V!WordSize \in Nat /\ size \in Nat
    BY LoadedWhole, PipelineAssumption DEF Running, Bound, CP!SInv, CP!CodegenInv, CP!TypeOK
  <2>3. CP!Offset(e) \in 0 .. (V!WordSize - 1)
    BY <1>4, <2>2
  <2> QED
    BY <2>1, <2>2, <2>3
<1> QED
  BY <1>3, <1>4, <1>5, <1>6

(* Frames.                                                                 *)
LEMMA FrameFacts ==
    ASSUME Running
    PROVE  /\ Frame = mode /\ Statements = program
           /\ Chat(vm, ev).next = ev.next /\ Chat(vm, ev).last = ev.last
           /\ vm.size = size /\ size \in Nat /\ PC \in Nat
           /\ CP!SInv /\ CP!WalkInv /\ phase \in {"written", "loaded"}
           /\ vm.ins = ins /\ vm.consts = consts
           /\ DOMAIN vm.ins \subseteq Nat
           /\ subs \in Seq(VP!Subscription) /\ DOMAIN Handlers(vm, subs) = DOMAIN subs
           /\ ev.next \in Nat /\ ev.last \in Nat
           /\ VP!InHandler => ev.next \in DOMAIN subs
<1>1. Frame = mode /\ Statements = program
  BY DEF Running, Bound, Frame, Statements
<1>2. Chat(vm, ev).next = ev.next /\ Chat(vm, ev).last = ev.last
  BY DEF Chat
<1>3. /\ CP!SInv /\ CP!WalkInv /\ phase \in {"written", "loaded"}
      /\ vm.ins = ins /\ vm.consts = consts /\ vm.size = size
  BY LoadedWhole DEF Running, Bound
<1>4. size \in Nat /\ DOMAIN ins \subseteq Nat
  BY <1>3 DEF CP!SInv, CP!CodegenInv, CP!TypeOK
<1>5. /\ PC \in Nat /\ subs \in Seq(VP!Subscription) /\ ev.next \in Nat /\ ev.last \in Nat
  BY DEF Running, VP!ControlInv, VP!ControlTyped, VP!EventTyped
<1>6. VP!InHandler => ev.next \in DOMAIN subs
  <2>1. VP!InHandler => ev.next \in 1 .. ev.last /\ ev.last <= Len(subs)
    BY DEF Running, VP!ControlInv, VP!ScanInRange, VP!NoLateHandler
  <2>2. Len(subs) \in Nat /\ DOMAIN subs = 1 .. Len(subs)
    BY <1>5
  <2> QED
    BY <1>5, <2>1, <2>2
<1>7. DOMAIN Handlers(vm, subs) = DOMAIN subs
  BY DEF Handlers
<1> QED
  BY <1>1, <1>2, <1>3, <1>4, <1>5, <1>6, <1>7

LEMMA PlaceNumber ==
    ASSUME Running
    PROVE  /\ PC >= size => Number(vm, PC) = Meaning!End
           /\ PC < size => \E k \in CP!Instructions :
                 PC = CP!Offset(k) /\ Number(vm, PC) = Meaning!Number(k)
           /\ Number(vm, PC) \in Nat /\ Meaning!End \in Nat
           /\ PC < size <=> Number(vm, PC) < Meaning!End
<1>1. PC \in Nat /\ size \in Nat /\ vm.size = size
  BY FrameFacts
<1>2. PC >= size => Number(vm, PC) = Meaning!End
  BY <1>1, Numbers DEF Running
<1>3. ASSUME PC < size
      PROVE  \E k \in CP!Instructions : PC = CP!Offset(k) /\ Number(vm, PC) = Meaning!Number(k)
  <2>1. PC \in DOMAIN vm.ins
    BY <1>1, <1>3 DEF Running, VP!ControlInv, VP!FetchOnBoundary, VP!Fetchable
  <2>2. PICK k \in CP!Instructions : PC = CP!Offset(k)
    BY <2>1, PlaceOf DEF Running
  <2> QED
    BY <2>2, Numbers DEF Running
<1>4. Meaning!End \in Nat
  <2>1. Len(program) + 1 \in 1 .. (Len(program) + 1) /\ Statements = program
    BY Numbers DEF Running
  <2> QED
    BY <2>1, Numbers DEF Running, Meaning!End
<1>5. Number(vm, PC) \in Nat
  <2>1. \A k \in CP!Instructions : Meaning!Number(k) \in Nat
    BY Numbers DEF Running
  <2> QED
    BY <1>1, <1>2, <1>3, <1>4, <2>1
<1>6. PC < size => Number(vm, PC) < Meaning!End
  <2>1. \A k \in CP!Instructions : Meaning!Number(k) < Meaning!End
    BY Numbers DEF Running
  <2> QED
    BY <1>3, <2>1
<1> QED
  BY <1>1, <1>2, <1>3, <1>4, <1>5, <1>6

LEMMA BodyLink ==
    ASSUME Running, mode = "body"
    PROVE  VP!InBody <=> Meaning!InBody
<1>1. /\ Frame = "body" /\ Statements = program /\ vm.size = size
      /\ Chat(vm, ev).next = ev.next /\ ev.next \in DOMAIN subs
      /\ size \in Nat /\ PC \in Nat
  BY FrameFacts DEF VP!InHandler
<1>2. PICK h \in CP!Instructions :
         /\ h + 1 + program[h].body \in 1 .. (Len(program) + 1)
         /\ Handlers(vm, subs)[ev.next] = Meaning!Number(h)
         /\ (subs[ev.next].bodyOffset + subs[ev.next].bodyLength) % V!WordSize
               = CP!Offset(h + 1 + program[h].body)
         /\ Meaning!Behind(Meaning!Number(h)) = Meaning!Number(h + 1 + program[h].body)
  BY <1>1, HandlerFacts
<1> DEFINE e == h + 1 + program[h].body
<1> HIDE DEF e
<1>3. /\ e \in 1 .. (Len(program) + 1) /\ Handlers(vm, subs)[ev.next] = Meaning!Number(h)
      /\ Meaning!Behind(Meaning!Number(h)) = Meaning!Number(e)
      /\ (subs[ev.next].bodyOffset + subs[ev.next].bodyLength) % V!WordSize = CP!Offset(e)
  BY <1>2 DEF e
<1>4. ev.bodyEnd = CP!Offset(e)
  BY <1>1, <1>3, SameWords
  DEF Running, Sound, VP!ReferInv, VP!BodyBounds, VP!InHandler, VP!Sub
<1>5. Meaning!Behind(Meaning!Handler) = Meaning!Number(e)
  BY <1>1, <1>3 DEF Meaning!Handler
<1>6. Meaning!InBody <=> Number(vm, PC) < Meaning!Number(e) /\ Number(vm, PC) < Meaning!End
  BY <1>1, <1>5 DEF Meaning!InBody
<1>7. VP!InBody <=> PC < CP!Offset(e) /\ PC < size
  BY <1>1, <1>4 DEF VP!InBody
<1>8. CASE PC < size
  <2>1. PICK k \in CP!Instructions : PC = CP!Offset(k) /\ Number(vm, PC) = Meaning!Number(k)
    BY <1>8, PlaceNumber
  <2>2. Meaning!Number(k) < Meaning!Number(e) <=> CP!Offset(k) < CP!Offset(e)
    BY <1>3, Numbers DEF Running
  <2> QED
    BY <1>6, <1>7, <1>8, <2>1, <2>2, PlaceNumber
<1>9. CASE ~(PC < size)
  BY <1>6, <1>7, <1>9, PlaceNumber
<1> QED
  BY <1>8, <1>9

(* The statement the machine executes.                                     *)
LEMMA Executed ==
    ASSUME Running, NEW op, VP!AtOp(op)
    PROVE  \E k \in CP!Instructions :
              /\ PC = CP!Offset(k) /\ k \in 1 .. Len(program)
              /\ VP!Ins = vm.ins[PC] /\ VP!Ins.op = op /\ op = CP!Opcode(program[k])
              /\ CP!LayoutOf(k, VP!Ins)
              /\ Number(vm, PC) = Meaning!Number(k) /\ Meaning!Stmt = program[k]
              /\ Number(vm, PC + VP!InsSize(op)) = Number(vm, PC) + 1
              /\ program[k] \in CP!Statement /\ ~CP!BadRegister(program[k])
              /\ \A ops : program[k].op \in ops => Meaning!Executes(ops)
<1>1. /\ Frame = mode /\ Statements = program /\ vm.size = size
      /\ CP!SInv /\ CP!WalkInv /\ phase \in {"written", "loaded"}
  BY FrameFacts
<1>2. /\ VP!InRun \/ VP!InBody
      /\ PC < size /\ VP!Ins.op = op /\ VP!Ins = vm.ins[PC]
  BY <1>1 DEF VP!AtOp, VP!Ins
<1>3. PC \in DOMAIN vm.ins
  BY <1>1, <1>2 DEF Running, VP!ControlInv, VP!FetchOnBoundary, VP!Fetchable,
     VP!ControlTyped, VP!WellFormed
<1>4. PICK k \in CP!Instructions :
         /\ PC = CP!Offset(k) /\ vm.ins[PC].op = CP!Opcode(program[k])
         /\ CP!LayoutOf(k, vm.ins[PC])
         /\ CP!Offset(k + 1) = PC + CP!InsSize(vm.ins[PC].op)
  BY <1>3, PlaceOf DEF Running
<1>5. /\ Number(vm, PC) = Meaning!Number(k)
      /\ Number(vm, CP!Offset(k + 1)) = Number(vm, PC) + 1
      /\ k \in 1 .. Len(program) /\ Meaning!Index(Meaning!Number(k)) = k
  BY <1>4, Numbers DEF Running
<1>6. Meaning!Stmt = program[k]
  BY <1>1, <1>5 DEF Meaning!Stmt
<1>7. CP!InsSize(op) = VP!InsSize(op)
  BY DEF CP!InsSize, VP!InsSize, CP!JumpOps, VP!JumpOps, CP!AluOps, VP!AluOps
<1>8. program[k] \in CP!Statement /\ ~CP!BadRegister(program[k])
  BY <1>1, <1>5, CP!SourceTyped, CP!AcceptedSound, PipelineAssumption
<1>9. ASSUME NEW ops, program[k].op \in ops PROVE Meaning!Executes(ops)
  <2>1. mode = "run" => Number(vm, PC) < Meaning!End
    BY <1>2, PlaceNumber
  <2>2. VP!InBody => Meaning!InBody
    BY BodyLink DEF VP!InBody
  <2>3. (Frame = "run" /\ Number(vm, PC) < Meaning!End) \/ Meaning!InBody
    BY <1>1, <1>2, <2>1, <2>2 DEF VP!InRun
  <2> QED
    BY <1>6, <1>9, <2>3 DEF Meaning!Executes
<1> QED
  BY <1>2, <1>4, <1>5, <1>6, <1>7, <1>8, <1>9

(* What a step of the machine leaves alone.                                *)
Stay == UNCHANGED <<parser, compiler>>

LEMMA Steady ==
    ASSUME Running, Stay
    PROVE  /\ vm' = vm /\ program' = program
           /\ Statements' = Statements /\ Frame' = mode' /\ Frame = mode
           /\ Number(vm, PC)' = Number(vm, PC')
           /\ Chat(vm, ev)' = Chat(vm, ev')
           /\ Handlers(vm, subs)' = Handlers(vm, subs')
           /\ Calls(vm, stack)' = Calls(vm, stack')
<1>1. vm' = vm /\ program' = program /\ Loaded' /\ Loaded
  BY DEF Running, Bound, Loaded, Stay, parser, compiler
<1> QED
  BY <1>1 DEF Statements, Frame, Number, Chat, Handlers, Calls

LEMMA Advances ==
    ASSUME Running, Stay, NEW op, VP!AtOp(op), VP!Advance, UNCHANGED mode
    PROVE  Meaning!Continue
<1>1. PC' = PC + VP!InsSize(op)
  BY DEF VP!Advance, VP!AtOp
<1>2. Number(vm, PC') = Number(vm, PC) + 1
  BY <1>1, Executed
<1> QED
  BY <1>2, Steady DEF Meaning!Continue, Meaning!Goto

LEMMA Aborts ==
    ASSUME Running, Stay, VP!Fail
    PROVE  Meaning!Abort /\ Meaning!Keep
<1>1. /\ mode' = IF mode = "run" THEN "failed" ELSE "unwind"
      /\ UNCHANGED <<PC, reg, ZF, SF, stack, subs, ev>>
  BY DEF VP!Fail
<1> QED
  BY <1>1, Steady DEF Meaning!Abort, Meaning!Keep

LEMMA Kept ==
    ASSUME Running, Stay
    PROVE  /\ UNCHANGED ev => Meaning!Keep
           /\ UNCHANGED stack => Calls(vm, stack)' = Calls(vm, stack)
           /\ UNCHANGED subs => Handlers(vm, subs)' = Handlers(vm, subs)
  BY Steady DEF Meaning!Keep

(* What an encoded statement's operands are.                               *)
LEMMA PlainOperands ==
    ASSUME Bound, NEW k \in CP!Instructions, NEW i, CP!LayoutOf(k, i),
           ~CP!BadRegister(program[k])
    PROVE  LET st == program[k]
           IN  /\ st.op = "MOV_INT" =>
                     st.a \in 1 .. 16 /\ VP!Register(i.a) = st.a /\ i.v = st.v % Meaning!WordSize
               /\ st.op \in Meaning!TwoRegister =>
                     /\ st.a \in 1 .. 16 /\ VP!Register(i.a) = st.a
                     /\ st.b \in 1 .. 16 /\ VP!Register(i.b) = st.b
               /\ st.op \in {"ALLOC", "MOV_STR", "FREE"} =>
                     st.a \in 1 .. 16 /\ VP!Register(i.a) = st.a
<1> DEFINE st == program[k]
<1>1. /\ CP!TwoRegister = Meaning!TwoRegister /\ CP!WordSize = Meaning!WordSize
  BY DEF CP!TwoRegister, Meaning!TwoRegister, CP!AluOps, Meaning!AluOps, CP!WordSize,
         CP!Pow2, Meaning!WordSize, Meaning!Pow2
<1>2. /\ st.op \in CP!Plain => i = CP!Encoded(st)
      /\ st.op = "MOV_STR" => i.a = st.a
  BY DEF CP!LayoutOf, CP!OperandsOf
<1>3. /\ st.op \in CP!TwoRegister \cup {"ALLOC", "FREE", "MOV_INT", "MOV_STR"} => st.a \in 1 .. 16
      /\ st.op \in CP!TwoRegister => st.b \in 1 .. 16
  BY DEF CP!BadRegister, CP!Registers
<1>4. \A c \in 1 .. 16 : VP!Register(c) = c
  BY DEF VP!Register, VP!Registers
<1> HIDE DEF st
<1>5. st.op = "MOV_INT" => i.a = st.a /\ i.v = st.v % CP!WordSize
  <2> DEFINE w == st.v % CP!WordSize
  <2>1. st.op = "MOV_INT" => CP!Encoded(st) = CP!Code(st.op, st.a, 0, w)
    BY DEF CP!Encoded, CP!TwoRegister, CP!AluOps
  <2> HIDE DEF w
  <2>2. st.op = "MOV_INT" => i.a = st.a /\ i.v = w
    BY <1>2, <2>1 DEF CP!Plain, CP!Code
  <2> QED
    BY <2>2 DEF w
<1>6. st.op \in {"ALLOC", "FREE"} => i.a = st.a
  BY <1>2 DEF CP!Plain, CP!Encoded, CP!Code
<1>7. st.op \in CP!TwoRegister => i.a = st.a /\ i.b = st.b
  <2>1. st.op \in CP!TwoRegister => CP!Encoded(st) = CP!Code(st.op, st.a, st.b, 0)
    BY DEF CP!Encoded, CP!TwoRegister, CP!AluOps
  <2> QED
    BY <1>2, <2>1 DEF CP!Plain, CP!Code
<1> QED
  BY <1>1, <1>2, <1>3, <1>4, <1>5, <1>6, <1>7 DEF st

LEMMA SameAlu ==
    /\ VP!AluOps = Meaning!AluOps /\ VP!WordSize = Meaning!WordSize
    /\ \A op, x, y : VP!AluResult(op, x, y) = Meaning!AluResult(op, x, y)
  BY DEF VP!AluOps, Meaning!AluOps, VP!WordSize, Meaning!WordSize, VP!Pow2, Meaning!Pow2,
         VP!AluResult, Meaning!AluResult, VP!Wrap, Meaning!Wrap, VP!FromBits,
         Meaning!FromBits, VP!Places, Meaning!Places, VP!Bit, Meaning!Bit

(* The opcodes of the kinds of statements.                                 *)
LEMMA KindOf ==
    ASSUME NEW st \in CP!Statement
    PROVE  /\ CP!Opcode(st) = "SEND_CHAT" <=> st.op \in {"SEND_REG", "SEND_STR"}
           /\ CP!Opcode(st) # "SEND_CHAT" => CP!Opcode(st) = st.op
           /\ st.op # "SEND_CHAT"
  BY DEF CP!Opcode, CP!Statement, CP!Kinds, CP!TwoRegister, CP!AluOps, CP!JumpOps

LEMMA SimOutput ==
    ASSUME Running, Stay, VP!Output
    PROVE  Meaning!Output
<1>1. PICK op \in {"TRIGGER_PIN", "SEND_CHAT"} : VP!AtOp(op)
  BY DEF VP!Output
<1>2. VP!Advance /\ UNCHANGED <<mode, reg, ZF, SF, stack, subs, ev>>
  BY DEF VP!Output
<1>3. PICK k \in CP!Instructions :
         /\ op = CP!Opcode(program[k]) /\ program[k] \in CP!Statement
         /\ \A ops : program[k].op \in ops => Meaning!Executes(ops)
  BY <1>1, Executed
<1>4. program[k].op \in {"TRIGGER_PIN", "SEND_REG", "SEND_STR"}
  BY <1>1, <1>3, KindOf
<1>5. Meaning!Continue /\ Meaning!Keep
  BY <1>1, <1>2, Advances, Kept
<1> QED
  BY <1>2, <1>3, <1>4, <1>5, Kept DEF Meaning!Output

LEMMA SimMove ==
    ASSUME Running, Stay, VP!MovReg \/ VP!MovInt
    PROVE  Meaning!Assign
<1>1. PICK op \in {"MOV_REG", "MOV_INT"} :
         /\ VP!AtOp(op)
         /\ reg' = [reg EXCEPT ![VP!Register(VP!Ins.a)] =
                       IF op = "MOV_REG" THEN reg[VP!Register(VP!Ins.b)] ELSE VP!Ins.v]
  BY DEF VP!MovReg, VP!MovInt
<1>2. VP!Advance /\ UNCHANGED <<mode, ZF, SF, stack, subs, ev>>
  BY DEF VP!MovReg, VP!MovInt
<1>3. PICK k \in CP!Instructions :
         /\ op = CP!Opcode(program[k]) /\ program[k] \in CP!Statement
         /\ CP!LayoutOf(k, VP!Ins) /\ ~CP!BadRegister(program[k])
         /\ Meaning!Stmt = program[k]
         /\ \A ops : program[k].op \in ops => Meaning!Executes(ops)
  BY <1>1, Executed
<1>4. program[k].op = op
  BY <1>1, <1>3, KindOf
<1>5. Meaning!Continue /\ Meaning!Keep
  BY <1>1, <1>2, Advances, Kept
<1>6. reg' = [reg EXCEPT ![program[k].a] = Meaning!Assigned]
  <2>1. CASE op = "MOV_INT"
    <3>1. /\ VP!Register(VP!Ins.a) = program[k].a
          /\ VP!Ins.v = program[k].v % Meaning!WordSize
      BY <1>3, <1>4, <2>1, PlainOperands DEF Running
    <3>2. Meaning!Assigned = program[k].v % Meaning!WordSize
      BY <1>3, <1>4, <2>1 DEF Meaning!Assigned
    <3> QED
      BY <1>1, <2>1, <3>1, <3>2
  <2>2. CASE op = "MOV_REG"
    <3>1. /\ VP!Register(VP!Ins.a) = program[k].a /\ VP!Register(VP!Ins.b) = program[k].b
      BY <1>3, <1>4, <2>2, PlainOperands DEF Running, Meaning!TwoRegister
    <3>2. Meaning!Assigned = reg[program[k].b]
      BY <1>3, <1>4, <2>2 DEF Meaning!Assigned
    <3> QED
      BY <1>1, <2>2, <3>1, <3>2
  <2> QED
    BY <1>1, <2>1, <2>2
<1>7. Meaning!Executes({"MOV_INT", "MOV_REG"} \cup Meaning!AluOps)
  BY <1>1, <1>3, <1>4
<1>8. Meaning!Stmt.op # "DIV"
  BY <1>1, <1>3, <1>4
<1> QED
  BY <1>2, <1>3, <1>5, <1>6, <1>7, <1>8, Kept DEF Meaning!Assign

LEMMA SimArith ==
    ASSUME Running, Stay, NEW op \in VP!AluOps, VP!Arith(op)
    PROVE  Meaning!Assign
<1>1. VP!AtOp(op)
  BY DEF VP!Arith
<1>2. PICK k \in CP!Instructions :
         /\ op = CP!Opcode(program[k]) /\ program[k] \in CP!Statement
         /\ CP!LayoutOf(k, VP!Ins) /\ ~CP!BadRegister(program[k])
         /\ Meaning!Stmt = program[k]
         /\ \A ops : program[k].op \in ops => Meaning!Executes(ops)
  BY <1>1, Executed
<1>3. program[k].op = op /\ op \in Meaning!AluOps
  BY <1>2, KindOf, SameAlu DEF VP!AluOps
<1>4. Meaning!Executes({"MOV_INT", "MOV_REG"} \cup Meaning!AluOps)
  BY <1>2, <1>3
<1>5. VP!Register(VP!Ins.a) = program[k].a /\ VP!Register(VP!Ins.b) = program[k].b
  BY <1>2, <1>3, PlainOperands DEF Running, Meaning!TwoRegister
<1>6. CASE op = "DIV" /\ reg[program[k].b] = 0
  <2>1. VP!Fail
    BY <1>5, <1>6 DEF VP!Arith
  <2>2. Meaning!Abort /\ Meaning!Keep
    BY <2>1, Aborts
  <2> QED
    BY <1>2, <1>3, <1>4, <1>6, <2>2 DEF Meaning!Assign
<1>7. CASE ~(op = "DIV" /\ reg[program[k].b] = 0)
  <2>1. /\ reg' = [reg EXCEPT ![program[k].a] =
                      VP!AluResult(op, reg[program[k].a], reg[program[k].b])]
        /\ VP!Advance /\ UNCHANGED <<mode, ZF, SF, stack, subs, ev>>
    BY <1>5, <1>7 DEF VP!Arith
  <2>2. Meaning!Continue /\ Meaning!Keep
    BY <1>1, <2>1, Advances, Kept
  <2>3. Meaning!Assigned = VP!AluResult(op, reg[program[k].a], reg[program[k].b])
    BY <1>2, <1>3, SameAlu DEF Meaning!Assigned, Meaning!AluOps
  <2> QED
    BY <1>2, <1>3, <1>4, <1>7, <2>1, <2>2, <2>3, Kept DEF Meaning!Assign
<1> QED
  BY <1>6, <1>7

LEMMA SimCompare ==
    ASSUME Running, Stay, VP!Cmp
    PROVE  Meaning!Compare
<1>1. /\ VP!AtOp("CMP") /\ VP!Advance /\ UNCHANGED <<mode, reg, stack, subs, ev>>
      /\ ZF' = (reg[VP!Register(VP!Ins.a)] = reg[VP!Register(VP!Ins.b)])
      /\ SF' = (reg[VP!Register(VP!Ins.a)] < reg[VP!Register(VP!Ins.b)])
  BY DEF VP!Cmp
<1>2. PICK k \in CP!Instructions :
         /\ "CMP" = CP!Opcode(program[k]) /\ program[k] \in CP!Statement
         /\ CP!LayoutOf(k, VP!Ins) /\ ~CP!BadRegister(program[k])
         /\ Meaning!Stmt = program[k]
         /\ \A ops : program[k].op \in ops => Meaning!Executes(ops)
  BY <1>1, Executed
<1>3. program[k].op = "CMP"
  BY <1>2, KindOf
<1>4. VP!Register(VP!Ins.a) = program[k].a /\ VP!Register(VP!Ins.b) = program[k].b
  BY <1>2, <1>3, PlainOperands DEF Running, Meaning!TwoRegister
<1>5. Meaning!Continue /\ Meaning!Keep /\ Meaning!Executes({"CMP"})
  BY <1>1, <1>2, <1>3, Advances, Kept
<1> QED
  BY <1>1, <1>2, <1>4, <1>5, Kept DEF Meaning!Compare

(* The heap answers with an address, with none, or the process dies.       *)
LEMMA SimMemory ==
    ASSUME Running, Stay, VP!TypeOK', VP!Alloc \/ VP!MovStr \/ VP!Free
    PROVE  Meaning!Memory
<1>1. PICK op \in {"ALLOC", "MOV_STR", "FREE"} :
         /\ VP!AtOp(op)
         /\ op = "ALLOC" => VP!Alloc
         /\ op = "MOV_STR" => VP!MovStr
         /\ op = "FREE" => VP!Free
  <2>1. CASE VP!Alloc
    BY <2>1 DEF VP!Alloc
  <2>2. CASE VP!MovStr
    BY <2>2 DEF VP!MovStr
  <2>3. CASE VP!Free
    BY <2>3 DEF VP!Free
  <2> QED
    BY <2>1, <2>2, <2>3
<1>2. PICK k \in CP!Instructions :
         /\ op = CP!Opcode(program[k]) /\ program[k] \in CP!Statement
         /\ CP!LayoutOf(k, VP!Ins) /\ ~CP!BadRegister(program[k])
         /\ Meaning!Stmt = program[k]
         /\ \A ops : program[k].op \in ops => Meaning!Executes(ops)
  BY <1>1, Executed
<1> DEFINE r == program[k].a
<1>3. program[k].op = op
  BY <1>1, <1>2, KindOf
<1>4. VP!Register(VP!Ins.a) = r /\ r \in 1 .. 16
  BY <1>1, <1>2, <1>3, PlainOperands DEF Running
<1>5. Meaning!Executes({"ALLOC", "MOV_STR", "FREE"})
  BY <1>1, <1>2, <1>3
<1>6. \/ VP!Fail
      \/ VP!Panic /\ op # "FREE"
      \/ /\ VP!Advance /\ UNCHANGED <<mode, ZF, SF, stack, subs, ev>>
         /\ IF op = "FREE" THEN UNCHANGED reg
            ELSE \E a : reg' = [reg EXCEPT ![VP!Register(VP!Ins.a)] = a]
  <2>1. CASE op = "ALLOC"
    BY <1>1, <2>1 DEF VP!Alloc
  <2>2. CASE op = "MOV_STR"
    BY <1>1, <2>2 DEF VP!MovStr
  <2>3. CASE op = "FREE"
    BY <1>1, <2>3 DEF VP!Free
  <2> QED
    BY <1>1, <2>1, <2>2, <2>3
<1>7. CASE VP!Fail
  BY <1>5, <1>7, Aborts DEF Meaning!Memory
<1>8. CASE VP!Panic /\ op # "FREE"
  <2>1. /\ mode' = "panicked" /\ UNCHANGED <<PC, reg, ZF, SF, stack, subs, ev>>
    BY <1>8 DEF VP!Panic
  <2>2. Meaning!Keep /\ Frame' = "panicked" /\ Number(vm, PC)' = Number(vm, PC)
    BY <2>1, Kept, Steady
  <2> QED
    BY <1>2, <1>3, <1>5, <1>8, <2>1, <2>2, Kept DEF Meaning!Memory
<1>9. ASSUME VP!Advance, UNCHANGED <<mode, ZF, SF, stack, subs, ev>>,
             IF op = "FREE" THEN UNCHANGED reg
             ELSE \E a : reg' = [reg EXCEPT ![VP!Register(VP!Ins.a)] = a]
      PROVE  Meaning!Memory
  <2>1. Meaning!Continue /\ Meaning!Keep
    BY <1>1, <1>9, Advances, Kept
  <2>2. op # "FREE" => \E a \in 0 .. (Meaning!WordSize - 1) : reg' = [reg EXCEPT ![r] = a]
    <3> SUFFICES ASSUME op # "FREE"
                 PROVE  \E a \in 0 .. (Meaning!WordSize - 1) : reg' = [reg EXCEPT ![r] = a]
      OBVIOUS
    <3> HIDE DEF r
    <3>1. PICK a : reg' = [reg EXCEPT ![r] = a]
      BY <1>4, <1>9
    <3>2. /\ reg \in [VP!Registers -> VP!U32] /\ reg' \in [VP!Registers -> VP!U32]
          /\ r \in VP!Registers
      BY <1>4 DEF Running, Sound, VP!TypeOK, VP!Registers
    <3>3. a \in VP!U32
      BY <3>1, <3>2
    <3>4. VP!U32 = 0 .. (Meaning!WordSize - 1)
      BY SameAlu, SameWords DEF VP!U32
    <3> QED
      BY <3>1, <3>3, <3>4
  <2> QED
    BY <1>2, <1>3, <1>5, <1>9, <2>1, <2>2, Kept DEF Meaning!Memory
<1> QED
  BY <1>6, <1>7, <1>8, <1>9

(* A jump goes to the label's statement.                                   *)
LEMMA TargetOf ==
    ASSUME Bound, NEW k \in CP!Instructions, NEW i, CP!LayoutOf(k, i),
           program[k].op \in CP!Branch
    PROVE  /\ Number(vm, i.v) = Meaning!Target(program[k].l)
           /\ i.v \in Nat /\ i.v <= size
<1>1. /\ CP!SInv /\ CP!WalkInv /\ phase \in {"written", "loaded"} /\ size \in Nat
  BY LoadedWhole DEF Bound, CP!SInv, CP!CodegenInv, CP!TypeOK
<1>2. PICK j \in 1 .. Len(program) :
         program[j].op = "LABEL" /\ program[j].l = program[k].l /\ i.v = CP!Offset(j)
  BY DEF CP!LayoutOf, CP!JumpsTo
<1>3. \A m \in 1 .. Len(program) :
         program[m].op = "LABEL" /\ program[m].l = program[k].l <=> m = j
  BY <1>1, <1>2, CP!AcceptedSound, PipelineAssumption
<1>4. Statements = program /\ Len(program) \in Nat
  BY Numbers
<1>5. (CHOOSE m \in 1 .. Len(program) :
          program[m].op = "LABEL" /\ program[m].l = program[k].l) = j
  BY <1>2, <1>3
<1>6. Meaning!Target(program[k].l) = Meaning!Number(j)
  BY <1>4, <1>5 DEF Meaning!Target
<1>7. j \in 1 .. (Len(program) + 1) /\ Len(program) + 1 \in 1 .. (Len(program) + 1)
      /\ j <= Len(program) + 1
  BY <1>4
<1>8. Number(vm, CP!Offset(j)) = Meaning!Number(j)
  BY <1>7, Numbers
<1>9. CP!Offset(j) \in Nat /\ CP!Offset(j) <= CP!Offset(Len(program) + 1)
  BY <1>1, <1>7, CP!OffsetsGrow, PipelineAssumption
<1>10. CP!Offset(Len(program) + 1) = size
  BY <1>1, CP!LayoutComplete, PipelineAssumption
<1> QED
  BY <1>2, <1>6, <1>8, <1>9, <1>10

LEMMA SimJump ==
    ASSUME Running, Stay, VP!Jmp \/ VP!Jz \/ VP!Jnz
    PROVE  Meaning!Jump
<1>1. PICK op \in VP!JumpOps :
         /\ VP!AtOp(op)
         /\ IF op = "JMP" \/ (op = "JZ" /\ ZF) \/ (op = "JNZ" /\ ~ZF)
            THEN VP!JumpTo(VP!Ins.v) ELSE VP!FallThrough
  BY DEF VP!Jmp, VP!Jz, VP!Jnz, VP!JumpOps
<1>2. PICK k \in CP!Instructions :
         /\ op = CP!Opcode(program[k]) /\ program[k] \in CP!Statement
         /\ CP!LayoutOf(k, VP!Ins) /\ Meaning!Stmt = program[k]
         /\ \A ops : program[k].op \in ops => Meaning!Executes(ops)
  BY <1>1, Executed
<1>3. program[k].op = op /\ op \in {"JMP", "JZ", "JNZ"}
  BY <1>1, <1>2, KindOf DEF VP!JumpOps
<1>4. Meaning!Executes(Meaning!JumpOps) /\ op \in CP!Branch
  BY <1>2, <1>3 DEF Meaning!JumpOps, CP!Branch, CP!JumpOps
<1>5. ZF \in BOOLEAN
  BY DEF Running, Sound, VP!TypeOK
<1> DEFINE taken == Meaning!Stmt.op = "JMP" \/ (Meaning!Stmt.op = "JZ" <=> ZF)
<1>6. taken <=> op = "JMP" \/ (op = "JZ" /\ ZF) \/ (op = "JNZ" /\ ~ZF)
  BY <1>2, <1>3, <1>5
<1>7. CASE taken
  <2>1. VP!JumpTo(VP!Ins.v)
    BY <1>1, <1>6, <1>7
  <2>2. Number(vm, VP!Ins.v) = Meaning!Target(program[k].l) /\ ~(VP!Ins.v > vm.size)
    <3>1. /\ Number(vm, VP!Ins.v) = Meaning!Target(program[k].l)
          /\ VP!Ins.v \in Nat /\ VP!Ins.v <= size
      BY <1>2, <1>3, <1>4, TargetOf DEF Running
    <3> QED
      BY <3>1, FrameFacts
  <2>3. PC' = VP!Ins.v /\ UNCHANGED <<mode, reg, ZF, SF, stack, subs, ev>>
    BY <2>1, <2>2 DEF VP!JumpTo
  <2>4. Meaning!Goto(Meaning!Target(Meaning!Stmt.l))
    <3>1. Number(vm, PC)' = Meaning!Target(Meaning!Stmt.l) /\ Frame' = Frame
      BY <1>2, <2>2, <2>3, Steady
    <3> QED
      BY <3>1 DEF Meaning!Goto
  <2> QED
    BY <1>4, <1>7, <2>3, <2>4, Kept DEF Meaning!Jump
<1>8. CASE ~taken
  <2>1. VP!Advance /\ UNCHANGED <<mode, reg, ZF, SF, stack, subs, ev>>
    BY <1>1, <1>6, <1>8 DEF VP!FallThrough
  <2>2. Meaning!Continue
    BY <1>1, <2>1, Advances
  <2> QED
    BY <1>4, <1>8, <2>1, <2>2, Kept DEF Meaning!Jump
<1> QED
  BY <1>7, <1>8

LEMMA SimCall ==
    ASSUME Running, Stay, VP!Call
    PROVE  Meaning!Call
<1>1. VP!AtOp("CALL")
  BY DEF VP!Call
<1>2. PICK k \in CP!Instructions :
         /\ "CALL" = CP!Opcode(program[k]) /\ program[k] \in CP!Statement
         /\ CP!LayoutOf(k, VP!Ins) /\ Meaning!Stmt = program[k]
         /\ Number(vm, PC + VP!InsSize("CALL")) = Number(vm, PC) + 1
         /\ \A ops : program[k].op \in ops => Meaning!Executes(ops)
  BY <1>1, Executed
<1>3. program[k].op = "CALL" /\ Meaning!Executes({"CALL"})
  BY <1>2, KindOf
<1>4. Number(vm, VP!Ins.v) = Meaning!Target(program[k].l) /\ ~(VP!Ins.v > vm.size)
  <2>1. /\ Number(vm, VP!Ins.v) = Meaning!Target(program[k].l)
        /\ VP!Ins.v \in Nat /\ VP!Ins.v <= size
    BY <1>2, <1>3, TargetOf DEF Running, CP!Branch
  <2> QED
    BY <2>1, FrameFacts
<1>5. /\ stack \in Seq(Nat) /\ Len(stack) \in Nat
      /\ Len(stack) <= MaxCallStackDepth /\ MaxCallStackDepth \in Nat
  BY PipelineAssumption DEF Running, VP!ControlInv, VP!ControlTyped, VP!StackDiscipline
<1>6. Len(Calls(vm, stack)) = Len(stack)
  BY <1>5 DEF Calls
<1>7. VP!StackFull <=> Len(Calls(vm, stack)) = MaxCallStackDepth
  BY <1>5, <1>6 DEF VP!StackFull
<1>8. CASE VP!StackFull
  <2>1. VP!Fail
    BY <1>8 DEF VP!Call
  <2> QED
    BY <1>3, <1>7, <1>8, <2>1, Aborts DEF Meaning!Call
<1>9. CASE ~VP!StackFull
  <2> DEFINE o == PC + VP!InsSize("CALL")
  <2>1. /\ stack' = Append(stack, o) /\ PC' = VP!Ins.v
        /\ UNCHANGED <<mode, reg, ZF, SF, subs, ev>>
    BY <1>4, <1>9 DEF VP!Call, VP!ReturnPC
  <2>2. Number(vm, o) = Number(vm, PC) + 1
    BY <1>2
  <2> HIDE DEF o
  <2>3. Calls(vm, stack') = Append(Calls(vm, stack), Number(vm, PC) + 1)
    BY <1>5, <2>1, <2>2 DEF Calls
  <2>4. Calls(vm, stack)' = Append(Calls(vm, stack), Number(vm, PC) + 1)
    BY <2>3, Steady
  <2>5. Meaning!Goto(Meaning!Target(Meaning!Stmt.l))
    <3>1. Number(vm, PC)' = Meaning!Target(Meaning!Stmt.l) /\ Frame' = Frame
      BY <1>2, <1>4, <2>1, Steady
    <3> QED
      BY <3>1 DEF Meaning!Goto
  <2> QED
    BY <1>3, <1>7, <1>9, <2>1, <2>4, <2>5, Kept DEF Meaning!Call
<1> QED
  BY <1>8, <1>9

LEMMA SimReturn ==
    ASSUME Running, Stay, VP!Ret
    PROVE  Meaning!Return
<1>1. VP!AtOp("RET")
  BY DEF VP!Ret
<1>2. PICK k \in CP!Instructions :
         /\ "RET" = CP!Opcode(program[k]) /\ program[k] \in CP!Statement
         /\ \A ops : program[k].op \in ops => Meaning!Executes(ops)
  BY <1>1, Executed
<1>3. Meaning!Executes({"RET"})
  BY <1>2, KindOf
<1>4. stack \in Seq(Nat) /\ Len(stack) \in Nat
  BY DEF Running, VP!ControlInv, VP!ControlTyped
<1>5. Calls(vm, stack) = <<>> <=> stack = <<>>
  BY <1>4 DEF Calls
<1>6. CASE stack = <<>>
  BY <1>3, <1>5, <1>6, Aborts DEF VP!Ret, Meaning!Return
<1>7. CASE stack # <<>>
  <2> DEFINE top == stack[Len(stack)]
  <2>1. Len(stack) \in DOMAIN stack
    BY <1>4, <1>7, EmptySeq
  <2>2. ~(top > vm.size)
    <3>1. PICK o \in DOMAIN vm.ins : vm.ins[o].op = "CALL" /\ top = o + VP!InsSize("CALL")
      BY <2>1 DEF Running, VP!ControlInv, VP!StackDiscipline
    <3>2. PICK j \in CP!Instructions :
             /\ vm.ins[o].op = CP!Opcode(program[j])
             /\ CP!Offset(j + 1) = o + CP!InsSize(vm.ins[o].op)
      BY PlaceOf DEF Running
    <3>3. CP!Offset(j + 1) <= size
      BY FrameFacts, CP!InstructionPlaced, PipelineAssumption
    <3>4. top = CP!Offset(j + 1)
      BY <3>1, <3>2 DEF CP!InsSize, VP!InsSize, CP!JumpOps, VP!JumpOps, CP!AluOps, VP!AluOps
    <3>5. CP!Offset(j + 1) \in Int /\ vm.size = size /\ size \in Int
      <4>1. top \in Nat
        BY <1>4, <2>1
      <4> QED
        BY <3>4, <4>1, FrameFacts
    <3> HIDE DEF top
    <3> QED
      BY <3>3, <3>4, <3>5
  <2>3. /\ stack' = SubSeq(stack, 1, Len(stack) - 1) /\ PC' = top
        /\ UNCHANGED <<mode, reg, ZF, SF, subs, ev>>
    BY <1>7, <2>2 DEF VP!Ret
  <2>4. Calls(vm, stack') = SubSeq(Calls(vm, stack), 1, Len(Calls(vm, stack)) - 1)
    BY <1>4, <2>1, <2>3 DEF Calls
  <2>5. Calls(vm, stack)[Len(Calls(vm, stack))] = Number(vm, top)
    BY <1>4, <2>1 DEF Calls
  <2>6. Meaning!Goto(Calls(vm, stack)[Len(Calls(vm, stack))])
    BY <2>3, <2>5, Steady DEF Meaning!Goto
  <2>7. Calls(vm, stack)' = SubSeq(Calls(vm, stack), 1, Len(Calls(vm, stack)) - 1)
    BY <2>4, Steady
  <2> QED
    BY <1>3, <1>5, <1>7, <2>3, <2>6, <2>7, Kept DEF Meaning!Return
<1> QED
  BY <1>6, <1>7

LEMMA SimSubscribe ==
    ASSUME Running, Stay, VP!OnChat
    PROVE  Meaning!Subscribe
<1>1. VP!AtOp("ON_CHAT")
  BY DEF VP!OnChat
<1>2. PICK k \in CP!Instructions :
         /\ PC = CP!Offset(k) /\ VP!Ins = vm.ins[PC]
         /\ "ON_CHAT" = CP!Opcode(program[k]) /\ program[k] \in CP!Statement
         /\ Number(vm, PC) = Meaning!Number(k)
         /\ \A ops : program[k].op \in ops => Meaning!Executes(ops)
  BY <1>1, Executed
<1>3. program[k].op = "ON_CHAT" /\ Meaning!Executes({"ON_CHAT"})
  BY <1>2, KindOf
<1> DEFINE e == k + 1 + program[k].body
<1>4. /\ e \in 1 .. (Len(program) + 1)
      /\ VP!Ins.v \in Nat /\ VP!Ins.v + 1 \in 1 .. Len(vm.consts)
      /\ CP!Offset(k + 1) = CP!Offset(k) + 14
      /\ CP!Offset(k + 1) \in Nat /\ CP!Offset(e) \in Nat /\ CP!Offset(e) <= size
      /\ VP!Ins.off = CP!Offset(k + 1) /\ VP!Ins.len = CP!Offset(e) - CP!Offset(k + 1)
      /\ Meaning!Behind(Meaning!Number(k)) = Meaning!Number(e)
  BY <1>2, <1>3, HeaderFacts DEF Running
<1>5. /\ Number(vm, CP!Offset(k + 1)) = Meaning!Number(k) + 1 /\ Meaning!Number(k) \in Nat
      /\ Number(vm, CP!Offset(e)) = Meaning!Number(e)
  <2> HIDE DEF e
  <2> QED
    BY <1>4, Numbers DEF Running
<1> HIDE DEF e
<1>6. VP!InPool(VP!Ins.v)
  <2>1. Len(vm.consts) \in Nat
    BY DEF Running, VP!ControlInv, VP!ControlTyped
  <2> QED
    BY <1>4, <2>1 DEF VP!InPool
<1> DEFINE s == [pattern    |-> VP!Const(VP!Ins.v), userVarReg |-> VP!Ins.a,
                 bodyOffset |-> VP!Ins.off,         bodyLength |-> VP!Ins.len]
<1>7. /\ subs' = Append(subs, s) /\ PC' = VP!SkipBody
      /\ UNCHANGED <<mode, reg, ZF, SF, stack, ev>>
  BY <1>6 DEF VP!OnChat
<1>8. s.bodyOffset = CP!Offset(k + 1)
  BY <1>4
<1> HIDE DEF s
<1>9. VP!SkipBody = CP!Offset(e)
  <2>1. VP!InsSize("ON_CHAT") = 14
    BY DEF VP!InsSize, VP!AluOps, VP!JumpOps
  <2>2. PC + VP!InsSize("ON_CHAT") + VP!Ins.len = CP!Offset(e)
    <3>1. PC \in Nat
      BY FrameFacts
    <3> QED
      BY <1>2, <1>4, <2>1, <3>1
  <2>3. size < VP!WordSize /\ VP!WordSize \in Nat /\ size \in Nat
    BY LoadedWhole, FrameFacts, PipelineAssumption, SameWords DEF Running, Bound
  <2>4. CP!Offset(e) \in 0 .. (VP!WordSize - 1)
    BY <1>4, <2>3
  <2> QED
    BY <2>2, <2>3, <2>4 DEF VP!SkipBody
<1>10. Handlers(vm, subs') = Append(Handlers(vm, subs), Number(vm, PC))
  <2>1. subs \in Seq(VP!Subscription) /\ Len(subs) \in Nat
    BY FrameFacts
  <2>2. Number(vm, s.bodyOffset) - 1 = Number(vm, PC)
    BY <1>2, <1>5, <1>8
  <2> QED
    BY <1>7, <2>1, <2>2 DEF Handlers
<1>11. Handlers(vm, subs)' = Append(Handlers(vm, subs), Number(vm, PC))
  BY <1>10, Steady
<1>12. Meaning!Goto(Meaning!Behind(Number(vm, PC)))
  <2>1. Number(vm, PC)' = Meaning!Behind(Number(vm, PC)) /\ Frame' = Frame
    BY <1>2, <1>4, <1>5, <1>7, <1>9, Steady
  <2> QED
    BY <2>1 DEF Meaning!Goto
<1> QED
  BY <1>3, <1>7, <1>11, <1>12, Kept DEF Meaning!Subscribe

LEMMA SimFinish ==
    ASSUME Running, Stay, VP!RunDone
    PROVE  Meaning!Finish
<1>1. /\ mode = "run" /\ PC >= vm.size
      /\ mode' = IF subs = <<>> THEN "exited" ELSE "listen"
      /\ UNCHANGED <<PC, reg, ZF, SF, stack, subs, ev>>
  BY DEF VP!RunDone
<1>2. Frame = mode /\ vm.size = size /\ subs \in Seq(VP!Subscription)
  BY FrameFacts
<1>3. Number(vm, PC) = Meaning!End
  BY <1>1, <1>2, PlaceNumber
<1>4. Handlers(vm, subs) = <<>> <=> subs = <<>>
  BY <1>2 DEF Handlers
<1> QED
  BY <1>1, <1>2, <1>3, <1>4, Steady, Kept DEF Meaning!Finish, Meaning!Keep

-----------------------------------------------------------------------------
(* Chat lines.                                                             *)
LEMMA SimSay ==
    ASSUME Running, Stay, NEW u, NEW m \in Messages, VP!Deliver(u, m)
    PROVE  Meaning!Say(m)
<1>1. /\ mode = "listen" /\ mode' = "scan"
      /\ ev' = [VP!NoEvent EXCEPT !.user = u, !.msg = m, !.next = 1, !.last = Len(subs)]
      /\ UNCHANGED <<PC, reg, ZF, SF, stack, subs>>
  BY DEF VP!Deliver
<1>2. Frame = mode /\ subs \in Seq(VP!Subscription)
  BY FrameFacts
<1>3. Len(Handlers(vm, subs)) = Len(subs)
  BY <1>2 DEF Handlers
<1>4. /\ ev'.msg = m /\ ev'.next = 1 /\ ev'.last = Len(subs) /\ ev'.addr = 0
  BY <1>1 DEF VP!NoEvent
<1>5. Chat(vm, ev') = [msg |-> m, next |-> 1, last |-> Len(Handlers(vm, subs)), back |-> 0]
  BY <1>3, <1>4 DEF Chat
<1> QED
  BY <1>1, <1>2, <1>5, Steady, Kept DEF Meaning!Say

LEMMA SimQuit ==
    ASSUME Running, Stay, VP!Quit
    PROVE  Meaning!Quit
<1>1. /\ mode = "listen" /\ mode' = "exited"
      /\ UNCHANGED <<PC, reg, ZF, SF, stack, subs, ev>>
  BY DEF VP!Quit
<1> QED
  BY <1>1, Steady, Kept DEF Meaning!Quit, Meaning!Keep

(* Whom a delivery looks at.                                               *)
LEMMA Looking ==
    ASSUME Running, VP!Pending
    PROVE  \E h \in CP!Instructions :
              /\ Meaning!Scanning /\ Meaning!Handler = Meaning!Number(h)
              /\ Meaning!Index(Meaning!Handler) = h
              /\ Meaning!Number(h) \in Nat
              /\ Number(vm, VP!Sub.bodyOffset) = Meaning!Number(h) + 1
              /\ VP!Sub.userVarReg = program[h].a /\ program[h].a \in 1 .. 16
              /\ VP!Matches => Meaning!Wanted
<1>1. /\ mode = "scan" /\ ev.next \in DOMAIN subs /\ ev.next <= ev.last /\ ev.next # 0
  <2>1. mode = "scan" /\ ev.next <= ev.last /\ ev.next >= 1 /\ ev.last <= Len(subs)
    BY DEF VP!Pending, Running, VP!ControlInv, VP!ScanInRange
  <2>2. subs \in Seq(VP!Subscription) /\ ev.next \in Nat /\ ev.last \in Nat
    BY FrameFacts
  <2> QED
    BY <2>1, <2>2
<1>2. /\ Frame = mode /\ Statements = program
      /\ Chat(vm, ev).next = ev.next /\ Chat(vm, ev).last = ev.last
  BY FrameFacts
<1>3. PICK h \in CP!Instructions :
         /\ Handlers(vm, subs)[ev.next] = Meaning!Number(h)
         /\ subs[ev.next].pattern = program[h].s
         /\ subs[ev.next].userVarReg = program[h].a
         /\ program[h].a \in 1 .. 16
         /\ subs[ev.next].bodyOffset = CP!Offset(h + 1)
  BY <1>1, HandlerFacts
<1>4. Meaning!Handler = Meaning!Number(h)
  BY <1>2, <1>3 DEF Meaning!Handler
<1>5. /\ Meaning!Index(Meaning!Number(h)) = h /\ Meaning!Number(h) \in Nat
      /\ Number(vm, CP!Offset(h + 1)) = Meaning!Number(h) + 1
  <2>1. h \in 1 .. (Len(program) + 1) /\ h + 1 \in 1 .. (Len(program) + 1)
    BY Numbers DEF Running
  <2> QED
    BY <2>1, Numbers DEF Running
<1>6. Meaning!Scanning
  BY <1>1, <1>2 DEF Meaning!Scanning
<1>7. VP!Matches => Meaning!Wanted
  <2>1. Chat(vm, ev).msg = ev.msg
    BY <1>1 DEF Chat
  <2> QED
    BY <1>2, <1>3, <1>4, <1>5, <2>1 DEF VP!Matches, VP!Sub, Meaning!Wanted
<1> QED
  BY <1>3, <1>4, <1>5, <1>6, <1>7 DEF VP!Sub

LEMMA EventIs ==
    ASSUME Running
    PROVE  ev = [user |-> ev.user, msg |-> ev.msg, next |-> ev.next, last |-> ev.last,
                 addr |-> ev.addr, savedPC |-> ev.savedPC, bodyEnd |-> ev.bodyEnd]
  BY DEF Running, VP!ControlInv, VP!ControlTyped, VP!EventTyped

LEMMA SimFire ==
    ASSUME Running, Stay, Sound', VP!FireSub
    PROVE  Meaning!Fire
<1> DEFINE a == VP!AllocAddr(StrLen[ev.user] + 1)
           b == (VP!Sub.bodyOffset + VP!Sub.bodyLength) % VP!WordSize
<1>1. /\ VP!Pending /\ VP!Matches
      /\ reg' = [reg EXCEPT ![VP!Sub.userVarReg] = a]
      /\ ev' = [ev EXCEPT !.addr = a, !.savedPC = PC, !.bodyEnd = b]
      /\ PC' = VP!Sub.bodyOffset /\ mode' = "body"
      /\ UNCHANGED <<ZF, SF, stack, subs>>
  BY DEF VP!FireSub
<1> HIDE DEF a, b
<1>2. PICK h \in CP!Instructions :
         /\ Meaning!Scanning /\ Meaning!Handler = Meaning!Number(h)
         /\ Meaning!Index(Meaning!Handler) = h
         /\ Number(vm, VP!Sub.bodyOffset) = Meaning!Number(h) + 1
         /\ VP!Sub.userVarReg = program[h].a /\ program[h].a \in 1 .. 16
         /\ Meaning!Wanted
  BY <1>1, Looking
<1>3. ev'.addr = a /\ ev'.savedPC = PC /\ ev'.msg = ev.msg /\ ev'.next = ev.next
      /\ ev'.last = ev.last
  BY <1>1, EventIs
<1>4. a # 0
  BY <1>1, <1>3 DEF Sound, VP!ReferInv, VP!BodyBounds, VP!InHandler
<1>5. Chat(vm, ev') = [Chat(vm, ev) EXCEPT !.back = Number(vm, PC)]
  BY <1>3, <1>4 DEF Chat
<1>6. \E x \in 0 .. (Meaning!WordSize - 1) : reg' = [reg EXCEPT ![program[h].a] = x]
  <2>1. /\ reg \in [VP!Registers -> VP!U32] /\ reg' \in [VP!Registers -> VP!U32]
        /\ program[h].a \in VP!Registers
    BY <1>2 DEF Running, Sound, VP!TypeOK, VP!Registers
  <2>2. reg' = [reg EXCEPT ![program[h].a] = a]
    BY <1>1, <1>2
  <2>3. a \in VP!U32
    BY <2>1, <2>2
  <2>4. VP!U32 = 0 .. (Meaning!WordSize - 1)
    BY SameAlu, SameWords DEF VP!U32
  <2> QED
    BY <2>2, <2>3, <2>4
<1>7. Number(vm, PC)' = Meaning!Handler + 1
  BY <1>1, <1>2, Steady
<1>8. Statements = program
  BY FrameFacts
<1> QED
  BY <1>1, <1>2, <1>5, <1>6, <1>7, <1>8, Steady, Kept DEF Meaning!Fire

LEMMA SimSkip ==
    ASSUME Running, Stay, VP!SkipSub
    PROVE  Meaning!Skip
<1>1. /\ VP!Pending /\ ev' = [ev EXCEPT !.next = @ + 1]
      /\ UNCHANGED <<mode, PC, reg, ZF, SF, stack, subs>>
  BY DEF VP!SkipSub
<1>2. /\ ev'.next = ev.next + 1 /\ ev'.msg = ev.msg /\ ev'.last = ev.last
      /\ ev'.addr = ev.addr /\ ev'.savedPC = ev.savedPC
  BY <1>1, EventIs
<1>3. ev.next \in Nat /\ ev.next # 0
  BY <1>1, FrameFacts DEF VP!Pending, Running, VP!ControlInv, VP!ScanInRange
<1>4. Chat(vm, ev') = [Chat(vm, ev) EXCEPT !.next = @ + 1]
  BY <1>2, <1>3 DEF Chat
<1>5. Meaning!Scanning
  BY <1>1, Looking
<1> QED
  BY <1>1, <1>4, <1>5, Steady, Kept DEF Meaning!Skip

LEMMA SimDie ==
    ASSUME Running, Stay, VP!FirePanic
    PROVE  Meaning!Die
<1>1. /\ VP!Pending /\ VP!Matches /\ mode' = "panicked"
      /\ UNCHANGED <<PC, reg, ZF, SF, stack, subs, ev>>
  BY DEF VP!FirePanic, VP!Panic
<1>2. Meaning!Scanning /\ Meaning!Wanted
  BY <1>1, Looking
<1> QED
  BY <1>1, <1>2, Steady, Kept DEF Meaning!Die, Meaning!Keep

(* A record's two fields written at once are a record with those fields.    *)
LEMMA NextBack ==
    ASSUME NEW c, NEW x, NEW y,
           c = [msg |-> c.msg, next |-> c.next, last |-> c.last, back |-> c.back]
    PROVE  [c EXCEPT !.next = x, !.back = y]
              = [msg |-> c.msg, next |-> x, last |-> c.last, back |-> y]
<1> DEFINE d == [msg |-> c.msg, next |-> x, last |-> c.last, back |-> c.back]
<1>1. [c EXCEPT !.next = x] = d
  OBVIOUS
<1>2. [d EXCEPT !.back = y] = [msg |-> c.msg, next |-> x, last |-> c.last, back |-> y]
  OBVIOUS
<1>3. [c EXCEPT !.next = x, !.back = y] = [[c EXCEPT !.next = x] EXCEPT !.back = y]
  OBVIOUS
<1> QED
  BY <1>1, <1>2, <1>3

LEMMA SimLeave ==
    ASSUME Running, Stay, VP!EndBody
    PROVE  Meaning!Leave
<1>1. /\ (mode = "body" /\ ~VP!InBody) \/ mode = "unwind"
      /\ PC' = ev.savedPC /\ mode' = "scan"
      /\ ev' = [ev EXCEPT !.next = @ + 1, !.addr = 0, !.savedPC = 0, !.bodyEnd = 0]
      /\ UNCHANGED <<reg, ZF, SF, stack, subs>>
  BY DEF VP!EndBody
<1>2. (Frame = "body" /\ ~Meaning!InBody) \/ Frame = "unwind"
  BY <1>1, BodyLink, FrameFacts
<1>3. ev'.next = ev.next + 1 /\ ev'.msg = ev.msg /\ ev'.last = ev.last /\ ev'.addr = 0
  BY <1>1, EventIs
<1>4. VP!InHandler
  BY <1>1 DEF VP!InHandler
<1>5. ev.next \in Nat /\ ev.next # 0 /\ ev.addr # 0
  BY <1>4, FrameFacts
  DEF Running, Sound, VP!ReferInv, VP!BodyBounds, VP!ControlInv, VP!ScanInRange
<1>6. Chat(vm, ev).back = Number(vm, ev.savedPC)
  BY <1>5 DEF Chat
<1>7. Chat(vm, ev') = [Chat(vm, ev) EXCEPT !.next = @ + 1, !.back = 0]
  <2>1. ev'.next # 0
    BY <1>3, <1>5
  <2>2. Chat(vm, ev') = [msg |-> ev.msg, next |-> ev.next + 1, last |-> ev.last, back |-> 0]
    BY <1>3, <2>1 DEF Chat
  <2>3. Chat(vm, ev) = [msg  |-> ev.msg,  next |-> ev.next,
                        last |-> ev.last, back |-> Number(vm, ev.savedPC)]
    BY <1>5 DEF Chat
  <2>4. PICK x : x = ev.next + 1
    OBVIOUS
  <2>5. [Chat(vm, ev) EXCEPT !.next = x, !.back = 0]
           = [msg |-> ev.msg, next |-> x, last |-> ev.last, back |-> 0]
    <3> DEFINE c == Chat(vm, ev)
    <3>1. c = [msg |-> c.msg, next |-> c.next, last |-> c.last, back |-> c.back]
      BY <2>3
    <3>2. c.msg = ev.msg /\ c.last = ev.last
      BY <2>3
    <3> HIDE DEF c
    <3>3. [c EXCEPT !.next = x, !.back = 0]
             = [msg |-> c.msg, next |-> x, last |-> c.last, back |-> 0]
      BY <3>1, NextBack
    <3> QED
      BY <3>2, <3>3 DEF c
  <2>6. Chat(vm, ev).next = ev.next
    BY <2>3
  <2>7. [Chat(vm, ev) EXCEPT !.next = @ + 1, !.back = 0]
           = [Chat(vm, ev) EXCEPT !.next = x, !.back = 0]
    BY <2>4, <2>6
  <2> QED
    BY <2>2, <2>4, <2>5, <2>7
<1>8. Number(vm, PC)' = Chat(vm, ev).back
  BY <1>1, <1>6, Steady
<1> QED
  BY <1>1, <1>2, <1>7, <1>8, Steady, Kept DEF Meaning!Leave

LEMMA SimAnswered ==
    ASSUME Running, Stay, VP!EndDelivery
    PROVE  Meaning!Answered
<1>1. /\ mode = "scan" /\ ev.next > ev.last /\ mode' = "listen" /\ ev' = VP!NoEvent
      /\ UNCHANGED <<PC, reg, ZF, SF, stack, subs>>
  BY DEF VP!EndDelivery
<1>2. Chat(vm, ev') = Meaning!NoChat
  BY <1>1 DEF VP!NoEvent, Meaning!NoChat, Chat
<1> QED
  BY <1>1, <1>2, FrameFacts, Steady, Kept DEF Meaning!Answered

(* A loaded program never makes the machine decode what is no instruction. *)
LEMMA NoGarbage ==
    ASSUME Running
    PROVE  ~VP!Unknown /\ ~VP!Truncated
<1>1. ASSUME VP!Unknown PROVE FALSE
  <2>1. VP!AtOp("UNKNOWN")
    BY <1>1 DEF VP!Unknown
  <2>2. PICK k \in CP!Instructions : "UNKNOWN" = CP!Opcode(program[k]) /\ program[k] \in CP!Statement
    BY <2>1, Executed
  <2> QED
    BY <2>2 DEF CP!Opcode, CP!Statement, CP!Kinds, CP!TwoRegister, CP!AluOps, CP!JumpOps
<1>2. ASSUME VP!Truncated PROVE FALSE
  <2>1. PC < vm.size /\ PC + VP!InsSize(vm.ins[PC].op) > vm.size
    BY <1>2 DEF VP!Truncated, VP!Ins
  <2>2. PC \in DOMAIN vm.ins /\ vm.size = size /\ size \in Nat /\ PC \in Nat
    BY <2>1, FrameFacts DEF Running, VP!ControlInv, VP!FetchOnBoundary, VP!Fetchable
  <2>3. PICK k \in CP!Instructions :
           CP!Offset(k + 1) = PC + CP!InsSize(vm.ins[PC].op)
    BY <2>2, PlaceOf DEF Running
  <2>4. CP!Offset(k + 1) <= size
    BY FrameFacts, CP!InstructionPlaced, PipelineAssumption
  <2>5. CP!InsSize(vm.ins[PC].op) = VP!InsSize(vm.ins[PC].op)
    BY DEF CP!InsSize, VP!InsSize, CP!JumpOps, VP!JumpOps, CP!AluOps, VP!AluOps
  <2>6. VP!InsSize(vm.ins[PC].op) \in Nat
    BY VP!InsSizeNat, MachineAssumptions, PipelineAssumption
  <2> QED
    BY <2>1, <2>2, <2>3, <2>4, <2>5, <2>6
<1> QED
  BY <1>1, <1>2

-----------------------------------------------------------------------------
(* Every step of the machine is the meaning's.                             *)
LEMMA SimInstruction ==
    ASSUME Running, Stay, Sound', VP!Instruction
    PROVE  Meaning!Next
<1>1. CASE VP!Alloc \/ VP!MovStr \/ VP!Free
  BY <1>1, SimMemory DEF Sound, Meaning!Next
<1>2. CASE VP!MovReg \/ VP!MovInt
  BY <1>2, SimMove DEF Meaning!Next
<1>3. CASE VP!Output
  BY <1>3, SimOutput DEF Meaning!Next
<1>4. CASE VP!OnChat
  BY <1>4, SimSubscribe DEF Meaning!Next
<1>5. CASE \E op \in VP!AluOps : VP!Arith(op)
  BY <1>5, SimArith DEF Meaning!Next
<1>6. CASE VP!Cmp
  BY <1>6, SimCompare DEF Meaning!Next
<1>7. CASE VP!Jmp \/ VP!Jz \/ VP!Jnz
  BY <1>7, SimJump DEF Meaning!Next
<1>8. CASE VP!Call
  BY <1>8, SimCall DEF Meaning!Next
<1>9. CASE VP!Ret
  BY <1>9, SimReturn DEF Meaning!Next
<1> QED
  BY <1>1, <1>2, <1>3, <1>4, <1>5, <1>6, <1>7, <1>8, <1>9, NoGarbage DEF VP!Instruction

LEMMA SimMachine ==
    ASSUME Running, Stay, Sound', VP!Next
    PROVE  Meaning!Next
<1>1. CASE VP!Instruction
  BY <1>1, SimInstruction
<1>2. CASE VP!RunDone
  BY <1>2, SimFinish DEF Meaning!Next
<1>3. CASE VP!SkipSub
  BY <1>3, SimSkip DEF Meaning!Next
<1>4. CASE VP!FireSub
  BY <1>4, SimFire DEF Meaning!Next
<1>5. CASE VP!FirePanic
  BY <1>5, SimDie DEF Meaning!Next
<1>6. CASE VP!EndBody
  BY <1>6, SimLeave DEF Meaning!Next
<1>7. CASE VP!EndDelivery
  BY <1>7, SimAnswered DEF Meaning!Next
<1>8. CASE VP!Quit
  BY <1>8, SimQuit DEF Meaning!Next
<1>9. ASSUME NEW u \in Users, NEW m \in Messages, VP!Deliver(u, m) PROVE Meaning!Next
  BY <1>9, SimSay DEF Meaning!Next
<1> QED
  BY <1>1, <1>2, <1>3, <1>4, <1>5, <1>6, <1>7, <1>8, <1>9 DEF VP!Next, VP!Internal

(* Before a program is loaded there is nothing, and then it starts.        *)
LEMMA EmptyCount ==
    ASSUME NEW c, DOMAIN c.ins \subseteq Nat
    PROVE  Number(c, 0) = 1
<1>1. {i \in DOMAIN c.ins : i < 0} = {}
  OBVIOUS
<1> QED
  BY <1>1, FS_EmptySet DEF Number

LEMMA SimInit == Init => Meaning!Init
<1> SUFFICES ASSUME Init PROVE Meaning!Init
  OBVIOUS
<1>1. VP!Boot /\ CP!New
  BY SameCompiler, SameMachine DEF Init
<1>2. Statements = <<>> /\ Frame = "off"
  BY <1>1 DEF CP!New, Statements, Frame, Loaded
<1>3. vm.ins = <<>>
  BY <1>1 DEF CP!New
<1>4. Number(vm, PC) = 1
  BY <1>1, <1>3, EmptyCount DEF VP!Boot
<1>5. Calls(vm, stack) = <<>> /\ Handlers(vm, subs) = <<>>
  BY <1>1 DEF VP!Boot, Calls, Handlers
<1>6. Chat(vm, ev) = Meaning!NoChat
  BY <1>1 DEF VP!Boot, VP!NoEvent, Meaning!NoChat, Chat
<1> QED
  BY <1>1, <1>2, <1>4, <1>5, <1>6
  DEF Meaning!Init, VP!Boot, VP!Registers, Meaning!Registers

LEMMA SimBefore ==
    ASSUME VP!Boot, ~Loaded, ~Loaded', UNCHANGED <<vm, machine>>
    PROVE  UNCHANGED Meaning!vars
<1>1. UNCHANGED <<mode, PC, reg, ZF, SF, stack, subs, ev>>
  BY DEF machine
<1>2. UNCHANGED <<Statements, Frame>>
  BY DEF Statements, Frame
<1>3. /\ UNCHANGED Number(vm, PC) /\ UNCHANGED Calls(vm, stack)
      /\ UNCHANGED Handlers(vm, subs) /\ UNCHANGED Chat(vm, ev)
  BY <1>1 DEF Number, Calls, Handlers, Chat
<1> QED
  BY <1>1, <1>2, <1>3 DEF Meaning!vars

LEMMA SimLoad ==
    ASSUME VP!Boot, CP!SInv, CP!FileInv, CP!LoadFile, UNCHANGED <<machine, program>>
    PROVE  Meaning!Boot
<1>1. phase = "written" /\ phase' = "loaded" /\ vm'.ins = file.ins
  BY DEF CP!LoadFile
<1>2. file.ins = ins /\ DOMAIN ins \subseteq Nat
  BY <1>1 DEF CP!FileInv, CP!SInv, CP!CodegenInv, CP!TypeOK
<1>3. UNCHANGED <<mode, PC, reg, ZF, SF, stack, subs, ev>>
  BY DEF machine
<1>4. Frame = "off" /\ Frame' = "run" /\ Statements' = program
  BY <1>1, <1>3 DEF Frame, Loaded, Statements, VP!Boot
<1>5. Number(vm, PC)' = 1
  <2>1. Number(vm', 0) = 1
    BY <1>1, <1>2, EmptyCount
  <2> QED
    BY <1>3, <2>1 DEF VP!Boot
<1>6. Calls(vm, stack)' = <<>> /\ Handlers(vm, subs)' = <<>>
  BY <1>3 DEF VP!Boot, Calls, Handlers
<1>7. Chat(vm, ev)' = Meaning!NoChat
  BY <1>3 DEF VP!Boot, VP!NoEvent, Meaning!NoChat, Chat
<1>8. Meaning!IsProgram(program)
  BY DEF CP!SInv, CP!IsProgram, CP!Statement, CP!TopLevel, CP!Kinds, CP!TwoRegister,
         CP!JumpOps, CP!AluOps, Meaning!IsProgram, Meaning!Statement, Meaning!TopLevel,
         Meaning!Kinds, Meaning!TwoRegister, Meaning!JumpOps, Meaning!AluOps
<1>9. Meaning!IsProgram(Statements)'
  BY <1>4, <1>8 DEF Meaning!IsProgram, Meaning!Statement
<1> QED
  BY <1>3, <1>4, <1>5, <1>6, <1>7, <1>9
  DEF Meaning!Boot, VP!Boot, VP!Registers, Meaning!Registers

(* Parsing, and compiling until the file is loaded, mean nothing yet.      *)
LEMMA ParseMeans == PipelineInv /\ Parse => UNCHANGED Meaning!vars
<1> SUFFICES ASSUME PipelineInv, Parse PROVE UNCHANGED Meaning!vars
  OBVIOUS
<1>1. PP!Next /\ UNCHANGED <<compiler, machine>>
  BY SameParser DEF Parse
<1>2. pc # "done"
  BY <1>1 DEF PP!Next, PP!BeginStatement, PP!TakeOperand, PP!WrongOperand, PP!TooLarge,
              PP!EndStatement, PP!LabelStatement, PP!Unexpected, PP!CloseBlock,
              PP!NextStatement, PP!EndOfInput, PP!AtStatement
<1>3. ~Loaded /\ ~Loaded' /\ UNCHANGED <<vm, machine>>
  BY <1>1, <1>2 DEF PipelineInv, CompilerInv, CP!New, Loaded, compiler
<1>4. VP!Boot
  BY <1>3 DEF PipelineInv, MachineInv
<1> QED
  BY <1>3, <1>4, SimBefore

LEMMA CompileMeans == PipelineInv /\ Compile => [Meaning!Next]_(Meaning!vars)
<1> SUFFICES ASSUME PipelineInv, Compile PROVE [Meaning!Next]_(Meaning!vars)
  OBVIOUS
<1>1. pc = "done" /\ errors = 0 /\ CP!Next /\ UNCHANGED <<parser, machine>>
  BY SameCompiler DEF Compile
<1>2. ~Loaded
  BY <1>1 DEF Loaded, CP!Next, CP!EmitPlain, CP!EmitString, CP!EmitLabel, CP!EmitJump,
              CP!BeginOnChat, CP!EndOnChat, CP!EndWalk, CP!Resolve, CP!Refuse,
              CP!WriteFile, CP!LoadFile, CP!AtStmt
<1>3. VP!Boot
  BY <1>2 DEF PipelineInv, MachineInv
<1>4. CASE CP!LoadFile
  <2>1. CP!SInv /\ CP!FileInv
    BY <1>4 DEF CP!LoadFile, PipelineInv, CompilerInv, CP!New
  <2>2. UNCHANGED program
    BY <1>1 DEF parser
  <2> QED
    BY <1>1, <1>3, <1>4, <2>1, <2>2, SimLoad DEF Meaning!Next
<1>5. CASE ~CP!LoadFile
  <2>1. ~Loaded' /\ UNCHANGED vm
    BY <1>1, <1>5
    DEF Loaded, CP!Next, CP!EmitPlain, CP!EmitString, CP!EmitLabel, CP!EmitJump,
        CP!BeginOnChat, CP!EndOnChat, CP!EndWalk, CP!Resolve, CP!Refuse,
        CP!WriteFile, CP!AtStmt
  <2> QED
    BY <1>1, <1>2, <1>3, <2>1, SimBefore
<1> QED
  BY <1>4, <1>5

LEMMA ExecuteMeans ==
    PipelineInv /\ Representable /\ Execute => Meaning!Next
<1> SUFFICES ASSUME PipelineInv, Representable, Execute PROVE Meaning!Next
  OBVIOUS
<1>1. Loaded /\ VP!Next /\ UNCHANGED <<parser, compiler>>
  BY SameMachine DEF Execute, Loaded
<1>2. VP!ControlInv /\ Sound
  BY <1>1, LoadedSound DEF PipelineInv
<1>3. Sound'
  BY <1>1, <1>2, MachineStep DEF Sound
<1> QED
  BY <1>1, <1>2, <1>3, SimMachine DEF Running, Bound, Stay, PipelineInv

LEMMA StutterMeans == UNCHANGED vars => UNCHANGED Meaning!vars
<1> SUFFICES ASSUME UNCHANGED vars PROVE UNCHANGED Meaning!vars
  OBVIOUS
<1>1. UNCHANGED <<vm, phase, program, mode, PC, reg, ZF, SF, stack, subs, ev>>
  BY DEF vars, parser, compiler, machine
<1>2. UNCHANGED <<Statements, Frame>>
  BY <1>1 DEF Statements, Frame, Loaded
<1>3. /\ UNCHANGED Number(vm, PC) /\ UNCHANGED Calls(vm, stack)
      /\ UNCHANGED Handlers(vm, subs) /\ UNCHANGED Chat(vm, ev)
  BY <1>1 DEF Number, Calls, Handlers, Chat
<1> QED
  BY <1>1, <1>2, <1>3 DEF Meaning!vars

(***************************************************************************)
(* Whatever source is accepted, every behaviour of the pipeline in which   *)
(* the format describes what was compiled is a behaviour of the source     *)
(* language: the offsets, placeholders, pool indices and addresses that    *)
(* codegen.go makes of statements, labels, strings and bodies, and cpu.go  *)
(* of subscriptions, return addresses and chat lines, never show.          *)
(***************************************************************************)
THEOREM SourcesMeanWhatTheySay == Spec /\ []Representable => SourceSemantics
<1>1. PipelineInv /\ [Next]_vars => PipelineInv'
  BY ParseStep, CompileStep, ExecuteStep, PipelineStutter DEF Next
<1>2. PipelineInv /\ Representable /\ [Next]_vars => [Meaning!Next]_(Meaning!vars)
  BY ParseMeans, CompileMeans, ExecuteMeans, StutterMeans DEF Next
<1> QED
  BY PipelineInit, SimInit, <1>1, <1>2, PTL DEF Spec, SourceSemantics, Meaning!Spec

-----------------------------------------------------------------------------
(* What is written is what the statement says.                             *)
LEMMA SaysIt ==
    ASSUME Running, V!AtOp("TRIGGER_PIN") \/ V!AtOp("SEND_CHAT")
    PROVE  LET st == Meaning!Stmt
           IN  V!Line = CASE st.op = "TRIGGER_PIN" -> << st.a % 256, st.b % 256 >>
                          [] st.op = "SEND_STR"    -> st.s
                          [] st.op = "SEND_REG"    ->
                                IF V!HoldsText(reg[st.a]) THEN V!Text(reg[st.a]) ELSE <<>>
<1>1. PICK op \in {"TRIGGER_PIN", "SEND_CHAT"} : V!AtOp(op)
  OBVIOUS
<1>2. VP!AtOp(op) /\ V!Ins = VP!Ins
  BY <1>1 DEF V!AtOp, VP!AtOp, V!InRun, VP!InRun, V!InBody, VP!InBody, V!Ins, VP!Ins,
              V!InsSize, VP!InsSize, V!JumpOps, VP!JumpOps, V!AluOps, VP!AluOps
<1>3. PICK k \in CP!Instructions :
         /\ PC = CP!Offset(k) /\ VP!Ins = vm.ins[PC]
         /\ VP!Ins.op = op /\ op = CP!Opcode(program[k])
         /\ CP!LayoutOf(k, VP!Ins) /\ Meaning!Stmt = program[k]
         /\ program[k] \in CP!Statement /\ ~CP!BadRegister(program[k])
  BY <1>2, Executed
<1> DEFINE st == program[k]
           i  == VP!Ins
<1>4. /\ CP!SInv /\ CP!WalkInv /\ phase \in {"written", "loaded"}
      /\ vm.ins = ins /\ vm.consts = consts
      /\ Len(consts) <= V!Tag /\ 16 < V!Tag /\ V!Tag = CP!WordSize \div 2
  BY LoadedWhole, SameWords DEF Running, Bound
<1>5. i.v \in Nat /\ consts \in Seq(Words) /\ V!Tag \in Nat
  <2>1. PC \in DOMAIN ins /\ VP!Ins = ins[PC]
    BY <1>3, <1>4, CP!InstructionPlaced, PipelineAssumption
  <2>2. \A o \in DOMAIN ins : ins[o].v \in Nat
    BY <1>4 DEF CP!SInv, CP!CodegenInv, CP!TypeOK, CP!Instruction, CP!Header
  <2>3. consts \in Seq(Words)
    BY <1>4 DEF CP!SInv, CP!CodegenInv, CP!TypeOK
  <2>4. V!Tag \in Nat
    BY <1>4, CP!WordSizeFacts, PipelineAssumption
  <2> QED
    BY <2>1, <2>2, <2>3, <2>4
<1>6. /\ st.op \in CP!Plain => i = CP!Encoded(st)
      /\ st.op = "SEND_STR" => /\ (i.v - V!Tag) + 1 \in DOMAIN consts
                               /\ consts[(i.v - V!Tag) + 1] = st.s
  BY <1>3, <1>4 DEF CP!LayoutOf, CP!OperandsOf
<1>7. CASE st.op = "TRIGGER_PIN"
  <2>1. i = CP!Code("TRIGGER_PIN", st.a % 256, st.b % 256, 0)
    BY <1>6, <1>7 DEF CP!Plain, CP!Encoded, CP!TwoRegister, CP!AluOps
  <2>2. V!Line = << st.a % 256, st.b % 256 >>
    BY <1>2, <2>1 DEF V!Line, CP!Code
  <2> QED
    BY <1>3, <1>7, <2>2
<1>8. CASE st.op = "SEND_STR"
  <2>1. i.op = "SEND_CHAT"
    BY <1>3, <1>8 DEF CP!Opcode
  <2>2. i.v >= V!Tag /\ i.v - V!Tag < Len(consts)
    BY <1>5, <1>6, <1>8
  <2>3. V!InPool(i.v - V!Tag) /\ V!Const(i.v - V!Tag) = st.s
    BY <1>4, <1>6, <1>8, <2>2 DEF V!InPool, V!Const
  <2> HIDE DEF i, st
  <2>4. V!Ins = i
    BY <1>2 DEF i
  <2>5. V!Line = st.s
    BY <1>5, <2>1, <2>2, <2>3, <2>4 DEF V!Line
  <2> QED
    BY <1>3, <1>8, <2>5 DEF st
<1>9. CASE st.op = "SEND_REG"
  <2>1. i = CP!Code("SEND_CHAT", 0, 0, st.a)
    BY <1>6, <1>9 DEF CP!Plain, CP!Encoded, CP!TwoRegister, CP!AluOps
  <2>2. st.a \in 1 .. 16
    BY <1>3, <1>9 DEF CP!BadRegister, CP!Registers
  <2>3. i.op = "SEND_CHAT" /\ i.v = st.a /\ ~(i.v >= V!Tag) /\ i.v < V!Tag
    BY <1>4, <1>5, <2>1, <2>2 DEF CP!Code
  <2>4. V!Register(i.v % 256) = st.a
    BY <2>2, <2>3 DEF V!Register, V!Registers
  <2>5. V!Line = IF V!HoldsText(reg[st.a]) THEN V!Text(reg[st.a]) ELSE <<>>
    BY <1>2, <2>3, <2>4 DEF V!Line
  <2> QED
    BY <1>3, <1>9, <2>5
<1> QED
  BY <1>3, <1>7, <1>8, <1>9, KindOf

(***************************************************************************)
(* What such a program writes is what its statements say: a pin and its    *)
(* state, the string of the source, or the text its register points at.    *)
(***************************************************************************)
THEOREM SourcesSayWhatIsWritten == Spec => [](Representable => SaysAsWritten)
<1>1. PipelineInv /\ [Next]_vars => PipelineInv'
  BY ParseStep, CompileStep, ExecuteStep, PipelineStutter DEF Next
<1>2. PipelineInv => (Representable => SaysAsWritten)
  <2> SUFFICES ASSUME PipelineInv, Representable, Loaded,
                      V!AtOp("TRIGGER_PIN") \/ V!AtOp("SEND_CHAT")
               PROVE  SaysAsWritten
    BY DEF SaysAsWritten
  <2>1. Running
    BY LoadedSound DEF PipelineInv, Running, Bound
  <2> QED
    BY <2>1, SaysIt DEF SaysAsWritten
<1> QED
  BY PipelineInit, <1>1, <1>2, PTL DEF Spec
=====================================================================================
