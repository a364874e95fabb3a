--------------------------------- MODULE FluxVM ---------------------------------
(***************************************************************************)
(* The flux virtual machine: the CPU of vm/cpu/cpu.go, driven by           *)
(* vm/main.go, over the heap of vm/memory.                                 *)
(*                                                                         *)
(* mode says which Go frame is on top:                                     *)
(*   "run"       Run's dispatch loop over the top-level code;              *)
(*   "listen"    main's loop, waiting for the next chat line;              *)
(*   "scan"      DeliverChatMessage, between two subscriptions;            *)
(*   "body"      DeliverChatMessage's dispatch loop inside a handler;      *)
(*   "unwind"    a handler's loop was left by a dispatch error;            *)
(*   "exited", "failed", "panicked"   the process has ended.               *)
(* Both dispatch loops run the same instruction actions, as both call      *)
(* dispatchOne.                                                            *)
(***************************************************************************)
EXTENDS HeapLayout, Bytecode, Sequences, FiniteSets

CONSTANTS Programs,       \* the programs LoadBinary may be given
          Strings,        \* pool constants, chat users and messages
          StrLen,         \* their lengths in bytes
          StrByte,        \* a byte that stands for the contents of each
          Users,          \* who may write a chat line
          Messages,       \* what they may write
          MaxCallStackDepth,
          MaxSubs         \* a bound: no delivery starts with more subscriptions

VARIABLES code,     \* Bytecode and Constants
          mode,
          PC,
          reg,      \* Registers, by wire code 1..16
          ZF, SF,   \* ZeroFlag, SignFlag
          stack,    \* CallStack
          subs,     \* ActiveSubscriptions
          RAM,
          ev,       \* DeliverChatMessage's parameters and locals
          own,      \* history: blocks the program allocated and did not free
          damaged   \* history: the program freed a block it did not own, or
                    \* an allocation dropped a remainder before a header

vars == <<code, mode, PC, reg, ZF, SF, stack, subs, RAM, ev, own, damaged>>

NoEvent == [user |-> "", msg |-> "", next |-> 0, last |-> 0,
            addr |-> 0, savedPC |-> 0, bodyEnd |-> 0]

-----------------------------------------------------------------------------
(* Instructions. *)
(* The handlers that index the bytecode without checking its length. *)
Unchecked == {"MOV_REG", "MOV_INT", "TRIGGER_PIN", "SEND_CHAT"}

(* registerCode: a code that names no register means R1. *)
Register(c) == IF c \in Registers THEN c ELSE 1

Ins == code.ins[PC]

(* Mutant of InBody: without the guard for a body longer than the code. *)
InBodyUnguarded == mode = "body" /\ PC < ev.bodyEnd

(* The loop conditions of Run and of DeliverChatMessage. *)
InRun  == mode = "run" /\ PC < code.size
InBody == mode = "body" /\ PC < ev.bodyEnd /\ PC < code.size

(* dispatchOne does nothing past the end of the code. *)
AtOp(op) ==
    /\ InRun \/ InBody
    /\ PC < code.size
    /\ Ins.op = op
    /\ PC + InsSize(op) <= code.size

Advance == PC' = PC + InsSize(Ins.op)

(* An error ends Run, and with it the process; it ends a handler's loop. *)
Fail == /\ mode' = IF mode = "run" THEN "failed" ELSE "unwind"
        /\ UNCHANGED <<code, PC, reg, ZF, SF, stack, subs, RAM, ev, own, damaged>>

Panic == /\ mode' = "panicked"
         /\ UNCHANGED <<code, PC, reg, ZF, SF, stack, subs, RAM, ev, own, damaged>>

-----------------------------------------------------------------------------
(* memory.Alloc and memory.Free in one step each; an Alloc that walks for  *)
(* ever is no step.                                                        *)
AllocResult(n) ==
    LET h == WalkEnd(RAM, n)
    IN  IF n = 0 THEN "zero"
        ELSE IF ~WalkStops(RAM, n) THEN "endless"
        ELSE IF ~InLoop(h) THEN "oom"
        ELSE IF Readable(h) /\ CanCarve(RAM, h, n) THEN "ok" ELSE "panic"

AllocAddr(n) == WalkEnd(RAM, n) + HeaderSize

Allocated(n) == Carve(RAM, WalkEnd(RAM, n), n)

Breaks(n) == Severs(RAM, WalkEnd(RAM, n), n)

(* The copy of string s and its NUL to address a of memory r. *)
Store(r, a, s) ==
    [i \in Cell |-> IF i \in a .. (a + StrLen[s] - 1) THEN StrByte[s]
                    ELSE IF i = a + StrLen[s] THEN 0 ELSE r[i]]

(* Alloc for a string and the copy that follows; writing past RAM panics. *)
StringResult(s) ==
    LET n == StrLen[s] + 1
    IN  IF AllocResult(n) = "ok" /\ AllocAddr(n) + n > RAMSize
        THEN "panic" ELSE AllocResult(n)

StringStored(s) == Store(Allocated(StrLen[s] + 1), AllocAddr(StrLen[s] + 1), s)

FreeFails(a) == ~InRange(a) \/ Flag(RAM, a - HeaderSize) = 0

Freed(a) == SetFlag(RAM, a - HeaderSize, 0)

-----------------------------------------------------------------------------
(* One action per opcode. *)
Alloc ==
    /\ AtOp("ALLOC")
    /\ AllocResult(Ins.v) # "endless"
    /\ CASE AllocResult(Ins.v) = "ok" ->
              /\ RAM' = Allocated(Ins.v)
              /\ reg' = [reg EXCEPT ![Register(Ins.a)] = AllocAddr(Ins.v)]
              /\ own' = own \cup {AllocAddr(Ins.v)}
              /\ damaged' = (damaged \/ Breaks(Ins.v))
              /\ Advance
              /\ UNCHANGED <<code, mode, ZF, SF, stack, subs, ev>>
         [] AllocResult(Ins.v) = "panic" -> Panic
         [] OTHER -> Fail

Free ==
    /\ AtOp("FREE")
    /\ LET a == reg[Register(Ins.a)]
       IN  IF FreeFails(a) THEN Fail
           ELSE /\ RAM' = Freed(a)
                /\ own' = own \ {a}
                /\ damaged' = (damaged \/ a \notin own)
                /\ Advance
                /\ UNCHANGED <<code, mode, reg, ZF, SF, stack, subs, ev>>

MovReg ==
    /\ AtOp("MOV_REG")
    /\ reg' = [reg EXCEPT ![Register(Ins.a)] = reg[Register(Ins.b)]]
    /\ Advance
    /\ UNCHANGED <<code, mode, ZF, SF, stack, subs, RAM, ev, own, damaged>>

MovInt ==
    /\ AtOp("MOV_INT")
    /\ reg' = [reg EXCEPT ![Register(Ins.a)] = Ins.v]
    /\ Advance
    /\ UNCHANGED <<code, mode, ZF, SF, stack, subs, RAM, ev, own, damaged>>

(* Constants are numbered from 0. *)
InPool(i) == i < Len(code.consts)
Const(i)  == code.consts[i + 1]

MovStr ==
    /\ AtOp("MOV_STR")
    /\ InPool(Ins.v) => StringResult(Const(Ins.v)) # "endless"
    /\ CASE ~InPool(Ins.v) -> Fail
         [] InPool(Ins.v) /\ StringResult(Const(Ins.v)) = "ok" ->
              LET s == Const(Ins.v)
                  a == AllocAddr(StrLen[s] + 1)
              IN  /\ RAM' = StringStored(s)
                  /\ reg' = [reg EXCEPT ![Register(Ins.a)] = a]
                  /\ own' = own \cup {a}
                  /\ damaged' = (damaged \/ Breaks(StrLen[s] + 1))
                  /\ Advance
                  /\ UNCHANGED <<code, mode, ZF, SF, stack, subs, ev>>
         [] InPool(Ins.v) /\ StringResult(Const(Ins.v)) = "panic" -> Panic
         [] OTHER -> Fail

(* The string at address a: its bytes up to the first NUL, if there is one. *)
HoldsText(a) == InRange(a) /\ \E e \in a .. (RAMSize - 1) : RAM[e] = 0

Text(a) ==
    LET e == CHOOSE e \in a .. (RAMSize - 1) :
                 RAM[e] = 0 /\ \A i \in a .. (e - 1) : RAM[i] # 0
    IN  [i \in 1 .. (e - a) |-> RAM[a + i - 1]]

(* The top bit of SEND_CHAT's operand says that the rest is an index. *)
Tag == WordSize \div 2

(* What the instruction at the PC writes to the log: a pin and its state,  *)
(* a string of the pool, a string in memory, or nothing.                   *)
Line ==
    CASE Ins.op = "TRIGGER_PIN" -> << Ins.a, Ins.b >>
      [] Ins.op = "SEND_CHAT" /\ Ins.v >= Tag ->
            IF InPool(Ins.v - Tag) THEN Const(Ins.v - Tag) ELSE <<>>
      [] Ins.op = "SEND_CHAT" /\ Ins.v < Tag ->
            LET a == reg[Register(Ins.v % 256)]
            IN  IF HoldsText(a) THEN Text(a) ELSE <<>>

(* TRIGGER_PIN and SEND_CHAT only write their Line. *)
Output ==
    /\ AtOp("TRIGGER_PIN") \/ AtOp("SEND_CHAT")
    /\ Advance
    /\ UNCHANGED <<code, mode, reg, ZF, SF, stack, subs, RAM, ev, own, damaged>>

(* Mutant of SkipBody: the header is not counted. *)
SkipWithoutHeader == (PC + Ins.len) % WordSize

SkipBody == (PC + InsSize("ON_CHAT") + Ins.len) % WordSize

OnChat ==
    /\ AtOp("ON_CHAT")
    /\ IF ~InPool(Ins.v) THEN Fail
       ELSE /\ subs' = Append(subs, [pattern    |-> Const(Ins.v),
                                     userVarReg |-> Ins.a,
                                     bodyOffset |-> Ins.off,
                                     bodyLength |-> Ins.len])
            /\ PC' = SkipBody
            /\ UNCHANGED <<code, mode, reg, ZF, SF, stack, RAM, ev, own, damaged>>

Arith(op) ==
    /\ AtOp(op)
    /\ LET d == Register(Ins.a)
           y == reg[Register(Ins.b)]
       IN  IF op = "DIV" /\ y = 0 THEN Fail
           ELSE /\ reg' = [reg EXCEPT ![d] = AluResult(op, reg[d], y)]
                /\ Advance
                /\ UNCHANGED <<code, mode, ZF, SF, stack, subs, RAM, ev, own, damaged>>

Cmp ==
    /\ AtOp("CMP")
    /\ ZF' = (reg[Register(Ins.a)] = reg[Register(Ins.b)])
    /\ SF' = (reg[Register(Ins.a)] < reg[Register(Ins.b)])
    /\ Advance
    /\ UNCHANGED <<code, mode, reg, stack, subs, RAM, ev, own, damaged>>

(* A target at the very end of the code is allowed: it ends the loop. *)
JumpTo(t) ==
    IF t > code.size THEN Fail
    ELSE /\ PC' = t
         /\ UNCHANGED <<code, mode, reg, ZF, SF, stack, subs, RAM, ev, own, damaged>>

FallThrough ==
    /\ Advance
    /\ UNCHANGED <<code, mode, reg, ZF, SF, stack, subs, RAM, ev, own, damaged>>

Jmp == AtOp("JMP") /\ JumpTo(Ins.v)
Jz  == AtOp("JZ")  /\ IF ZF THEN JumpTo(Ins.v) ELSE FallThrough
Jnz == AtOp("JNZ") /\ IF ZF THEN FallThrough ELSE JumpTo(Ins.v)

(* Mutants of StackFull and ReturnPC: one frame too many; the address of   *)
(* the byte after the opcode. *)
StackOverfull  == Len(stack) > MaxCallStackDepth
ReturnToOperand == PC + 1

StackFull == Len(stack) >= MaxCallStackDepth

ReturnPC == PC + InsSize("CALL")

Call ==
    /\ AtOp("CALL")
    /\ IF Ins.v > code.size \/ StackFull THEN Fail
       ELSE /\ stack' = Append(stack, ReturnPC)
            /\ PC' = Ins.v
            /\ UNCHANGED <<code, mode, reg, ZF, SF, subs, RAM, ev, own, damaged>>

(* RET pops before it checks the address, so that a bad one is gone too. *)
Ret ==
    /\ AtOp("RET")
    /\ IF stack = <<>> THEN Fail
       ELSE LET top == stack[Len(stack)]
            IN  /\ stack' = SubSeq(stack, 1, Len(stack) - 1)
                /\ IF top > code.size
                   THEN /\ mode' = IF mode = "run" THEN "failed" ELSE "unwind"
                        /\ PC' = PC
                   ELSE PC' = top /\ mode' = mode
                /\ UNCHANGED <<code, reg, ZF, SF, subs, RAM, ev, own, damaged>>

(* A byte that is no opcode. *)
Unknown ==
    /\ AtOp("UNKNOWN")
    /\ Fail

(* An instruction cut off by the end of the code section.  Most handlers   *)
(* report it; four index past the bytecode and panic.                      *)
Truncated ==
    /\ InRun \/ InBody
    /\ PC < code.size
    /\ PC + InsSize(Ins.op) > code.size
    /\ IF Ins.op \in Unchecked THEN Panic ELSE Fail

Instruction ==
    \/ Alloc \/ Free \/ MovReg \/ MovInt \/ MovStr \/ Output \/ OnChat
    \/ \E op \in AluOps : Arith(op)
    \/ Cmp \/ Jmp \/ Jz \/ Jnz \/ Call \/ Ret \/ Unknown \/ Truncated

-----------------------------------------------------------------------------
(* vm/main.go. *)
RunDone ==
    /\ mode = "run"
    /\ PC >= code.size
    /\ mode' = IF subs = <<>> THEN "exited" ELSE "listen"
    /\ UNCHANGED <<code, PC, reg, ZF, SF, stack, subs, RAM, ev, own, damaged>>

Quit ==
    /\ mode = "listen"
    /\ mode' = "exited"
    /\ UNCHANGED <<code, PC, reg, ZF, SF, stack, subs, RAM, ev, own, damaged>>

(* A chat line: DeliverChatMessage ranges over the subscriptions there are *)
(* now; a handler that subscribes more does not extend the loop.           *)
Deliver(u, m) ==
    /\ mode = "listen"
    /\ Len(subs) <= MaxSubs
    /\ mode' = "scan"
    /\ ev' = [NoEvent EXCEPT !.user = u, !.msg = m, !.next = 1, !.last = Len(subs)]
    /\ UNCHANGED <<code, PC, reg, ZF, SF, stack, subs, RAM, own, damaged>>

-----------------------------------------------------------------------------
(* DeliverChatMessage. *)
Sub == subs[ev.next]

(* Mutant of Pending: the slice's length is read again in every round. *)
PendingLive == mode = "scan" /\ ev.next <= Len(subs)

Pending == mode = "scan" /\ ev.next <= ev.last

Matches == Sub.pattern = ev.msg /\ Sub.userVarReg \in Registers

(* No match, an invalid register, or no memory for the username. *)
SkipSub ==
    /\ Pending
    /\ ~Matches \/ StringResult(ev.user) \notin {"ok", "panic", "endless"}
    /\ ev' = [ev EXCEPT !.next = @ + 1]
    /\ UNCHANGED <<code, mode, PC, reg, ZF, SF, stack, subs, RAM, own, damaged>>

FireSub ==
    /\ Pending
    /\ Matches
    /\ StringResult(ev.user) = "ok"
    /\ LET a == AllocAddr(StrLen[ev.user] + 1)
       IN  /\ RAM' = StringStored(ev.user)
           /\ reg' = [reg EXCEPT ![Sub.userVarReg] = a]
           /\ ev' = [ev EXCEPT !.addr = a, !.savedPC = PC,
                               !.bodyEnd = (Sub.bodyOffset + Sub.bodyLength) % WordSize]
    /\ damaged' = (damaged \/ Breaks(StrLen[ev.user] + 1))
    /\ PC' = Sub.bodyOffset
    /\ mode' = "body"
    /\ UNCHANGED <<code, ZF, SF, stack, subs, own>>

FirePanic ==
    /\ Pending
    /\ Matches
    /\ StringResult(ev.user) = "panic"
    /\ Panic

(* Mutants of EndBody: the PC is not restored; after an error the username *)
(* block is kept. *)
EndBodyAstray ==
    /\ \/ mode = "body" /\ ~InBody
       \/ mode = "unwind"
    /\ RAM' = IF FreeFails(ev.addr) THEN RAM ELSE Freed(ev.addr)
    /\ mode' = "scan"
    /\ ev' = [ev EXCEPT !.next = @ + 1, !.addr = 0, !.savedPC = 0, !.bodyEnd = 0]
    /\ UNCHANGED <<code, PC, reg, ZF, SF, stack, subs, own, damaged>>

EndBodyLeaking ==
    /\ \/ mode = "body" /\ ~InBody
       \/ mode = "unwind"
    /\ RAM' = IF mode = "unwind" \/ FreeFails(ev.addr) THEN RAM ELSE Freed(ev.addr)
    /\ PC' = ev.savedPC
    /\ mode' = "scan"
    /\ ev' = [ev EXCEPT !.next = @ + 1, !.addr = 0, !.savedPC = 0, !.bodyEnd = 0]
    /\ UNCHANGED <<code, reg, ZF, SF, stack, subs, own, damaged>>

(* The loop is left at its condition or by an error; the username block is *)
(* freed, an error of Free only logged, and the PC restored.               *)
EndBody ==
    /\ \/ mode = "body" /\ ~InBody
       \/ mode = "unwind"
    /\ RAM' = IF FreeFails(ev.addr) THEN RAM ELSE Freed(ev.addr)
    /\ PC' = ev.savedPC
    /\ mode' = "scan"
    /\ ev' = [ev EXCEPT !.next = @ + 1, !.addr = 0, !.savedPC = 0, !.bodyEnd = 0]
    /\ UNCHANGED <<code, reg, ZF, SF, stack, subs, own, damaged>>

EndDelivery ==
    /\ mode = "scan"
    /\ ev.next > ev.last
    /\ mode' = "listen"
    /\ ev' = NoEvent
    /\ UNCHANGED <<code, PC, reg, ZF, SF, stack, subs, RAM, own, damaged>>

-----------------------------------------------------------------------------
(* cpu.New and memory.Reset; code is what LoadBinary made of the file. *)
Boot ==
    /\ mode = "run"
    /\ PC = 0
    /\ reg = [r \in Registers |-> 0]
    /\ ZF = FALSE /\ SF = FALSE
    /\ stack = <<>>
    /\ subs = <<>>
    /\ RAM = ResetRAM
    /\ ev = NoEvent
    /\ own = {}
    /\ damaged = FALSE

Init == code \in Programs /\ Boot

(* What the process does by itself; chat lines come from outside. *)
Internal ==
    \/ Instruction
    \/ RunDone \/ SkipSub \/ FireSub \/ FirePanic \/ EndBody \/ EndDelivery

Next ==
    \/ Internal
    \/ Quit
    \/ \E u \in Users, m \in Messages : Deliver(u, m)

Spec == Init /\ [][Next]_vars

(* The goroutine that runs main is scheduled; nothing makes a user write. *)
FairSpec == Spec /\ WF_vars(Internal)

-----------------------------------------------------------------------------
(* A string that has a length and contents. *)
Sized(s) == StrLen[s] \in Nat /\ StrByte[s] \in Byte

(* LoadBinary and the operand decoders read numbers of 32 bits. *)
Narrow(c) ==
    /\ c.size \in U32
    /\ \A o \in DOMAIN c.ins :
           LET i == c.ins[o]
           IN  i.v \in U32 /\ (i.op = "ON_CHAT" => i.off \in U32 /\ i.len \in U32)

ASSUME VMAssumption ==
    /\ WordSize = Word
    /\ MaxCallStackDepth \in Nat
    /\ \A c \in Programs : /\ WellFormed(c) /\ Narrow(c)
                           /\ c.consts \in Seq(Strings)
                           /\ \A k \in DOMAIN c.consts : Sized(c.consts[k])
    /\ \A u \in Users : Sized(u)

-----------------------------------------------------------------------------
Modes == {"run", "listen", "scan", "body", "unwind", "exited", "failed", "panicked"}

TypeOK ==
    /\ WellFormed(code) /\ Narrow(code)
    /\ mode \in Modes
    /\ PC \in U32
    /\ reg \in [Registers -> U32]
    /\ ZF \in BOOLEAN /\ SF \in BOOLEAN
    /\ stack \in Seq(U32)
    /\ subs \in Seq([pattern : Strings, userVarReg : Nat,
                     bodyOffset : U32, bodyLength : U32])
    /\ RAM \in [Cell -> Byte]
    /\ {ev.addr, ev.savedPC, ev.bodyEnd} \subseteq U32
    /\ own \subseteq U32
    /\ damaged \in BOOLEAN

InHandler == mode \in {"body", "unwind"}

(* Operand bytes are never decoded as an opcode: the PC, every saved PC,   *)
(* return address and handler entry is an instruction or past the end.     *)
(* cpu.go: opOnChat's skip, opCall/opRet, DeliverChatMessage's save/restore *)
FetchOnBoundary ==
    /\ Fetchable(code, PC)
    /\ \A k \in DOMAIN stack : Fetchable(code, stack[k])
    /\ \A k \in DOMAIN subs : Fetchable(code, subs[k].bodyOffset)
    /\ InHandler => Fetchable(code, ev.savedPC)

(* The call stack holds the addresses after CALLs, never more than the     *)
(* limit, whatever handlers and errors left on it (cpu.go:547-575).        *)
StackDiscipline ==
    /\ Len(stack) <= MaxCallStackDepth
    /\ \A k \in DOMAIN stack :
           \E o \in DOMAIN code.ins : /\ code.ins[o].op = "CALL"
                                      /\ stack[k] = o + InsSize("CALL")

(* Between chat lines the PC is where Run left it, past the code, however  *)
(* the handlers ended; a handler runs with that PC saved (cpu.go:616, 637). *)
RestedPC ==
    /\ mode \in {"listen", "scan"} => PC >= code.size
    /\ InHandler => ev.savedPC >= code.size

(* A chat line fires only handlers registered before it: one a handler     *)
(* subscribes waits for the next line (the range in cpu.go:592).           *)
NoLateHandler ==
    InHandler => \E k \in 1 .. ev.last : ev.next = k /\ subs[k].pattern = ev.msg

(* The inductive invariant of FluxVMProofs: the control state is typed, a  *)
(* delivery scans subscriptions that exist, and the four above hold.       *)
Subscription ==
    [pattern : Strings, userVarReg : Nat, bodyOffset : Nat, bodyLength : Nat]

EventTyped(e) ==
    /\ e = [user |-> e.user, msg |-> e.msg, next |-> e.next, last |-> e.last,
            addr |-> e.addr, savedPC |-> e.savedPC, bodyEnd |-> e.bodyEnd]
    /\ e.next \in Nat /\ e.last \in Nat
    /\ e.savedPC \in Nat /\ e.bodyEnd \in Nat

ControlTyped ==
    /\ WellFormed(code) /\ code.consts \in Seq(Strings)
    /\ mode \in Modes
    /\ PC \in Nat
    /\ stack \in Seq(Nat)
    /\ subs \in Seq(Subscription)
    /\ EventTyped(ev)

ScanInRange ==
    mode = "scan" \/ InHandler => ev.next >= 1 /\ ev.last <= Len(subs)

ControlInv ==
    /\ ControlTyped /\ ScanInRange
    /\ FetchOnBoundary /\ StackDiscipline /\ RestedPC /\ NoLateHandler

(***************************************************************************)
(* The heap below is the machine's as long as the program frees only what  *)
(* it owns and no allocation drops a remainder in front of a header (what  *)
(* that does is Heap.tla's subject), and there is a process.               *)
(***************************************************************************)
Intact == ~damaged /\ mode # "panicked"

(* A string's bytes up to its first NUL. *)
TextOf(s) == [i \in 1 .. (IF StrByte[s] = 0 THEN 0 ELSE StrLen[s]) |-> StrByte[s]]

(* The username stays in its block while the handler runs, whatever the    *)
(* handler allocates, over an intact heap: SEND_CHAT of its address says   *)
(* the user's name (cpu.go:609-613, 332-340).                              *)
UsernameIntact ==
    InHandler /\ Intact =>
        /\ Flag(RAM, ev.addr - HeaderSize) = 1
        /\ HoldsText(ev.addr)
        /\ Text(ev.addr) = TextOf(ev.user)

(* Who holds a block: the program and, while a handler runs, the delivery. *)
Held == own \cup (IF InHandler THEN {ev.addr} ELSE {})

(* Deliveries leak nothing and take nothing: over an intact heap the       *)
(* allocated blocks are the program's own and, while a handler runs, its   *)
(* username block, which is not one of them (cpu.go:18-20, 601-637).       *)
BlocksAccounted ==
    Intact => /\ Taken(RAM) = Held
              /\ InHandler => ev.addr \notin own

(* The program's data is its own: no instruction, delivery or username     *)
(* changes the size or the bytes of a block that the program owned before  *)
(* and owns after, over an intact heap (cpu.go:298-305, 602-610,           *)
(* heap.go:71-89).                                                         *)
OwnedBlocksKept ==
    [][~damaged' => \A a \in own \cap own' : SameBlock(RAM, RAM', a)]_vars

(* The process panics only over a damaged heap or in code cut off inside   *)
(* an instruction: on an intact one every allocation and every copy of a   *)
(* string stays inside RAM (heap.go:71-89, cpu.go:298-305, 602-610).       *)
PanicsExplained ==
    [][mode' = "panicked" /\ ~damaged =>
           (InRun \/ InBody) /\ PC + InsSize(Ins.op) > code.size]_vars

(* Over an intact heap every Alloc comes back: no chain of headers, and no *)
(* block of size 0, makes its loop go round for ever (heap.go:66-97).      *)
AllocAnswers ==
    Intact => \A n \in 1 .. RAMSize : AllocResult(n) # "endless"

(* The inductive invariant of the four above: the headers tile RAM, and    *)
(* the username is where the delivery put it, in a block of its length.    *)
NameStored ==
    LET a == ev.addr
        n == StrLen[ev.user]
    IN  /\ Uint32(RAM, a - HeaderSize) = n + 1
        /\ \A i \in a .. (a + n - 1) : RAM[i] = StrByte[ev.user]
        /\ RAM[a + n] = 0

HeapInv ==
    /\ \A k \in DOMAIN code.consts : Sized(code.consts[k])
    /\ mode = "scan" \/ InHandler => Sized(ev.user)
    /\ Intact => /\ Tiled(RAM)
                 /\ Taken(RAM) = Held
                 /\ InHandler => ev.addr \notin own /\ NameStored

(* The machine comes back from what it runs.  The top-level code ends, in  *)
(* the listen loop or with the process, and a chat line is processed to    *)
(* the end, so that main reads the next one, even when handlers fail, run  *)
(* out of memory, recurse or subscribe more handlers (cpu.go:154-160,      *)
(* 591-640; vm/main.go:55-68).                                             *)
Busy == {"run", "scan", "body", "unwind"}

MachineReturns == mode \in Busy ~> mode \notin Busy

-----------------------------------------------------------------------------
(* Claims of the comments that the code does not keep. *)
(* cpu.go:17-19: the body is dispatched until exactly BodyLength bytes     *)
(* have been consumed.                                                     *)
BodyConsumed == mode = "body" /\ ~InBody => PC = ev.bodyEnd

(* cpu.go:586: what a delivery frees at its end is the username block, not *)
(* a block the program allocated.                                          *)
FreesOnlyUsername == [][EndBody /\ RAM' # RAM => ev.addr \notin own]_vars
=================================================================================
