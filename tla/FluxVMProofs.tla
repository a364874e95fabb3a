------------------------------- MODULE FluxVMProofs -------------------------------
(***************************************************************************)
(* Proofs about the control state of FluxVM for every set of well-formed   *)
(* programs, every RAM size and every limit on the call stack.             *)
(***************************************************************************)
EXTENDS FluxVM, HeapLayoutProofs, TLAPS, SequenceTheorems

LEMMA InsSizeNat ==
    ASSUME NEW op
    PROVE  InsSize(op) \in Nat
  BY DEF InsSize, AluOps, JumpOps

(* An offset computed in uint32 arithmetic is a natural number. *)
LEMMA WrapNat ==
    ASSUME NEW x \in Nat
    PROVE  x % WordSize \in Nat
<1>1. Word \in Nat /\ Word > 0
  BY LayoutAssumption DEF Word, HeaderSize
<1> QED
  BY <1>1, VMAssumption

(* Any record with the fields of a delivery and typed positions will do.   *)
LEMMA EventRecord ==
    ASSUME NEW u, NEW m, NEW n \in Nat, NEW l \in Nat, NEW a,
           NEW s \in Nat, NEW b \in Nat,
           NEW e, e = [user |-> u, msg |-> m, next |-> n, last |-> l,
                       addr |-> a, savedPC |-> s, bodyEnd |-> b]
    PROVE  EventTyped(e)
  BY DEF EventTyped

(* The instruction under the PC, and where it leads. *)
LEMMA Decoded ==
    ASSUME ControlInv, NEW op, AtOp(op)
    PROVE  /\ mode \in {"run", "body"}
           /\ PC \in DOMAIN code.ins /\ PC \in Nat
           /\ Ins = code.ins[PC] /\ Ins.op = op
           /\ InstructionOK(code, PC)
           /\ Ins.a \in Nat /\ Ins.v \in Nat
           /\ PC + InsSize(op) \in Nat
           /\ Fetchable(code, PC + InsSize(op))
<1>1. mode \in {"run", "body"} /\ PC < code.size /\ PC \in Nat /\ code.size \in Nat
  BY DEF AtOp, InRun, InBody, ControlInv, ControlTyped, WellFormed
<1>2. PC \in DOMAIN code.ins
  BY <1>1 DEF ControlInv, FetchOnBoundary, Fetchable
<1>3. InstructionOK(code, PC)
  BY <1>2 DEF ControlInv, ControlTyped, WellFormed
<1>4. Ins.op = op /\ Ins = code.ins[PC]
  BY DEF AtOp, Ins
<1> QED
  BY <1>1, <1>2, <1>3, <1>4, InsSizeNat DEF InstructionOK

(* A step of a dispatch loop that moves the PC to a fetchable position and *)
(* touches no other control state.                                         *)
LEMMA MoveStep ==
    ASSUME ControlInv, mode \in {"run", "body"},
           PC' \in Nat, Fetchable(code, PC'),
           UNCHANGED <<code, mode, stack, subs, ev>>
    PROVE  ControlInv'
<1>1. ControlTyped' /\ ScanInRange' /\ StackDiscipline' /\ NoLateHandler'
  BY DEF ControlInv, ControlTyped, ScanInRange, StackDiscipline, NoLateHandler,
         InHandler
<1>2. FetchOnBoundary' /\ RestedPC'
  BY DEF ControlInv, FetchOnBoundary, RestedPC, InHandler
<1> QED
  BY <1>1, <1>2 DEF ControlInv

LEMMA FailStep ==
    ASSUME ControlInv, mode \in {"run", "body"}, Fail
    PROVE  ControlInv'
<1>1. ControlTyped' /\ ScanInRange' /\ StackDiscipline' /\ NoLateHandler'
  BY DEF ControlInv, ControlTyped, ScanInRange, StackDiscipline, NoLateHandler,
         InHandler, Fail, Modes
<1>2. FetchOnBoundary' /\ RestedPC'
  BY DEF ControlInv, FetchOnBoundary, RestedPC, InHandler, Fail
<1> QED
  BY <1>1, <1>2 DEF ControlInv

LEMMA PanicKeeps ==
    ASSUME ControlInv, Panic
    PROVE  ControlInv'
<1>1. ControlTyped' /\ ScanInRange' /\ StackDiscipline' /\ NoLateHandler'
  BY DEF ControlInv, ControlTyped, ScanInRange, StackDiscipline, NoLateHandler,
         InHandler, Panic, Modes
<1>2. FetchOnBoundary' /\ RestedPC'
  BY DEF ControlInv, FetchOnBoundary, RestedPC, InHandler, Panic
<1> QED
  BY <1>1, <1>2 DEF ControlInv

(* Falling through to the next instruction. *)
LEMMA AdvanceStep ==
    ASSUME ControlInv, NEW op, AtOp(op), Advance,
           UNCHANGED <<code, mode, stack, subs, ev>>
    PROVE  ControlInv'
  BY Decoded, MoveStep DEF Advance

LEMMA JumpStep ==
    ASSUME ControlInv, NEW op \in JumpOps, AtOp(op), JumpTo(Ins.v)
    PROVE  ControlInv'
<1>1. Ins.v \in Nat /\ Fetchable(code, Ins.v) /\ mode \in {"run", "body"}
  BY Decoded DEF InstructionOK
<1>2. CASE Ins.v > code.size
  BY <1>1, <1>2, FailStep DEF JumpTo
<1>3. CASE ~(Ins.v > code.size)
  BY <1>1, <1>3, MoveStep DEF JumpTo
<1> QED
  BY <1>2, <1>3

-----------------------------------------------------------------------------
(* The instructions that change more of the control state.                 *)
LEMMA OnChatStep ==
    ASSUME ControlInv, OnChat
    PROVE  ControlInv'
<1>0. AtOp("ON_CHAT")
  BY DEF OnChat
<1>1. /\ mode \in {"run", "body"} /\ PC \in Nat /\ PC \in DOMAIN code.ins
      /\ Ins = code.ins[PC] /\ Ins.op = "ON_CHAT" /\ Ins.a \in Nat /\ Ins.v \in Nat
      /\ InstructionOK(code, PC)
  BY <1>0, Decoded
<1>2. /\ Ins.off \in Nat /\ Ins.len \in Nat /\ Fetchable(code, Ins.off)
      /\ Fetchable(code, (PC + InsSize("ON_CHAT") + Ins.len) % WordSize)
  BY <1>1 DEF InstructionOK
<1>3. CASE ~InPool(Ins.v)
  BY <1>0, <1>1, <1>3, FailStep DEF OnChat
<1>4. CASE InPool(Ins.v)
  <2> DEFINE s == [pattern |-> Const(Ins.v), userVarReg |-> Ins.a,
                   bodyOffset |-> Ins.off, bodyLength |-> Ins.len]
  <2>1. /\ subs' = Append(subs, s)
        /\ PC' = (PC + InsSize("ON_CHAT") + Ins.len) % WordSize
        /\ UNCHANGED <<code, mode, stack, ev>>
    BY <1>4 DEF OnChat, SkipBody
  <2>2. code.consts \in Seq(Strings) /\ Ins.v < Len(code.consts)
    BY <1>4 DEF InPool, ControlInv, ControlTyped
  <2>3. Const(Ins.v) \in Strings
    BY <1>1, <2>2 DEF Const
  <2>4. s \in Subscription /\ s.bodyOffset = Ins.off
    BY <1>1, <1>2, <2>3 DEF Subscription
  <2> HIDE DEF s
  <2>5. PC' \in Nat
    <3>1. PC + InsSize("ON_CHAT") + Ins.len \in Nat
      BY <1>1, <1>2, InsSizeNat
    <3> QED
      BY <2>1, <3>1, WrapNat
  <2>6. /\ Len(subs') = Len(subs) + 1 /\ DOMAIN subs' = 1 .. (Len(subs) + 1)
        /\ Len(subs) \in Nat
        /\ \A k \in 1 .. Len(subs) : subs'[k] = subs[k]
        /\ subs'[Len(subs) + 1] = s
        /\ subs' \in Seq(Subscription)
    BY <2>1, <2>4 DEF ControlInv, ControlTyped
  <2>7. ControlTyped' /\ ScanInRange' /\ StackDiscipline'
    <3>1. ControlTyped'
      BY <2>1, <2>5, <2>6 DEF ControlInv, ControlTyped
    <3>2. ev.last \in Nat
      BY DEF ControlInv, ControlTyped, EventTyped
    <3>3. ScanInRange' /\ StackDiscipline'
      BY <2>1, <2>6, <3>2 DEF ControlInv, ScanInRange, StackDiscipline, InHandler
    <3> QED
      BY <3>1, <3>3
  <2>8. NoLateHandler'
    <3> SUFFICES ASSUME InHandler' PROVE NoLateHandler'
      BY DEF NoLateHandler
    <3>1. InHandler
      BY <2>1 DEF InHandler
    <3>2. /\ ev.next \in 1 .. ev.last /\ subs[ev.next].pattern = ev.msg
          /\ ev.last <= Len(subs) /\ ev.last \in Nat
      BY <3>1 DEF ControlInv, NoLateHandler, ScanInRange, ControlTyped, EventTyped
    <3>3. subs'[ev.next] = subs[ev.next]
      BY <2>6, <3>2
    <3> QED
      BY <2>1, <3>2, <3>3 DEF NoLateHandler
  <2>9. FetchOnBoundary' /\ RestedPC'
    <3>1. ASSUME NEW k \in DOMAIN subs' PROVE Fetchable(code, subs'[k].bodyOffset)
      <4>1. CASE k \in 1 .. Len(subs)
        <5>1. k \in DOMAIN subs /\ subs'[k] = subs[k]
          BY <2>6, <4>1 DEF ControlInv, ControlTyped
        <5> QED
          BY <5>1 DEF ControlInv, FetchOnBoundary
      <4>2. CASE k = Len(subs) + 1
        BY <1>2, <2>4, <2>6, <4>2
      <4> QED
        BY <2>6, <3>1, <4>1, <4>2
    <3> QED
      BY <1>1, <1>2, <2>1, <3>1 DEF ControlInv, FetchOnBoundary, RestedPC, InHandler
  <2> QED
    BY <2>7, <2>8, <2>9 DEF ControlInv
<1> QED
  BY <1>3, <1>4

LEMMA CallStep ==
    ASSUME ControlInv, Call
    PROVE  ControlInv'
<1>0. AtOp("CALL")
  BY DEF Call
<1>1. /\ mode \in {"run", "body"} /\ PC \in Nat /\ PC \in DOMAIN code.ins
      /\ Ins = code.ins[PC] /\ Ins.op = "CALL" /\ Ins.v \in Nat
      /\ InstructionOK(code, PC)
      /\ PC + InsSize("CALL") \in Nat /\ Fetchable(code, PC + InsSize("CALL"))
  BY <1>0, Decoded
<1>2. Fetchable(code, Ins.v)
  BY <1>1 DEF InstructionOK
<1>3. CASE Ins.v > code.size \/ Len(stack) >= MaxCallStackDepth
  BY <1>1, <1>3, FailStep DEF Call, StackFull
<1>4. CASE ~(Ins.v > code.size \/ Len(stack) >= MaxCallStackDepth)
  <2> DEFINE r == PC + InsSize("CALL")
  <2>1. /\ stack' = Append(stack, r) /\ PC' = Ins.v
        /\ UNCHANGED <<code, mode, subs, ev>>
    BY <1>4 DEF Call, ReturnPC, StackFull
  <2>2. stack \in Seq(Nat) /\ Len(stack) \in Nat /\ Len(stack) < MaxCallStackDepth
    BY <1>4, VMAssumption DEF ControlInv, ControlTyped
  <2> HIDE DEF r
  <2>3. /\ stack' \in Seq(Nat) /\ Len(stack') = Len(stack) + 1
        /\ DOMAIN stack' = 1 .. (Len(stack) + 1)
        /\ \A k \in 1 .. Len(stack) : stack'[k] = stack[k]
        /\ stack'[Len(stack) + 1] = r
    BY <1>1, <2>1, <2>2 DEF r
  <2>4. ControlTyped' /\ ScanInRange' /\ NoLateHandler' /\ RestedPC'
    BY <1>1, <2>1, <2>3 DEF ControlInv, ControlTyped, ScanInRange, NoLateHandler,
                            RestedPC, InHandler
  <2>5. StackDiscipline'
    <3>1. Len(stack') <= MaxCallStackDepth
      BY <2>2, <2>3, VMAssumption
    <3>2. ASSUME NEW k \in DOMAIN stack'
          PROVE  \E o \in DOMAIN code.ins : /\ code.ins[o].op = "CALL"
                                            /\ stack'[k] = o + InsSize("CALL")
      <4>1. CASE k \in 1 .. Len(stack)
        BY <2>2, <2>3, <4>1 DEF ControlInv, StackDiscipline
      <4>2. CASE k = Len(stack) + 1
        BY <1>1, <2>3, <4>2 DEF r
      <4> QED
        BY <2>2, <2>3, <3>2, <4>1, <4>2
    <3> QED
      BY <2>1, <3>1, <3>2 DEF StackDiscipline
  <2>6. FetchOnBoundary'
    <3>1. ASSUME NEW k \in DOMAIN stack' PROVE Fetchable(code, stack'[k])
      <4>1. CASE k \in 1 .. Len(stack)
        <5>1. k \in DOMAIN stack /\ stack'[k] = stack[k]
          BY <2>2, <2>3, <4>1
        <5> QED
          BY <5>1 DEF ControlInv, FetchOnBoundary
      <4>2. CASE k = Len(stack) + 1
        BY <1>1, <2>3, <4>2 DEF r
      <4> QED
        BY <2>2, <2>3, <3>1, <4>1, <4>2
    <3> QED
      BY <1>2, <2>1, <3>1 DEF ControlInv, FetchOnBoundary, InHandler
  <2> QED
    BY <2>4, <2>5, <2>6 DEF ControlInv
<1> QED
  BY <1>3, <1>4

LEMMA RetStep ==
    ASSUME ControlInv, Ret
    PROVE  ControlInv'
<1>0. AtOp("RET")
  BY DEF Ret
<1>1. mode \in {"run", "body"} /\ PC \in Nat
  BY <1>0, Decoded
<1>2. CASE stack = <<>>
  BY <1>1, <1>2, FailStep DEF Ret
<1>3. CASE stack # <<>>
  <2> DEFINE top == stack[Len(stack)]
  <2>1. /\ stack' = SubSeq(stack, 1, Len(stack) - 1)
        /\ UNCHANGED <<code, subs, ev>>
        /\ IF top > code.size
           THEN mode' = (IF mode = "run" THEN "failed" ELSE "unwind") /\ PC' = PC
           ELSE PC' = top /\ mode' = mode
    BY <1>3 DEF Ret
  <2>2. stack \in Seq(Nat) /\ Len(stack) \in Nat /\ Len(stack) > 0
    BY <1>3 DEF ControlInv, ControlTyped
  <2>3. top \in Nat /\ Fetchable(code, top)
    BY <2>2 DEF ControlInv, FetchOnBoundary
  <2> HIDE DEF top
  <2>4. /\ stack' \in Seq(Nat) /\ Len(stack') = Len(stack) - 1
        /\ DOMAIN stack' = 1 .. (Len(stack) - 1)
        /\ \A k \in 1 .. (Len(stack) - 1) : stack'[k] = stack[k]
    <3> DEFINE n == Len(stack) - 1
    <3>1. n \in Nat /\ n <= Len(stack) /\ 1 .. n \subseteq 1 .. Len(stack)
      BY <2>2
    <3>2. stack' = SubSeq(stack, 1, n)
      BY <2>1
    <3> HIDE DEF n
    <3>3. stack' \in Seq(Nat) /\ Len(stack') = n /\ \A k \in 1 .. n : stack'[k] = stack[k]
      BY <2>2, <3>1, <3>2, SubSeqProperties
    <3> QED
      BY <3>3 DEF n
  <2>5. ControlTyped' /\ ScanInRange' /\ NoLateHandler' /\ RestedPC'
    BY <1>1, <2>1, <2>3, <2>4 DEF ControlInv, ControlTyped, ScanInRange, NoLateHandler,
                                  RestedPC, InHandler, Modes
  <2>6. StackDiscipline'
    <3>1. Len(stack') <= MaxCallStackDepth
      BY <2>2, <2>4, VMAssumption DEF ControlInv, StackDiscipline
    <3>2. ASSUME NEW k \in DOMAIN stack'
          PROVE  \E o \in DOMAIN code.ins : /\ code.ins[o].op = "CALL"
                                            /\ stack'[k] = o + InsSize("CALL")
      <4>1. k \in DOMAIN stack /\ stack'[k] = stack[k]
        BY <2>2, <2>4
      <4> QED
        BY <4>1 DEF ControlInv, StackDiscipline
    <3> QED
      BY <2>1, <3>1, <3>2 DEF StackDiscipline
  <2>7. FetchOnBoundary'
    <3>1. ASSUME NEW k \in DOMAIN stack' PROVE Fetchable(code, stack'[k])
      <4>1. k \in DOMAIN stack /\ stack'[k] = stack[k]
        BY <2>2, <2>4
      <4> QED
        BY <4>1 DEF ControlInv, FetchOnBoundary
    <3>2. Fetchable(code, PC')
      BY <2>1, <2>3 DEF ControlInv, FetchOnBoundary
    <3> QED
      BY <1>1, <2>1, <3>1, <3>2 DEF ControlInv, FetchOnBoundary, InHandler
  <2> QED
    BY <2>5, <2>6, <2>7 DEF ControlInv
<1> QED
  BY <1>2, <1>3

(* Every instruction, in either dispatch loop. *)
LEMMA InstructionStep ==
    ASSUME ControlInv, Instruction
    PROVE  ControlInv'
<1>1. CASE Alloc
  <2>1. AtOp("ALLOC") /\ mode \in {"run", "body"}
    BY <1>1, Decoded DEF Alloc
  <2>2. CASE AllocResult(Ins.v) = "ok"
    BY <1>1, <2>1, <2>2, AdvanceStep DEF Alloc
  <2>3. CASE AllocResult(Ins.v) = "panic"
    BY <1>1, <2>3, PanicKeeps DEF Alloc
  <2>4. CASE AllocResult(Ins.v) \notin {"ok", "panic"}
    BY <1>1, <2>1, <2>4, FailStep DEF Alloc
  <2> QED
    BY <2>2, <2>3, <2>4
<1>2. CASE Free
  <2>1. AtOp("FREE") /\ mode \in {"run", "body"}
    BY <1>2, Decoded DEF Free
  <2>2. CASE FreeFails(reg[Register(Ins.a)])
    BY <1>2, <2>1, <2>2, FailStep DEF Free
  <2>3. CASE ~FreeFails(reg[Register(Ins.a)])
    BY <1>2, <2>1, <2>3, AdvanceStep DEF Free
  <2> QED
    BY <2>2, <2>3
<1>3. CASE MovReg
  BY <1>3, AdvanceStep DEF MovReg
<1>4. CASE MovInt
  BY <1>4, AdvanceStep DEF MovInt
<1>5. CASE MovStr
  <2>1. AtOp("MOV_STR") /\ mode \in {"run", "body"}
    BY <1>5, Decoded DEF MovStr
  <2>2. CASE ~InPool(Ins.v)
    BY <1>5, <2>1, <2>2, FailStep DEF MovStr
  <2>3. CASE InPool(Ins.v) /\ StringResult(Const(Ins.v)) = "ok"
    BY <1>5, <2>1, <2>3, AdvanceStep DEF MovStr
  <2>4. CASE InPool(Ins.v) /\ StringResult(Const(Ins.v)) = "panic"
    BY <1>5, <2>4, PanicKeeps DEF MovStr
  <2>5. CASE InPool(Ins.v) /\ StringResult(Const(Ins.v)) \notin {"ok", "panic"}
    BY <1>5, <2>1, <2>5, FailStep DEF MovStr
  <2> QED
    BY <2>2, <2>3, <2>4, <2>5
<1>6. CASE Output
  BY <1>6, AdvanceStep DEF Output
<1>7. CASE OnChat
  BY <1>7, OnChatStep
<1>8. ASSUME NEW op \in AluOps, Arith(op) PROVE ControlInv'
  <2>1. AtOp(op) /\ mode \in {"run", "body"}
    BY <1>8, Decoded DEF Arith
  <2>2. CASE op = "DIV" /\ reg[Register(Ins.b)] = 0
    BY <1>8, <2>1, <2>2, FailStep DEF Arith
  <2>3. CASE ~(op = "DIV" /\ reg[Register(Ins.b)] = 0)
    BY <1>8, <2>1, <2>3, AdvanceStep DEF Arith
  <2> QED
    BY <2>2, <2>3
<1>9. CASE Cmp
  BY <1>9, AdvanceStep DEF Cmp
<1>10. CASE Jmp
  BY <1>10, JumpStep DEF Jmp, JumpOps
<1>11. CASE Jz
  <2>1. CASE ZF
    BY <1>11, <2>1, JumpStep DEF Jz, JumpOps
  <2>2. CASE ~ZF
    BY <1>11, <2>2, AdvanceStep DEF Jz, FallThrough
  <2> QED
    BY <2>1, <2>2
<1>12. CASE Jnz
  <2>1. CASE ZF
    BY <1>12, <2>1, AdvanceStep DEF Jnz, FallThrough
  <2>2. CASE ~ZF
    BY <1>12, <2>2, JumpStep DEF Jnz, JumpOps
  <2> QED
    BY <2>1, <2>2
<1>13. CASE Call
  BY <1>13, CallStep
<1>14. CASE Ret
  BY <1>14, RetStep
<1>15. CASE Unknown
  BY <1>15, Decoded, FailStep DEF Unknown
<1>16. CASE Truncated
  <2>1. mode \in {"run", "body"}
    BY <1>16 DEF Truncated, InRun, InBody
  <2>2. CASE Ins.op \in Unchecked
    BY <1>16, <2>2, PanicKeeps DEF Truncated
  <2>3. CASE Ins.op \notin Unchecked
    BY <1>16, <2>1, <2>3, FailStep DEF Truncated
  <2> QED
    BY <2>2, <2>3
<1> QED
  BY <1>1, <1>2, <1>3, <1>4, <1>5, <1>6, <1>7, <1>8, <1>9, <1>10, <1>11, <1>12,
     <1>13, <1>14, <1>15, <1>16 DEF Instruction

-----------------------------------------------------------------------------
(* The steps of main and of DeliverChatMessage.                            *)
LEMMA RunDoneStep ==
    ASSUME ControlInv, RunDone
    PROVE  ControlInv'
<1>1. /\ mode = "run" /\ PC >= code.size /\ mode' \in {"exited", "listen"}
      /\ UNCHANGED <<code, PC, stack, subs, ev>>
  BY DEF RunDone
<1>2. ControlTyped' /\ ScanInRange' /\ StackDiscipline' /\ NoLateHandler'
  BY <1>1 DEF ControlInv, ControlTyped, ScanInRange, StackDiscipline, NoLateHandler,
              InHandler, Modes
<1>3. FetchOnBoundary' /\ RestedPC'
  BY <1>1 DEF ControlInv, FetchOnBoundary, RestedPC, InHandler
<1> QED
  BY <1>2, <1>3 DEF ControlInv

LEMMA QuitStep ==
    ASSUME ControlInv, Quit
    PROVE  ControlInv'
<1>1. mode' = "exited" /\ UNCHANGED <<code, PC, stack, subs, ev>>
  BY DEF Quit
<1>2. ControlTyped' /\ ScanInRange' /\ StackDiscipline' /\ NoLateHandler'
  BY <1>1 DEF ControlInv, ControlTyped, ScanInRange, StackDiscipline, NoLateHandler,
              InHandler, Modes
<1>3. FetchOnBoundary' /\ RestedPC'
  BY <1>1 DEF ControlInv, FetchOnBoundary, RestedPC, InHandler
<1> QED
  BY <1>2, <1>3 DEF ControlInv

(* A delivery scans the subscriptions there are when it starts.            *)
LEMMA DeliverStep ==
    ASSUME ControlInv, NEW u \in Users, NEW m \in Messages, Deliver(u, m)
    PROVE  ControlInv'
<1>1. /\ mode = "listen" /\ mode' = "scan"
      /\ ev' = [NoEvent EXCEPT !.user = u, !.msg = m, !.next = 1, !.last = Len(subs)]
      /\ UNCHANGED <<code, PC, stack, subs>>
  BY DEF Deliver
<1>2. Len(subs) \in Nat
  BY DEF ControlInv, ControlTyped
<1>3. ev' = [user |-> u, msg |-> m, next |-> 1, last |-> Len(subs),
             addr |-> 0, savedPC |-> 0, bodyEnd |-> 0]
  BY <1>1 DEF NoEvent
<1>4. /\ ControlTyped' /\ ScanInRange' /\ StackDiscipline' /\ NoLateHandler'
  <2>1. ControlTyped'
    <3>1. EventTyped(ev')
      BY <1>2, <1>3, EventRecord
    <3> QED
      BY <1>1, <3>1 DEF ControlInv, ControlTyped, Modes
  <2>2. ScanInRange' /\ StackDiscipline' /\ NoLateHandler'
    BY <1>1, <1>2, <1>3 DEF ControlInv, ScanInRange, StackDiscipline, NoLateHandler, InHandler
  <2> QED
    BY <2>1, <2>2
<1>5. FetchOnBoundary' /\ RestedPC'
  BY <1>1 DEF ControlInv, FetchOnBoundary, RestedPC, InHandler
<1> QED
  BY <1>4, <1>5 DEF ControlInv

LEMMA SkipSubStep ==
    ASSUME ControlInv, SkipSub
    PROVE  ControlInv'
<1>1. /\ mode = "scan" /\ UNCHANGED <<code, mode, PC, stack, subs>>
      /\ ev' = [ev EXCEPT !.next = @ + 1]
  BY DEF SkipSub, Pending
<1>2. ev' = [user |-> ev.user, msg |-> ev.msg, next |-> ev.next + 1, last |-> ev.last,
             addr |-> ev.addr, savedPC |-> ev.savedPC, bodyEnd |-> ev.bodyEnd]
  BY <1>1 DEF ControlInv, ControlTyped, EventTyped
<1>3. ControlTyped' /\ ScanInRange' /\ StackDiscipline' /\ NoLateHandler'
  <2>1. ev.next + 1 \in Nat /\ ev.last \in Nat /\ EventTyped(ev')
    BY <1>2, EventRecord DEF ControlInv, ControlTyped, EventTyped
  <2>4. ControlTyped'
    BY <1>1, <2>1 DEF ControlInv, ControlTyped
  <2>2. ev.next \in Nat
    BY DEF ControlInv, ControlTyped, EventTyped
  <2>3. ScanInRange' /\ StackDiscipline' /\ NoLateHandler'
    BY <1>1, <1>2, <2>2 DEF ControlInv, ScanInRange, StackDiscipline, NoLateHandler, InHandler
  <2> QED
    BY <2>3, <2>4
<1>4. FetchOnBoundary' /\ RestedPC'
  BY <1>1 DEF ControlInv, FetchOnBoundary, RestedPC, InHandler
<1> QED
  BY <1>3, <1>4 DEF ControlInv

(* A handler starts at its body, with the resting PC saved.                *)
LEMMA FireSubStep ==
    ASSUME ControlInv, FireSub
    PROVE  ControlInv'
<1> DEFINE a == AllocAddr(StrLen[ev.user] + 1)
           e == (Sub.bodyOffset + Sub.bodyLength) % WordSize
<1>1. /\ mode = "scan" /\ mode' = "body" /\ ev.next <= ev.last
      /\ Sub.pattern = ev.msg
      /\ ev' = [ev EXCEPT !.addr = a, !.savedPC = PC, !.bodyEnd = e]
      /\ PC' = Sub.bodyOffset
      /\ UNCHANGED <<code, stack, subs>>
  BY DEF FireSub, Pending, Matches
<1>2. /\ ev.next \in Nat /\ ev.last \in Nat /\ ev.next >= 1 /\ ev.last <= Len(subs)
      /\ Len(subs) \in Nat /\ DOMAIN subs = 1 .. Len(subs)
  BY <1>1 DEF ControlInv, ControlTyped, EventTyped, ScanInRange
<1>3. /\ ev.next \in DOMAIN subs /\ Sub = subs[ev.next]
      /\ Sub \in Subscription
  BY <1>1, <1>2 DEF Sub, ControlInv, ControlTyped
<1>4. Fetchable(code, Sub.bodyOffset)
  BY <1>3 DEF ControlInv, FetchOnBoundary
<1>5. e \in Nat /\ Sub.bodyOffset \in Nat
  <2>1. Sub.bodyOffset \in Nat /\ Sub.bodyLength \in Nat
    BY <1>3 DEF Subscription
  <2>2. Sub.bodyOffset + Sub.bodyLength \in Nat
    BY <2>1
  <2> QED
    BY <2>1, <2>2, WrapNat
<1> HIDE DEF a, e
<1>6. ev' = [user |-> ev.user, msg |-> ev.msg, next |-> ev.next, last |-> ev.last,
             addr |-> a, savedPC |-> PC, bodyEnd |-> e]
  BY <1>1 DEF ControlInv, ControlTyped, EventTyped
<1>7. ControlTyped'
  <2>1. EventTyped(ev')
    BY <1>2, <1>5, <1>6, EventRecord DEF ControlInv, ControlTyped
  <2> QED
    BY <1>1, <1>5, <2>1 DEF ControlInv, ControlTyped, Modes
<1>8. ScanInRange' /\ StackDiscipline'
  BY <1>1, <1>2, <1>6 DEF ControlInv, ScanInRange, StackDiscipline
<1>9. NoLateHandler'
  BY <1>1, <1>2, <1>3, <1>6 DEF NoLateHandler
<1>10. FetchOnBoundary' /\ RestedPC'
  BY <1>1, <1>4, <1>6 DEF ControlInv, FetchOnBoundary, RestedPC, InHandler
<1> QED
  BY <1>7, <1>8, <1>9, <1>10 DEF ControlInv

(* A handler that ends, however it ends, puts the saved PC back.           *)
LEMMA EndBodyStep ==
    ASSUME ControlInv, EndBody
    PROVE  ControlInv'
<1>1. /\ mode \in {"body", "unwind"} /\ mode' = "scan"
      /\ ev' = [ev EXCEPT !.next = @ + 1, !.addr = 0, !.savedPC = 0, !.bodyEnd = 0]
      /\ PC' = ev.savedPC
      /\ UNCHANGED <<code, stack, subs>>
  BY DEF EndBody
<1>2. ev' = [user |-> ev.user, msg |-> ev.msg, next |-> ev.next + 1, last |-> ev.last,
             addr |-> 0, savedPC |-> 0, bodyEnd |-> 0]
  BY <1>1 DEF ControlInv, ControlTyped, EventTyped
<1>3. ControlTyped' /\ ScanInRange' /\ StackDiscipline' /\ NoLateHandler'
  <2>1. ev.next + 1 \in Nat /\ ev.last \in Nat /\ EventTyped(ev')
    BY <1>2, EventRecord DEF ControlInv, ControlTyped, EventTyped
  <2>4. ControlTyped'
    BY <1>1, <2>1 DEF ControlInv, ControlTyped, EventTyped, Modes
  <2>2. ev.next \in Nat
    BY DEF ControlInv, ControlTyped, EventTyped
  <2>3. ScanInRange' /\ StackDiscipline' /\ NoLateHandler'
    BY <1>1, <1>2, <2>2 DEF ControlInv, ScanInRange, StackDiscipline, NoLateHandler, InHandler
  <2> QED
    BY <2>3, <2>4
<1>4. FetchOnBoundary' /\ RestedPC'
  BY <1>1 DEF ControlInv, FetchOnBoundary, RestedPC, InHandler
<1> QED
  BY <1>3, <1>4 DEF ControlInv

LEMMA EndDeliveryStep ==
    ASSUME ControlInv, EndDelivery
    PROVE  ControlInv'
<1>1. /\ mode = "scan" /\ mode' = "listen" /\ ev' = NoEvent
      /\ UNCHANGED <<code, PC, stack, subs>>
  BY DEF EndDelivery
<1>2. ControlTyped' /\ ScanInRange' /\ StackDiscipline' /\ NoLateHandler'
  <2>1. EventTyped(ev')
    BY <1>1, EventRecord DEF NoEvent
  <2>2. ControlTyped'
    BY <1>1, <2>1 DEF ControlInv, ControlTyped, Modes
  <2>3. ScanInRange' /\ StackDiscipline' /\ NoLateHandler'
    BY <1>1 DEF ControlInv, ScanInRange, StackDiscipline, NoLateHandler, InHandler
  <2> QED
    BY <2>2, <2>3
<1>3. FetchOnBoundary' /\ RestedPC'
  BY <1>1 DEF ControlInv, FetchOnBoundary, RestedPC, InHandler
<1> QED
  BY <1>2, <1>3 DEF ControlInv

-----------------------------------------------------------------------------
LEMMA BootControl ==
    WellFormed(code) /\ code.consts \in Seq(Strings) /\ Boot => ControlInv
<1> SUFFICES ASSUME WellFormed(code), code.consts \in Seq(Strings), Boot
             PROVE  ControlInv
  OBVIOUS
<1>1. ControlTyped /\ ScanInRange /\ StackDiscipline /\ NoLateHandler
  <2>1. EventTyped(ev)
    BY EventRecord DEF Boot, NoEvent
  <2>2. ControlTyped
    BY <2>1 DEF Boot, ControlTyped, Modes
  <2>3. ScanInRange /\ NoLateHandler
    BY DEF Boot, ScanInRange, NoLateHandler, InHandler
  <2>4. StackDiscipline
    BY VMAssumption DEF Boot, StackDiscipline
  <2> QED
    BY <2>2, <2>3, <2>4
<1>2. FetchOnBoundary /\ RestedPC
  BY DEF Boot, FetchOnBoundary, RestedPC, InHandler, WellFormed
<1> QED
  BY <1>1, <1>2 DEF ControlInv

LEMMA ControlInit == Init => ControlInv
  BY BootControl, VMAssumption DEF Init

LEMMA ControlNext == ControlInv /\ [Next]_vars => ControlInv'
<1> SUFFICES ASSUME ControlInv, [Next]_vars PROVE ControlInv'
  OBVIOUS
<1>1. CASE Instruction
  BY <1>1, InstructionStep
<1>2. CASE RunDone
  BY <1>2, RunDoneStep
<1>3. CASE Quit
  BY <1>3, QuitStep
<1>4. ASSUME NEW u \in Users, NEW m \in Messages, Deliver(u, m) PROVE ControlInv'
  BY <1>4, DeliverStep
<1>5. CASE SkipSub
  BY <1>5, SkipSubStep
<1>6. CASE FireSub
  BY <1>6, FireSubStep
<1>7. CASE FirePanic
  BY <1>7, PanicKeeps DEF FirePanic
<1>8. CASE EndBody
  BY <1>8, EndBodyStep
<1>9. CASE EndDelivery
  BY <1>9, EndDeliveryStep
<1>10. CASE UNCHANGED vars
  BY <1>10 DEF vars, ControlInv, ControlTyped, ScanInRange, StackDiscipline,
               NoLateHandler, FetchOnBoundary, RestedPC, InHandler
<1> QED
  BY <1>1, <1>2, <1>3, <1>4, <1>5, <1>6, <1>7, <1>8, <1>9, <1>10 DEF Next, Internal

(***************************************************************************)
(* Well-formed code stays on its instructions: whatever the handlers do,   *)
(* no operand byte is decoded, the call stack is bounded and holds only    *)
(* return addresses, the PC rests past the code between chat lines, and a  *)
(* line fires no handler that was subscribed while it was delivered.       *)
(***************************************************************************)
THEOREM ControlSafe ==
    Spec => [](FetchOnBoundary /\ StackDiscipline /\ RestedPC /\ NoLateHandler)
<1>1. ControlInv => FetchOnBoundary /\ StackDiscipline /\ RestedPC /\ NoLateHandler
  BY DEF ControlInv
<1> QED
  BY <1>1, ControlInit, ControlNext, PTL DEF Spec

(* The inductive invariant itself. *)
THEOREM ControlInvariant == Spec => []ControlInv
  BY ControlInit, ControlNext, PTL DEF Spec

-----------------------------------------------------------------------------
(* The heap below the machine. *)

(* A block is taken as memory.Alloc takes it: BlockTaken(r, n) is what a   *)
(* successful Alloc of n bytes leaves of RAM r.                            *)
LEMMA AllocTiled ==
    ASSUME Tiled(RAM), NEW n \in Nat, AllocResult(n) = "ok", ~Breaks(n)
    PROVE  LET a == AllocAddr(n)
               c == Allocated(n)
           IN  /\ a \notin Taken(RAM) /\ a \in Nat
               /\ a - HeaderSize \in Headers(c) /\ a - HeaderSize \in Nat
               /\ a + n <= RAMSize /\ a >= HeaderSize
               /\ Tiled(c) /\ Uint32(c, a - HeaderSize) = n
               /\ Taken(c) = Taken(RAM) \cup {a}
               /\ \A b \in Taken(RAM) : SameBlock(RAM, c, b)
<1>1. InLoop(WalkEnd(RAM, n)) /\ ~Severs(RAM, WalkEnd(RAM, n), n)
  BY DEF AllocResult, Breaks
<1> DEFINE h == WalkEnd(RAM, n)
<1>2. /\ h \in Nat /\ h \in Headers(Carve(RAM, h, n))
      /\ h + HeaderSize \notin Taken(RAM) /\ h + HeaderSize + n <= RAMSize
      /\ Tiled(Carve(RAM, h, n)) /\ Uint32(Carve(RAM, h, n), h) = n
      /\ Taken(Carve(RAM, h, n)) = Taken(RAM) \cup {h + HeaderSize}
      /\ \A b \in Taken(RAM) : SameBlock(RAM, Carve(RAM, h, n), b)
  BY <1>1, CarveTiled
<1> HIDE DEF h
<1>3. /\ AllocAddr(n) = h + HeaderSize /\ Allocated(n) = Carve(RAM, h, n)
      /\ (h + HeaderSize) - HeaderSize = h /\ h + HeaderSize >= HeaderSize
      /\ h + HeaderSize \in Nat
  BY <1>2 DEF h, AllocAddr, Allocated, HeaderSize
<1> QED
  BY <1>2, <1>3

(* On a tiling Alloc never indexes past RAM. *)
LEMMA AllocNoPanic ==
    ASSUME Tiled(RAM), NEW n \in Nat
    PROVE  AllocResult(n) # "panic"
<1> DEFINE h == WalkEnd(RAM, n)
<1>1. CASE InLoop(h)
  <2>0. /\ RAM \in [Cell -> Byte] /\ Headers(RAM) \in SUBSET Cell
        /\ Tiles(RAM, Headers(RAM))
    BY DEF Tiled
  <2>1. h \in Headers(RAM) /\ Fits(RAM, h, n) /\ Readable(h)
    BY <1>1, <2>0, WalkEndFacts
  <2> HIDE DEF h
  <2>2. CanCarve(RAM, h, n)
    BY <2>0, <2>1, FittingCarves
  <2> QED
    BY <2>1, <2>2 DEF AllocResult, h
<1>2. CASE ~InLoop(h)
  BY <1>2 DEF AllocResult
<1> QED
  BY <1>1, <1>2

(* A string and its NUL in a block of their size.                          *)
LEMMA StringTiled ==
    ASSUME Tiled(RAM), NEW s, Sized(s), StringResult(s) = "ok", ~Breaks(StrLen[s] + 1)
    PROVE  LET a == AllocAddr(StrLen[s] + 1)
               c == StringStored(s)
           IN  /\ a \notin Taken(RAM)
               /\ Tiled(c)
               /\ Taken(c) = Taken(RAM) \cup {a}
               /\ \A b \in Taken(RAM) : SameBlock(RAM, c, b)
               /\ Uint32(c, a - HeaderSize) = StrLen[s] + 1
               /\ \A i \in a .. (a + StrLen[s] - 1) : c[i] = StrByte[s]
               /\ c[a + StrLen[s]] = 0
<1> DEFINE n == StrLen[s] + 1
           a == AllocAddr(n)
           h == a - HeaderSize
           m == Allocated(n)
           c == StringStored(s)
<1>1. n \in Nat /\ n >= 1 /\ StrLen[s] = n - 1 /\ StrByte[s] \in Byte
  BY DEF Sized
<1>2. AllocResult(n) = "ok"
  BY DEF StringResult
<1>3. /\ a \notin Taken(RAM) /\ a \in Nat
      /\ h \in Headers(m) /\ h \in Nat
      /\ a + n <= RAMSize /\ a >= HeaderSize
      /\ Tiled(m) /\ Uint32(m, h) = n
      /\ Taken(m) = Taken(RAM) \cup {a}
      /\ \A b \in Taken(RAM) : SameBlock(RAM, m, b)
  <2>1. ~Breaks(n)
    OBVIOUS
  <2> HIDE DEF n
  <2> QED
    BY <1>1, <1>2, <2>1, AllocTiled
<1>4. c = [i \in Cell |-> IF i \in a .. (a + n - 2) THEN StrByte[s]
                          ELSE IF i = a + n - 1 THEN 0 ELSE m[i]]
  <2>1. a + StrLen[s] - 1 = a + n - 2 /\ a + StrLen[s] = a + n - 1
    BY <1>1, <1>3
  <2> QED
    BY <2>1 DEF StringStored, Store
<1> HIDE DEF n, a, m, c
<1>5. m \in [Cell -> Byte] /\ 0 \in Byte
  BY <1>3, LayoutAssumption DEF Tiled, Byte
<1>6. c \in [Cell -> Byte]
  BY <1>1, <1>4, <1>5
<1>7. h + HeaderSize = a /\ BlockEnd(m, h) = a + n
  BY <1>1, <1>3 DEF BlockEnd, HeaderSize
<1>8. \A i \in Cell : i < h + HeaderSize \/ i >= BlockEnd(m, h) => c[i] = m[i]
  BY <1>1, <1>3, <1>4, <1>7, WordNat DEF Cell
<1>9. /\ Tiled(c) /\ Taken(c) = Taken(m) /\ Uint32(c, h) = Uint32(m, h)
      /\ \A b \in Taken(m) : b # h + HeaderSize => SameBlock(m, c, b)
  <2> HIDE DEF h
  <2> QED
    BY <1>3, <1>6, <1>8, StoreTiled
<1>10. ASSUME NEW b \in Taken(RAM) PROVE SameBlock(RAM, c, b)
  <2>1. SameBlock(RAM, m, b) /\ SameBlock(m, c, b)
    BY <1>3, <1>7, <1>9
  <2> QED
    BY <2>1 DEF SameBlock
<1>11. /\ \A i \in a .. (a + n - 2) : i \in Cell /\ c[i] = StrByte[s]
       /\ c[a + n - 1] = 0
  <2>1. \A i \in a .. (a + n - 2) : i \in Cell
    BY <1>1, <1>3, WordNat DEF Cell
  <2>2. a + n - 1 \in Cell /\ a + n - 1 \notin a .. (a + n - 2)
    BY <1>1, <1>3, WordNat DEF Cell
  <2>3. c[a + n - 1] = 0
    BY <1>4, <2>2
  <2> QED
    BY <1>4, <2>1, <2>3
<1> QED
  BY <1>1, <1>3, <1>9, <1>10, <1>11 DEF n, a, m, c

LEMMA StringNoPanic ==
    ASSUME Tiled(RAM), NEW s, Sized(s)
    PROVE  StringResult(s) # "panic"
<1> DEFINE n == StrLen[s] + 1
           h == WalkEnd(RAM, n)
<1>1. n \in Nat
  BY DEF Sized
<1>2. AllocResult(n) # "panic"
  <2> HIDE DEF n
  <2> QED
    BY <1>1, AllocNoPanic
<1>3. CASE AllocResult(n) = "ok"
  <2>1. InLoop(h)
    BY <1>3 DEF AllocResult
  <2>2. /\ RAM \in [Cell -> Byte] /\ Headers(RAM) \in SUBSET Cell
        /\ Tiles(RAM, Headers(RAM))
    BY DEF Tiled
  <2>3. h \in Headers(RAM) /\ Fits(RAM, h, n)
    BY <2>1, <2>2, WalkEndFacts
  <2> HIDE DEF h, n
  <2>4. h \in Nat /\ h + HeaderSize + n <= RAMSize
    BY <1>1, <2>3, FittingCarves
  <2>5. AllocAddr(n) = h + HeaderSize
    BY DEF AllocAddr, h
  <2>6. ~(AllocAddr(n) + n > RAMSize)
    BY <1>1, <2>4, <2>5, WordNat DEF HeaderSize
  <2> QED
    BY <1>3, <2>6 DEF StringResult, n
<1>4. CASE AllocResult(n) # "ok"
  BY <1>2, <1>4 DEF StringResult
<1> QED
  BY <1>3, <1>4

(***************************************************************************)
(* What every step does to the heap: the invariant is kept, no block the   *)
(* program goes on owning is touched, and a panic is explained.            *)
(***************************************************************************)
KeepsOwned   == ~damaged' => \A a \in own \cap own' : SameBlock(RAM, RAM', a)
ExplainsPanic ==
    mode' = "panicked" /\ ~damaged =>
        (InRun \/ InBody) /\ PC + InsSize(Ins.op) > code.size

HeapSafeStep == HeapInv' /\ KeepsOwned /\ ExplainsPanic

LEMMA SameRAM ==
    ASSUME UNCHANGED RAM
    PROVE  KeepsOwned
  BY DEF KeepsOwned, SameBlock

(* A step that leaves the heap and its owners alone.                       *)
LEMMA QuietStep ==
    ASSUME HeapInv, mode # "panicked", mode' # "panicked",
           UNCHANGED <<code, RAM, own, damaged>>,
           InHandler' <=> InHandler,
           InHandler => ev'.addr = ev.addr /\ ev'.user = ev.user,
           mode' = "scan" => Sized(ev'.user)
    PROVE  HeapSafeStep
<1>1. Intact' => Intact
  BY DEF Intact
<1>2. Held' = Held
  BY DEF Held
<1>3. InHandler' /\ NameStored => NameStored'
  BY DEF NameStored
<1>4. HeapInv'
  BY <1>1, <1>2, <1>3 DEF HeapInv, Sized
<1> QED
  BY <1>4, SameRAM DEF HeapSafeStep, ExplainsPanic

(* A step of a dispatch loop that touches no memory. *)
LEMMA RegisterStep ==
    ASSUME HeapInv, mode \in {"run", "body"}, UNCHANGED <<code, RAM, own, damaged, ev>>,
           \/ mode' = mode
           \/ mode' = IF mode = "run" THEN "failed" ELSE "unwind"
    PROVE  HeapSafeStep
<1>1. (InHandler' <=> InHandler) /\ mode' # "panicked" /\ mode' # "scan"
  BY DEF InHandler
<1> QED
  BY <1>1, QuietStep

LEMMA FailHeap ==
    ASSUME HeapInv, mode \in {"run", "body"}, Fail
    PROVE  HeapSafeStep
  BY RegisterStep DEF Fail

(* A panic that an intact heap excludes, or cut code explains.             *)
LEMMA PanicHeap ==
    ASSUME HeapInv, Panic,
           ~damaged => (InRun \/ InBody) /\ PC + InsSize(Ins.op) > code.size
    PROVE  HeapSafeStep
<1>1. mode' = "panicked" /\ UNCHANGED <<code, RAM>>
  BY DEF Panic
<1>2. HeapInv'
  BY <1>1 DEF HeapInv, InHandler, Intact, Sized
<1> QED
  BY <1>1, <1>2, SameRAM DEF HeapSafeStep, ExplainsPanic

(* The name is where it was while its block is the same.                   *)
LEMMA NameKept ==
    ASSUME HeapInv, Intact, InHandler, UNCHANGED ev, SameBlock(RAM, RAM', ev.addr)
    PROVE  NameStored'
<1> DEFINE a == ev.addr
           n == StrLen[ev.user]
<1>1. n \in Nat /\ a \in Nat
  <2>1. a \in Taken(RAM) /\ Tiled(RAM) /\ Sized(ev.user)
    BY DEF HeapInv, Held
  <2> QED
    BY <2>1, TakenFacts DEF Sized
<1>2. /\ Uint32(RAM, a - HeaderSize) = n + 1
      /\ \A i \in a .. (a + n - 1) : RAM[i] = StrByte[ev.user]
      /\ RAM[a + n] = 0
  BY DEF HeapInv, NameStored
<1>3. /\ Uint32(RAM', a - HeaderSize) = n + 1
      /\ \A i \in a .. (a + (n + 1) - 1) : RAM'[i] = RAM[i]
  BY <1>2 DEF SameBlock
<1>4. /\ \A i \in a .. (a + n - 1) : i \in a .. (a + (n + 1) - 1)
      /\ a + n \in a .. (a + (n + 1) - 1)
  BY <1>1
<1> QED
  BY <1>2, <1>3, <1>4 DEF NameStored

(* An instruction that allocates the block at address a. *)
LEMMA GrabStep ==
    ASSUME HeapInv, mode \in {"run", "body"}, UNCHANGED <<code, mode, ev>>,
           NEW a, own' = own \cup {a},
           ~damaged' => ~damaged,
           ~damaged' => /\ a \notin Taken(RAM) /\ Tiled(RAM')
                        /\ Taken(RAM') = Taken(RAM) \cup {a}
                        /\ \A b \in Taken(RAM) : SameBlock(RAM, RAM', b)
    PROVE  HeapSafeStep
<1>1. ExplainsPanic
  BY DEF ExplainsPanic
<1>2. Intact' => Intact /\ ~damaged'
  BY DEF Intact
<1>3. ~damaged' => Tiled(RAM) /\ Taken(RAM) = Held
  BY DEF HeapInv, Intact
<1>4. KeepsOwned
  BY <1>3 DEF KeepsOwned, Held
<1>5. ASSUME Intact' PROVE Taken(RAM') = Held'
  BY <1>2, <1>3, <1>5 DEF Held, InHandler
<1>6. ASSUME Intact', InHandler' PROVE ev'.addr \notin own' /\ NameStored'
  <2>1. InHandler /\ ev.addr \in Taken(RAM) /\ ev.addr \notin own
    BY <1>2, <1>3, <1>6 DEF InHandler, Held, HeapInv
  <2>2. SameBlock(RAM, RAM', ev.addr) /\ ev.addr # a
    BY <1>2, <1>6, <2>1
  <2> QED
    BY <1>2, <1>6, <2>1, <2>2, NameKept
<1>7. HeapInv'
  BY <1>2, <1>5, <1>6 DEF HeapInv, InHandler, Sized
<1> QED
  BY <1>1, <1>4, <1>7 DEF HeapSafeStep

LEMMA AllocHeap ==
    ASSUME ControlInv, HeapInv, Alloc
    PROVE  HeapSafeStep
<1>0. mode \in {"run", "body"} /\ Ins.v \in Nat
  BY Decoded DEF Alloc
<1>1. CASE AllocResult(Ins.v) = "ok"
  <2>1. /\ RAM' = Allocated(Ins.v) /\ own' = own \cup {AllocAddr(Ins.v)}
        /\ damaged' = (damaged \/ Breaks(Ins.v))
        /\ UNCHANGED <<code, mode, ev>>
    BY <1>1 DEF Alloc
  <2>2. ~damaged' => Tiled(RAM)
    BY <1>0, <2>1 DEF HeapInv, Intact
  <2>3. ~damaged' => /\ AllocAddr(Ins.v) \notin Taken(RAM) /\ Tiled(RAM')
                     /\ Taken(RAM') = Taken(RAM) \cup {AllocAddr(Ins.v)}
                     /\ \A b \in Taken(RAM) : SameBlock(RAM, RAM', b)
    BY <1>0, <1>1, <2>1, <2>2, AllocTiled
  <2> QED
    BY <1>0, <2>1, <2>3, GrabStep
<1>2. CASE AllocResult(Ins.v) = "panic"
  <2>1. damaged
    BY <1>0, <1>2, AllocNoPanic DEF HeapInv, Intact
  <2> QED
    BY <1>2, <2>1, PanicHeap DEF Alloc
<1>3. CASE AllocResult(Ins.v) \notin {"ok", "panic"}
  BY <1>0, <1>3, FailHeap DEF Alloc
<1> QED
  BY <1>1, <1>2, <1>3

LEMMA MovStrHeap ==
    ASSUME ControlInv, HeapInv, MovStr
    PROVE  HeapSafeStep
<1> DEFINE s == Const(Ins.v)
           n == StrLen[s] + 1
<1>0. mode \in {"run", "body"} /\ Ins.v \in Nat
  BY Decoded DEF MovStr
<1>1. ASSUME InPool(Ins.v) PROVE Sized(s)
  <2>1. code.consts \in Seq(Strings)
    BY DEF ControlInv, ControlTyped
  <2>2. Ins.v + 1 \in DOMAIN code.consts
    BY <1>0, <1>1, <2>1 DEF InPool
  <2> QED
    BY <2>2 DEF HeapInv, Const
<1>2. CASE ~InPool(Ins.v)
  BY <1>0, <1>2, FailHeap DEF MovStr
<1>3. CASE InPool(Ins.v) /\ StringResult(s) = "ok"
  <2>1. /\ RAM' = StringStored(s) /\ own' = own \cup {AllocAddr(n)}
        /\ damaged' = (damaged \/ Breaks(n))
        /\ UNCHANGED <<code, mode, ev>>
    BY <1>3 DEF MovStr
  <2>2. ~damaged' => Tiled(RAM)
    BY <1>0, <2>1 DEF HeapInv, Intact
  <2>3. ~damaged' => /\ AllocAddr(n) \notin Taken(RAM) /\ Tiled(RAM')
                     /\ Taken(RAM') = Taken(RAM) \cup {AllocAddr(n)}
                     /\ \A b \in Taken(RAM) : SameBlock(RAM, RAM', b)
    <3>1. SUFFICES ASSUME ~damaged'
                   PROVE  /\ AllocAddr(n) \notin Taken(RAM) /\ Tiled(RAM')
                          /\ Taken(RAM') = Taken(RAM) \cup {AllocAddr(n)}
                          /\ \A b \in Taken(RAM) : SameBlock(RAM, RAM', b)
      OBVIOUS
    <3>2. Tiled(RAM) /\ Sized(s) /\ StringResult(s) = "ok" /\ ~Breaks(n)
      BY <1>1, <1>3, <2>1, <2>2, <3>1
    <3> HIDE DEF s
    <3> QED
      BY <2>1, <3>2, StringTiled
  <2> HIDE DEF s, n
  <2> QED
    BY <1>0, <2>1, <2>3, GrabStep
<1>4. CASE InPool(Ins.v) /\ StringResult(s) = "panic"
  <2>1. damaged
    <3>1. ~damaged => Tiled(RAM) /\ Sized(s)
      BY <1>0, <1>1, <1>4 DEF HeapInv, Intact
    <3> HIDE DEF s
    <3> QED
      BY <1>4, <3>1, StringNoPanic
  <2> QED
    BY <1>4, <2>1, PanicHeap DEF MovStr
<1>5. CASE InPool(Ins.v) /\ StringResult(s) \notin {"ok", "panic"}
  BY <1>0, <1>5, FailHeap DEF MovStr
<1> QED
  BY <1>2, <1>3, <1>4, <1>5

(* FREE of a block the program does not own is damage; one it owns is      *)
(* neither the name's nor any other block.                                 *)
LEMMA FreeHeap ==
    ASSUME ControlInv, HeapInv, Free
    PROVE  HeapSafeStep
<1> DEFINE a == reg[Register(Ins.a)]
<1>0. mode \in {"run", "body"}
  BY Decoded DEF Free
<1>1. CASE FreeFails(a)
  BY <1>0, <1>1, FailHeap DEF Free
<1>2. CASE ~FreeFails(a)
  <2>1. /\ RAM' = Freed(a) /\ own' = own \ {a} /\ damaged' = (damaged \/ a \notin own)
        /\ UNCHANGED <<code, mode, ev>>
    BY <1>2 DEF Free
  <2> HIDE DEF a
  <2>2. ExplainsPanic /\ (Intact' => Intact /\ ~damaged')
    BY <1>0, <2>1 DEF ExplainsPanic, Intact
  <2>3. ~damaged' => Tiled(RAM) /\ Taken(RAM) = Held /\ a \in own /\ a \in Held
    BY <1>0, <2>1 DEF HeapInv, Intact, Held
  <2>4. ~damaged' => /\ Tiled(RAM') /\ Taken(RAM') = Taken(RAM) \ {a}
                     /\ \A b \in Taken(RAM) : SameBlock(RAM, RAM', b)
    BY <2>1, <2>3, FreeTiled DEF Freed
  <2>5. KeepsOwned
    BY <2>3, <2>4 DEF KeepsOwned, Held
  <2>6. ASSUME Intact', InHandler' PROVE ev.addr # a /\ ev'.addr \notin own' /\ NameStored'
    <3>1. InHandler /\ ev.addr \in Taken(RAM) /\ ev.addr \notin own
      BY <2>1, <2>2, <2>3, <2>6 DEF InHandler, Held, HeapInv
    <3>2. SameBlock(RAM, RAM', ev.addr) /\ ev.addr # a
      BY <2>2, <2>3, <2>4, <2>6, <3>1
    <3> QED
      BY <2>1, <2>2, <2>6, <3>1, <3>2, NameKept
  <2>7. ASSUME Intact' PROVE Taken(RAM') = Held'
    BY <2>1, <2>2, <2>3, <2>4, <2>6, <2>7 DEF Held, InHandler
  <2>8. HeapInv'
    BY <2>1, <2>2, <2>4, <2>6, <2>7 DEF HeapInv, InHandler, Sized
  <2> QED
    BY <2>2, <2>5, <2>8 DEF HeapSafeStep
<1> QED
  BY <1>1, <1>2

LEMMA InstructionHeap ==
    ASSUME ControlInv, HeapInv, Instruction
    PROVE  HeapSafeStep
<1>1. CASE Alloc
  BY <1>1, AllocHeap
<1>2. CASE Free
  BY <1>2, FreeHeap
<1>3. CASE MovReg
  BY <1>3, Decoded, RegisterStep DEF MovReg
<1>4. CASE MovInt
  BY <1>4, Decoded, RegisterStep DEF MovInt
<1>5. CASE MovStr
  BY <1>5, MovStrHeap
<1>6. CASE Output
  BY <1>6, Decoded, RegisterStep DEF Output
<1>7. CASE OnChat
  <2>1. mode \in {"run", "body"}
    BY <1>7, Decoded DEF OnChat
  <2> QED
    BY <1>7, <2>1, RegisterStep, FailHeap DEF OnChat
<1>8. ASSUME NEW op \in AluOps, Arith(op) PROVE HeapSafeStep
  <2>1. mode \in {"run", "body"}
    BY <1>8, Decoded DEF Arith
  <2> QED
    BY <1>8, <2>1, RegisterStep, FailHeap DEF Arith
<1>9. CASE Cmp
  BY <1>9, Decoded, RegisterStep DEF Cmp
<1>10. CASE Jmp \/ Jz \/ Jnz
  <2>1. mode \in {"run", "body"}
    BY <1>10, Decoded DEF Jmp, Jz, Jnz
  <2>2. JumpTo(Ins.v) \/ FallThrough
    BY <1>10 DEF Jmp, Jz, Jnz
  <2> QED
    BY <2>1, <2>2, RegisterStep, FailHeap DEF JumpTo, FallThrough
<1>11. CASE Call
  <2>1. mode \in {"run", "body"}
    BY <1>11, Decoded DEF Call
  <2> QED
    BY <1>11, <2>1, RegisterStep, FailHeap DEF Call
<1>12. CASE Ret
  <2>1. mode \in {"run", "body"}
    BY <1>12, Decoded DEF Ret
  <2> QED
    BY <1>12, <2>1, RegisterStep, FailHeap DEF Ret
<1>13. CASE Unknown
  BY <1>13, Decoded, FailHeap DEF Unknown
<1>14. CASE Truncated
  <2>1. /\ mode \in {"run", "body"} /\ (InRun \/ InBody)
        /\ PC + InsSize(Ins.op) > code.size
    BY <1>14 DEF Truncated, InRun, InBody
  <2> QED
    BY <1>14, <2>1, PanicHeap, FailHeap DEF Truncated
<1> QED
  BY <1>1, <1>2, <1>3, <1>4, <1>5, <1>6, <1>7, <1>8, <1>9, <1>10, <1>11, <1>12,
     <1>13, <1>14 DEF Instruction

(* A delivery takes a block for the username and gives back just that.     *)
LEMMA FireHeap ==
    ASSUME ControlInv, HeapInv, FireSub
    PROVE  HeapSafeStep
<1> DEFINE s == ev.user
           n == StrLen[s] + 1
           a == AllocAddr(n)
           e == (Sub.bodyOffset + Sub.bodyLength) % WordSize
<1>1. /\ mode = "scan" /\ mode' = "body" /\ StringResult(s) = "ok"
      /\ RAM' = StringStored(s) /\ damaged' = (damaged \/ Breaks(n))
      /\ ev' = [ev EXCEPT !.addr = a, !.savedPC = PC, !.bodyEnd = e]
      /\ UNCHANGED <<code, own>>
  BY DEF FireSub, Pending
<1>2. ev'.addr = a /\ ev'.user = s
  <2> HIDE DEF a, e
  <2> QED
    BY <1>1 DEF ControlInv, ControlTyped, EventTyped
<1>3. /\ ExplainsPanic /\ Sized(s) /\ ~InHandler /\ InHandler'
      /\ (Intact' => Intact /\ ~damaged')
  BY <1>1 DEF ExplainsPanic, HeapInv, InHandler, Intact
<1>4. ~damaged' => Tiled(RAM) /\ Taken(RAM) = own
  BY <1>1, <1>3 DEF HeapInv, Intact, Held
<1>5. ~damaged' => /\ a \notin Taken(RAM) /\ Tiled(RAM')
                   /\ Taken(RAM') = Taken(RAM) \cup {a}
                   /\ \A b \in Taken(RAM) : SameBlock(RAM, RAM', b)
                   /\ Uint32(RAM', a - HeaderSize) = n
                   /\ \A i \in a .. (a + StrLen[s] - 1) : RAM'[i] = StrByte[s]
                   /\ RAM'[a + StrLen[s]] = 0
  <2> SUFFICES ASSUME ~damaged'
               PROVE  /\ a \notin Taken(RAM) /\ Tiled(RAM')
                      /\ Taken(RAM') = Taken(RAM) \cup {a}
                      /\ \A b \in Taken(RAM) : SameBlock(RAM, RAM', b)
                      /\ Uint32(RAM', a - HeaderSize) = n
                      /\ \A i \in a .. (a + StrLen[s] - 1) : RAM'[i] = StrByte[s]
                      /\ RAM'[a + StrLen[s]] = 0
    OBVIOUS
  <2>1. Tiled(RAM) /\ ~Breaks(n)
    BY <1>1, <1>4
  <2> HIDE DEF s
  <2> QED
    BY <1>1, <1>3, <2>1, StringTiled
<1> HIDE DEF s, a, n
<1>6. KeepsOwned
  BY <1>1, <1>4, <1>5 DEF KeepsOwned
<1>7. Intact' => Taken(RAM') = Held' /\ ev'.addr \notin own'
  BY <1>1, <1>2, <1>3, <1>4, <1>5 DEF Held
<1>8. Intact' => NameStored'
  BY <1>2, <1>3, <1>5 DEF NameStored, n
<1>9. HeapInv'
  BY <1>1, <1>2, <1>3, <1>5, <1>7, <1>8 DEF HeapInv, Sized
<1> QED
  BY <1>3, <1>6, <1>9 DEF HeapSafeStep

(* Where the username's block lies. *)
LEMMA NameBlock ==
    ASSUME HeapInv, Intact, InHandler
    PROVE  LET a == ev.addr
               n == StrLen[ev.user]
           IN  /\ n \in Nat /\ StrByte[ev.user] \in Byte
               /\ a \in Nat /\ a >= HeaderSize /\ a + n < RAMSize
               /\ a \in Taken(RAM) /\ Flag(RAM, a - HeaderSize) = 1
<1> DEFINE a == ev.addr
           n == StrLen[ev.user]
           h == a - HeaderSize
<1>1. n \in Nat /\ StrByte[ev.user] \in Byte /\ a \in Taken(RAM) /\ Tiled(RAM)
  BY DEF HeapInv, Held, Sized
<1>2. h \in Headers(RAM) /\ h \in Nat /\ a \in Nat /\ a = h + HeaderSize
  BY <1>1, TakenFacts
<1>3. Flag(RAM, h) = 1
  BY <1>1, <1>2, TakenFacts
<1>4. Uint32(RAM, h) = n + 1
  BY DEF HeapInv, NameStored
<1> HIDE DEF a, n, h
<1>5. h + HeaderSize + Uint32(RAM, h) <= RAMSize
  BY <1>1, <1>2, TileTypes DEF Tiled
<1>6. a >= HeaderSize /\ a + n < RAMSize
  BY <1>1, <1>2, <1>4, <1>5, WordNat DEF HeaderSize
<1> QED
  BY <1>1, <1>2, <1>3, <1>6 DEF a, n, h

LEMMA EndBodyHeap ==
    ASSUME ControlInv, HeapInv, EndBody
    PROVE  HeapSafeStep
<1> DEFINE a == ev.addr
<1>1. /\ mode \in {"body", "unwind"} /\ mode' = "scan"
      /\ RAM' = (IF FreeFails(a) THEN RAM ELSE Freed(a))
      /\ ev' = [ev EXCEPT !.next = @ + 1, !.addr = 0, !.savedPC = 0, !.bodyEnd = 0]
      /\ UNCHANGED <<code, own, damaged>>
  BY DEF EndBody
<1>2. ev'.user = ev.user
  BY <1>1 DEF ControlInv, ControlTyped, EventTyped
<1>3. /\ ExplainsPanic /\ Sized(ev.user) /\ InHandler /\ ~InHandler'
      /\ (~damaged' => Intact)
  BY <1>1 DEF ExplainsPanic, HeapInv, InHandler, Intact
<1>4. Intact => RAM' = Freed(a) /\ a \in Taken(RAM)
  <2>1. Intact => /\ a \in Nat /\ a >= HeaderSize /\ a < RAMSize /\ a \in Taken(RAM)
                  /\ Flag(RAM, a - HeaderSize) = 1
    BY <1>3, NameBlock, WordNat
  <2> HIDE DEF a
  <2> QED
    BY <1>1, <2>1 DEF FreeFails, InRange
<1>5. Intact => Tiled(RAM) /\ Taken(RAM) = own \cup {a} /\ a \notin own
  BY <1>3 DEF HeapInv, Held
<1> HIDE DEF a
<1>6. Intact => /\ Tiled(RAM') /\ Taken(RAM') = own
                /\ \A b \in own : SameBlock(RAM, RAM', b)
  BY <1>4, <1>5, FreeTiled DEF Freed
<1>7. KeepsOwned
  BY <1>3, <1>6 DEF KeepsOwned
<1>8. HeapInv'
  BY <1>1, <1>2, <1>3, <1>6 DEF HeapInv, Held, Intact, Sized
<1> QED
  BY <1>3, <1>7, <1>8 DEF HeapSafeStep

-----------------------------------------------------------------------------
LEMMA BootHeap ==
    ASSUME \A k \in DOMAIN code.consts : Sized(code.consts[k]), Boot
    PROVE  HeapInv
<1>1. ~InHandler /\ mode # "scan" /\ RAM = ResetRAM /\ own = {}
  BY DEF Boot, InHandler
<1> QED
  BY <1>1, ResetTiled DEF HeapInv, Held

LEMMA HeapInit == Init => HeapInv
  BY BootHeap, VMAssumption DEF Init

LEMMA HeapNext == ControlInv /\ HeapInv /\ Next => HeapSafeStep
<1> SUFFICES ASSUME ControlInv, HeapInv, Next PROVE HeapSafeStep
  OBVIOUS
<1>1. CASE Instruction
  BY <1>1, InstructionHeap
<1>2. CASE RunDone \/ Quit
  <2>1. /\ mode \in {"run", "listen"} /\ mode' \in {"exited", "listen"}
        /\ UNCHANGED <<code, RAM, own, damaged, ev>>
    BY <1>2 DEF RunDone, Quit
  <2> QED
    BY <2>1, QuietStep DEF InHandler
<1>3. ASSUME NEW u \in Users, NEW m \in Messages, Deliver(u, m) PROVE HeapSafeStep
  <2>1. /\ mode = "listen" /\ mode' = "scan" /\ ev'.user = u
        /\ UNCHANGED <<code, RAM, own, damaged>>
    BY <1>3 DEF Deliver, NoEvent
  <2> QED
    BY <2>1, QuietStep, VMAssumption DEF InHandler
<1>4. CASE SkipSub
  <2>1. /\ mode = "scan" /\ mode' = "scan" /\ ev' = [ev EXCEPT !.next = @ + 1]
        /\ UNCHANGED <<code, RAM, own, damaged>>
    BY <1>4 DEF SkipSub, Pending
  <2>2. ev'.user = ev.user
    BY <2>1 DEF ControlInv, ControlTyped, EventTyped
  <2> QED
    BY <2>1, <2>2, QuietStep DEF InHandler, HeapInv
<1>5. CASE FireSub
  BY <1>5, FireHeap
<1>6. CASE FirePanic
  <2>1. mode = "scan" /\ StringResult(ev.user) = "panic" /\ Panic
    BY <1>6 DEF FirePanic, Pending
  <2>2. damaged
    BY <2>1, StringNoPanic DEF HeapInv, Intact
  <2> QED
    BY <2>1, <2>2, PanicHeap
<1>7. CASE EndBody
  BY <1>7, EndBodyHeap
<1>8. CASE EndDelivery
  <2>1. /\ mode = "scan" /\ mode' = "listen" /\ UNCHANGED <<code, RAM, own, damaged>>
    BY <1>8 DEF EndDelivery
  <2> QED
    BY <2>1, QuietStep DEF InHandler
<1> QED
  BY <1>1, <1>2, <1>3, <1>4, <1>5, <1>6, <1>7, <1>8 DEF Next, Internal

(* What SEND_CHAT of the username's address reads. *)
LEMMA NameRead ==
    ASSUME HeapInv, Intact, InHandler
    PROVE  HoldsText(ev.addr) /\ Text(ev.addr) = TextOf(ev.user)
<1> DEFINE a == ev.addr
           b == StrByte[ev.user]
           n == StrLen[ev.user]
           z == IF b = 0 THEN a ELSE a + n
           End(e) == RAM[e] = 0 /\ \A i \in a .. (e - 1) : RAM[i] # 0
<1>1. n \in Nat /\ a \in Nat /\ a >= HeaderSize /\ a + n < RAMSize
  BY NameBlock
<1>2. (\A i \in a .. (a + n - 1) : RAM[i] = b) /\ RAM[a + n] = 0
  BY DEF HeapInv, NameStored
<1> HIDE DEF a, b, n
<1>3. z \in a .. (RAMSize - 1) /\ RAM[z] = 0
  <2>1. b = 0 /\ n > 0 => a \in a .. (a + n - 1)
    BY <1>1
  <2>2. n = 0 => a + n = a
    BY <1>1
  <2> QED
    BY <1>1, <1>2, <2>1, <2>2, WordNat
<1>4. End(z)
  <2>1. \A i \in a .. (z - 1) : b # 0 /\ i \in a .. (a + n - 1)
    BY <1>1
  <2> QED
    BY <1>2, <1>3, <2>1
<1>5. \A e \in a .. (RAMSize - 1) : End(e) => e = z
  <2> SUFFICES ASSUME NEW e \in a .. (RAMSize - 1), End(e), e # z PROVE FALSE
    OBVIOUS
  <2>1. z \in Int /\ e \in Int /\ a <= z /\ a <= e
    BY <1>1, <1>3
  <2> HIDE DEF z
  <2>2. CASE e < z
    BY <1>4, <2>1, <2>2
  <2>3. CASE e > z
    BY <1>3, <2>1, <2>3
  <2> QED
    BY <2>1, <2>2, <2>3
<1>6. (CHOOSE e \in a .. (RAMSize - 1) : End(e)) = z
  <2> HIDE DEF z, End
  <2> QED
    BY <1>3, <1>4, <1>5
<1>7. HoldsText(a)
  BY <1>1, <1>3, WordNat DEF HoldsText, InRange
<1>8. Text(a) = [i \in 1 .. (z - a) |-> RAM[a + i - 1]]
  BY <1>6 DEF Text
<1>9. z - a = (IF b = 0 THEN 0 ELSE n)
  BY <1>1
<1>10. \A i \in 1 .. (z - a) : a + i - 1 \in a .. (a + n - 1)
  BY <1>1, <1>9
<1>11. Text(a) = [i \in 1 .. (IF b = 0 THEN 0 ELSE n) |-> b]
  BY <1>2, <1>8, <1>9, <1>10
<1> QED
  BY <1>7, <1>11 DEF TextOf, a, b, n

(* Control state and heap together. *)
LEMMA SafeInit == Init => ControlInv /\ HeapInv
  BY ControlInit, HeapInit

LEMMA SafeNext ==
    ControlInv /\ HeapInv /\ [Next]_vars => (ControlInv /\ HeapInv)'
<1>1. ASSUME UNCHANGED vars, HeapInv PROVE HeapInv'
  BY <1>1 DEF vars, HeapInv, Intact, InHandler, Held, NameStored, Sized
<1> QED
  BY <1>1, ControlNext, HeapNext DEF HeapSafeStep

(***************************************************************************)
(* For every program, RAM size, string and limit: over an intact heap the  *)
(* name of a chat line's user is read back from its block while a handler  *)
(* runs, and the allocated blocks are the program's own and that one.      *)
(***************************************************************************)
THEOREM DeliveriesAccounted == Spec => [](UsernameIntact /\ BlocksAccounted)
<1>1. HeapInv => UsernameIntact
  BY NameBlock, NameRead DEF UsernameIntact
<1>2. HeapInv => BlocksAccounted
  BY DEF HeapInv, BlocksAccounted
<1> QED
  BY <1>1, <1>2, SafeInit, SafeNext, PTL DEF Spec

(* No step touches a block that the program owns before and after it, as   *)
(* long as the heap is not damaged.                                        *)
THEOREM ProgramDataKept == Spec => OwnedBlocksKept
<1>1. ControlInv /\ HeapInv /\ [Next]_vars
          => [~damaged' => \A a \in own \cap own' : SameBlock(RAM, RAM', a)]_vars
  BY HeapNext DEF HeapSafeStep, KeepsOwned
<1> QED
  BY <1>1, SafeInit, SafeNext, PTL DEF Spec, OwnedBlocksKept

(* The process panics only over a damaged heap or in cut code.             *)
THEOREM NoUnexplainedPanic == Spec => PanicsExplained
<1>1. ControlInv /\ HeapInv /\ [Next]_vars
          => [mode' = "panicked" /\ ~damaged =>
                  (InRun \/ InBody) /\ PC + InsSize(Ins.op) > code.size]_vars
  BY HeapNext DEF HeapSafeStep, ExplainsPanic
<1> QED
  BY <1>1, SafeInit, SafeNext, PTL DEF Spec, PanicsExplained

(* The inductive invariant itself. *)
THEOREM HeapInvariant == Spec => []HeapInv
  BY SafeInit, SafeNext, PTL DEF Spec

-----------------------------------------------------------------------------
(* Types. *)

LEMMA Pow2Unfold ==
    ASSUME NEW n \in Nat
    PROVE  \E F : Doubles(F, n) /\ Pow2(n) = F[n]
<1> DEFINE G(F) == [k \in 0 .. n |-> IF k = 0 THEN 1 ELSE 2 * F[k - 1]]
           power == CHOOSE F : F = G(F)
<1>1. \E F : F = G(F)
  BY DoublingExists DEF Doubles
<1>2. power = G(power)
  <2> HIDE DEF G
  <2> QED
    BY <1>1
<1>3. Doubles(power, n)
  <2> HIDE DEF power
  <2> QED
    BY <1>2 DEF Doubles
<1>4. Pow2(n) = power[n]
  BY DEF Pow2
<1> QED
  BY <1>3, <1>4

LEMMA Pow2Facts ==
    ASSUME NEW n \in Nat
    PROVE  /\ Pow2(n) \in Nat /\ Pow2(n) >= 1 /\ Pow2(0) = 1
           /\ Pow2(n + 1) = 2 * Pow2(n)
<1>1. PICK F : Doubles(F, n) /\ Pow2(n) = F[n]
  BY Pow2Unfold
<1>2. n + 1 \in Nat /\ (n + 1) - 1 = n /\ n + 1 \in 1 .. (n + 1)
      /\ n \in 0 .. n /\ n \in 0 .. (n + 1) /\ 0 \in Nat /\ 0 \in 0 .. 0
  OBVIOUS
<1>3. PICK E : Doubles(E, n + 1) /\ Pow2(n + 1) = E[n + 1]
  BY <1>2, Pow2Unfold
<1>4. PICK Z : Doubles(Z, 0) /\ Pow2(0) = Z[0]
  BY <1>2, Pow2Unfold
<1>5. F[n] = E[n]
  BY <1>1, <1>2, <1>3, DoublingUnique
<1>6. E[n + 1] = 2 * E[n]
  BY <1>2, <1>3, DoublingFacts
<1> QED
  BY <1>1, <1>2, <1>3, <1>4, <1>5, <1>6, DoublingFacts

(* A word made of bits is a word. *)
LEMMA FromBitsTyped ==
    ASSUME NEW B
    PROVE  FromBits(B) \in Nat /\ FromBits(B) < WordSize
<1> DEFINE bit(k) == IF k - 1 \in B THEN Pow2(k - 1) ELSE 0
           step == [k \in 1 .. WordBits |-> [x \in Nat |-> x + bit(k)]]
           G(F) == [k \in 0 .. WordBits |-> IF k = 0 THEN 0 ELSE F[k - 1] + bit(k)]
           low == CHOOSE F : F = G(F)
<1>1. WordBits \in Nat
  BY AluAssumption
<1>2. \A k \in 1 .. WordBits : k - 1 \in Nat /\ k = (k - 1) + 1 /\ k - 1 \in 0 .. WordBits
  BY <1>1
<1>3. \A k \in 1 .. WordBits :
          /\ bit(k) \in Nat /\ bit(k) <= Pow2(k - 1)
          /\ Pow2(k - 1) \in Nat /\ Pow2(k) = 2 * Pow2(k - 1)
  BY <1>2, Pow2Facts
<1> HIDE DEF bit
<1>4. step \in [1 .. WordBits -> [Nat -> Nat]] /\ 0 \in Nat
  BY <1>3
<1>5. PICK F : Iterates(F, 0, step, WordBits)
  <2> HIDE DEF step
  <2> QED
    BY <1>1, <1>4, IterationExists
<1>6. \A k \in 0 .. WordBits : F[k] \in Nat
  <2> HIDE DEF step
  <2> QED
    BY <1>1, <1>4, <1>5, IterationTyped
<1>7. F = G(F)
  <2>1. ASSUME NEW k \in 1 .. WordBits PROVE F[k] = F[k - 1] + bit(k)
    <3>1. F[k] = step[k][F[k - 1]]
      <4> HIDE DEF step
      <4> QED
        BY <1>5 DEF Iterates
    <3>2. F[k - 1] \in Nat
      BY <1>2, <1>6
    <3> QED
      BY <3>1, <3>2
  <2>2. F = [k \in 0 .. WordBits |-> F[k]] /\ F[0] = 0
    <3> HIDE DEF step
    <3> QED
      BY <1>5 DEF Iterates
  <2>3. \A k \in 0 .. WordBits : k = 0 \/ k \in 1 .. WordBits
    OBVIOUS
  <2>4. \A k \in 0 .. WordBits : F[k] = IF k = 0 THEN 0 ELSE F[k - 1] + bit(k)
    BY <2>1, <2>2, <2>3
  <2> QED
    BY <2>2, <2>4, Zenon
<1>8. low = G(low)
  <2> HIDE DEF G
  <2> QED
    BY <1>7
<1>9. FromBits(B) = low[WordBits]
  BY DEF FromBits, bit
<1> HIDE DEF low
<1>10. \A k \in 0 .. WordBits : low[k] = IF k = 0 THEN 0 ELSE low[k - 1] + bit(k)
  BY <1>8
<1> DEFINE T == {k \in Nat : k <= WordBits => low[k] \in Nat /\ low[k] < Pow2(k)}
<1>11. 0 \in T
  <2>1. Pow2(0) = 1 /\ 0 \in Nat
    BY Pow2Facts
  <2>2. low[0] = 0
    BY <1>1, <1>10
  <2> QED
    BY <2>1, <2>2
<1>12. ASSUME NEW k \in Nat, k \in T PROVE k + 1 \in T
  <2> SUFFICES ASSUME k + 1 <= WordBits
               PROVE  low[k + 1] \in Nat /\ low[k + 1] < Pow2(k + 1)
    OBVIOUS
  <2>1. k + 1 \in 1 .. WordBits /\ k + 1 \in 0 .. WordBits /\ (k + 1) - 1 = k /\ k + 1 # 0
        /\ k <= WordBits
    BY <1>1
  <2>2. low[k] \in Nat /\ low[k] < Pow2(k)
    BY <1>12, <2>1
  <2>3. low[k + 1] = low[k] + bit(k + 1)
    BY <1>10, <2>1
  <2>4. /\ bit(k + 1) \in Nat /\ bit(k + 1) <= Pow2(k)
        /\ Pow2(k) \in Nat /\ Pow2(k + 1) = 2 * Pow2(k)
    BY <1>3, <2>1
  <2> QED
    BY <2>2, <2>3, <2>4
<1>13. Nat \subseteq T
  <2> HIDE DEF T
  <2> QED
    BY <1>11, <1>12, SetInduction
<1> QED
  BY <1>1, <1>9, <1>13 DEF WordSize

LEMMA WordSizeNat == WordSize \in Nat /\ WordSize >= 1 /\ U32 = 0 .. (WordSize - 1)
  BY AluAssumption, Pow2Facts, VMAssumption DEF WordSize, U32

(* Quotients are not larger than what is divided. *)
LEMMA QuotientTyped ==
    ASSUME NEW x \in Nat, NEW y \in Nat, y >= 1
    PROVE  x \div y \in Nat /\ x \div y <= x
<1> DEFINE q == x \div y
           r == x % y
<1>1. q \in Int /\ r \in 0 .. (y - 1) /\ x = y * q + r
  OBVIOUS
<1> HIDE DEF q, r
<1>2. q >= 0
  <2> SUFFICES ASSUME q <= -1 PROVE FALSE
    BY <1>1
  <2>1. y * q <= y * (-1)
    BY <1>1
  <2> QED
    BY <1>1, <2>1
<1>3. q <= y * q
  BY <1>1, <1>2
<1> QED
  BY <1>1, <1>2, <1>3 DEF q

LEMMA AluTyped ==
    ASSUME NEW op \in AluOps, NEW x \in U32, NEW y \in U32, op = "DIV" => y # 0
    PROVE  AluResult(op, x, y) \in U32
<1>1. WordSize \in Nat /\ WordSize >= 1 /\ U32 = 0 .. (WordSize - 1)
  BY WordSizeNat
<1>2. \A z \in Int : Wrap(z) \in U32
  BY <1>1 DEF Wrap
<1>3. x \in Nat /\ y \in Nat /\ 0 \in U32
  BY <1>1
<1>4. Pow2(y) \in Nat /\ Pow2(y) >= 1
  BY <1>3, Pow2Facts
<1>5. \A B : FromBits(B) \in U32
  BY <1>1, FromBitsTyped
<1>6. \A z \in Nat : z >= 1 => x \div z \in U32
  BY <1>1, <1>3, QuotientTyped
<1>7. x + y \in Int /\ x - y \in Int /\ x * y \in Int /\ x * Pow2(y) \in Int
  BY <1>3, <1>4
<1> HIDE DEF U32
<1>8. CASE op \in {"ADD", "SUB", "MUL"}
  BY <1>2, <1>7, <1>8 DEF AluResult
<1>9. CASE op \in {"AND", "OR", "XOR"}
  BY <1>5, <1>9 DEF AluResult
<1>10. CASE op = "DIV"
  <2>1. y >= 1
    BY <1>3, <1>10
  <2> QED
    BY <1>3, <1>6, <1>10, <2>1 DEF AluResult
<1>11. CASE op \in {"SHL", "SHR"}
  BY <1>2, <1>3, <1>4, <1>6, <1>7, <1>11 DEF AluResult
<1> QED
  BY <1>8, <1>9, <1>10, <1>11 DEF AluOps

(* An Alloc that succeeds found a block, damaged heap or not.              *)
LEMMA AllocTyped ==
    ASSUME RAM \in [Cell -> Byte], NEW n \in Nat, AllocResult(n) = "ok"
    PROVE  /\ Allocated(n) \in [Cell -> Byte]
           /\ AllocAddr(n) \in U32
<1> DEFINE h == WalkEnd(RAM, n)
<1>1. WalkStops(RAM, n) /\ InLoop(h) /\ Readable(h) /\ CanCarve(RAM, h, n)
  BY DEF AllocResult
<1>2. h \in U32 /\ Stopped(RAM, n, h)
  BY <1>1, WalkStopsFacts
<1>3. AllocAddr(n) = h + HeaderSize /\ Allocated(n) = Carve(RAM, h, n)
  BY DEF AllocAddr, Allocated
<1> HIDE DEF h
<1>4. Uint32(RAM, h) >= n
  BY <1>1, <1>2 DEF Stopped, Fits
<1>5. h \in Nat /\ h + HeaderSize <= RAMSize /\ h + HeaderSize \in U32
  BY <1>1, <1>2, WordNat DEF Readable, U32, HeaderSize
<1>6. Uint32(RAM, h) \in U32
  BY <1>5, Uint32Type, WordNat DEF HeaderSize
<1>7. n \in U32
  BY <1>4, <1>6, WordNat DEF U32
<1> QED
  BY <1>1, <1>2, <1>3, <1>4, <1>5, <1>7, CarveType

LEMMA StringTyped ==
    ASSUME RAM \in [Cell -> Byte], NEW s, Sized(s), StringResult(s) = "ok"
    PROVE  /\ StringStored(s) \in [Cell -> Byte]
           /\ AllocAddr(StrLen[s] + 1) \in U32
<1> DEFINE n == StrLen[s] + 1
<1>1. n \in Nat /\ AllocResult(n) = "ok" /\ StrByte[s] \in Byte /\ 0 \in Byte
  BY LayoutAssumption DEF StringResult, Sized, Byte
<1>2. Allocated(n) \in [Cell -> Byte] /\ AllocAddr(n) \in U32
  <2> HIDE DEF n
  <2> QED
    BY <1>1, AllocTyped
<1>3. \A r \in [Cell -> Byte] : \A a : Store(r, a, s) \in [Cell -> Byte]
  BY <1>1 DEF Store
<1> QED
  BY <1>2, <1>3 DEF StringStored

LEMMA FreedTyped ==
    ASSUME RAM \in [Cell -> Byte], NEW a
    PROVE  Freed(a) \in [Cell -> Byte]
<1>1. 0 \in Byte
  BY LayoutAssumption DEF Byte
<1> QED
  BY <1>1 DEF Freed, SetFlag

(* What an instruction may move to and work with is 32 bits wide.          *)
LEMMA OperandsTyped ==
    ASSUME TypeOK, ControlInv, NEW op, AtOp(op)
    PROVE  /\ PC + InsSize(op) \in U32
           /\ Ins.v \in U32
           /\ op = "ON_CHAT" => Ins.off \in U32 /\ Ins.len \in U32
           /\ \A c : Register(c) \in Registers
           /\ code.size \in U32
<1>1. PC \in DOMAIN code.ins /\ Ins = code.ins[PC] /\ Ins.op = op
      /\ PC + InsSize(op) \in Nat
  BY Decoded
<1>2. code.size \in U32 /\ PC + InsSize(op) <= code.size
  BY DEF TypeOK, Narrow, AtOp
<1>3. PC + InsSize(op) \in U32
  BY <1>1, <1>2, WordNat DEF U32
<1>4. Ins.v \in U32 /\ (op = "ON_CHAT" => Ins.off \in U32 /\ Ins.len \in U32)
  BY <1>1 DEF TypeOK, Narrow
<1>5. \A c : Register(c) \in Registers
  BY DEF Register, Registers
<1> QED
  BY <1>2, <1>3, <1>4, <1>5

(* A step that leaves the deliveries alone, and one that touches registers *)
(* and PC only.                                                            *)
LEMMA TypedStep ==
    ASSUME TypeOK, ControlInv', UNCHANGED <<code, ev>>,
           PC' \in U32, reg' \in [Registers -> U32], ZF' \in BOOLEAN, SF' \in BOOLEAN,
           stack' \in Seq(U32), UNCHANGED subs, RAM' \in [Cell -> Byte],
           own' \subseteq U32, damaged' \in BOOLEAN
    PROVE  TypeOK'
<1>1. WellFormed(code)' /\ mode' \in Modes
  BY DEF ControlInv, ControlTyped
<1>2. Narrow(code)' /\ {ev.addr, ev.savedPC, ev.bodyEnd}' \subseteq U32
  BY DEF TypeOK, Narrow
<1> QED
  BY <1>1, <1>2 DEF TypeOK

LEMMA TypedMove ==
    ASSUME TypeOK, ControlInv', PC' \in U32, reg' \in [Registers -> U32],
           ZF' \in BOOLEAN, SF' \in BOOLEAN,
           UNCHANGED <<code, stack, subs, RAM, ev, own, damaged>>
    PROVE  TypeOK'
<1>1. /\ stack' \in Seq(U32) /\ RAM' \in [Cell -> Byte] /\ own' \subseteq U32
      /\ damaged' \in BOOLEAN
  BY DEF TypeOK
<1> QED
  BY <1>1, TypedStep

LEMMA TypedStill ==
    ASSUME TypeOK, ControlInv', UNCHANGED <<PC, reg, ZF, SF>>,
           UNCHANGED <<code, stack, subs, RAM, ev, own, damaged>>
    PROVE  TypeOK'
<1>1. PC' \in U32 /\ reg' \in [Registers -> U32] /\ ZF' \in BOOLEAN /\ SF' \in BOOLEAN
  BY DEF TypeOK
<1> QED
  BY <1>1, TypedMove

LEMMA TypedAlloc ==
    ASSUME TypeOK, ControlInv, ControlInv', Alloc
    PROVE  TypeOK'
<1>1. /\ PC + InsSize("ALLOC") \in U32 /\ Ins.v \in U32
      /\ Register(Ins.a) \in Registers /\ Ins.op = "ALLOC"
  BY OperandsTyped DEF Alloc, AtOp
<1>2. CASE AllocResult(Ins.v) = "ok"
  <2>1. Ins.v \in Nat
    BY <1>1, WordNat DEF U32
  <2>2. Allocated(Ins.v) \in [Cell -> Byte] /\ AllocAddr(Ins.v) \in U32
    BY <1>2, <2>1, AllocTyped DEF TypeOK
  <2>3. /\ RAM' = Allocated(Ins.v)
        /\ reg' = [reg EXCEPT ![Register(Ins.a)] = AllocAddr(Ins.v)]
        /\ own' = own \cup {AllocAddr(Ins.v)}
        /\ damaged' = (damaged \/ Breaks(Ins.v))
        /\ PC' = PC + InsSize("ALLOC")
        /\ UNCHANGED <<code, mode, ZF, SF, stack, subs, ev>>
    BY <1>1, <1>2 DEF Alloc, Advance
  <2>4. /\ reg' \in [Registers -> U32] /\ own' \subseteq U32
        /\ ZF' \in BOOLEAN /\ SF' \in BOOLEAN /\ stack' \in Seq(U32)
    BY <1>1, <2>2, <2>3 DEF TypeOK
  <2>5. damaged' \in BOOLEAN
    BY <2>3 DEF TypeOK, Breaks, Severs
  <2> QED
    BY <1>1, <2>2, <2>3, <2>4, <2>5, TypedStep
<1>3. CASE AllocResult(Ins.v) # "ok"
  BY <1>3, TypedStill DEF Alloc, Fail, Panic
<1> QED
  BY <1>2, <1>3

LEMMA TypedMovStr ==
    ASSUME TypeOK, ControlInv, ControlInv', HeapInv, MovStr
    PROVE  TypeOK'
<1> DEFINE s == Const(Ins.v)
<1>1. /\ PC + InsSize("MOV_STR") \in U32 /\ Ins.v \in Nat
      /\ Register(Ins.a) \in Registers /\ Ins.op = "MOV_STR"
  <2>1. Ins.v \in U32 => Ins.v \in Nat
    BY WordNat DEF U32
  <2> QED
    BY <2>1, OperandsTyped DEF MovStr, AtOp
<1>2. CASE InPool(Ins.v) /\ StringResult(s) = "ok"
  <2>1. Sized(s)
    <3>1. code.consts \in Seq(Strings)
      BY DEF ControlInv, ControlTyped
    <3>2. Ins.v + 1 \in DOMAIN code.consts
      BY <1>1, <1>2, <3>1 DEF InPool
    <3> QED
      BY <3>2 DEF HeapInv, Const
  <2> DEFINE a == AllocAddr(StrLen[s] + 1)
  <2>2. /\ RAM' = StringStored(s)
        /\ reg' = [reg EXCEPT ![Register(Ins.a)] = a]
        /\ own' = own \cup {a}
        /\ damaged' = (damaged \/ Breaks(StrLen[s] + 1))
        /\ PC' = PC + InsSize("MOV_STR")
        /\ UNCHANGED <<code, mode, ZF, SF, stack, subs, ev>>
    BY <1>1, <1>2 DEF MovStr, Advance
  <2>3. StringStored(s) \in [Cell -> Byte] /\ a \in U32
    <3> HIDE DEF s
    <3> QED
      BY <1>2, <2>1, StringTyped DEF TypeOK
  <2> HIDE DEF a, s
  <2>4. /\ reg' \in [Registers -> U32] /\ own' \subseteq U32
        /\ ZF' \in BOOLEAN /\ SF' \in BOOLEAN /\ stack' \in Seq(U32)
    BY <1>1, <2>2, <2>3 DEF TypeOK
  <2>5. damaged' \in BOOLEAN
    BY <2>2 DEF TypeOK, Breaks, Severs
  <2> QED
    BY <1>1, <2>2, <2>3, <2>4, <2>5, TypedStep
<1>3. CASE ~(InPool(Ins.v) /\ StringResult(s) = "ok")
  BY <1>3, TypedStill DEF MovStr, Fail, Panic
<1> QED
  BY <1>2, <1>3

LEMMA TypedFree ==
    ASSUME TypeOK, ControlInv, ControlInv', Free
    PROVE  TypeOK'
<1> DEFINE a == reg[Register(Ins.a)]
<1>1. PC + InsSize("FREE") \in U32 /\ Ins.op = "FREE"
  BY OperandsTyped DEF Free, AtOp
<1>2. CASE FreeFails(a)
  BY <1>2, TypedStill DEF Free, Fail
<1>3. CASE ~FreeFails(a)
  <2>1. /\ RAM' = Freed(a) /\ own' = own \ {a}
        /\ damaged' = (damaged \/ a \notin own)
        /\ PC' = PC + InsSize("FREE")
        /\ UNCHANGED <<code, mode, reg, ZF, SF, stack, subs, ev>>
    BY <1>1, <1>3 DEF Free, Advance
  <2>2. Freed(a) \in [Cell -> Byte]
    BY FreedTyped DEF TypeOK
  <2> HIDE DEF a
  <2>3. /\ reg' \in [Registers -> U32] /\ own' \subseteq U32 /\ damaged' \in BOOLEAN
        /\ ZF' \in BOOLEAN /\ SF' \in BOOLEAN /\ stack' \in Seq(U32)
    BY <2>1 DEF TypeOK
  <2> QED
    BY <1>1, <2>1, <2>2, <2>3, TypedStep
<1> QED
  BY <1>2, <1>3

LEMMA TypedArith ==
    ASSUME TypeOK, ControlInv, ControlInv', NEW op \in AluOps, Arith(op)
    PROVE  TypeOK'
<1> DEFINE d == Register(Ins.a)
           y == reg[Register(Ins.b)]
<1>1. /\ PC + InsSize(op) \in U32 /\ Ins.op = op
      /\ d \in Registers /\ Register(Ins.b) \in Registers
  BY OperandsTyped DEF Arith, AtOp
<1>2. reg \in [Registers -> U32] /\ reg[d] \in U32 /\ y \in U32
  BY <1>1 DEF TypeOK
<1>3. CASE op = "DIV" /\ y = 0
  BY <1>3, TypedStill DEF Arith, Fail
<1>4. CASE ~(op = "DIV" /\ y = 0)
  <2>1. /\ reg' = [reg EXCEPT ![d] = AluResult(op, reg[d], y)]
        /\ PC' = PC + InsSize(op)
        /\ UNCHANGED <<code, mode, ZF, SF, stack, subs, RAM, ev, own, damaged>>
    BY <1>1, <1>4 DEF Arith, Advance
  <2> HIDE DEF d, y
  <2>2. AluResult(op, reg[d], y) \in U32
    BY <1>2, <1>4, AluTyped
  <2>3. reg' \in [Registers -> U32] /\ ZF' \in BOOLEAN /\ SF' \in BOOLEAN
    BY <1>1, <1>2, <2>1, <2>2 DEF TypeOK
  <2> QED
    BY <1>1, <2>1, <2>3, TypedMove
<1> QED
  BY <1>3, <1>4

LEMMA TypedJump ==
    ASSUME TypeOK, ControlInv, ControlInv', NEW op, AtOp(op), JumpTo(Ins.v)
    PROVE  TypeOK'
<1>1. Ins.v \in U32
  BY OperandsTyped
<1>2. reg \in [Registers -> U32] /\ ZF \in BOOLEAN /\ SF \in BOOLEAN
  BY DEF TypeOK
<1>3. CASE Ins.v > code.size
  BY <1>3, TypedStill DEF JumpTo, Fail
<1>4. CASE ~(Ins.v > code.size)
  BY <1>1, <1>2, <1>4, TypedMove DEF JumpTo
<1> QED
  BY <1>3, <1>4

LEMMA TypedFall ==
    ASSUME TypeOK, ControlInv, ControlInv', NEW op, AtOp(op), Advance,
           reg' \in [Registers -> U32], ZF' \in BOOLEAN, SF' \in BOOLEAN,
           UNCHANGED <<code, stack, subs, RAM, ev, own, damaged>>
    PROVE  TypeOK'
<1>1. PC' \in U32
  BY OperandsTyped DEF Advance, AtOp
<1> QED
  BY <1>1, TypedMove

LEMMA TypedOnChat ==
    ASSUME TypeOK, ControlInv, ControlInv', OnChat
    PROVE  TypeOK'
<1>1. /\ PC + InsSize("ON_CHAT") \in U32 /\ Ins.v \in U32
      /\ Ins.off \in U32 /\ Ins.len \in U32
  BY OperandsTyped DEF OnChat
<1>2. CASE ~InPool(Ins.v)
  BY <1>2, TypedStill DEF OnChat, Fail
<1>3. CASE InPool(Ins.v)
  <2> DEFINE s == [pattern    |-> Const(Ins.v), userVarReg |-> Ins.a,
                   bodyOffset |-> Ins.off, bodyLength |-> Ins.len]
  <2>1. /\ subs' = Append(subs, s) /\ PC' = SkipBody
        /\ UNCHANGED <<code, mode, reg, ZF, SF, stack, RAM, ev, own, damaged>>
    BY <1>3 DEF OnChat
  <2>2. SkipBody \in U32
    <3>1. PC + InsSize("ON_CHAT") + Ins.len \in Int
      BY <1>1, WordNat DEF U32
    <3>2. \A x \in Int : x % WordSize \in U32
      BY WordSizeNat
    <3> QED
      BY <3>1, <3>2 DEF SkipBody
  <2>3. s \in [pattern : Strings, userVarReg : Nat, bodyOffset : U32, bodyLength : U32]
    <3>1. code.consts \in Seq(Strings) /\ Ins.a \in Nat
      BY Decoded DEF ControlInv, ControlTyped, OnChat
    <3>2. Ins.v + 1 \in DOMAIN code.consts
      BY <1>1, <1>3, <3>1, WordNat DEF InPool, U32
    <3>3. Const(Ins.v) \in Strings
      BY <3>1, <3>2 DEF Const
    <3> QED
      BY <1>1, <3>1, <3>3
  <2> HIDE DEF s
  <2>4. subs' \in Seq([pattern : Strings, userVarReg : Nat,
                       bodyOffset : U32, bodyLength : U32])
    BY <2>1, <2>3, AppendProperties DEF TypeOK
  <2>5. WellFormed(code)' /\ mode' \in Modes
    BY DEF ControlInv, ControlTyped
  <2>6. Narrow(code)' /\ {ev.addr, ev.savedPC, ev.bodyEnd}' \subseteq U32
    BY <2>1 DEF TypeOK, Narrow
  <2> QED
    BY <2>1, <2>2, <2>4, <2>5, <2>6 DEF TypeOK
<1> QED
  BY <1>2, <1>3

LEMMA TypedCall ==
    ASSUME TypeOK, ControlInv, ControlInv', Call
    PROVE  TypeOK'
<1>1. PC + InsSize("CALL") \in U32 /\ Ins.v \in U32
  BY OperandsTyped DEF Call
<1>2. CASE Ins.v > code.size \/ StackFull
  BY <1>2, TypedStill DEF Call, Fail
<1>3. CASE ~(Ins.v > code.size \/ StackFull)
  <2>1. /\ stack' = Append(stack, ReturnPC) /\ PC' = Ins.v
        /\ UNCHANGED <<code, mode, reg, ZF, SF, subs, RAM, ev, own, damaged>>
    BY <1>3 DEF Call
  <2>2. stack' \in Seq(U32)
    BY <1>1, <2>1, AppendProperties DEF TypeOK, ReturnPC
  <2>3. /\ reg' \in [Registers -> U32] /\ ZF' \in BOOLEAN /\ SF' \in BOOLEAN
        /\ RAM' \in [Cell -> Byte] /\ own' \subseteq U32 /\ damaged' \in BOOLEAN
    BY <2>1 DEF TypeOK
  <2> QED
    BY <1>1, <2>1, <2>2, <2>3, TypedStep
<1> QED
  BY <1>2, <1>3

LEMMA TypedRet ==
    ASSUME TypeOK, ControlInv, ControlInv', Ret
    PROVE  TypeOK'
<1>1. CASE stack = <<>>
  BY <1>1, TypedStill DEF Ret, Fail
<1>2. CASE stack # <<>>
  <2> DEFINE top == stack[Len(stack)]
  <2>1. /\ stack' = SubSeq(stack, 1, Len(stack) - 1) /\ PC' \in {PC, top}
        /\ UNCHANGED <<code, reg, ZF, SF, subs, RAM, ev, own, damaged>>
    BY <1>2 DEF Ret
  <2>2. stack \in Seq(U32) /\ PC \in U32
    BY DEF TypeOK
  <2>3. Len(stack) \in 1 .. Len(stack)
    BY <1>2, <2>2, EmptySeq
  <2>4. top \in U32
    BY <2>2, <2>3
  <2>5. stack' \in Seq(U32)
    <3>1. Len(stack) - 1 \in Nat
      BY <2>3
    <3>2. \A k \in 1 .. (Len(stack) - 1) : stack[k] \in U32
      BY <2>2, <2>3
    <3> QED
      BY <2>1, <2>2, <3>1, <3>2, SubSeqProperties
  <2> HIDE DEF top
  <2>6. /\ reg' \in [Registers -> U32] /\ ZF' \in BOOLEAN /\ SF' \in BOOLEAN
        /\ RAM' \in [Cell -> Byte] /\ own' \subseteq U32 /\ damaged' \in BOOLEAN
        /\ PC' \in U32
    BY <2>1, <2>2, <2>4 DEF TypeOK
  <2> QED
    BY <2>1, <2>5, <2>6, TypedStep
<1> QED
  BY <1>1, <1>2

LEMMA TypedInstruction ==
    ASSUME TypeOK, ControlInv, ControlInv', HeapInv, Instruction
    PROVE  TypeOK'
<1>1. reg \in [Registers -> U32] /\ ZF \in BOOLEAN /\ SF \in BOOLEAN
  BY DEF TypeOK
<1>2. CASE MovReg
  <2>1. Register(Ins.a) \in Registers /\ Register(Ins.b) \in Registers
    BY <1>2, OperandsTyped DEF MovReg
  <2>2. reg' \in [Registers -> U32] /\ ZF' \in BOOLEAN /\ SF' \in BOOLEAN
    BY <1>1, <1>2, <2>1 DEF MovReg
  <2> QED
    BY <1>2, <2>2, TypedFall DEF MovReg
<1>3. CASE MovInt
  <2>1. Register(Ins.a) \in Registers /\ Ins.v \in U32
    BY <1>3, OperandsTyped DEF MovInt
  <2>2. reg' \in [Registers -> U32] /\ ZF' \in BOOLEAN /\ SF' \in BOOLEAN
    BY <1>1, <1>3, <2>1 DEF MovInt
  <2> QED
    BY <1>3, <2>2, TypedFall DEF MovInt
<1>4. CASE Output
  BY <1>1, <1>4, TypedFall DEF Output
<1>5. CASE Cmp
  BY <1>1, <1>5, TypedFall DEF Cmp
<1>6. CASE Jmp
  BY <1>6, TypedJump DEF Jmp
<1>7. CASE Jz
  BY <1>1, <1>7, TypedJump, TypedFall DEF Jz, FallThrough
<1>8. CASE Jnz
  BY <1>1, <1>8, TypedJump, TypedFall DEF Jnz, FallThrough
<1>9. CASE Unknown \/ Truncated
  BY <1>9, TypedStill DEF Unknown, Truncated, Fail, Panic
<1> QED
  BY <1>2, <1>3, <1>4, <1>5, <1>6, <1>7, <1>8, <1>9, TypedAlloc, TypedFree, TypedMovStr,
     TypedOnChat, TypedArith, TypedCall, TypedRet DEF Instruction

(* A step of a delivery: the code, the flags and the lists stay. *)
LEMMA TypedDelivery ==
    ASSUME TypeOK, ControlInv', UNCHANGED <<code, ZF, SF, stack, subs, own>>,
           PC' \in U32, reg' \in [Registers -> U32], RAM' \in [Cell -> Byte],
           ev'.addr \in U32, ev'.savedPC \in U32, ev'.bodyEnd \in U32,
           damaged' \in BOOLEAN
    PROVE  TypeOK'
<1>1. WellFormed(code)' /\ mode' \in Modes
  BY DEF ControlInv, ControlTyped
<1>2. Narrow(code)' /\ {ev.addr, ev.savedPC, ev.bodyEnd}' \subseteq U32
  BY DEF TypeOK, Narrow
<1>3. /\ ZF' \in BOOLEAN /\ SF' \in BOOLEAN /\ stack' \in Seq(U32) /\ own' \subseteq U32
      /\ subs' \in Seq([pattern : Strings, userVarReg : Nat,
                        bodyOffset : U32, bodyLength : U32])
  BY DEF TypeOK
<1> QED
  BY <1>1, <1>2, <1>3 DEF TypeOK

LEMMA TypedFire ==
    ASSUME TypeOK, ControlInv, ControlInv', HeapInv, FireSub
    PROVE  TypeOK'
<1> DEFINE a == AllocAddr(StrLen[ev.user] + 1)
           b == (Sub.bodyOffset + Sub.bodyLength) % WordSize
<1>1. ev.next \in 1 .. Len(subs)
  <2>1. ev.next \in Nat /\ ev.last \in Nat /\ subs \in Seq(Subscription)
    BY DEF ControlInv, ControlTyped, EventTyped
  <2>2. ev.next >= 1 /\ ev.next <= ev.last /\ ev.last <= Len(subs)
    BY DEF FireSub, Pending, ControlInv, ScanInRange
  <2> QED
    BY <2>1, <2>2
<1>2. Sub.bodyOffset \in U32 /\ Sub.bodyLength \in U32
  <2>1. subs \in Seq([pattern : Strings, userVarReg : Nat,
                     bodyOffset : U32, bodyLength : U32])
    BY DEF TypeOK
  <2> HIDE DEF a, b
  <2>2. subs[ev.next] \in [pattern : Strings, userVarReg : Nat,
                          bodyOffset : U32, bodyLength : U32]
    BY <1>1, <2>1, ElementOfSeq
  <2> QED
    BY <2>2 DEF Sub
<1>3. b \in U32
  <2>1. Sub.bodyOffset + Sub.bodyLength \in Int
    BY <1>2, WordNat DEF U32
  <2>2. \A x \in Int : x % WordSize \in U32
    BY WordSizeNat
  <2> QED
    BY <2>1, <2>2
<1>4. StringStored(ev.user) \in [Cell -> Byte] /\ a \in U32
  BY StringTyped DEF FireSub, Pending, HeapInv, TypeOK
<1>5. /\ RAM' = StringStored(ev.user) /\ reg' = [reg EXCEPT ![Sub.userVarReg] = a]
      /\ ev' = [ev EXCEPT !.addr = a, !.savedPC = PC, !.bodyEnd = b]
      /\ damaged' = (damaged \/ Breaks(StrLen[ev.user] + 1))
      /\ PC' = Sub.bodyOffset
      /\ UNCHANGED <<code, ZF, SF, stack, subs, own>>
  BY DEF FireSub
<1> HIDE DEF a, b
<1>6. ev'.addr = a /\ ev'.savedPC = PC /\ ev'.bodyEnd = b
  BY <1>5 DEF ControlInv, ControlTyped, EventTyped
<1>7. reg' \in [Registers -> U32] /\ PC \in U32
  BY <1>4, <1>5 DEF TypeOK
<1>8. damaged' \in BOOLEAN
  BY <1>5 DEF TypeOK, Breaks, Severs
<1> QED
  BY <1>2, <1>3, <1>4, <1>5, <1>6, <1>7, <1>8, TypedDelivery

LEMMA TypedEnd ==
    ASSUME TypeOK, ControlInv, ControlInv', EndBody
    PROVE  TypeOK'
<1>1. /\ RAM' = IF FreeFails(ev.addr) THEN RAM ELSE Freed(ev.addr)
      /\ PC' = ev.savedPC
      /\ ev' = [ev EXCEPT !.next = @ + 1, !.addr = 0, !.savedPC = 0, !.bodyEnd = 0]
      /\ UNCHANGED <<code, reg, ZF, SF, stack, subs, own, damaged>>
  BY DEF EndBody
<1>2. RAM' \in [Cell -> Byte]
  BY <1>1, FreedTyped DEF TypeOK
<1>3. ev'.addr = 0 /\ ev'.savedPC = 0 /\ ev'.bodyEnd = 0
  BY <1>1 DEF ControlInv, ControlTyped, EventTyped
<1>4. PC' \in U32 /\ reg' \in [Registers -> U32] /\ damaged' \in BOOLEAN
  BY <1>1 DEF TypeOK
<1>5. 0 \in U32
  BY WordSizeNat
<1> QED
  BY <1>1, <1>2, <1>3, <1>4, <1>5, TypedDelivery

LEMMA TypedBoot == WellFormed(code) /\ Narrow(code) /\ Boot => TypeOK
<1> SUFFICES ASSUME WellFormed(code), Narrow(code), Boot PROVE TypeOK
  OBVIOUS
<1>2. RAM \in [Cell -> Byte]
  BY ResetFacts DEF Boot
<1>3. 0 \in U32
  BY WordSizeNat
<1>4. reg \in [Registers -> U32]
  BY <1>3 DEF Boot
<1>5. {ev.addr, ev.savedPC, ev.bodyEnd} \subseteq U32
  BY <1>3 DEF Boot, NoEvent
<1>6. /\ stack \in Seq(U32) /\ own \subseteq U32
      /\ subs \in Seq([pattern : Strings, userVarReg : Nat,
                       bodyOffset : U32, bodyLength : U32])
  BY DEF Boot
<1> QED
  BY <1>2, <1>3, <1>4, <1>5, <1>6 DEF Boot, TypeOK, Modes

LEMMA TypedInit == Init => TypeOK
  BY TypedBoot, VMAssumption DEF Init

LEMMA TypedNext ==
    TypeOK /\ ControlInv /\ ControlInv' /\ HeapInv /\ [Next]_vars => TypeOK'
<1> SUFFICES ASSUME TypeOK, ControlInv, ControlInv', HeapInv, [Next]_vars
             PROVE  TypeOK'
  OBVIOUS
<1>1. /\ PC \in U32 /\ reg \in [Registers -> U32] /\ RAM \in [Cell -> Byte]
      /\ ev.addr \in U32 /\ ev.savedPC \in U32 /\ ev.bodyEnd \in U32
      /\ damaged \in BOOLEAN
  BY DEF TypeOK
<1>2. CASE Instruction
  BY <1>2, TypedInstruction
<1>3. CASE RunDone \/ Quit \/ FirePanic \/ UNCHANGED vars
  BY <1>3, TypedStill DEF RunDone, Quit, FirePanic, Panic, vars
<1>4. ASSUME NEW u \in Users, NEW m \in Messages, Deliver(u, m) PROVE TypeOK'
  <2>1. /\ ev'.addr = 0 /\ ev'.savedPC = 0 /\ ev'.bodyEnd = 0
        /\ UNCHANGED <<code, PC, reg, ZF, SF, stack, subs, RAM, own, damaged>>
    BY <1>4 DEF Deliver, NoEvent
  <2>2. 0 \in U32
    BY WordSizeNat
  <2> QED
    BY <1>1, <2>1, <2>2, TypedDelivery
<1>5. CASE SkipSub
  <2>1. /\ ev' = [ev EXCEPT !.next = @ + 1]
        /\ UNCHANGED <<code, PC, reg, ZF, SF, stack, subs, RAM, own, damaged>>
    BY <1>5 DEF SkipSub
  <2>2. ev'.addr = ev.addr /\ ev'.savedPC = ev.savedPC /\ ev'.bodyEnd = ev.bodyEnd
    BY <2>1 DEF ControlInv, ControlTyped, EventTyped
  <2> QED
    BY <1>1, <2>1, <2>2, TypedDelivery
<1>6. CASE EndDelivery
  <2>1. /\ ev'.addr = 0 /\ ev'.savedPC = 0 /\ ev'.bodyEnd = 0
        /\ UNCHANGED <<code, PC, reg, ZF, SF, stack, subs, RAM, own, damaged>>
    BY <1>6 DEF EndDelivery, NoEvent
  <2>2. 0 \in U32
    BY WordSizeNat
  <2> QED
    BY <1>1, <2>1, <2>2, TypedDelivery
<1> QED
  BY <1>2, <1>3, <1>4, <1>5, <1>6, TypedFire, TypedEnd DEF Next, Internal

(***************************************************************************)
(* The machine's state is always typed: every register, saved address and  *)
(* byte of RAM keeps its width, after every instruction and however the    *)
(* heap is damaged.                                                        *)
(***************************************************************************)
THEOREM MachineTyped == Spec => []TypeOK
<1>1. Init => TypeOK /\ ControlInv /\ HeapInv
  BY TypedInit, SafeInit
<1>2. TypeOK /\ ControlInv /\ HeapInv /\ [Next]_vars => (TypeOK /\ ControlInv /\ HeapInv)'
  BY TypedNext, SafeNext
<1> QED
  BY <1>1, <1>2, PTL DEF Spec

(***************************************************************************)
(* Over an intact heap the walk of an Alloc reaches a block that fits, or  *)
(* the end of RAM, in at most as many steps as RAM has bytes.              *)
(***************************************************************************)
THEOREM AllocComesBack == Spec => []AllocAnswers
<1>1. HeapInv => AllocAnswers
  <2> SUFFICES ASSUME HeapInv, Intact, NEW n \in 1 .. RAMSize
               PROVE  AllocResult(n) # "endless"
    BY DEF AllocAnswers
  <2>1. Tiled(RAM)
    BY DEF HeapInv
  <2>2. WalkStops(RAM, n)
    BY <2>1, TilesStop DEF Tiled
  <2> QED
    BY <2>2 DEF AllocResult
<1> QED
  BY <1>1, SafeInit, SafeNext, PTL DEF Spec

-----------------------------------------------------------------------------
(* Where subscriptions and the ends of handlers come from: a subscription  *)
(* is what an ON_CHAT said, and a handler ends where its subscription says. *)
RecordOf(o) ==
    LET i == code.ins[o]
    IN  [pattern    |-> Const(i.v), userVarReg |-> i.a,
         bodyOffset |-> i.off, bodyLength |-> i.len]

SubsRefer ==
    \A k \in DOMAIN subs : \E o \in DOMAIN code.ins :
        code.ins[o].op = "ON_CHAT" /\ subs[k] = RecordOf(o)

BodyBounds ==
    InHandler => /\ ev.addr # 0
                 /\ ev.bodyEnd = (Sub.bodyOffset + Sub.bodyLength) % WordSize

ReferInv == SubsRefer /\ BodyBounds

(* Only ON_CHAT subscribes, and only a delivery enters a handler.          *)
LEMMA InstructionEffects ==
    ASSUME Instruction
    PROVE  /\ UNCHANGED <<code, ev>>
           /\ OnChat \/ UNCHANGED subs
           /\ InHandler' => InHandler
<1> DEFINE Effect == /\ UNCHANGED <<code, ev, subs>>
                     /\ InHandler' => InHandler
<1>1. Fail \/ Panic => (InRun \/ InBody => Effect)
  BY DEF Fail, Panic, InHandler, InRun, InBody
<1>2. \A op : AtOp(op) => InRun \/ InBody
  BY DEF AtOp
<1>3. ASSUME UNCHANGED <<code, mode, subs, ev>> PROVE Effect
  BY <1>3 DEF InHandler
<1>4. CASE Alloc
  BY <1>1, <1>2, <1>3, <1>4 DEF Alloc
<1>5. CASE Free
  BY <1>1, <1>2, <1>3, <1>5 DEF Free
<1>6. CASE MovStr
  BY <1>1, <1>2, <1>3, <1>6 DEF MovStr
<1>7. CASE MovReg \/ MovInt \/ Output \/ Cmp
  BY <1>3, <1>7 DEF MovReg, MovInt, Output, Cmp
<1>8. CASE OnChat
  <2>1. CASE InPool(Ins.v)
    BY <1>8, <2>1 DEF OnChat, InHandler
  <2>2. CASE ~InPool(Ins.v)
    BY <1>1, <1>2, <1>8, <2>2 DEF OnChat
  <2> QED
    BY <2>1, <2>2, <1>8
<1>9. ASSUME NEW op \in AluOps, Arith(op) PROVE Effect
  BY <1>1, <1>2, <1>3, <1>9 DEF Arith
<1>10. CASE Jmp \/ Jz \/ Jnz
  BY <1>1, <1>2, <1>3, <1>10 DEF Jmp, Jz, Jnz, JumpTo, FallThrough
<1>11. CASE Call
  BY <1>1, <1>2, <1>3, <1>11 DEF Call
<1>12. CASE Ret
  BY <1>1, <1>2, <1>12 DEF Ret, InHandler, InRun, InBody
<1>13. CASE Unknown \/ Truncated
  BY <1>1, <1>2, <1>13 DEF Unknown, Truncated
<1> QED
  BY <1>4, <1>5, <1>6, <1>7, <1>8, <1>9, <1>10, <1>11, <1>12, <1>13 DEF Instruction

LEMMA Effects ==
    ASSUME Next
    PROVE  /\ UNCHANGED code
           /\ OnChat \/ UNCHANGED subs
           /\ FireSub \/ (InHandler' => InHandler /\ UNCHANGED ev)
<1>1. CASE Instruction
  BY <1>1, InstructionEffects
<1>2. CASE RunDone \/ Quit \/ SkipSub \/ FirePanic \/ EndBody \/ EndDelivery
  BY <1>2 DEF RunDone, Quit, SkipSub, FirePanic, Pending, Panic, EndBody, EndDelivery,
              InHandler
<1>3. CASE FireSub
  BY <1>3 DEF FireSub
<1>4. ASSUME NEW u, NEW m, Deliver(u, m)
      PROVE  UNCHANGED <<code, subs>> /\ (InHandler' => InHandler /\ UNCHANGED ev)
  BY <1>4 DEF Deliver, InHandler
<1> QED
  BY <1>1, <1>2, <1>3, <1>4 DEF Next, Internal

LEMMA ReferBoot == Boot => ReferInv
  BY DEF Boot, ReferInv, SubsRefer, BodyBounds, InHandler

LEMMA SubsReferStep ==
    ASSUME ControlInv, SubsRefer, Next
    PROVE  SubsRefer'
<1>1. CASE UNCHANGED <<code, subs>>
  BY <1>1 DEF SubsRefer, RecordOf, Const
<1>2. CASE OnChat
  <2>1. PC \in DOMAIN code.ins /\ Ins = code.ins[PC] /\ Ins.op = "ON_CHAT"
    BY <1>2, Decoded DEF OnChat
  <2>2. UNCHANGED code
    BY Effects
  <2>3. CASE ~InPool(Ins.v)
    <3>1. UNCHANGED subs
      BY <1>2, <2>3 DEF OnChat, Fail
    <3> QED
      BY <1>1, <2>2, <3>1
  <2>4. CASE InPool(Ins.v)
    <3>1. subs' = Append(subs, RecordOf(PC))
      BY <1>2, <2>1, <2>4 DEF OnChat, RecordOf
    <3>2. subs \in Seq(Subscription) /\ Len(subs) \in Nat
      BY DEF ControlInv, ControlTyped
    <3>3. /\ DOMAIN subs' = DOMAIN subs \cup {Len(subs) + 1}
          /\ \A k \in DOMAIN subs : subs'[k] = subs[k]
          /\ subs'[Len(subs) + 1] = RecordOf(PC)
      BY <3>1, <3>2
    <3>4. \A o : RecordOf(o)' = RecordOf(o)
      BY <2>2 DEF RecordOf, Const
    <3>5. ASSUME NEW k \in DOMAIN subs'
          PROVE  \E o \in DOMAIN code.ins :
                     code.ins[o].op = "ON_CHAT" /\ subs'[k] = RecordOf(o)
      <4>1. CASE k \in DOMAIN subs
        BY <3>3, <4>1 DEF SubsRefer
      <4>2. CASE k = Len(subs) + 1
        BY <2>1, <3>3, <4>2
      <4> QED
        BY <3>3, <3>5, <4>1, <4>2
    <3> QED
      BY <2>2, <3>4, <3>5 DEF SubsRefer
  <2> QED
    BY <2>3, <2>4
<1> QED
  BY <1>1, <1>2, Effects

LEMMA BodyBoundsStep ==
    ASSUME ControlInv, TypeOK, HeapInv, BodyBounds, Next
    PROVE  BodyBounds'
<1>1. CASE FireSub
  <2> DEFINE a == AllocAddr(StrLen[ev.user] + 1)
             b == (Sub.bodyOffset + Sub.bodyLength) % WordSize
  <2>1. /\ ev' = [ev EXCEPT !.addr = a, !.savedPC = PC, !.bodyEnd = b]
        /\ UNCHANGED subs
    BY <1>1 DEF FireSub
  <2>2. a # 0
    <3> DEFINE n == StrLen[ev.user] + 1
    <3>1. AllocResult(n) = "ok"
      BY <1>1 DEF FireSub, StringResult
    <3>2. WalkEnd(RAM, n) \in U32
      <4> HIDE DEF n
      <4> QED
        BY <3>1, WalkStopsFacts DEF AllocResult, TypeOK
    <3>3. a = WalkEnd(RAM, n) + HeaderSize
      BY DEF AllocAddr
    <3> HIDE DEF n, a
    <3> QED
      BY <3>2, <3>3, WordNat DEF U32, HeaderSize
  <2> HIDE DEF a
  <2>3. ev'.addr = a /\ ev'.bodyEnd = b /\ ev'.next = ev.next
    BY <2>1 DEF ControlInv, ControlTyped, EventTyped
  <2>4. Sub' = Sub
    BY <2>1, <2>3 DEF Sub
  <2> QED
    BY <2>2, <2>3, <2>4 DEF BodyBounds
<1>2. CASE InHandler' => InHandler /\ UNCHANGED ev
  <2> SUFFICES ASSUME InHandler, UNCHANGED ev PROVE BodyBounds'
    BY <1>2 DEF BodyBounds
  <2>1. Sub' = Sub
    <3>1. ev.next \in 1 .. Len(subs)
      <4>1. /\ ev.next \in Nat /\ ev.last \in Nat /\ subs \in Seq(Subscription)
            /\ ev.next \in 1 .. ev.last /\ ev.last <= Len(subs)
        BY DEF ControlInv, ControlTyped, EventTyped, ScanInRange, NoLateHandler
      <4> QED
        BY <4>1
    <3>2. CASE UNCHANGED subs
      BY <3>2 DEF Sub
    <3>3. CASE OnChat /\ ~UNCHANGED subs
      <4>1. PICK s : subs' = Append(subs, s)
        BY <3>3 DEF OnChat, Fail
      <4>2. subs'[ev.next] = subs[ev.next]
        BY <3>1, <4>1 DEF ControlInv, ControlTyped
      <4> QED
        BY <4>2 DEF Sub
    <3> QED
      BY <3>2, <3>3, Effects
  <2> QED
    BY <2>1 DEF BodyBounds
<1> QED
  BY <1>1, <1>2, Effects

LEMMA ReferNext ==
    ControlInv /\ TypeOK /\ HeapInv /\ ReferInv /\ [Next]_vars => ReferInv'
<1>1. ASSUME UNCHANGED vars, ReferInv PROVE ReferInv'
  BY <1>1 DEF vars, ReferInv, SubsRefer, RecordOf, Const, BodyBounds, InHandler, Sub
<1> QED
  BY <1>1, SubsReferStep, BodyBoundsStep DEF ReferInv
===================================================================================
