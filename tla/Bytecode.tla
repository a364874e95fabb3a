---------------------------------- MODULE Bytecode ----------------------------------
(***************************************************************************)
(* The code section of a .flx file, as the compiler emits it and the       *)
(* virtual machine decodes it (codegen/opcodes.go, vm/cpu/cpu.go).         *)
(*                                                                         *)
(* A program is a record: ins maps the offset of every instruction to the  *)
(* instruction, size is the length of the code section, consts the pool.   *)
(* What lies between two instruction offsets is operand bytes.             *)
(* An instruction is a record: op, the register operands a and b, and the  *)
(* 32-bit operand v; ON_CHAT also has its body's range, off and len.       *)
(***************************************************************************)
EXTENDS Alu

Registers == 1 .. 16

JumpOps == {"JMP", "JZ", "JNZ"}

InsSize(op) ==
    CASE op \in {"ALLOC", "MOV_INT", "MOV_STR"}               -> 6
      [] op \in JumpOps \cup {"SEND_CHAT", "CALL"}            -> 5
      [] op \in {"MOV_REG", "TRIGGER_PIN", "CMP"} \cup AluOps -> 3
      [] op = "FREE"                                          -> 2
      [] op = "ON_CHAT"                                       -> 14
      [] OTHER                                                -> 1

(***************************************************************************)
(* A position the program may transfer control to: an instruction, or the  *)
(* end of the code, where both of the machine's dispatch loops stop.       *)
(***************************************************************************)
Fetchable(c, p) == p \in DOMAIN c.ins \/ p >= c.size

(* Every position the instruction at offset o may lead to is fetchable.    *)
InstructionOK(c, o) ==
    LET i == c.ins[o]
    IN  /\ i.a \in Nat /\ i.v \in Nat
        /\ Fetchable(c, o + InsSize(i.op))
        /\ i.op \in JumpOps \cup {"CALL"} => Fetchable(c, i.v)
        /\ i.op = "ON_CHAT" =>
              /\ i.off \in Nat /\ i.len \in Nat
              /\ Fetchable(c, i.off)
              /\ Fetchable(c, (o + InsSize("ON_CHAT") + i.len) % WordSize)

(***************************************************************************)
(* What the compiler is to produce and the machine relies on: instructions *)
(* back to back from offset 0, every label an instruction's offset or the  *)
(* end, and every body's range from one instruction to another.            *)
(***************************************************************************)
WellFormed(c) ==
    /\ DOMAIN c.ins \subseteq Nat
    /\ c.size \in Nat
    /\ Fetchable(c, 0)
    /\ \A o \in DOMAIN c.ins : InstructionOK(c, o)
=====================================================================================
