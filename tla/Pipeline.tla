---------------------------------- MODULE Pipeline ----------------------------------
(***************************************************************************)
(* The whole of flux: runEmitBinary (compiler/main.go) parses a source,    *)
(* compiles its AST and writes the file, and main (vm/main.go) loads and   *)
(* runs it.  Parser, Codegen and FluxVM are the components' own modules;   *)
(* each stage starts from what the one before left.                        *)
(***************************************************************************)
EXTENDS Lexer, FiniteSets

CONSTANTS Sources,              \* source texts
          ParseInt(_), MaxInt,
          WordBits,
          CountLimit,
          RAMSize, Base,
          StrLen, StrByte,      \* of string literals and users
          Users, Messages,      \* words
          MaxCallStackDepth, MaxSubs

VARIABLES source, pc, curToken, peekToken, stmt, want, block, program, errors,
          phase, pos, ins, size, consts, labels, fixups, faults, open, file, vm,
          mode, PC, reg, ZF, SF, stack, subs, RAM, ev, own, damaged

parser   == <<source, pc, curToken, peekToken, stmt, want, block, program, errors>>
compiler == <<phase, pos, ins, size, consts, labels, fixups, faults, open, file, vm>>
machine  == <<mode, PC, reg, ZF, SF, stack, subs, RAM, ev, own, damaged>>

vars == <<parser, compiler, machine>>

P == INSTANCE Parser

C == INSTANCE Codegen WITH
         src <- program, errors <- faults,
         Sources <- {}, Strings <- Words, Labels <- Words

V == INSTANCE FluxVM WITH
         code <- vm, Programs <- {}, Strings <- Words

ASSUME PipelineAssumption ==
    /\ Sources \subseteq Words /\ MaxInt \in Nat
    /\ WordBits \in Nat /\ WordBits >= 1
    /\ V!WordSize = Base * Base * Base * Base /\ 16 < V!Tag
    /\ CountLimit \in Nat \ {0}
    /\ Base \in Nat /\ Base >= 2
    /\ RAMSize \in Nat /\ RAMSize >= 8 /\ RAMSize + 8 < V!WordSize
    /\ MaxCallStackDepth \in Nat
    /\ \A u \in Users : StrLen[u] \in Nat /\ StrByte[u] \in 0 .. (Base - 1)

-----------------------------------------------------------------------------
Init == P!Init /\ C!New /\ V!Boot

Parse == P!Next /\ UNCHANGED <<compiler, machine>>

(* runEmitBinary: a source with syntax errors is not compiled. *)
Compile ==
    /\ pc = "done" /\ errors = 0
    /\ C!Next
    /\ UNCHANGED <<parser, machine>>

(* flux-vm runs what it could load. *)
Execute ==
    /\ phase = "loaded"
    /\ V!Next
    /\ UNCHANGED <<parser, compiler>>

Next == Parse \/ Compile \/ Execute

Spec == Init /\ [][Next]_vars

-----------------------------------------------------------------------------
(* The file format describes what was compiled: the code section's length, *)
(* the constant count and the index in SEND_CHAT's operand fit their       *)
(* fields, and the heap's model knows the strings.                         *)
Loaded == phase = "loaded"

Representable ==
    Loaded => /\ size < V!WordSize
              /\ Len(consts) < CountLimit /\ Len(consts) <= V!Tag
              /\ \A k \in DOMAIN consts : V!Sized(consts[k])

(* The instruction at an offset, counted from 1: the number of its         *)
(* statement.  Return addresses, handlers and targets are mapped alike.    *)
Number(c, o) == Cardinality({i \in DOMAIN c.ins : i < o}) + 1

Statements  == IF Loaded THEN program ELSE <<>>
Frame       == IF Loaded THEN mode ELSE "off"
Calls(c, s) == [k \in DOMAIN s |-> Number(c, s[k])]
Handlers(c, s) == [k \in DOMAIN s |-> Number(c, s[k].bodyOffset) - 1]

(* A delivery's line, and where it goes back to while a handler runs. *)
Chat(c, e) == [msg  |-> IF e.next = 0 THEN <<>> ELSE e.msg,
               next |-> e.next, last |-> e.last,
               back |-> IF e.addr = 0 THEN 0 ELSE Number(c, e.savedPC)]

Meaning == INSTANCE FluxLang WITH
    Strings  <- Words, Labels <- Words,
    ast      <- Statements,
    mode     <- Frame,
    at       <- Number(vm, PC),
    calls    <- Calls(vm, stack),
    handlers <- Handlers(vm, subs),
    chat     <- Chat(vm, ev)

(* A source that is accepted runs as its statements say, whatever offsets, *)
(* placeholders, pool indices and addresses became of them, in top-level   *)
(* code and in handlers: every register, flag, call, jump, subscription    *)
(* and end is the source's, and only the heap, DIV and the call stack make *)
(* a compiled program fail.                                                *)
SourceSemantics == Meaning!Spec

(* What the machine is about to write to the log or the chat is what the   *)
(* statement says, a pin and its state cut to a byte (codegen.go:241-273): *)
(* ast.go:190-191 says that a state is 0 or 1, which nothing checks.       *)
SaysAsWritten ==
    Loaded /\ (V!AtOp("TRIGGER_PIN") \/ V!AtOp("SEND_CHAT")) =>
        LET st == Meaning!Stmt
        IN  V!Line = CASE st.op = "TRIGGER_PIN" -> << st.a % 256, st.b % 256 >>
                       [] st.op = "SEND_STR"    -> st.s
                       [] st.op = "SEND_REG"    ->
                             IF V!HoldsText(reg[st.a]) THEN V!Text(reg[st.a]) ELSE <<>>

(* No source makes the machine decode what is not an instruction, or grow  *)
(* its call stack past the limit: what the parser leaves after errors and  *)
(* recovery is not compiled, what it accepts compiles to well-formed code, *)
(* and that never leaves its instructions (main.go:140-168, vm/main.go).   *)
RunsOnInstructions ==
    Loaded /\ size < V!WordSize =>
        /\ errors = 0 /\ P!BuildsProgram
        /\ V!WellFormed(vm) /\ V!FetchOnBoundary /\ V!StackDiscipline
=====================================================================================
