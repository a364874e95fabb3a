------------------------------------ MODULE Ast ------------------------------------
(***************************************************************************)
(* The abstract syntax tree (compiler/ast/ast.go), which the parser builds *)
(* and the code generator walks, as a sequence of statements: the body of  *)
(* an ON_CHAT is the `body` statements after it.                           *)
(***************************************************************************)
EXTENDS Bytecode, Sequences

CONSTANTS Strings,      \* string literals
          Labels        \* label names

Branch == JumpOps \cup {"CALL"}

TwoRegister == {"MOV_REG", "CMP"} \cup AluOps

(* MOV and SEND_CHAT statements are told apart by their operand. *)
Kinds == TwoRegister \cup JumpOps \cup
         {"ALLOC", "FREE", "MOV_INT", "MOV_STR", "TRIGGER_PIN", "SEND_REG",
          "SEND_STR", "ON_CHAT", "CALL", "RET", "LABEL"}

Statement == [op : Kinds, a : Nat, b : Nat, v : Nat, s : Strings, l : Labels, body : Nat]

(* What no body holds: memory belongs to the program, handlers do not nest. *)
TopLevel == {"ALLOC", "FREE", "ON_CHAT"}

(* An AST whose bodies lie within it and hold nothing of TopLevel. *)
IsProgram(p) ==
    /\ p \in Seq(Statement)
    /\ \A k \in 1 .. Len(p) : p[k].op = "ON_CHAT" =>
         /\ k + p[k].body <= Len(p)
         /\ \A j \in (k + 1) .. (k + p[k].body) : p[j].op \notin TopLevel
====================================================================================
