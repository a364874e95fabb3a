--------------------------------- MODULE MCCodegen ---------------------------------
(***************************************************************************)
(* Sources for the model checker: every sequence of at most MaxLength      *)
(* statements that refer to labels, strings and bodies, and every pair of  *)
(* statements of all kinds.                                                *)
(***************************************************************************)
EXTENDS Codegen

CONSTANT MaxLength

S(op, a, b, v, s, l, n) ==
    [op |-> op, a |-> a, b |-> b, v |-> v, s |-> s, l |-> l, body |-> n]

Linking ==
    { S("LABEL", 0, 0, 0, "p", "x", 0), S("LABEL", 0, 0, 0, "p", "y", 0),
      S("JMP", 0, 0, 0, "p", "x", 0), S("CALL", 0, 0, 0, "p", "y", 0),
      S("MOV_STR", 1, 0, 0, "q", "x", 0), S("SEND_STR", 0, 0, 0, "p", "x", 0),
      S("FREE", 1, 0, 0, "p", "x", 0), S("ON_CHAT", 0, 0, 0, "q", "x", 1) }
    \cup { S("ON_CHAT", 2, 0, 0, "p", "x", n) : n \in 0 .. 2 }

AllKinds ==
    Linking \cup
    { S("ALLOC", 1, 0, 300, "p", "x", 0), S("ALLOC", 17, 0, 1, "p", "x", 0),
      S("MOV_INT", 16, 0, 256, "p", "x", 0), S("MOV_REG", 1, 2, 0, "p", "x", 0),
      S("MOV_REG", 1, 0, 0, "p", "x", 0), S("MOV_STR", 0, 0, 0, "p", "x", 0),
      S("TRIGGER_PIN", 257, 1, 0, "p", "x", 0), S("SEND_REG", 3, 0, 0, "p", "x", 0),
      S("SEND_REG", 17, 0, 0, "p", "x", 0), S("ADD", 1, 2, 0, "p", "x", 0),
      S("CMP", 0, 2, 0, "p", "x", 0), S("JZ", 0, 0, 0, "p", "x", 0),
      S("JNZ", 0, 0, 0, "p", "y", 0), S("RET", 0, 0, 0, "p", "x", 0) }

Sequences(stmts, n) == UNION { [1 .. m -> stmts] : m \in 0 .. n }

MCSources ==
    { s \in Sequences(Linking, MaxLength) \cup Sequences(AllKinds, 2) : IsProgram(s) }
=====================================================================================
