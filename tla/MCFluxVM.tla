-------------------------------- MODULE MCFluxVM --------------------------------
(***************************************************************************)
(* Programs for the model checker, written as sequences of instructions    *)
(* whose targets are positions in the sequence and laid out as the         *)
(* assembler does.  A target beyond the sequence is taken as an offset.    *)
(***************************************************************************)
EXTENDS FluxVM

I(op, a, b, v)    == [op |-> op, a |-> a, b |-> b, v |-> v]
OnChatOf(v, a, n) == [op |-> "ON_CHAT", a |-> a, b |-> 0, v |-> v, body |-> n]

Offset(s, i) ==
    LET off[k \in 1 .. i] == IF k = 1 THEN 0 ELSE off[k - 1] + InsSize(s[k - 1].op)
    IN  off[i]

Resolve(s, k) ==
    CASE s[k].op \in {"JMP", "JZ", "JNZ", "CALL"} /\ s[k].v <= Len(s) + 1 ->
            [s[k] EXCEPT !.v = Offset(s, s[k].v)]
      [] s[k].op = "ON_CHAT" ->
            [op |-> "ON_CHAT", a |-> s[k].a, b |-> 0, v |-> s[k].v,
             off |-> Offset(s, k + 1),
             len |-> Offset(s, k + 1 + s[k].body) - Offset(s, k + 1)]
      [] OTHER -> s[k]

(* The program s, less its last `cut` bytes. *)
Assemble(s, cut) ==
    [ins    |-> [o \in {Offset(s, k) : k \in DOMAIN s} |->
                    Resolve(s, CHOOSE k \in DOMAIN s : Offset(s, k) = o)],
     size   |-> Offset(s, Len(s) + 1) - cut,
     consts |-> <<"hi", "text">>]

MCStrings == {"hi", "text", "ann", "bob"}
MCStrByte == [s \in MCStrings |-> IF s = "ann" THEN 1 ELSE 3]

(* With their NULs the strings take 6 or 12 bytes: they lose no header.    *)
MCStrLen  == [s \in MCStrings |-> IF s = "bob" THEN 11 ELSE 5]

(***************************************************************************)
(* Two handlers for "hi" and a subroutine at 8..9, after the handlers:     *)
(*    1 MOV R1 "text"   2 ON_CHAT "hi" R2 {3 x  4 y}   5 ON_CHAT "hi" R3   *)
(*    {6 z}   7 JMP 10   8 w   9 RET                                       *)
(***************************************************************************)
Handlers(x, y, z, w) ==
    << I("MOV_STR", 1, 0, 1), OnChatOf(0, 2, 2), x, y, OnChatOf(0, 3, 1), z,
       I("JMP", 0, 0, 10), w, I("RET", 0, 0, 0) >>

(* What a handler's instructions are drawn from. *)
Steps == { I("FREE", 2, 0, 0), I("FREE", 1, 0, 0), I("MOV_STR", 1, 0, 1),
           I("MOV_REG", 1, 2, 0), I("CALL", 0, 0, 8), I("RET", 0, 0, 0),
           I("JMP", 0, 0, 5), I("DIV", 1, 4, 0), I("SEND_CHAT", 0, 0, 2),
           I("ALLOC", 1, 0, 6), OnChatOf(0, 4, 0) }

HandlerPrograms ==
    { Assemble(Handlers(x, y, z, w), 0) :
        x \in Steps, y \in Steps, z \in {I("MOV_STR", 5, 0, 1), I("DIV", 1, 4, 0)},
        w \in {I("FREE", 2, 0, 0), I("CALL", 0, 0, 8)} }

(***************************************************************************)
(* Programs that fail.  Allocating 3 bytes where a "text" of 6 was freed   *)
(* drops 3 bytes in front of a header and damages the heap.                *)
(***************************************************************************)
Faults == { I("UNKNOWN", 0, 0, 0), I("ALLOC", 1, 0, 0), I("ALLOC", 1, 0, 60),
            I("MOV_STR", 1, 0, 7), OnChatOf(7, 1, 0), I("DIV", 1, 4, 0),
            I("FREE", 4, 0, 0), I("RET", 0, 0, 0), I("JMP", 0, 0, 250),
            I("CALL", 0, 0, 250), I("JZ", 0, 0, 250), I("JNZ", 0, 0, 250),
            I("SUB", 3, 2, 0), I("MOV_INT", 6, 0, 4), I("CMP", 1, 4, 0),
            I("TRIGGER_PIN", 0, 0, 0), I("SEND_CHAT", 0, 0, 2),
            I("MOV_REG", 17, 0, 0), I("CALL", 0, 0, 1), I("ALLOC", 5, 0, 3),
            I("MOV_STR", 5, 0, 0) }

(* A fault x in a handler, in the top-level code, and cut off at the end. *)
Faulty(x) ==
    << OnChatOf(0, 2, 1), x, OnChatOf(0, 17, 0), OnChatOf(0, 3, 0),
       I("CMP", 1, 1, 0) >>

Damaging(x) ==
    << I("MOV_STR", 1, 0, 1), I("FREE", 1, 0, 0), I("ALLOC", 1, 0, 3) >>
        \o Faulty(x)

Fault(x) == << I("CMP", 1, 1, 0), OnChatOf(0, 2, 0), x >>

FaultyPrograms ==
    { Assemble(p, 0) : p \in { Faulty(x) : x \in Faults }
                         \cup { Damaging(x) : x \in Faults }
                         \cup { Fault(x) : x \in Faults } }
    \cup { Assemble(Fault(x), 1) : x \in Faults }

(***************************************************************************)
(* A loop, in the top-level code and in a handler, that counts R1 down     *)
(* from n, and a handler whose body is declared longer than the code.      *)
(***************************************************************************)
Countdown(n, first) ==
    << I("MOV_INT", 1, 0, n), I("MOV_INT", 2, 0, 1),
       I("SUB", 1, 2, 0), I("CMP", 1, 3, 0), I("JNZ", 0, 0, first + 2) >>

Looping(n) == Assemble(Countdown(n, 1) \o << OnChatOf(0, 4, 5) >> \o Countdown(n, 7), 0)

LongBody ==
    LET p == Assemble(<< OnChatOf(0, 5, 1), I("SEND_CHAT", 0, 0, 5) >>, 0)
    IN  [p EXCEPT !.ins[0].len = 40]

MCPrograms == HandlerPrograms \cup FaultyPrograms \cup { Looping(n) : n \in {1, 3} } \cup {LongBody}
=================================================================================
