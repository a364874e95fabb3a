---------------------------------- MODULE FluxLang ----------------------------------
(***************************************************************************)
(* What a flux program means, said of its source: an abstract machine that *)
(* executes the statements of an AST.  It has no bytes, no offsets and no  *)
(* addresses: labels are names, return addresses are statements, and what  *)
(* the heap answers is left open.  Pipeline shows that compiling, loading  *)
(* and running a source implements it.                                     *)
(***************************************************************************)
EXTENDS Ast, FiniteSets

CONSTANTS Messages,             \* what chat lines say
          MaxCallStackDepth

VARIABLES ast,          \* the program, empty before it runs
          mode,         \* "off", "run", "listen", "scan", "body", "unwind", or an end
          at,           \* the statement to execute: its number, labels not counted
          reg, ZF, SF,
          calls,        \* the statements to return to
          handlers,     \* the ON_CHAT statements executed, in order
          chat          \* the chat line being answered

vars == <<ast, mode, at, reg, ZF, SF, calls, handlers, chat>>

NoChat == [msg |-> <<>>, next |-> 0, last |-> 0, back |-> 0]

-----------------------------------------------------------------------------
(* The number that the statement at index i of the AST has, or would have. *)
Number(i) == Cardinality({j \in 1 .. (i - 1) : ast[j].op # "LABEL"}) + 1

Index(n) == CHOOSE i \in 1 .. Len(ast) : ast[i].op # "LABEL" /\ Number(i) = n

Stmt == ast[Index(at)]

End == Number(Len(ast) + 1)

Target(l) == Number(CHOOSE i \in 1 .. Len(ast) : ast[i].op = "LABEL" /\ ast[i].l = l)

(* The first statement behind the body of ON_CHAT statement n. *)
Behind(n) == Number(Index(n) + ast[Index(n)].body + 1)

Handler == handlers[chat.next]

(* A body is left when control is behind it. *)
InBody == mode = "body" /\ at < Behind(Handler) /\ at < End

Executes(ops) == ((mode = "run" /\ at < End) \/ InBody) /\ Stmt.op \in ops

Goto(n) == at' = n /\ UNCHANGED mode
Continue == Goto(at + 1)

Abort ==
    /\ mode' = IF mode = "run" THEN "failed" ELSE "unwind"
    /\ UNCHANGED <<at, reg, ZF, SF, calls, handlers>>

Keep == UNCHANGED <<ast, chat>>

-----------------------------------------------------------------------------
Boot ==
    /\ mode = "off" /\ mode' = "run"
    /\ IsProgram(ast')
    /\ at' = 1
    /\ reg' = [r \in Registers |-> 0]
    /\ ZF' = FALSE /\ SF' = FALSE
    /\ calls' = <<>> /\ handlers' = <<>>
    /\ chat' = NoChat

Output ==
    /\ Executes({"TRIGGER_PIN", "SEND_REG", "SEND_STR"})
    /\ Continue /\ Keep
    /\ UNCHANGED <<reg, ZF, SF, calls, handlers>>

Assigned ==
    CASE Stmt.op = "MOV_INT" -> Stmt.v % WordSize
      [] Stmt.op = "MOV_REG" -> reg[Stmt.b]
      [] OTHER               -> AluResult(Stmt.op, reg[Stmt.a], reg[Stmt.b])

Assign ==
    /\ Executes({"MOV_INT", "MOV_REG"} \cup AluOps) /\ Keep
    /\ IF Stmt.op = "DIV" /\ reg[Stmt.b] = 0 THEN Abort
       ELSE /\ reg' = [reg EXCEPT ![Stmt.a] = Assigned]
            /\ Continue
            /\ UNCHANGED <<ZF, SF, calls, handlers>>

(* The heap gives an address, or none, or is so damaged that the process   *)
(* dies. *)
Memory ==
    /\ Executes({"ALLOC", "MOV_STR", "FREE"}) /\ Keep
    /\ \/ /\ IF Stmt.op = "FREE" THEN UNCHANGED reg
             ELSE \E a \in 0 .. (WordSize - 1) : reg' = [reg EXCEPT ![Stmt.a] = a]
          /\ Continue
          /\ UNCHANGED <<ZF, SF, calls, handlers>>
       \/ Abort
       \/ /\ mode' = "panicked" /\ Stmt.op # "FREE"
          /\ UNCHANGED <<at, reg, ZF, SF, calls, handlers>>

Compare ==
    /\ Executes({"CMP"})
    /\ ZF' = (reg[Stmt.a] = reg[Stmt.b])
    /\ SF' = (reg[Stmt.a] < reg[Stmt.b])
    /\ Continue /\ Keep
    /\ UNCHANGED <<reg, calls, handlers>>

Jump ==
    /\ Executes(JumpOps)
    /\ IF Stmt.op = "JMP" \/ (Stmt.op = "JZ" <=> ZF) THEN Goto(Target(Stmt.l)) ELSE Continue
    /\ Keep
    /\ UNCHANGED <<reg, ZF, SF, calls, handlers>>

Call ==
    /\ Executes({"CALL"}) /\ Keep
    /\ IF Len(calls) = MaxCallStackDepth THEN Abort
       ELSE /\ calls' = Append(calls, at + 1)
            /\ Goto(Target(Stmt.l))
            /\ UNCHANGED <<reg, ZF, SF, handlers>>

Return ==
    /\ Executes({"RET"}) /\ Keep
    /\ IF calls = <<>> THEN Abort
       ELSE /\ calls' = SubSeq(calls, 1, Len(calls) - 1)
            /\ Goto(calls[Len(calls)])
            /\ UNCHANGED <<reg, ZF, SF, handlers>>

Subscribe ==
    /\ Executes({"ON_CHAT"})
    /\ handlers' = Append(handlers, at)
    /\ Goto(Behind(at)) /\ Keep
    /\ UNCHANGED <<reg, ZF, SF, calls>>

Finish ==
    /\ mode = "run" /\ at = End
    /\ mode' = IF handlers = <<>> THEN "exited" ELSE "listen"
    /\ UNCHANGED <<ast, at, reg, ZF, SF, calls, handlers, chat>>

-----------------------------------------------------------------------------
Say(m) ==
    /\ mode = "listen" /\ mode' = "scan"
    /\ chat' = [msg |-> m, next |-> 1, last |-> Len(handlers), back |-> 0]
    /\ UNCHANGED <<ast, at, reg, ZF, SF, calls, handlers>>

Quit ==
    /\ mode = "listen" /\ mode' = "exited"
    /\ UNCHANGED <<ast, at, reg, ZF, SF, calls, handlers, chat>>

Scanning == mode = "scan" /\ chat.next <= chat.last

Wanted == ast[Index(Handler)].s = chat.msg

(* The handler runs with the address of the user's name. *)
Fire ==
    /\ Scanning /\ Wanted
    /\ mode' = "body" /\ at' = Handler + 1
    /\ \E a \in 0 .. (WordSize - 1) : reg' = [reg EXCEPT ![ast[Index(Handler)].a] = a]
    /\ chat' = [chat EXCEPT !.back = at]
    /\ UNCHANGED <<ast, ZF, SF, calls, handlers>>

(* It may not be wanted, or there is no memory for the name. *)
Skip ==
    /\ Scanning
    /\ chat' = [chat EXCEPT !.next = @ + 1]
    /\ UNCHANGED <<ast, mode, at, reg, ZF, SF, calls, handlers>>

Die ==
    /\ Scanning /\ Wanted
    /\ mode' = "panicked"
    /\ UNCHANGED <<ast, at, reg, ZF, SF, calls, handlers, chat>>

Leave ==
    /\ (mode = "body" /\ ~InBody) \/ mode = "unwind"
    /\ mode' = "scan" /\ at' = chat.back
    /\ chat' = [chat EXCEPT !.next = @ + 1, !.back = 0]
    /\ UNCHANGED <<ast, reg, ZF, SF, calls, handlers>>

Answered ==
    /\ mode = "scan" /\ chat.next > chat.last
    /\ mode' = "listen"
    /\ chat' = NoChat
    /\ UNCHANGED <<ast, at, reg, ZF, SF, calls, handlers>>

-----------------------------------------------------------------------------
Init ==
    /\ ast = <<>> /\ mode = "off" /\ at = 1
    /\ reg = [r \in Registers |-> 0]
    /\ ZF = FALSE /\ SF = FALSE
    /\ calls = <<>> /\ handlers = <<>>
    /\ chat = NoChat

Next ==
    \/ Boot
    \/ Output \/ Assign \/ Memory \/ Compare \/ Jump \/ Call \/ Return
    \/ Subscribe \/ Finish
    \/ \E m \in Messages : Say(m)
    \/ Quit \/ Fire \/ Skip \/ Die \/ Leave \/ Answered

Spec == Init /\ [][Next]_vars
=====================================================================================
