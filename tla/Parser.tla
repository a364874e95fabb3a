---------------------------------- MODULE Parser ----------------------------------
(***************************************************************************)
(* The recursive descent parser, compiler/parser/parser.go, over its       *)
(* lexer.  Every statement but a label is a keyword and a fixed row of     *)
(* operands, so the per-statement functions are one table, Form, and one   *)
(* step takes one token.                                                   *)
(*                                                                         *)
(* pc is the Go frame on top: "statement" when parseStatement is about to  *)
(* look at curToken, "operands" inside a statement's function, "after"     *)
(* when parseStatement has returned to ParseProgram's loop or, if block    *)
(* is not 0, to the loop over the body of the ON_CHAT at program[block].   *)
(***************************************************************************)
EXTENDS Lexer

(* Strings and labels are literals; the parser computes on no words. *)
INSTANCE Ast WITH Strings <- Words, Labels <- Words, WordBits <- 32

CONSTANTS Sources,      \* source texts
          ParseInt(_),  \* the number that a row of digits spells (strconv)
          MaxInt        \* the largest int64

ASSUME ParserAssumption == Sources \subseteq Words /\ MaxInt \in Nat

VARIABLES source,
          pc,
          curToken, peekToken,
          stmt,         \* the statement being parsed
          want,         \* the operands it still wants
          block,        \* the ON_CHAT whose body is being parsed, or 0
          program,      \* the statements parsed
          errors        \* how many diagnostics were recorded

vars == <<source, pc, curToken, peekToken, stmt, want, block, program, errors>>

-----------------------------------------------------------------------------
(* An operand: the token types it may be, each with the field of the       *)
(* statement that gets its value.  expectPeek leaves a wrong token where   *)
(* it is; MOV and SEND_CHAT step on their operand before they look (loose). *)
Operand(takes) == [takes |-> takes, loose |-> FALSE]
Loose(takes)   == [takes |-> takes, loose |-> TRUE]

Register(f) == [t \in registers |-> f]
Integer(f)  == [t \in {"INT"} |-> f]
String      == [t \in {"STRING"} |-> "s"]
Name        == Operand([t \in {"IDENT"} |-> "l"])
Comma       == Operand([t \in {","} |-> "none"])

Either(f, g) == [t \in DOMAIN f \cup DOMAIN g |-> IF t \in DOMAIN f THEN f[t] ELSE g[t]]

Form(t) ==
    CASE t = "ALLOC"       -> << Operand(Register("a")), Comma, Operand(Integer("v")) >>
      [] t = "FREE"        -> << Operand(Register("a")) >>
      [] t = "MOV"         -> << Operand(Register("a")), Comma,
                                 Loose(Either(Register("b"), Either(Integer("v"), String))) >>
      [] t = "TRIGGER_PIN" -> << Operand(Integer("a")), Comma, Operand(Integer("b")) >>
      [] t = "SEND_CHAT"   -> << Loose(Either(Register("a"), String)) >>
      [] t = "ON_CHAT"     -> << Operand(String), Comma, Operand(Register("a")) >>
      [] t \in AluOps \cup {"CMP"} ->
                              << Operand(Register("a")), Comma, Operand(Register("b")) >>
      [] t \in Branch      -> << Name >>
      [] t = "RET"         -> << >>

NoStmt == [op |-> "RET", a |-> 0, b |-> 0, v |-> 0, s |-> <<>>, l |-> <<>>, body |-> 0]

(* parseRegisterLiteral, parseStringLiteral, parseIntegerLiteral. *)
Value(tok) ==
    CASE tok.type \in registers -> CHOOSE n \in 1 .. 16 : registerTokens[n] = tok.type
      [] tok.type = "INT"       -> ParseInt(tok.literal)
      [] OTHER                  -> tok.literal

Overflows(tok) == tok.type = "INT" /\ ParseInt(tok.literal) \notin 0 .. MaxInt

nextToken ==
    /\ curToken' = peekToken
    /\ peekToken' = NextToken(source, peekToken.next)

Stay == UNCHANGED <<curToken, peekToken>>

-----------------------------------------------------------------------------
AtStatement == pc = "statement" /\ curToken.type # "EOF"

BeginStatement ==
    /\ AtStatement
    /\ curToken.type \in keywords
    /\ stmt' = [NoStmt EXCEPT !.op = curToken.type]
    /\ want' = Form(curToken.type)
    /\ pc' = "operands"
    /\ Stay
    /\ UNCHANGED <<source, block, program, errors>>

(* The operand the lookahead is taken for. *)
Expected == Head(want)

Fits == peekToken.type \in DOMAIN Expected.takes

TakeOperand ==
    /\ pc = "operands" /\ want # <<>>
    /\ Fits /\ ~Overflows(peekToken)
    /\ nextToken
    /\ stmt' = LET f == Expected.takes[peekToken.type]
               IN  IF f = "none" THEN stmt ELSE [stmt EXCEPT ![f] = Value(peekToken)]
    /\ want' = Tail(want)
    /\ UNCHANGED <<source, pc, block, program, errors>>

(* A statement's function gives up. *)
GiveUp(n) ==
    /\ errors' = errors + n
    /\ pc' = "after"
    /\ stmt' = NoStmt
    /\ want' = <<>>
    /\ UNCHANGED <<source, block, program>>

WrongOperand ==
    /\ pc = "operands" /\ want # <<>>
    /\ ~Fits
    /\ IF Expected.loose THEN nextToken ELSE Stay
    /\ GiveUp(1)

(* parseExpression adds a diagnostic of its own to parseIntegerLiteral's. *)
TooLarge ==
    /\ pc = "operands" /\ want # <<>>
    /\ Fits /\ Overflows(peekToken)
    /\ nextToken
    /\ GiveUp(IF Expected.loose THEN 2 ELSE 1)

(* Mutant of Kind: the value's type is not looked at. *)
KindOfInt(op) == IF op = "MOV" THEN "MOV_INT" ELSE IF op = "SEND_CHAT" THEN "SEND_STR" ELSE op

(* curToken is the value of a MOV, the operand of a SEND_CHAT. *)
Kind(op) ==
    CASE op = "MOV" -> IF curToken.type \in registers THEN "MOV_REG"
                       ELSE IF curToken.type = "INT" THEN "MOV_INT" ELSE "MOV_STR"
      [] op = "SEND_CHAT" -> IF curToken.type \in registers THEN "SEND_REG" ELSE "SEND_STR"
      [] OTHER -> op

(* A statement is appended to the body that is open, or to the program;    *)
(* after the header of an ON_CHAT its body is open.                        *)
Append1(st) ==
    /\ program' = Append(IF block = 0 THEN program
                         ELSE [program EXCEPT ![block].body = @ + 1], st)
    /\ block' = IF st.op = "ON_CHAT" THEN Len(program) + 1 ELSE block
    /\ pc' = "after"
    /\ stmt' = NoStmt
    /\ want' = <<>>
    /\ UNCHANGED <<source, errors>>

EndStatement ==
    /\ pc = "operands" /\ want = <<>>
    /\ Append1([stmt EXCEPT !.op = Kind(@)])
    /\ Stay

(* Mutant of LabelStatement: the colon is left for the next statement. *)
LabelWithoutColon ==
    /\ AtStatement
    /\ curToken.type = "IDENT" /\ peekToken.type = ":"
    /\ Append1([NoStmt EXCEPT !.op = "LABEL", !.l = curToken.literal])
    /\ Stay

LabelStatement ==
    /\ AtStatement
    /\ curToken.type = "IDENT" /\ peekToken.type = ":"
    /\ Append1([NoStmt EXCEPT !.op = "LABEL", !.l = curToken.literal])
    /\ nextToken

(* No statement starts with this token. *)
Unexpected ==
    /\ AtStatement
    /\ curToken.type \notin keywords
    /\ ~(curToken.type = "IDENT" /\ peekToken.type = ":")
    /\ Stay
    /\ GiveUp(1)

(* Mutants of BlockStarters: FREE ends no body; RET ends one. *)
BlockStartersFewer == {"ALLOC", "ON_CHAT"}
BlockStartersAndRet == {"ALLOC", "FREE", "ON_CHAT", "RET"}

(* isBlockStarter: what ends the body of an ON_CHAT. *)
BlockStarters == {"ALLOC", "FREE", "ON_CHAT"}

(* Mutant of BodyEnds: the end of the source does not end a body. *)
BodyEndsAtStarter == peekToken.type \in BlockStarters

BodyEnds == peekToken.type \in BlockStarters \cup {"EOF"}

CloseBlock ==
    /\ pc = "after" /\ block # 0
    /\ BodyEnds
    /\ block' = 0
    /\ UNCHANGED <<source, pc, curToken, peekToken, stmt, want, program, errors>>

(* The next round of either loop. *)
NextStatement ==
    /\ pc = "after"
    /\ block # 0 => ~BodyEnds
    /\ nextToken
    /\ pc' = "statement"
    /\ UNCHANGED <<source, stmt, want, block, program, errors>>

EndOfInput ==
    /\ pc = "statement" /\ block = 0
    /\ curToken.type = "EOF"
    /\ pc' = "done"
    /\ UNCHANGED <<source, curToken, peekToken, stmt, want, block, program, errors>>

-----------------------------------------------------------------------------
Init ==
    /\ source \in Sources
    /\ pc = "statement"
    /\ curToken = NextToken(source, 1)
    /\ peekToken = NextToken(source, curToken.next)
    /\ stmt = NoStmt
    /\ want = <<>>
    /\ block = 0
    /\ program = <<>>
    /\ errors = 0

Next ==
    \/ BeginStatement \/ TakeOperand \/ WrongOperand \/ TooLarge \/ EndStatement
    \/ LabelStatement \/ Unexpected \/ CloseBlock \/ NextStatement \/ EndOfInput

Spec == Init /\ [][Next]_vars

(* ParseProgram is a plain loop in the running goroutine. *)
FairSpec == Spec /\ WF_vars(Next)

-----------------------------------------------------------------------------
TokenOf == [type : Types, literal : Words, next : 1 .. (Len(source) + 1)]

Partial == [op : keywords, a : Nat, b : Nat, v : Nat,
            s : Words, l : Words, body : {0}]

TypeOK ==
    /\ source \in Words
    /\ pc \in {"statement", "operands", "after", "done"}
    /\ curToken \in TokenOf /\ peekToken \in TokenOf
    /\ stmt \in Partial
    /\ program \in Seq(Statement)
    /\ block \in 0 .. Len(program)
    /\ errors \in Nat

(* What is wanted is the rest of the statement's form. *)
WantsRest ==
    IF pc = "operands"
    THEN LET f == Form(stmt.op)
         IN  \E n \in 0 .. Len(f) : want = SubSeq(f, n + 1, Len(f))
    ELSE want = <<>>

(* The open body ends where the program does, and what is being parsed for *)
(* it is no block starter.                                                 *)
OpenBlock ==
    block # 0 =>
        /\ program[block].op = "ON_CHAT"
        /\ block + program[block].body = Len(program)
        /\ pc = "statement" => curToken.type \notin BlockStarters \cup {"EOF"}
        /\ pc = "operands" => stmt.op \notin BlockStarters
        /\ pc # "done"

(* The AST is one the code generator walks, after syntax errors too: every *)
(* body lies in the program and holds no ALLOC, FREE or ON_CHAT, whatever  *)
(* tokens errors skipped (parser.go:123-129, 375-386).                     *)
BuildsProgram == IsProgram(program)

(* The inductive invariant of ParserProofs. *)
ParserInv ==
    /\ TypeOK /\ WantsRest /\ OpenBlock /\ BuildsProgram

(* The parser ends on every source: each round of its loops steps over at  *)
(* least one token, whatever is wrong with it (parser.go:141, 378).        *)
ParserEnds == <>(pc = "done")
====================================================================================
