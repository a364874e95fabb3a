-------------------------------- MODULE ParserProofs --------------------------------
(***************************************************************************)
(* Proofs about Parser and Lexer for every alphabet and every source:      *)
(*   - whatever is wrong with a source, what is built of it is a program   *)
(*     the code generator may walk;                                        *)
(*   - the body of an ON_CHAT ends where the next block starts;            *)
(*   - a source is refused exactly when it is no row of statements, and    *)
(*     what is accepted reads as the source;                               *)
(*   - the tokens are the source, and none of it is lost.                  *)
(***************************************************************************)
EXTENDS Grammar, Induction, TLAPS, SequenceTheorems, FiniteSetTheorems

-----------------------------------------------------------------------------
(* The lexer.                                                              *)

LEMMA CharTyped ==
    ASSUME NEW src \in Words, NEW i \in Nat \ {0}
    PROVE  /\ Ch(src, i) \in Characters
           /\ Len(src) \in Nat
           /\ Ch(src, i) # NUL => i <= Len(src)
           /\ i <= Len(src) => Ch(src, i) = src[i]
           /\ Ch(src, Len(src) + 1) = NUL
<1>1. Len(src) \in Nat
  BY DEF Words
<1>2. i <= Len(src) => src[i] \in Characters
  BY <1>1 DEF Words
<1>3. NUL \in Characters
  BY DEF Characters
<1> QED
  BY <1>1, <1>2, <1>3 DEF Ch

(* A set that NUL is in is met by every cursor.                            *)
LEMMA FirstFound ==
    ASSUME NEW src \in Words, NEW i \in 1 .. (Len(src) + 1), NEW C, NUL \in C
    PROVE  /\ First(src, i, C) \in i .. (Len(src) + 1)
           /\ Ch(src, First(src, i, C)) \in C
           /\ \A k \in i .. (First(src, i, C) - 1) : Ch(src, k) \notin C
<1> DEFINE T == {j \in i .. (Len(src) + 1) : Ch(src, j) \in C}
<1>1. Len(src) \in Nat /\ Ch(src, Len(src) + 1) = NUL
  BY CharTyped, i \in Nat \ {0}
<1>2. Len(src) + 1 \in T
  BY <1>1
<1>3. T \subseteq Nat /\ T # {}
  BY <1>2
<1>4. PICK j \in T : \A y \in T : j <= y
  <2> HIDE DEF T
  <2> QED
    BY <1>3, LeastNumber
<1>5. \A y \in T : ~ (y < j)
  BY <1>1, <1>4
<1>6. j \in i .. (Len(src) + 1) /\ Ch(src, j) \in C
  OBVIOUS
<1>7. \A k \in i .. (j - 1) : Ch(src, k) \notin C
  BY <1>1, <1>5, <1>6
<1>8. \E n \in i .. (Len(src) + 1) : Ch(src, n) \in C /\ \A k \in i .. (n - 1) : Ch(src, k) \notin C
  BY <1>6, <1>7
<1> HIDE DEF T
<1> QED
  BY <1>8 DEF First

LEMMA PastFound ==
    ASSUME NEW src \in Words, NEW i \in 1 .. (Len(src) + 1), NEW C, NUL \notin C
    PROVE  /\ Past(src, i, C) \in i .. (Len(src) + 1)
           /\ Ch(src, Past(src, i, C)) \notin C
           /\ Ch(src, i) \in C => Past(src, i, C) > i
<1>1. NUL \in Characters \ C
  BY DEF Characters
<1>2. /\ Past(src, i, C) \in i .. (Len(src) + 1)
      /\ Ch(src, Past(src, i, C)) \in Characters \ C
  BY <1>1, FirstFound DEF Past
<1> QED
  BY <1>2, CharTyped

LEMMA SliceTyped ==
    ASSUME NEW src \in Words, NEW m \in 1 .. (Len(src) + 2), NEW n \in 0 .. Len(src)
    PROVE  SubSeq(src, m, n) \in Words
<1>1. Len(src) \in Nat
  BY DEF Words
<1>2. \A k \in m .. n : src[k] \in Characters
  BY <1>1 DEF Words
<1>3. SubSeq(src, m, n) \in Seq(Characters)
  BY <1>1, <1>2, SubSeqProperties
<1> QED
  BY <1>3 DEF Words

Located(src) == [type : Types, literal : Words, next : 1 .. (Len(src) + 1)]

LEMMA TokenTyped ==
    ASSUME NEW src, NEW t \in Types, NEW w \in Words, NEW n \in 1 .. (Len(src) + 1)
    PROVE  /\ Token(t, w, n) \in Located(src)
           /\ Token(t, w, n).type = t /\ Token(t, w, n).next = n
  BY DEF Token, Located

(* A token is typed, and the cursor behind it moves unless it is EOF.      *)
LEMMA NextTokenTyped ==
    ASSUME NEW src \in Words, NEW i \in 1 .. (Len(src) + 1)
    PROVE  /\ NextToken(src, i) \in Located(src)
           /\ NextToken(src, i).type # "EOF" => NextToken(src, i).next > i
<1> DEFINE s   == Past(src, i, White)
           c   == Ch(src, s)
           end == First(src, s + 1, {Quote, NUL})
           w   == Word(src, s)
           n   == Past(src, s, Digits)
<1>1. /\ NUL \notin White /\ NUL \notin Letters \cup Digits /\ NUL \notin Digits
      /\ {Quote, ",", ":", NUL} \cap (Letters \cup Digits) = {}
  BY LexerAssumption
<1>2. /\ s \in i .. (Len(src) + 1) /\ s \in Nat \ {0} /\ Len(src) \in Nat
      /\ s \in 1 .. (Len(src) + 1)
  <2>1. s \in i .. (Len(src) + 1)
    BY <1>1, PastFound
  <2> QED
    BY <2>1 DEF Words
<1>3. c \in Characters /\ (c # NUL => s \in 1 .. Len(src))
  BY <1>2, CharTyped
<1> HIDE DEF s, c, end, w, n
<1>4. <<c>> \in Words /\ <<>> \in Words
  BY <1>3 DEF Words
<1>5. CASE c = Quote
  <2>1. s + 1 \in 1 .. (Len(src) + 1)
    BY <1>2, <1>3, <1>5 DEF Quote, NUL
  <2>2. end \in (s + 1) .. (Len(src) + 1)
    BY <2>1, FirstFound DEF end
  <2>3. Ch(src, end) = Quote => end <= Len(src)
    BY <1>2, <2>2, CharTyped DEF Quote, NUL
  <2>4. AfterString(src, end) \in 1 .. (Len(src) + 1) /\ AfterString(src, end) > i
    BY <1>2, <2>2, <2>3 DEF AfterString
  <2>5. SubSeq(src, s + 1, end - 1) \in Words
    BY <1>2, <2>1, <2>2, SliceTyped
  <2>6. NextToken(src, i) = Token("STRING", SubSeq(src, s + 1, end - 1), AfterString(src, end))
    <3>1. c \notin {",", ":"} /\ c # NUL /\ c \notin Digits /\ c \notin Letters
      BY <1>1, <1>5 DEF Quote, NUL
    <3> QED
      BY <1>5, <3>1 DEF NextToken, s, c, end
  <2>7. "STRING" \in Types
    BY DEF Types
  <2> QED
    BY <2>4, <2>5, <2>6, <2>7, TokenTyped
<1>6. CASE c \in {",", ":"}
  <2>1. NextToken(src, i) = Token(c, <<c>>, s + 1)
    <3>1. c # Quote /\ c # NUL /\ c \notin Digits /\ c \notin Letters
      BY <1>1, <1>6 DEF Quote, NUL
    <3> QED
      BY <1>6, <3>1 DEF NextToken, s, c
  <2>2. s + 1 \in 1 .. (Len(src) + 1) /\ s + 1 > i
    <3>1. c # NUL
      BY <1>6 DEF NUL
    <3> QED
      BY <1>2, <1>3, <3>1
  <2>3. c \in Types
    BY <1>6 DEF Types
  <2> QED
    BY <1>4, <2>1, <2>2, <2>3, TokenTyped
<1>7. CASE c = NUL
  <2>1. NextToken(src, i) = Token("EOF", <<>>, s)
    <3>1. c # Quote /\ c \notin {",", ":"} /\ c \notin Digits /\ c \notin Letters
      BY <1>1, <1>7 DEF Quote, NUL
    <3> QED
      BY <1>7, <3>1 DEF NextToken, s, c
  <2>2. "EOF" \in Types /\ s \in 1 .. (Len(src) + 1)
    BY <1>2 DEF Types
  <2> QED
    BY <1>4, <2>1, <2>2, TokenTyped
<1>8. CASE c \in Digits
  <2>1. NextToken(src, i) = Token("INT", SubSeq(src, s, n - 1), n)
    <3>1. c # Quote /\ c \notin {",", ":"} /\ c # NUL /\ c \notin Letters
      BY <1>1, <1>8, LexerAssumption
    <3> QED
      BY <1>8, <3>1 DEF NextToken, s, c, n
  <2>2. n \in s .. (Len(src) + 1) /\ n > s
    <3>1. Ch(src, s) \in Digits
      BY <1>8 DEF c
    <3>2. NUL \notin Digits
      BY <1>1
    <3> QED
      BY <1>2, <3>1, <3>2, PastFound DEF n
  <2>3. n \in 1 .. (Len(src) + 1) /\ n > i
    BY <1>2, <2>2
  <2>4. SubSeq(src, s, n - 1) \in Words
    BY <1>2, <2>3, SliceTyped
  <2>5. "INT" \in Types
    BY DEF Types
  <2> QED
    BY <2>1, <2>3, <2>4, <2>5, TokenTyped
<1>9. CASE c \in Letters \ Digits
  <2> DEFINE t == LookupIdent(SubSeq(src, s, w - 1))
  <2>1. NextToken(src, i) = Token(t, SubSeq(src, s, w - 1), w)
    <3>1. c # Quote /\ c \notin {",", ":"} /\ c # NUL /\ c \notin Digits /\ c \in Letters
      BY <1>1, <1>9
    <3> QED
      BY <3>1 DEF NextToken, s, c, w
  <2>2. w \in s .. (Len(src) + 1) /\ w > s
    <3>1. Ch(src, s) \in Letters \cup Digits
      BY <1>9 DEF c
    <3>2. NUL \notin Letters \cup Digits
      BY <1>1
    <3> QED
      BY <1>2, <3>1, <3>2, PastFound DEF w, Word
  <2>3. w \in 1 .. (Len(src) + 1) /\ w > i
    BY <1>2, <2>2
  <2>4. SubSeq(src, s, w - 1) \in Words
    BY <1>2, <2>3, SliceTyped
  <2>5. t \in Types
    BY LexerAssumption DEF LookupIdent, Types
  <2> HIDE DEF t
  <2> QED
    BY <2>1, <2>3, <2>4, <2>5, TokenTyped
<1>10. CASE c \notin {Quote, ",", ":", NUL} \cup Letters \cup Digits
  <2>1. NextToken(src, i) = Token("ILLEGAL", <<c>>, s + 1)
    BY <1>10 DEF NextToken, s, c
  <2>2. s + 1 \in 1 .. (Len(src) + 1) /\ s + 1 > i
    <3>1. c # NUL
      BY <1>10
    <3> QED
      BY <1>2, <1>3, <3>1
  <2>3. "ILLEGAL" \in Types
    BY DEF Types
  <2> QED
    BY <1>4, <2>1, <2>2, <2>3, TokenTyped
<1> QED
  BY <1>5, <1>6, <1>7, <1>8, <1>9, <1>10

-----------------------------------------------------------------------------
(* The parser: what a statement's operands are.                            *)

LEMMA RegisterNames ==
    /\ "INT" \notin registers /\ "STRING" \notin registers
    /\ "IDENT" \notin registers /\ "," \notin registers
    /\ \A t \in registers : \E n \in 1 .. 16 : registerTokens[n] = t
<1>1. \A n \in 1 .. 16 :
        registerTokens[n] \in {"R1", "R2", "R3", "R4", "R5", "R6", "R7", "R8", "R9", "R10",
                               "R11", "R12", "R13", "R14", "R15", "R16"}
  BY DEF registerTokens
<1> QED
  BY <1>1 DEF registers

(* Every operand that some form has. *)
Slots == { Operand(Register("a")), Operand(Register("b")), Operand(Integer("a")),
           Operand(Integer("b")), Operand(Integer("v")), Operand(String), Name, Comma,
           Loose(Either(Register("b"), Either(Integer("v"), String))),
           Loose(Either(Register("a"), String)) }

LEMMA FormTyped ==
    ASSUME NEW t \in keywords
    PROVE  Form(t) \in Seq(Slots)
<1>1. /\ Operand(Register("a")) \in Slots /\ Operand(Register("b")) \in Slots
      /\ Operand(Integer("a")) \in Slots /\ Operand(Integer("b")) \in Slots
      /\ Operand(Integer("v")) \in Slots /\ Operand(String) \in Slots
      /\ Name \in Slots /\ Comma \in Slots
      /\ Loose(Either(Register("b"), Either(Integer("v"), String))) \in Slots
      /\ Loose(Either(Register("a"), String)) \in Slots
  BY DEF Slots
<1> HIDE DEF Slots
<1>2. CASE t = "ALLOC"
  BY <1>1, <1>2 DEF Form, AluOps, Branch, JumpOps
<1>3. CASE t = "FREE"
  BY <1>1, <1>3 DEF Form, AluOps, Branch, JumpOps
<1>4. CASE t = "MOV"
  BY <1>1, <1>4 DEF Form, AluOps, Branch, JumpOps
<1>5. CASE t = "TRIGGER_PIN"
  BY <1>1, <1>5 DEF Form, AluOps, Branch, JumpOps
<1>6. CASE t = "SEND_CHAT"
  BY <1>1, <1>6 DEF Form, AluOps, Branch, JumpOps
<1>7. CASE t = "ON_CHAT"
  BY <1>1, <1>7 DEF Form, AluOps, Branch, JumpOps
<1>8. CASE t \in AluOps \cup {"CMP"}
  BY <1>1, <1>8 DEF Form, AluOps, Branch, JumpOps
<1>9. CASE t \in Branch
  BY <1>1, <1>9 DEF Form, AluOps, Branch, JumpOps
<1>10. CASE t = "RET"
  BY <1>1, <1>10 DEF Form, AluOps, Branch, JumpOps
<1> QED
  BY <1>2, <1>3, <1>4, <1>5, <1>6, <1>7, <1>8, <1>9, <1>10 DEF keywords, AluOps, Branch, JumpOps

(* The field that an operand's value goes to holds values of its type.     *)
LEMMA SlotTyped ==
    ASSUME NEW o \in Slots, NEW t \in DOMAIN o.takes
    PROVE  \/ t \in registers \cup {"INT"} /\ o.takes[t] \in {"a", "b", "v"}
           \/ t = "STRING" /\ o.takes[t] = "s"
           \/ t = "IDENT" /\ o.takes[t] = "l"
           \/ t = "," /\ o.takes[t] = "none"
<1>1. ASSUME NEW f, o = Operand(Register(f)) \/ o = Operand(Integer(f))
      PROVE  t \in registers \cup {"INT"} /\ o.takes[t] = f
  BY <1>1 DEF Operand, Register, Integer
<1>2. ASSUME o \in {Operand(String), Name, Comma}
      PROVE  \/ t = "STRING" /\ o.takes[t] = "s"
             \/ t = "IDENT" /\ o.takes[t] = "l"
             \/ t = "," /\ o.takes[t] = "none"
  <2>1. CASE o = Operand(String)
    BY <2>1 DEF Operand, String
  <2>2. CASE o = Name
    BY <2>2 DEF Operand, Name
  <2>3. CASE o = Comma
    BY <2>3 DEF Operand, Comma
  <2> QED
    BY <1>2, <2>1, <2>2, <2>3
<1>3. ASSUME o = Loose(Either(Register("a"), String))
      PROVE  \/ t \in registers /\ o.takes[t] = "a"
             \/ t = "STRING" /\ o.takes[t] = "s"
  BY <1>3, RegisterNames DEF Loose, Either, Register, String
<1>4. ASSUME o = Loose(Either(Register("b"), Either(Integer("v"), String)))
      PROVE  \/ t \in registers /\ o.takes[t] = "b"
             \/ t = "INT" /\ o.takes[t] = "v"
             \/ t = "STRING" /\ o.takes[t] = "s"
  BY <1>4, RegisterNames DEF Loose, Either, Register, Integer, String
<1> QED
  BY <1>1, <1>2, <1>3, <1>4 DEF Slots

LEMMA ValueTyped ==
    ASSUME NEW tok, tok.type \in Types, tok.literal \in Words, ~Overflows(tok)
    PROVE  /\ tok.type \in registers \cup {"INT"} => Value(tok) \in Nat
           /\ tok.type \notin registers \cup {"INT"} => Value(tok) \in Words
<1>1. CASE tok.type \in registers
  <2>1. Value(tok) = CHOOSE n \in 1 .. 16 : registerTokens[n] = tok.type
    BY <1>1, RegisterNames DEF Value
  <2>2. \E n \in 1 .. 16 : registerTokens[n] = tok.type
    BY <1>1, RegisterNames
  <2>3. Value(tok) \in 1 .. 16
    BY <2>1, <2>2
  <2> QED
    BY <1>1, <2>3
<1>2. CASE tok.type = "INT"
  <2>1. tok.type \notin registers
    BY <1>2, RegisterNames
  <2>2. Value(tok) = ParseInt(tok.literal)
    BY <1>2, <2>1 DEF Value
  <2>3. ParseInt(tok.literal) \in 0 .. MaxInt
    BY <1>2 DEF Overflows
  <2>4. MaxInt \in Nat
    BY ParserAssumption
  <2> QED
    BY <1>2, <2>2, <2>3, <2>4
<1>3. CASE tok.type \notin registers \cup {"INT"}
  BY <1>3 DEF Value
<1> QED
  BY <1>1, <1>2, <1>3

(* What is wanted next, and what is wanted behind it. *)
LEMMA WantsHead ==
    ASSUME TypeOK, WantsRest, pc = "operands", want # <<>>
    PROVE  /\ Expected \in Slots
           /\ LET f == Form(stmt.op)
              IN  \E n \in 0 .. Len(f) : Tail(want) = SubSeq(f, n + 1, Len(f))
<1> DEFINE f == Form(stmt.op)
<1>1. f \in Seq(Slots)
  BY FormTyped DEF TypeOK, Partial
<1>2. Len(f) \in Nat
  BY <1>1
<1>3. PICK n \in 0 .. Len(f) : want = SubSeq(f, n + 1, Len(f))
  BY DEF WantsRest
<1> HIDE DEF f
<1>4. n < Len(f)
  BY <1>2, <1>3, SubSeqEmpty
<1>5. n + 1 \in 1 .. Len(f) /\ Len(f) \in (n + 1) .. Len(f) /\ n + 1 \in 0 .. Len(f)
  BY <1>2, <1>4
<1>6. Head(want) = f[n + 1] /\ Tail(want) = SubSeq(f, (n + 1) + 1, Len(f))
  BY <1>1, <1>3, <1>5, HeadTailOfSubSeq
<1>7. f[n + 1] \in Slots
  BY <1>1, <1>5
<1> QED
  BY <1>5, <1>6, <1>7 DEF Expected, f

-----------------------------------------------------------------------------
(* The invariant.                                                          *)

LEMMA NoStmtTyped == NoStmt \in Partial /\ NoStmt.op \notin {"ON_CHAT"}
<1>1. <<>> \in Words /\ "RET" \in keywords
  BY DEF Words, keywords
<1> QED
  BY <1>1 DEF NoStmt, Partial

LEMMA ParserInit == Init => ParserInv
<1> SUFFICES ASSUME Init PROVE ParserInv
  OBVIOUS
<1>1. source \in Words
  BY ParserAssumption DEF Init
<1>2. curToken \in Located(source)
  <2>1. 1 \in 1 .. (Len(source) + 1)
    BY <1>1 DEF Words
  <2> QED
    BY <1>1, <2>1, NextTokenTyped DEF Init
<1>3. peekToken \in Located(source)
  <2>1. curToken.next \in 1 .. (Len(source) + 1)
    BY <1>2 DEF Located
  <2> QED
    BY <1>1, <2>1, NextTokenTyped DEF Init
<1>4. TypeOK
  BY <1>1, <1>2, <1>3, NoStmtTyped DEF Init, TypeOK, TokenOf, Located
<1> QED
  BY <1>4 DEF Init, ParserInv, WantsRest, OpenBlock, BuildsProgram, IsProgram

(* Both tokens are typed after a step on, and after none. *)
LEMMA TokensTyped ==
    ASSUME TypeOK, UNCHANGED source, nextToken \/ Stay
    PROVE  curToken' \in TokenOf' /\ peekToken' \in TokenOf'
<1>1. CASE Stay
  BY <1>1 DEF Stay, TypeOK, TokenOf
<1>2. CASE nextToken
  <2>1. source \in Words /\ peekToken.next \in 1 .. (Len(source) + 1)
    BY DEF TypeOK, TokenOf
  <2>2. NextToken(source, peekToken.next) \in Located(source)
    BY <2>1, NextTokenTyped
  <2> QED
    BY <1>2, <2>2 DEF nextToken, TypeOK, TokenOf, Located
<1> QED
  BY <1>1, <1>2

(* A statement is appended, and the open body holds it.                    *)
LEMMA Appended ==
    ASSUME ParserInv, NEW st \in Statement, Append1(st)
    PROVE  LET n == Len(program)
           IN  /\ program \in Seq(Statement) /\ n \in Nat /\ block \in 0 .. n
               /\ program' \in Seq(Statement) /\ Len(program') = n + 1
               /\ program'[n + 1] = st
               /\ \A k \in 1 .. n : program'[k].op = program[k].op
               /\ \A k \in 1 .. n : k # block => program'[k] = program[k]
               /\ block # 0 => program'[block] = [program[block] EXCEPT !.body = @ + 1]
<1> DEFINE base == IF block = 0 THEN program
                   ELSE [program EXCEPT ![block].body = @ + 1]
           n    == Len(program)
<1>1. program \in Seq(Statement) /\ n \in Nat /\ block \in 0 .. n
  BY DEF ParserInv, TypeOK
<1>2. /\ base \in Seq(Statement) /\ Len(base) = n
      /\ \A k \in 1 .. n : base[k].op = program[k].op
      /\ \A k \in 1 .. n : k # block => base[k] = program[k]
      /\ block # 0 => base[block] = [program[block] EXCEPT !.body = @ + 1]
  <2>1. CASE block = 0
    BY <1>1, <2>1
  <2>2. CASE block # 0
    <3>1. block \in 1 .. n
      BY <1>1, <2>2
    <3>2. program[block] \in Statement
      BY <1>1, <3>1
    <3>3. [program[block] EXCEPT !.body = @ + 1] \in Statement
      BY <3>2 DEF Statement
    <3>4. base = [program EXCEPT ![block] = [program[block] EXCEPT !.body = @ + 1]]
      BY <2>2
    <3>5. base \in Seq(Statement) /\ Len(base) = n
      BY <1>1, <3>1, <3>3, <3>4, ExceptSeq
    <3>6. \A k \in 1 .. n : base[k] = IF k = block THEN [program[block] EXCEPT !.body = @ + 1]
                                      ELSE program[k]
      BY <1>1, <3>1, <3>4
    <3> QED
      BY <3>1, <3>2, <3>5, <3>6 DEF Statement
  <2> QED
    BY <2>1, <2>2
<1>3. program' = Append(base, st)
  BY DEF Append1
<1> HIDE DEF base
<1>4. /\ program' \in Seq(Statement) /\ Len(program') = n + 1
      /\ \A k \in 1 .. n : program'[k] = base[k]
      /\ program'[n + 1] = st
  BY <1>1, <1>2, <1>3, AppendProperties
<1>5. block # 0 => block \in 1 .. n
  BY <1>1
<1> QED
  BY <1>1, <1>2, <1>4, <1>5

(* What is built stays a program.                                          *)
LEMMA AppendKeeps ==
    ASSUME ParserInv, NEW st \in Statement, st.body = 0,
           block # 0 => st.op \notin BlockStarters,
           Append1(st), nextToken \/ Stay
    PROVE  ParserInv'
<1> DEFINE n == Len(program)
<1>1. program \in Seq(Statement) /\ n \in Nat /\ block \in 0 .. n
  BY DEF ParserInv, TypeOK
<1>2. /\ \A k \in 1 .. n : program'[k].op = program[k].op
      /\ \A k \in 1 .. n : k # block => program'[k] = program[k]
      /\ block # 0 => program'[block].body = program[block].body + 1
  <2>1. \A k \in 1 .. n : program[k] \in Statement
    BY <1>1
  <2>2. block # 0 => program[block] \in Statement
    BY <1>1, <2>1
  <2> QED
    BY <2>2, Appended DEF Statement
<1>4. /\ program' \in Seq(Statement) /\ Len(program') = n + 1
      /\ program'[n + 1] = st
  BY Appended
<1>5. block' = IF st.op = "ON_CHAT" THEN n + 1 ELSE block
  BY DEF Append1
<1>6. TypeOK'
  <2>1. curToken' \in TokenOf' /\ peekToken' \in TokenOf'
    BY TokensTyped DEF ParserInv, Append1
  <2>2. block' \in 0 .. Len(program')
    BY <1>1, <1>4, <1>5
  <2> QED
    BY <1>4, <2>1, <2>2, NoStmtTyped DEF ParserInv, TypeOK, Append1, Partial
<1>7. WantsRest'
  BY DEF Append1, WantsRest
<1>8. block # 0 => /\ program[block].op = "ON_CHAT"
                   /\ block + program[block].body = n
  BY DEF ParserInv, OpenBlock
<1>9. OpenBlock'
  <2>1. CASE st.op = "ON_CHAT"
    BY <1>1, <1>4, <1>5, <2>1 DEF OpenBlock, Append1
  <2>2. CASE st.op # "ON_CHAT" /\ block # 0
    <3>1. block \in 1 .. n /\ program[block].body \in Nat
      <4>1. block \in 1 .. n
        BY <1>1, <2>2
      <4>2. program[block] \in Statement
        BY <1>1, <4>1
      <4> QED
        BY <4>1, <4>2 DEF Statement
    <3>2. program'[block].op = "ON_CHAT" /\ program'[block].body = program[block].body + 1
      BY <1>2, <1>4, <1>8, <2>2, <3>1
    <3>3. block' = block /\ pc' = "after"
      BY <1>5, <2>2 DEF Append1
    <3>4. block + program'[block].body = n + 1
      <4>1. PICK x \in Nat : program[block].body = x
        BY <3>1
      <4>2. block + x = n
        BY <1>8, <2>2, <4>1
      <4>3. program'[block].body = x + 1
        BY <3>2, <4>1
      <4> QED
        BY <1>1, <4>2, <4>3
    <3> QED
      BY <1>4, <3>2, <3>3, <3>4 DEF OpenBlock
  <2>3. CASE st.op # "ON_CHAT" /\ block = 0
    BY <1>5, <2>3 DEF OpenBlock
  <2> QED
    BY <2>1, <2>2, <2>3
<1>10. BuildsProgram'
  <2> SUFFICES ASSUME NEW k \in 1 .. (n + 1), program'[k].op = "ON_CHAT"
               PROVE  /\ k + program'[k].body <= n + 1
                      /\ \A j \in (k + 1) .. (k + program'[k].body) :
                            program'[j].op \notin TopLevel
    BY <1>4 DEF BuildsProgram, IsProgram
  <2>1. CASE k = n + 1
    <3>1. program'[k].body = 0
      BY <1>4, <2>1
    <3> QED
      BY <1>1, <2>1, <3>1
  <2>2. CASE k \in 1 .. n
    <3>1. program[k].op = "ON_CHAT" /\ program[k].body \in Nat
      <4>1. program[k] \in Statement
        BY <1>1, <2>2
      <4>2. program[k].op = "ON_CHAT"
        BY <1>2, <1>4, <2>2
      <4> QED
        BY <4>1, <4>2 DEF Statement
    <3>2. /\ k + program[k].body <= n
          /\ \A j \in (k + 1) .. (k + program[k].body) : program[j].op \notin TopLevel
      BY <2>2, <3>1 DEF ParserInv, BuildsProgram, IsProgram
    <3>3. \A j \in (k + 1) .. (k + program[k].body) : program'[j].op \notin TopLevel
      <4>1. \A j \in 1 .. n : program'[j].op = program[j].op
        BY <1>2, <1>4
      <4>2. \A j \in (k + 1) .. (k + program[k].body) : j \in 1 .. n
        BY <1>1, <2>2, <3>1, <3>2
      <4> QED
        BY <3>2, <4>1, <4>2
    <3>4. CASE k # block
      <4>1. program'[k].body = program[k].body
        BY <1>2, <1>4, <2>2, <3>4
      <4> QED
        BY <1>1, <3>1, <3>2, <3>3, <4>1
    <3>5. CASE k = block
      <4>1. program'[k].body = program[k].body + 1 /\ k + program[k].body = n
        BY <1>1, <1>2, <1>4, <1>8, <2>2, <3>5
      <4>2. program'[n + 1].op \notin TopLevel
        BY <1>1, <1>4, <2>2, <3>5 DEF TopLevel, BlockStarters
      <4>3. k + program'[k].body = n + 1
        <5>1. PICK x \in Nat : program[k].body = x
          BY <3>1
        <5>2. k + x = n
          BY <4>1, <5>1
        <5>3. program'[k].body = x + 1
          BY <4>1, <5>1
        <5> QED
          BY <1>1, <2>2, <5>2, <5>3
      <4>4. ASSUME NEW j \in (k + 1) .. (n + 1) PROVE program'[j].op \notin TopLevel
        <5>1. j = n + 1 \/ j \in (k + 1) .. n
          BY <1>1, <2>2, <4>4
        <5> QED
          BY <3>3, <4>1, <4>2, <5>1
      <4> QED
        BY <1>1, <4>3, <4>4
    <3> QED
      BY <3>4, <3>5
  <2> QED
    BY <1>1, <2>1, <2>2
<1> QED
  BY <1>6, <1>7, <1>9, <1>10 DEF ParserInv

(* A step that ends no statement touches neither the program nor a block.  *)
LEMMA GiveUpKeeps ==
    ASSUME ParserInv, GiveUp(1) \/ GiveUp(2), nextToken \/ Stay
    PROVE  ParserInv'
<1>1. UNCHANGED <<source, block, program>> /\ pc' = "after" /\ stmt' = NoStmt /\ want' = <<>>
  BY DEF GiveUp
<1>2. TypeOK'
  <2>1. curToken' \in TokenOf' /\ peekToken' \in TokenOf'
    BY <1>1, TokensTyped DEF ParserInv
  <2>2. errors' \in Nat
    BY DEF GiveUp, ParserInv, TypeOK
  <2> QED
    BY <1>1, <2>1, <2>2, NoStmtTyped DEF ParserInv, TypeOK, Partial
<1> QED
  BY <1>1, <1>2 DEF ParserInv, WantsRest, OpenBlock, BuildsProgram, IsProgram

LEMMA BeginKeeps == ParserInv /\ BeginStatement => ParserInv'
<1> SUFFICES ASSUME ParserInv, BeginStatement PROVE ParserInv'
  OBVIOUS
<1>1. /\ UNCHANGED <<source, block, program, errors, curToken, peekToken>>
      /\ pc = "statement" /\ pc' = "operands" /\ want' = Form(curToken.type)
      /\ curToken.type \in keywords
      /\ stmt' = [NoStmt EXCEPT !.op = curToken.type]
  BY DEF BeginStatement, AtStatement, Stay
<1>2. stmt' \in Partial /\ stmt'.op = curToken.type
  BY <1>1, NoStmtTyped DEF Partial
<1>3. TypeOK'
  BY <1>1, <1>2 DEF ParserInv, TypeOK, TokenOf, Partial
<1>4. WantsRest'
  <2>1. Form(stmt'.op) \in Seq(Slots)
    BY <1>1, <1>2, FormTyped
  <2>2. want' = SubSeq(Form(stmt'.op), 0 + 1, Len(Form(stmt'.op)))
    BY <1>1, <1>2, <2>1, SubSeqFull
  <2>3. 0 \in 0 .. Len(Form(stmt'.op))
    BY <2>1
  <2>4. \E n \in 0 .. Len(Form(stmt'.op)) :
            want' = SubSeq(Form(stmt'.op), n + 1, Len(Form(stmt'.op)))
    BY <2>2, <2>3
  <2> QED
    BY <1>1, <2>4 DEF WantsRest
<1>5. OpenBlock'
  BY <1>1, <1>2 DEF ParserInv, OpenBlock
<1> QED
  BY <1>1, <1>3, <1>4, <1>5 DEF ParserInv, BuildsProgram, IsProgram

(* An operand goes to its field and leaves the statement typed. *)
LEMMA OperandTaken ==
    ASSUME ParserInv, TakeOperand
    PROVE  stmt' \in Partial /\ stmt'.op = stmt.op
<1> DEFINE t == peekToken.type
           f == Expected.takes[t]
<1>1. /\ UNCHANGED <<source, pc, block, program, errors>> /\ nextToken
      /\ pc = "operands" /\ want # <<>>
      /\ t \in DOMAIN Expected.takes /\ ~Overflows(peekToken)
      /\ stmt' = IF f = "none" THEN stmt ELSE [stmt EXCEPT ![f] = Value(peekToken)]
      /\ want' = Tail(want)
  BY DEF TakeOperand, Fits
<1>2. stmt \in Partial /\ peekToken \in TokenOf
  BY DEF ParserInv, TypeOK
<1>3. /\ Expected \in Slots
      /\ \E n \in 0 .. Len(Form(stmt.op)) :
            Tail(want) = SubSeq(Form(stmt.op), n + 1, Len(Form(stmt.op)))
  BY <1>1, WantsHead DEF ParserInv
<1>4. \/ t \in registers \cup {"INT"} /\ f \in {"a", "b", "v"}
      \/ t = "STRING" /\ f = "s"
      \/ t = "IDENT" /\ f = "l"
      \/ t = "," /\ f = "none"
  BY <1>1, <1>3, SlotTyped
<1>5. /\ t \in registers \cup {"INT"} => Value(peekToken) \in Nat
      /\ t \notin registers \cup {"INT"} => Value(peekToken) \in Words
  BY <1>1, <1>2, ValueTyped DEF TokenOf
<1> HIDE DEF f
<1> QED
  <2>1. CASE t \in registers \cup {"INT"} /\ f \in {"a", "b", "v"}
    BY <1>1, <1>2, <1>5, <2>1 DEF Partial
  <2>2. CASE t = "STRING" /\ f = "s"
    BY <1>1, <1>2, <1>5, <2>2, RegisterNames DEF Partial
  <2>3. CASE t = "IDENT" /\ f = "l"
    BY <1>1, <1>2, <1>5, <2>3, RegisterNames DEF Partial
  <2>4. CASE f = "none"
    BY <1>1, <1>2, <2>4
  <2> QED
    BY <1>4, <2>1, <2>2, <2>3, <2>4

LEMMA TakeKeeps == ParserInv /\ TakeOperand => ParserInv'
<1> SUFFICES ASSUME ParserInv, TakeOperand PROVE ParserInv'
  OBVIOUS
<1>1. /\ UNCHANGED <<source, pc, block, program, errors>> /\ nextToken
      /\ pc = "operands" /\ want # <<>> /\ want' = Tail(want)
  BY DEF TakeOperand
<1>3. \E n \in 0 .. Len(Form(stmt.op)) :
         Tail(want) = SubSeq(Form(stmt.op), n + 1, Len(Form(stmt.op)))
  BY <1>1, WantsHead DEF ParserInv
<1>6. stmt' \in Partial /\ stmt'.op = stmt.op
  BY OperandTaken
<1>7. TypeOK'
  <2>1. curToken' \in TokenOf' /\ peekToken' \in TokenOf'
    BY <1>1, TokensTyped DEF ParserInv
  <2> QED
    BY <1>1, <1>6, <2>1 DEF ParserInv, TypeOK, Partial
<1>8. WantsRest'
  BY <1>1, <1>3, <1>6 DEF WantsRest
<1>9. OpenBlock'
  BY <1>1, <1>6 DEF ParserInv, OpenBlock
<1> QED
  BY <1>1, <1>7, <1>8, <1>9 DEF ParserInv, BuildsProgram, IsProgram

(* What EndStatement appends is a statement of the AST. *)
LEMMA CompletedTyped ==
    ASSUME NEW st \in Partial
    PROVE  LET full == [st EXCEPT !.op = Kind(@)]
           IN  /\ full \in Statement /\ full.body = 0
               /\ st.op \notin BlockStarters => full.op \notin BlockStarters
<1>1. /\ Kind(st.op) \in Kinds
      /\ st.op \notin BlockStarters => Kind(st.op) \notin BlockStarters
  BY DEF Partial, Kind, Kinds, keywords, TwoRegister, JumpOps, AluOps, BlockStarters
<1> QED
  BY <1>1 DEF Partial, Statement

LEMMA LabelTyped ==
    ASSUME NEW w \in Words
    PROVE  LET st == [NoStmt EXCEPT !.op = "LABEL", !.l = w]
           IN  st \in Statement /\ st.body = 0 /\ st.op \notin BlockStarters
<1>1. <<>> \in Words /\ "LABEL" \in Kinds
  BY DEF Words, Kinds
<1> QED
  BY <1>1 DEF NoStmt, Statement, BlockStarters

LEMMA ParserNext == ParserInv /\ [Next]_vars => ParserInv'
<1> SUFFICES ASSUME ParserInv, [Next]_vars PROVE ParserInv'
  OBVIOUS
<1>1. CASE BeginStatement
  BY <1>1, BeginKeeps
<1>2. CASE TakeOperand
  BY <1>2, TakeKeeps
<1>3. CASE WrongOperand
  <2>1. nextToken \/ Stay
    BY <1>3 DEF WrongOperand
  <2> QED
    BY <1>3, <2>1, GiveUpKeeps DEF WrongOperand
<1>4. CASE TooLarge
  <2>1. GiveUp(1) \/ GiveUp(2)
    BY <1>4 DEF TooLarge
  <2> QED
    BY <1>4, <2>1, GiveUpKeeps DEF TooLarge
<1>5. CASE EndStatement
  <2> DEFINE full == [stmt EXCEPT !.op = Kind(@)]
  <2>1. stmt \in Partial
    BY DEF ParserInv, TypeOK
  <2>2. /\ full \in Statement /\ full.body = 0
        /\ stmt.op \notin BlockStarters => full.op \notin BlockStarters
    BY <2>1, CompletedTyped
  <2>3. block # 0 => stmt.op \notin BlockStarters
    BY <1>5 DEF ParserInv, OpenBlock, EndStatement
  <2>4. Append1(full) /\ Stay
    BY <1>5 DEF EndStatement
  <2> HIDE DEF full
  <2> QED
    BY <2>2, <2>3, <2>4, AppendKeeps
<1>6. CASE LabelStatement
  <2> DEFINE st == [NoStmt EXCEPT !.op = "LABEL", !.l = curToken.literal]
  <2>1. curToken.literal \in Words
    BY DEF ParserInv, TypeOK, TokenOf
  <2>2. st \in Statement /\ st.body = 0 /\ st.op \notin BlockStarters
    BY <2>1, LabelTyped
  <2>3. Append1(st) /\ nextToken
    BY <1>6 DEF LabelStatement
  <2> HIDE DEF st
  <2> QED
    BY <2>2, <2>3, AppendKeeps
<1>7. CASE Unexpected
  BY <1>7, GiveUpKeeps DEF Unexpected
<1>8. CASE CloseBlock
  <2>1. /\ UNCHANGED <<source, pc, curToken, peekToken, stmt, want, program, errors>>
        /\ block' = 0
    BY <1>8 DEF CloseBlock
  <2>2. TypeOK'
    BY <2>1 DEF ParserInv, TypeOK, TokenOf, Partial
  <2> QED
    BY <2>1, <2>2 DEF ParserInv, WantsRest, OpenBlock, BuildsProgram, IsProgram
<1>9. CASE NextStatement
  <2>1. /\ UNCHANGED <<source, stmt, want, block, program, errors>> /\ nextToken
        /\ pc = "after" /\ pc' = "statement"
        /\ block # 0 => peekToken.type \notin BlockStarters \cup {"EOF"}
    BY <1>9 DEF NextStatement, BodyEnds
  <2>2. TypeOK'
    <3>1. curToken' \in TokenOf' /\ peekToken' \in TokenOf'
      BY <2>1, TokensTyped DEF ParserInv
    <3> QED
      BY <2>1, <3>1 DEF ParserInv, TypeOK, Partial
  <2>3. OpenBlock'
    BY <2>1 DEF ParserInv, OpenBlock, nextToken
  <2> QED
    BY <2>1, <2>2, <2>3 DEF ParserInv, WantsRest, BuildsProgram, IsProgram
<1>10. CASE EndOfInput
  <2>1. /\ UNCHANGED <<source, curToken, peekToken, stmt, want, block, program, errors>>
        /\ pc' = "done" /\ block = 0 /\ pc = "statement"
    BY <1>10 DEF EndOfInput
  <2>2. TypeOK'
    BY <2>1 DEF ParserInv, TypeOK, TokenOf, Partial
  <2> QED
    BY <2>1, <2>2 DEF ParserInv, WantsRest, OpenBlock, BuildsProgram, IsProgram
<1>11. CASE UNCHANGED vars
  <2>1. TypeOK'
    BY <1>11 DEF vars, ParserInv, TypeOK, TokenOf, Partial
  <2> QED
    BY <1>11, <2>1 DEF vars, ParserInv, WantsRest, OpenBlock, BuildsProgram, IsProgram
<1> QED
  BY <1>1, <1>2, <1>3, <1>4, <1>5, <1>6, <1>7, <1>8, <1>9, <1>10, <1>11 DEF Next

(***************************************************************************)
(* Whatever the source and its errors, the parser's AST is one the code    *)
(* generator may walk: every body lies in the program and holds no ALLOC,  *)
(* FREE or ON_CHAT, and the body that is open ends where the program does. *)
(***************************************************************************)
THEOREM ParserSafe == Spec => []ParserInv
  BY ParserInit, ParserNext, PTL DEF Spec

(* The same of the AST alone. *)
THEOREM BuildsPrograms == Spec => []BuildsProgram
<1>1. ParserInv => BuildsProgram
  BY DEF ParserInv
<1> QED
  BY <1>1, ParserSafe, PTL

-----------------------------------------------------------------------------
(* Bodies end where the next block starts.  Once the body of an ON_CHAT is *)
(* closed at the end of the program, what comes next is a block starter or *)
(* the end of the source.                                                  *)
Closed(k) == program[k].op = "ON_CHAT" /\ k # block

AtStarter ==
    /\ pc = "after"     => BodyEnds
    /\ pc = "statement" => curToken.type \in BlockStarters \cup {"EOF"}
    /\ pc = "operands"  => stmt.op \in BlockStarters

MaximalInv ==
    errors = 0 =>
        \A k \in DOMAIN program : Closed(k) =>
            LET last == k + program[k].body
            IN  \/ last = Len(program) /\ AtStarter
                \/ last < Len(program) /\ program[last + 1].op \in TopLevel

LEMMA StartersTopLevel == BlockStarters = TopLevel
  BY DEF BlockStarters, TopLevel

(* A statement behind a closed body is a block starter. *)
LEMMA MaximalAppend ==
    ASSUME ParserInv, MaximalInv, NEW st \in Statement, st.body = 0, Append1(st),
           block # 0 => st.op \notin BlockStarters,
           AtStarter => st.op \in BlockStarters
    PROVE  MaximalInv'
<1> DEFINE n == Len(program)
<1>1. /\ program \in Seq(Statement) /\ n \in Nat /\ block \in 0 .. n
      /\ program' \in Seq(Statement) /\ Len(program') = n + 1
      /\ program'[n + 1] = st
      /\ \A k \in 1 .. n : program'[k].op = program[k].op
      /\ \A k \in 1 .. n : k # block => program'[k] = program[k]
  BY Appended
<1>2. block' = IF st.op = "ON_CHAT" THEN n + 1 ELSE block
  BY DEF Append1
<1> SUFFICES ASSUME errors' = 0, NEW k \in 1 .. (n + 1), Closed(k)'
             PROVE  LET last == k + program'[k].body
                    IN  last < n + 1 /\ program'[last + 1].op \in TopLevel
  BY <1>1 DEF MaximalInv
<1>3. errors = 0
  BY DEF Append1
<1>4. k # n + 1
  BY <1>1, <1>2 DEF Closed
<1>5. k \in 1 .. n /\ program[k].op = "ON_CHAT"
  BY <1>1, <1>4 DEF Closed
<1>6. k # block
  BY <1>1, <1>2, <1>5 DEF Closed, BlockStarters
<1>7. PICK x \in Nat : program[k].body = x
  <2>1. program[k] \in Statement
    BY <1>1, <1>5, ElementOfSeq
  <2> QED
    BY <2>1 DEF Statement
<1>8. program'[k].body = x
  BY <1>1, <1>5, <1>6, <1>7
<1>9. \/ k + x = n /\ AtStarter
      \/ k + x < n /\ program[k + x + 1].op \in TopLevel
  BY <1>1, <1>3, <1>5, <1>6, <1>7 DEF MaximalInv, Closed
<1>10. CASE k + x = n /\ AtStarter
  <2>1. program'[k + x + 1].op \in TopLevel
    BY <1>1, <1>10, StartersTopLevel
  <2> QED
    BY <1>1, <1>8, <1>10, <2>1
<1>11. CASE k + x < n /\ program[k + x + 1].op \in TopLevel
  <2>1. k + x + 1 \in 1 .. n
    BY <1>1, <1>5, <1>7, <1>11
  <2> QED
    BY <1>1, <1>8, <1>11, <2>1
<1> QED
  BY <1>9, <1>10, <1>11

(* A step that appends nothing keeps the bodies where they end. *)
LEMMA MaximalKeeps ==
    ASSUME MaximalInv, UNCHANGED program, errors' = 0 => errors = 0,
           errors' = 0 /\ block' = block /\ AtStarter => AtStarter',
           block' # block => block' = 0 /\ AtStarter',
           ParserInv
    PROVE  MaximalInv'
<1> SUFFICES ASSUME errors' = 0, NEW k \in DOMAIN program, Closed(k)'
             PROVE  LET last == k + program[k].body
                    IN  \/ last = Len(program) /\ AtStarter'
                        \/ last < Len(program) /\ program[last + 1].op \in TopLevel
  BY DEF MaximalInv
<1>1. program[k].op = "ON_CHAT" /\ k # block' /\ program \in Seq(Statement)
  BY DEF Closed, ParserInv, TypeOK
<1>2. CASE block' = block
  <2>1. Closed(k)
    BY <1>1, <1>2 DEF Closed
  <2> QED
    BY <1>2, <2>1 DEF MaximalInv
<1>3. CASE block' # block /\ k # block
  <2>1. Closed(k)
    BY <1>1, <1>3 DEF Closed
  <2> QED
    BY <1>3, <2>1 DEF MaximalInv
<1>4. CASE block' # block /\ k = block
  <2>1. block # 0
    BY <1>1, <1>4
  <2> QED
    BY <1>4, <2>1 DEF ParserInv, OpenBlock
<1> QED
  BY <1>2, <1>3, <1>4

LEMMA MaximalNext == ParserInv /\ MaximalInv /\ [Next]_vars => MaximalInv'
<1> SUFFICES ASSUME ParserInv, MaximalInv, [Next]_vars PROVE MaximalInv'
  OBVIOUS
<1>0. errors \in Nat /\ stmt \in Partial
  BY DEF ParserInv, TypeOK
<1>1. CASE BeginStatement
  <2>1. /\ UNCHANGED <<program, errors, block>> /\ pc = "statement" /\ pc' = "operands"
        /\ curToken.type \in keywords /\ stmt' = [NoStmt EXCEPT !.op = curToken.type]
    BY <1>1 DEF BeginStatement, AtStatement
  <2>2. stmt'.op = curToken.type
    BY <2>1 DEF NoStmt
  <2>3. "EOF" \notin keywords
    BY DEF keywords
  <2> QED
    BY <2>1, <2>2, <2>3, MaximalKeeps DEF AtStarter
<1>2. CASE TakeOperand
  <2>1. UNCHANGED <<program, errors, block, pc>> /\ pc = "operands"
    BY <1>2 DEF TakeOperand
  <2>2. stmt'.op = stmt.op
    BY <1>2, OperandTaken
  <2> QED
    BY <2>1, <2>2, MaximalKeeps DEF AtStarter
<1>3. CASE WrongOperand \/ TooLarge \/ Unexpected
  <2>1. UNCHANGED <<program, block>> /\ errors' # 0
    BY <1>0, <1>3 DEF WrongOperand, TooLarge, Unexpected, GiveUp
  <2> QED
    BY <2>1 DEF MaximalInv
<1>4. CASE EndStatement
  <2> DEFINE full == [stmt EXCEPT !.op = Kind(@)]
  <2>1. /\ full \in Statement /\ full.body = 0
        /\ stmt.op \notin BlockStarters => full.op \notin BlockStarters
    BY <1>0, CompletedTyped
  <2>2. block # 0 => stmt.op \notin BlockStarters
    BY <1>4 DEF ParserInv, OpenBlock, EndStatement
  <2>3. Append1(full) /\ pc = "operands"
    BY <1>4 DEF EndStatement
  <2>4. full.op = Kind(stmt.op)
    BY <1>0 DEF Partial
  <2>5. AtStarter => full.op \in BlockStarters
    BY <2>3, <2>4 DEF AtStarter, BlockStarters, Kind
  <2> HIDE DEF full
  <2> QED
    BY <2>1, <2>2, <2>3, <2>5, MaximalAppend
<1>5. CASE LabelStatement
  <2> DEFINE st == [NoStmt EXCEPT !.op = "LABEL", !.l = curToken.literal]
  <2>1. curToken.literal \in Words
    BY DEF ParserInv, TypeOK, TokenOf
  <2>2. st \in Statement /\ st.body = 0 /\ st.op \notin BlockStarters
    BY <2>1, LabelTyped
  <2>3. Append1(st) /\ pc = "statement" /\ curToken.type = "IDENT"
    BY <1>5 DEF LabelStatement, AtStatement
  <2>4. ~AtStarter
    BY <2>3 DEF AtStarter, BlockStarters
  <2> HIDE DEF st
  <2> QED
    BY <2>2, <2>3, <2>4, MaximalAppend
<1>6. CASE CloseBlock
  BY <1>6, MaximalKeeps DEF CloseBlock, AtStarter, BodyEnds
<1>7. CASE NextStatement
  <2>1. UNCHANGED <<program, errors, block>> /\ pc = "after" /\ pc' = "statement"
        /\ curToken' = peekToken
    BY <1>7 DEF NextStatement, nextToken
  <2> QED
    BY <2>1, MaximalKeeps DEF AtStarter, BodyEnds
<1>8. CASE EndOfInput
  BY <1>8, MaximalKeeps DEF EndOfInput, AtStarter
<1>9. CASE UNCHANGED vars
  BY <1>9, MaximalKeeps DEF vars, AtStarter, BodyEnds
<1> QED
  BY <1>1, <1>2, <1>3, <1>4, <1>5, <1>6, <1>7, <1>8, <1>9 DEF Next

(***************************************************************************)
(* The body of an ON_CHAT of an accepted source ends only at the end or    *)
(* before an ALLOC, FREE or ON_CHAT (parser.go:348-399).                   *)
(***************************************************************************)
THEOREM BodiesEndAtStarters == Spec => []BodiesMaximal
<1>1. Init => MaximalInv
  BY DEF Init, MaximalInv
<1>2. ParserInv /\ MaximalInv => BodiesMaximal
  <2> SUFFICES ASSUME ParserInv, MaximalInv, pc = "done", errors = 0,
                      NEW k \in DOMAIN program, program[k].op = "ON_CHAT"
               PROVE  LET last == k + program[k].body
                      IN  last = Len(program) \/ program[last + 1].op \in TopLevel
    BY DEF BodiesMaximal, Finished
  <2>1. block = 0 /\ k # 0
    BY DEF ParserInv, OpenBlock, TypeOK
  <2> QED
    BY <2>1 DEF MaximalInv, Closed
<1> QED
  BY ParserInit, ParserNext, MaximalNext, <1>1, <1>2, PTL DEF Spec

-----------------------------------------------------------------------------
(* The tokens of a source, from a cursor on.                               *)
LocatedTokens(src) == {t \in Located(src) : t.type # "EOF"}

RestOf(src, F, j) ==
    LET t == NextToken(src, j)
    IN  IF t.type = "EOF" THEN <<>> ELSE <<t>> \o F[t.next]

AreRests(F, src) ==
    /\ F \in [1 .. (Len(src) + 1) -> Seq(LocatedTokens(src))]
    /\ \A j \in 1 .. (Len(src) + 1) : F[j] = RestOf(src, F, j)

LEMMA RestTyped ==
    ASSUME NEW src \in Words, NEW j \in 1 .. (Len(src) + 1),
           NEW F \in [1 .. (Len(src) + 1) -> Seq(LocatedTokens(src))]
    PROVE  RestOf(src, F, j) \in Seq(LocatedTokens(src))
<1> DEFINE t == NextToken(src, j)
<1>1. t \in Located(src)
  BY NextTokenTyped
<1>2. CASE t.type # "EOF"
  <2>1. t \in LocatedTokens(src) /\ t.next \in 1 .. (Len(src) + 1)
    BY <1>1, <1>2 DEF LocatedTokens, Located
  <2>2. F[t.next] \in Seq(LocatedTokens(src)) /\ <<t>> \in Seq(LocatedTokens(src))
    BY <2>1
  <2>3. RestOf(src, F, j) = <<t>> \o F[t.next]
    BY <1>2 DEF RestOf
  <2> QED
    BY <2>2, <2>3, ConcatProperties
<1>3. CASE t.type = "EOF"
  BY <1>3 DEF RestOf
<1> QED
  BY <1>2, <1>3

LEMMA RestsExist ==
    ASSUME NEW src \in Words
    PROVE  \E F : AreRests(F, src)
<1> DEFINE n == Len(src)
           S == [1 .. (n + 1) -> Seq(LocatedTokens(src))]
           T == {m \in Nat : \E F \in S : \A j \in 1 .. (n + 1) :
                                 j + m > n + 1 => F[j] = RestOf(src, F, j)}
<1>1. n \in Nat
  BY DEF Words
<1>2. 0 \in T
  <2>1. [j \in 1 .. (n + 1) |-> <<>>] \in S
    OBVIOUS
  <2>2. PICK F \in S : TRUE
    <3> HIDE DEF S
    <3> QED
      BY <2>1
  <2>3. \A j \in 1 .. (n + 1) : ~(j + 0 > n + 1)
    BY <1>1
  <2>4. \A j \in 1 .. (n + 1) : j + 0 > n + 1 => F[j] = RestOf(src, F, j)
    BY <2>3
  <2> QED
    BY <2>4
<1>3. ASSUME NEW m \in Nat, m \in T PROVE m + 1 \in T
  <2>1. PICK F \in S : \A j \in 1 .. (n + 1) : j + m > n + 1 => F[j] = RestOf(src, F, j)
    BY <1>3
  <2>2. CASE m > n
    <3>1. \A j \in 1 .. (n + 1) : j + m > n + 1
      BY <1>1, <2>2
    <3> QED
      BY <2>1, <3>1
  <2>3. CASE m <= n
    <3> DEFINE i == n + 1 - m
               H == [F EXCEPT ![i] = RestOf(src, F, i)]
    <3>1. i \in 1 .. (n + 1)
      BY <1>1, <2>3
    <3>2. H \in S
      BY <3>1, RestTyped
    <3>3. ASSUME NEW j \in 1 .. (n + 1), j + (m + 1) > n + 1
          PROVE  H[j] = RestOf(src, H, j)
      <4> DEFINE t == NextToken(src, j)
      <4>1. t.type # "EOF" => t.next \in 1 .. (n + 1) /\ t.next > j
        BY NextTokenTyped DEF Located
      <4>2. t.type # "EOF" => t.next # i
        BY <1>1, <3>1, <3>3, <4>1
      <4>3. t.type # "EOF" => H[t.next] = F[t.next]
        BY <4>1, <4>2
      <4>4. RestOf(src, H, j) = RestOf(src, F, j)
        <5> HIDE DEF H
        <5> QED
          BY <4>3 DEF RestOf
      <4>5. CASE j = i
        BY <3>1, <4>4, <4>5
      <4>6. CASE j # i
        <5>1. j + m > n + 1
          BY <1>1, <3>3, <4>6
        <5>2. H[j] = F[j]
          BY <4>6
        <5> QED
          BY <2>1, <4>4, <5>1, <5>2
      <4> QED
        BY <4>5, <4>6
    <3> HIDE DEF H
    <3> QED
      BY <3>2, <3>3
  <2> QED
    BY <1>1, <2>2, <2>3
<1>4. Nat \subseteq T
  <2> HIDE DEF T
  <2> QED
    BY <1>2, <1>3, SetInduction
<1>5. n + 1 \in T
  <2> HIDE DEF T
  <2> QED
    BY <1>1, <1>4
<1>6. PICK F \in S : \A j \in 1 .. (n + 1) : j + (n + 1) > n + 1 => F[j] = RestOf(src, F, j)
  BY <1>5
<1>7. AreRests(F, src)
  BY <1>1, <1>6 DEF AreRests
<1> QED
  BY <1>7

Rests(src) == CHOOSE F : AreRests(F, src)

LEMMA RestsFacts ==
    ASSUME NEW src \in Words
    PROVE  AreRests(Rests(src), src)
  BY RestsExist DEF Rests

(* Two functions that agree on what comes next are one. *)
LEMMA RestsUnique ==
    ASSUME NEW src \in Words, NEW F, NEW H, AreRests(F, src),
           H = [j \in 1 .. (Len(src) + 1) |-> RestOf(src, H, j)]
    PROVE  H = F
<1> DEFINE n == Len(src)
           T == {m \in Nat : \A j \in 1 .. (n + 1) : j + m > n + 1 => H[j] = F[j]}
<1>1. n \in Nat
  BY DEF Words
<1>2. 0 \in T
  BY <1>1
<1>3. ASSUME NEW m \in Nat, m \in T PROVE m + 1 \in T
  <2> SUFFICES ASSUME NEW j \in 1 .. (n + 1), j + (m + 1) > n + 1 PROVE H[j] = F[j]
    OBVIOUS
  <2> DEFINE t == NextToken(src, j)
  <2>1. t.type # "EOF" => t.next \in 1 .. (n + 1) /\ t.next > j
    BY NextTokenTyped DEF Located
  <2>2. t.type # "EOF" => H[t.next] = F[t.next]
    <3>1. t.type # "EOF" => t.next + m > n + 1
      BY <1>1, <2>1
    <3> QED
      BY <1>3, <2>1, <3>1
  <2>3. RestOf(src, H, j) = RestOf(src, F, j)
    BY <2>2 DEF RestOf
  <2> QED
    BY <2>3 DEF AreRests
<1>4. Nat \subseteq T
  <2> HIDE DEF T
  <2> QED
    BY <1>2, <1>3, SetInduction
<1>5. \A j \in 1 .. (n + 1) : H[j] = F[j]
  <2>1. n + 1 \in T
    BY <1>1, <1>4
  <2> QED
    BY <1>1, <2>1
<1> QED
  BY <1>5 DEF AreRests

LEMMA TokensAreRests ==
    ASSUME NEW src \in Words
    PROVE  Tokens(src, 1) = Rests(src)[1]
<1> DEFINE G(H) == [j \in 1 .. (Len(src) + 1) |-> RestOf(src, H, j)]
           from == CHOOSE H : H = G(H)
           F == Rests(src)
<1>1. AreRests(F, src)
  BY RestsFacts
<1>2. F = G(F)
  BY <1>1 DEF AreRests
<1>3. from = G(from)
  <2> HIDE DEF G, F
  <2> QED
    BY <1>2
<1>4. from = F
  <2> HIDE DEF from, F
  <2> QED
    BY <1>1, <1>3, RestsUnique
<1>5. Tokens(src, 1) = from[1]
  BY DEF Tokens, RestOf
<1> QED
  BY <1>4, <1>5

-----------------------------------------------------------------------------
(* The token at position p of a source, and the tokens behind it.          *)
TokensOf(src) == Rests(src)[1]

(* The cursor c is where the token at position p is read. *)
Stands(src, c, p) ==
    LET toks == TokensOf(src)
    IN  /\ p \in 1 .. (Len(toks) + 1)
        /\ Rests(src)[c] = SubSeq(toks, p, Len(toks))

At(src, tok, p) ==
    \E c \in 1 .. (Len(src) + 1) : tok = NextToken(src, c) /\ Stands(src, c, p)

LEMMA TokensOfTyped ==
    ASSUME NEW src \in Words
    PROVE  TokensOf(src) \in Seq(LocatedTokens(src)) /\ Len(TokensOf(src)) \in Nat
<1>1. 1 \in 1 .. (Len(src) + 1)
  BY DEF Words
<1>2. TokensOf(src) \in Seq(LocatedTokens(src))
  BY <1>1, RestsFacts DEF AreRests, TokensOf
<1> QED
  BY <1>2

LEMMA StandsFirst ==
    ASSUME NEW src \in Words
    PROVE  Stands(src, 1, 1)
<1>2. TokensOf(src) \in Seq(LocatedTokens(src)) /\ Len(TokensOf(src)) \in Nat
  BY TokensOfTyped
<1>3. SubSeq(TokensOf(src), 1, Len(TokensOf(src))) = TokensOf(src)
  BY <1>2
<1> QED
  BY <1>2, <1>3 DEF Stands, TokensOf

LEMMA AtFirst ==
    ASSUME NEW src \in Words
    PROVE  At(src, NextToken(src, 1), 1)
<1>1. 1 \in 1 .. (Len(src) + 1)
  BY DEF Words
<1> QED
  BY <1>1, StandsFirst DEF At

LEMMA StandsFacts ==
    ASSUME NEW src \in Words, NEW c \in 1 .. (Len(src) + 1), NEW p, Stands(src, c, p),
           NEW tok, tok = NextToken(src, c)
    PROVE  LET toks == TokensOf(src)
           IN  /\ p \in 1 .. (Len(toks) + 1)
               /\ tok.type = "EOF" => p = Len(toks) + 1
               /\ tok.type # "EOF" => /\ p \in 1 .. Len(toks)
                                      /\ toks[p] = tok
                                      /\ tok.next \in 1 .. (Len(src) + 1)
                                      /\ Stands(src, tok.next, p + 1)
<1> DEFINE toks == TokensOf(src)
           F == Rests(src)
           n == Len(toks)
           rest == SubSeq(toks, p, n)
<1>1. toks \in Seq(LocatedTokens(src)) /\ n \in Nat
  BY TokensOfTyped
<1>2. p \in 1 .. (n + 1)
  BY DEF Stands
<1>3. F[c] = rest
  BY DEF Stands
<1>4. F[c] = RestOf(src, F, c) /\ AreRests(F, src)
  BY RestsFacts DEF AreRests
<1>5. /\ rest \in Seq(LocatedTokens(src)) /\ Len(rest) = n - p + 1
      /\ \A i \in 1 .. (n - p + 1) : rest[i] = toks[p + i - 1]
  BY <1>1, <1>2
<1>6. CASE tok.type = "EOF"
  <2>1. rest = <<>>
    BY <1>3, <1>4, <1>6 DEF RestOf
  <2>2. Len(rest) = 0
    BY <2>1
  <2> QED
    BY <1>1, <1>2, <1>5, <1>6, <2>2
<1>7. CASE tok.type # "EOF"
  <2>1. rest = <<tok>> \o F[tok.next]
    BY <1>3, <1>4, <1>7 DEF RestOf
  <2>2. tok \in LocatedTokens(src) /\ tok.next \in 1 .. (Len(src) + 1)
    BY <1>3, <1>7, NextTokenTyped DEF LocatedTokens, Located
  <2>3. F[tok.next] \in Seq(LocatedTokens(src))
    BY <1>4, <2>2 DEF AreRests
  <2> DEFINE more == F[tok.next]
  <2>9. rest = <<tok>> \o more
    BY <2>1
  <2>10. more = F[tok.next]
    OBVIOUS
  <2>4. /\ Len(<<tok>> \o more) = Len(more) + 1 /\ (<<tok>> \o more)[1] = tok
        /\ \A i \in 1 .. Len(more) : (<<tok>> \o more)[i + 1] = more[i]
        /\ Len(more) \in Nat
    <3> HIDE DEF more
    <3> QED
      BY <2>2, <2>3
  <2>5. p \in 1 .. n /\ toks[p] = tok /\ Len(more) = n - p
    <3> HIDE DEF more, rest, n, toks
    <3>1. Len(more) = n - p /\ Len(more) \in Nat /\ rest[1] = tok
      <4>1. Len(rest) = Len(more) + 1 /\ rest[1] = tok /\ Len(more) \in Nat
        BY <2>9, <2>4
      <4>2. Len(rest) = n - p + 1 /\ n \in Nat /\ p \in Nat
        BY <1>1, <1>2, <1>5
      <4>3. Len(more) = n - p
        BY <4>1, <4>2
      <4> QED
        BY <4>1, <4>3
    <3>2. p \in 1 .. n /\ 1 \in 1 .. (n - p + 1) /\ p + 1 - 1 = p
      BY <1>1, <1>2, <3>1
    <3> QED
      BY <1>5, <3>1, <3>2
  <2>6. more = SubSeq(toks, p + 1, n)
    <3> DEFINE tail == SubSeq(toks, p + 1, n)
    <3>1. /\ tail \in Seq(LocatedTokens(src)) /\ Len(tail) = n - p
          /\ \A i \in 1 .. (n - p) : tail[i] = toks[p + i]
      BY <1>1, <1>2, <2>5
    <3>2. ASSUME NEW i \in 1 .. (n - p) PROVE more[i] = tail[i]
      <4> HIDE DEF more, rest, n, tail, toks
      <4>1. i + 1 \in 1 .. (n - p + 1) /\ p + (i + 1) - 1 = p + i /\ i \in 1 .. Len(more)
        BY <1>1, <1>2, <2>5
      <4> QED
        BY <1>5, <2>9, <2>4, <3>1, <4>1
    <3>3. more = tail
      <4>1. more \in Seq(LocatedTokens(src))
        BY <2>3
      <4> HIDE DEF more, rest, n, tail, toks
      <4> QED
        BY <4>1, <2>5, <3>1, <3>2, SeqEqual
    <3> QED
      BY <3>3
  <2>7. p + 1 \in 1 .. (n + 1)
    BY <1>1, <2>5
  <2>8. Stands(src, tok.next, p + 1)
    BY <2>6, <2>7 DEF Stands
  <2> QED
    BY <1>7, <2>2, <2>5, <2>8, <1>2
<1> QED
  BY <1>6, <1>7

LEMMA AtFacts ==
    ASSUME NEW src \in Words, NEW tok, NEW p, At(src, tok, p)
    PROVE  LET toks == TokensOf(src)
           IN  /\ p \in 1 .. (Len(toks) + 1)
               /\ tok.type = "EOF" => p = Len(toks) + 1
               /\ tok.type # "EOF" => /\ p \in 1 .. Len(toks)
                                      /\ toks[p] = tok
                                      /\ At(src, NextToken(src, tok.next), p + 1)
<1> DEFINE toks == TokensOf(src)
<1>1. PICK c \in 1 .. (Len(src) + 1) : tok = NextToken(src, c) /\ Stands(src, c, p)
  BY DEF At
<1>2. /\ p \in 1 .. (Len(toks) + 1)
      /\ tok.type = "EOF" => p = Len(toks) + 1
      /\ tok.type # "EOF" => /\ p \in 1 .. Len(toks) /\ toks[p] = tok
                             /\ tok.next \in 1 .. (Len(src) + 1)
                             /\ Stands(src, tok.next, p + 1)
  BY <1>1, StandsFacts
<1> QED
  BY <1>2 DEF At

-----------------------------------------------------------------------------
(* Where a row of tokens is a row of statements from.                      *)
GoodFrom(toks, F, i) ==
    \/ i = Len(toks) + 1
    \/ \E n \in 1 .. (Len(toks) + 1 - i) : Begins(toks, i, n) /\ F[i + n]

Good(toks) == CHOOSE F : F = [i \in 1 .. (Len(toks) + 1) |-> GoodFrom(toks, F, i)]

LEMMA GoodExists ==
    ASSUME NEW toks, Len(toks) \in Nat
    PROVE  \E F : F = [i \in 1 .. (Len(toks) + 1) |-> GoodFrom(toks, F, i)]
<1> DEFINE n == Len(toks)
           S == [1 .. (n + 1) -> BOOLEAN]
           T == {m \in Nat : \E F \in S : \A j \in 1 .. (n + 1) :
                                 j + m > n + 1 => (F[j] <=> GoodFrom(toks, F, j))}
<1>2. 0 \in T
  <2>1. [j \in 1 .. (n + 1) |-> TRUE] \in S
    OBVIOUS
  <2>2. PICK F \in S : TRUE
    <3> HIDE DEF S
    <3> QED
      BY <2>1
  <2>3. \A j \in 1 .. (n + 1) : ~(j + 0 > n + 1)
    OBVIOUS
  <2>4. \A j \in 1 .. (n + 1) : j + 0 > n + 1 => (F[j] <=> GoodFrom(toks, F, j))
    BY <2>3
  <2> QED
    BY <2>4
<1>3. ASSUME NEW m \in Nat, m \in T PROVE m + 1 \in T
  <2>1. PICK F \in S : \A j \in 1 .. (n + 1) : j + m > n + 1 => (F[j] <=> GoodFrom(toks, F, j))
    BY <1>3
  <2>2. CASE m > n
    <3>1. \A j \in 1 .. (n + 1) : j + m > n + 1
      BY <2>2
    <3> QED
      BY <2>1, <3>1
  <2>3. CASE m <= n
    <3> DEFINE i == n + 1 - m
               H == [F EXCEPT ![i] = GoodFrom(toks, F, i)]
    <3>1. i \in 1 .. (n + 1)
      BY <2>3
    <3>2. GoodFrom(toks, F, i) \in BOOLEAN
      BY DEF GoodFrom
    <3>3. H \in S
      BY <3>1, <3>2
    <3>4. \A k \in 1 .. (n + 1) : k # i => H[k] = F[k]
      BY <3>1
    <3>5. H[i] <=> GoodFrom(toks, F, i)
      BY <3>1
    <3>6. ASSUME NEW j \in 1 .. (n + 1), j + (m + 1) > n + 1
          PROVE  H[j] <=> GoodFrom(toks, H, j)
      <4>1. \A k \in 1 .. (n + 1 - j) : j + k \in 1 .. (n + 1) /\ j + k # i
        BY <3>1, <3>6
      <4>2. \A k \in 1 .. (n + 1 - j) : H[j + k] = F[j + k]
        <5> HIDE DEF H, n, i
        <5> QED
          BY <3>4, <4>1
      <4>3. GoodFrom(toks, H, j) <=> GoodFrom(toks, F, j)
        <5> HIDE DEF H
        <5> QED
          BY <4>2 DEF GoodFrom
      <4>5. CASE j = i
        <5> HIDE DEF H, n, i
        <5> QED
          BY <3>5, <4>3, <4>5
      <4>6. CASE j # i
        <5>1. j + m > n + 1
          BY <3>6, <4>6
        <5>2. H[j] = F[j]
          <6> HIDE DEF H, n, i
          <6> QED
            BY <3>4, <4>6
        <5> HIDE DEF H, n, i
        <5> QED
          BY <2>1, <4>3, <5>1, <5>2
      <4> QED
        BY <4>5, <4>6
    <3> HIDE DEF H, S
    <3> QED
      BY <3>3, <3>6
  <2> QED
    BY <2>2, <2>3
<1>4. Nat \subseteq T
  <2> HIDE DEF T
  <2> QED
    BY <1>2, <1>3, SetInduction
<1>5. n + 1 \in T
  <2> HIDE DEF T
  <2> QED
    BY <1>4
<1>6. PICK F \in S : \A j \in 1 .. (n + 1) : j + (n + 1) > n + 1 => (F[j] <=> GoodFrom(toks, F, j))
  BY <1>5
<1>7. \A j \in 1 .. (n + 1) : F[j] = GoodFrom(toks, F, j)
  <2>1. \A j \in 1 .. (n + 1) : F[j] <=> GoodFrom(toks, F, j)
    BY <1>6
  <2>2. \A j \in 1 .. (n + 1) : F[j] \in BOOLEAN /\ GoodFrom(toks, F, j) \in BOOLEAN
    BY DEF GoodFrom
  <2> QED
    BY <2>1, <2>2, Zenon
<1>8. F = [j \in 1 .. (n + 1) |-> F[j]]
  OBVIOUS
<1>9. F = [j \in 1 .. (n + 1) |-> GoodFrom(toks, F, j)]
  BY <1>7, <1>8, Zenon
<1> QED
  BY <1>9, Zenon

(* A statement is over where the next one begins. *)
LEMMA GoodFacts ==
    ASSUME NEW toks, Len(toks) \in Nat
    PROVE  /\ Sentence(toks) <=> Good(toks)[1]
           /\ Good(toks)[Len(toks) + 1]
           /\ \A i \in 1 .. Len(toks) : \A n \in 1 .. (Len(toks) + 1 - i) :
                 Begins(toks, i, n) => (Good(toks)[i] <=> Good(toks)[i + n])
           /\ \A i \in 1 .. Len(toks) :
                 (\A n \in Nat : ~Begins(toks, i, n)) => ~Good(toks)[i]
<1> DEFINE F == Good(toks)
<1>1. F = [i \in 1 .. (Len(toks) + 1) |-> GoodFrom(toks, F, i)]
  BY GoodExists, Zenon DEF Good
<1>2. ASSUME NEW i \in 1 .. (Len(toks) + 1)
      PROVE  F[i] <=> GoodFrom(toks, F, i)
  <2> HIDE DEF F
  <2>1. F[i] = GoodFrom(toks, F, i)
    BY <1>1, Zenon
  <2> QED
    BY <2>1
<1>3. Sentence(toks) <=> F[1]
  BY Zenon DEF Sentence, Good, GoodFrom
<1> HIDE DEF F
<1>4. F[Len(toks) + 1]
  BY <1>2 DEF GoodFrom
<1>5. ASSUME NEW i \in 1 .. Len(toks), NEW n \in 1 .. (Len(toks) + 1 - i), Begins(toks, i, n)
      PROVE  F[i] <=> F[i + n]
  <2>1. \A k : Begins(toks, i, k) => k = n
    BY <1>5 DEF Begins
  <2>2. i # Len(toks) + 1 /\ i \in 1 .. (Len(toks) + 1)
    OBVIOUS
  <2> QED
    BY <1>2, <1>5, <2>1, <2>2 DEF GoodFrom
<1>6. ASSUME NEW i \in 1 .. Len(toks), \A n \in Nat : ~Begins(toks, i, n)
      PROVE  ~F[i]
  <2>1. i # Len(toks) + 1 /\ i \in 1 .. (Len(toks) + 1)
    OBVIOUS
  <2>2. \A n \in 1 .. (Len(toks) + 1 - i) : n \in Nat
    OBVIOUS
  <2> QED
    BY <1>2, <1>6, <2>1, <2>2 DEF GoodFrom
<1> QED
  BY <1>3, <1>4, <1>5, <1>6 DEF F

-----------------------------------------------------------------------------
(* What the statements of a program read as.                               *)
Laid(P, prog) ==
    /\ P \in [1 .. (Len(prog) + 1) -> Nat]
    /\ P[1] = 1
    /\ \A k \in 1 .. Len(prog) : P[k + 1] = P[k] + Length(prog[k])

LEMMA StartIs ==
    ASSUME NEW P, Len(program) \in Nat, Laid(P, program)
    PROVE  \A k \in 1 .. (Len(program) + 1) : Start(k) = P[k]
<1> DEFINE n == Len(program)
           G(F) == [j \in 1 .. (n + 1) |-> IF j = 1 THEN 1 ELSE F[j - 1] + Length(program[j - 1])]
           at == CHOOSE F : F = G(F)
<1>1. P = G(P)
  <2>1. ASSUME NEW j \in 1 .. (n + 1)
        PROVE  P[j] = IF j = 1 THEN 1 ELSE P[j - 1] + Length(program[j - 1])
    <3>1. CASE j = 1
      BY <3>1 DEF Laid
    <3>2. CASE j # 1
      <4>1. j - 1 \in 1 .. n /\ (j - 1) + 1 = j
        BY <3>2
      <4>2. P[(j - 1) + 1] = P[j - 1] + Length(program[j - 1])
        BY <4>1 DEF Laid
      <4> QED
        BY <3>2, <4>1, <4>2
    <3> QED
      BY <3>1, <3>2
  <2>2. P = [j \in 1 .. (n + 1) |-> P[j]]
    BY DEF Laid
  <2> QED
    BY <2>1, <2>2
<1>2. at = G(at)
  <2> HIDE DEF G
  <2> QED
    BY <1>1
<1>3. \A k : Start(k) = at[k]
  BY DEF Start
<1> DEFINE T == {m \in Nat : m + 1 <= n + 1 => at[m + 1] = P[m + 1]}
<1>4. 0 \in T
  <2>1. at[1] = 1
    <3> HIDE DEF at
    <3> QED
      BY <1>2
  <2> HIDE DEF at
  <2> QED
    BY <2>1 DEF Laid
<1>5. ASSUME NEW m \in Nat, m \in T PROVE m + 1 \in T
  <2> HIDE DEF at
  <2> SUFFICES ASSUME (m + 1) + 1 <= n + 1 PROVE at[(m + 1) + 1] = P[(m + 1) + 1]
    OBVIOUS
  <2>1. /\ (m + 1) + 1 \in 1 .. (n + 1) /\ (m + 1) + 1 # 1 /\ ((m + 1) + 1) - 1 = m + 1
        /\ m + 1 \in 1 .. n /\ at[m + 1] = P[m + 1]
    BY <1>5
  <2>2. at[(m + 1) + 1] = at[m + 1] + Length(program[m + 1])
    BY <1>2, <2>1
  <2>3. P[(m + 1) + 1] = P[m + 1] + Length(program[m + 1])
    BY <2>1 DEF Laid
  <2> QED
    BY <2>1, <2>2, <2>3
<1>6. Nat \subseteq T
  <2> HIDE DEF T
  <2> QED
    BY <1>4, <1>5, SetInduction
<1>7. \A k \in 1 .. (n + 1) : k - 1 \in Nat /\ (k - 1) + 1 = k
  OBVIOUS
<1>8. ASSUME NEW k \in 1 .. (n + 1) PROVE at[k] = P[k]
  <2>1. k - 1 \in T /\ (k - 1) + 1 = k /\ (k - 1) + 1 <= n + 1
    <3> HIDE DEF T
    <3> QED
      BY <1>6, <1>7
  <2>2. at[(k - 1) + 1] = P[(k - 1) + 1]
    <3> HIDE DEF at
    <3> QED
      BY <2>1
  <2> HIDE DEF at
  <2> QED
    BY <2>1, <2>2
<1> QED
  <2> HIDE DEF at
  <2> QED
    BY <1>3, <1>8

LEMMA LengthTyped == \A st : Length(st) \in {1, 2, 4}
  BY DEF Length

LEMMA LaidAppend ==
    ASSUME NEW prog, Len(prog) \in Nat, NEW P, Laid(P, prog),
           NEW more, Len(more) = Len(prog) + 1,
           \A k \in 1 .. Len(prog) : more[k].op = prog[k].op
    PROVE  \E Q : /\ Laid(Q, more)
                  /\ \A k \in 1 .. (Len(prog) + 1) : Q[k] = P[k]
                  /\ Q[Len(more) + 1] = P[Len(prog) + 1] + Length(more[Len(more)])
<1> DEFINE n == Len(prog)
           end == P[n + 1] + Length(more[n + 1])
           Q == [k \in 1 .. (n + 2) |-> IF k = n + 2 THEN end ELSE P[k]]
<1>1. \A k \in 1 .. (n + 1) : P[k] \in Nat
  BY DEF Laid
<1>2. end \in Nat
  BY <1>1, LengthTyped
<1>3. /\ Q \in [1 .. (n + 2) -> Nat] /\ \A k \in 1 .. (n + 1) : Q[k] = P[k]
      /\ Q[n + 2] = end
  BY <1>1, <1>2
<1>4. Len(more) = n + 1 /\ Len(more) + 1 = n + 2
  OBVIOUS
<1>5. ASSUME NEW k \in 1 .. (n + 1) PROVE Q[k + 1] = Q[k] + Length(more[k])
  <2>1. CASE k = n + 1
    <3>1. Q[k + 1] = end /\ Q[k] = P[n + 1]
      BY <2>1, <1>3
    <3> HIDE DEF Q
    <3> QED
      BY <2>1, <3>1
  <2>2. CASE k # n + 1
    <3>1. k \in 1 .. n /\ k + 1 \in 1 .. (n + 1)
      BY <2>2
    <3>2. Q[k] = P[k] /\ Q[k + 1] = P[k + 1]
      BY <1>3, <3>1
    <3>3. P[k + 1] = P[k] + Length(prog[k])
      BY <3>1 DEF Laid
    <3>4. Length(more[k]) = Length(prog[k])
      BY <3>1 DEF Length
    <3> HIDE DEF Q
    <3> QED
      BY <3>2, <3>3, <3>4
  <2> QED
    BY <2>1, <2>2
<1>6. Q[1] = 1
  BY <1>3 DEF Laid
<1> HIDE DEF Q
<1>7. Laid(Q, more)
  BY <1>3, <1>4, <1>5, <1>6 DEF Laid
<1> QED
  BY <1>3, <1>4, <1>7

(* The length of a body is not part of what its ON_CHAT reads as. *)
LEMMA ReadsWithoutBody ==
    ASSUME NEW toks, NEW i, NEW st \in Statement, NEW more \in Statement,
           more.op = st.op, more.a = st.a, more.b = st.b, more.v = st.v,
           more.s = st.s, more.l = st.l, ReadsAs(toks, i, st)
    PROVE  ReadsAs(toks, i, more)
  BY DEF ReadsAs

-----------------------------------------------------------------------------
(* What each operand takes, and the field its value goes to. *)
LEMMA TakesRegister ==
    ASSUME NEW o, NEW t \in DOMAIN o.takes, NEW g, o = Operand(Register(g))
    PROVE  t \in registers /\ o.takes[t] = g
  BY DEF Operand, Register

LEMMA TakesInteger ==
    ASSUME NEW o, NEW t \in DOMAIN o.takes, NEW g, o = Operand(Integer(g))
    PROVE  t = "INT" /\ o.takes[t] = g
  BY DEF Operand, Integer

LEMMA TakesString ==
    ASSUME NEW o, NEW t \in DOMAIN o.takes, o = Operand(String)
    PROVE  t = "STRING" /\ o.takes[t] = "s"
  BY DEF Operand, String

LEMMA TakesName ==
    ASSUME NEW o, NEW t \in DOMAIN o.takes, o = Name
    PROVE  t = "IDENT" /\ o.takes[t] = "l"
  BY DEF Operand, Name

LEMMA TakesComma ==
    ASSUME NEW o, NEW t \in DOMAIN o.takes, o = Comma
    PROVE  t = "," /\ o.takes[t] = "none"
  BY DEF Operand, Comma

LEMMA TakesRegisterOrString ==
    ASSUME NEW o, NEW t \in DOMAIN o.takes, o = Loose(Either(Register("a"), String))
    PROVE  \/ t \in registers /\ o.takes[t] = "a"
           \/ t = "STRING" /\ o.takes[t] = "s"
  BY RegisterNames DEF Loose, Either, Register, String

LEMMA TakesAnyValue ==
    ASSUME NEW o, NEW t \in DOMAIN o.takes,
           o = Loose(Either(Register("b"), Either(Integer("v"), String)))
    PROVE  \/ t \in registers /\ o.takes[t] = "b"
           \/ t = "INT" /\ o.takes[t] = "v"
           \/ t = "STRING" /\ o.takes[t] = "s"
  BY RegisterNames DEF Loose, Either, Register, Integer, String

(* The operand tok, at slot o of its form, is in the statement st.         *)
InField(o, tok, st) ==
    /\ tok.type \in DOMAIN o.takes /\ ~Overflows(tok)
    /\ LET g == o.takes[tok.type]
       IN  g # "none" => st[g] = Value(tok)

LEMMA ReadRegister ==
    ASSUME NEW o, NEW tok, NEW st, InField(o, tok, st),
           NEW g, g # "none", o = Operand(Register(g))
    PROVE  tok.type \in registers /\ Value(tok) = st[g]
<1>1. tok.type \in registers /\ o.takes[tok.type] = g
  BY TakesRegister DEF InField
<1> QED
  BY <1>1 DEF InField

LEMMA ReadInteger ==
    ASSUME NEW o, NEW tok, NEW st, InField(o, tok, st),
           NEW g, g # "none", o = Operand(Integer(g))
    PROVE  tok.type \in {"INT"} /\ Value(tok) = st[g]
<1>1. tok.type = "INT" /\ o.takes[tok.type] = g
  BY TakesInteger DEF InField
<1> QED
  BY <1>1 DEF InField

LEMMA ReadString ==
    ASSUME NEW o, NEW tok, NEW st, InField(o, tok, st), o = Operand(String)
    PROVE  tok.type \in {"STRING"} /\ Value(tok) = st.s
<1>1. tok.type = "STRING" /\ o.takes[tok.type] = "s"
  BY TakesString DEF InField
<1> QED
  BY <1>1 DEF InField

LEMMA ReadName ==
    ASSUME NEW o, NEW tok, NEW st, InField(o, tok, st), o = Name
    PROVE  tok.type \in {"IDENT"} /\ Value(tok) = st.l
<1>1. tok.type = "IDENT" /\ o.takes[tok.type] = "l"
  BY TakesName DEF InField
<1> QED
  BY <1>1 DEF InField

LEMMA ReadComma ==
    ASSUME NEW o, NEW tok, NEW st, InField(o, tok, st), o = Comma
    PROVE  tok.type = ","
  BY TakesComma DEF InField

LEMMA ReadRegisterOrString ==
    ASSUME NEW o, NEW tok, NEW st, InField(o, tok, st),
           o = Loose(Either(Register("a"), String))
    PROVE  \/ tok.type \in registers /\ Value(tok) = st.a
           \/ tok.type \in {"STRING"} /\ Value(tok) = st.s
<1>1. \/ tok.type \in registers /\ o.takes[tok.type] = "a"
      \/ tok.type = "STRING" /\ o.takes[tok.type] = "s"
  BY TakesRegisterOrString DEF InField
<1> QED
  BY <1>1 DEF InField

LEMMA ReadAnyValue ==
    ASSUME NEW o, NEW tok, NEW st, InField(o, tok, st),
           o = Loose(Either(Register("b"), Either(Integer("v"), String)))
    PROVE  \/ tok.type \in registers /\ Value(tok) = st.b
           \/ tok.type \in {"INT"} /\ Value(tok) = st.v
           \/ tok.type \in {"STRING"} /\ Value(tok) = st.s
<1>1. \/ tok.type \in registers /\ o.takes[tok.type] = "b"
      \/ tok.type = "INT" /\ o.takes[tok.type] = "v"
      \/ tok.type = "STRING" /\ o.takes[tok.type] = "s"
  BY TakesAnyValue DEF InField
<1> QED
  BY <1>1 DEF InField

-----------------------------------------------------------------------------
(* The forms, operand by operand. *)
LEMMA FormRows ==
    ASSUME NEW t \in keywords
    PROVE  LET f == Form(t)
           IN  /\ Len(f) \in {0, 1, 3}
               /\ t = "ALLOC" =>
                     /\ Len(f) = 3
                     /\ f[1] = Operand(Register("a"))
                     /\ f[2] = Comma
                     /\ f[3] = Operand(Integer("v"))
               /\ t = "FREE" =>
                     /\ Len(f) = 1
                     /\ f[1] = Operand(Register("a"))
               /\ t = "MOV" =>
                     /\ Len(f) = 3
                     /\ f[1] = Operand(Register("a"))
                     /\ f[2] = Comma
                     /\ f[3] = Loose(Either(Register("b"), Either(Integer("v"), String)))
               /\ t = "TRIGGER_PIN" =>
                     /\ Len(f) = 3
                     /\ f[1] = Operand(Integer("a"))
                     /\ f[2] = Comma
                     /\ f[3] = Operand(Integer("b"))
               /\ t = "SEND_CHAT" =>
                     /\ Len(f) = 1
                     /\ f[1] = Loose(Either(Register("a"), String))
               /\ t = "ON_CHAT" =>
                     /\ Len(f) = 3
                     /\ f[1] = Operand(String)
                     /\ f[2] = Comma
                     /\ f[3] = Operand(Register("a"))
               /\ t \in AluOps \cup {"CMP"} =>
                     /\ Len(f) = 3
                     /\ f[1] = Operand(Register("a"))
                     /\ f[2] = Comma
                     /\ f[3] = Operand(Register("b"))
               /\ t \in Branch =>
                     /\ Len(f) = 1
                     /\ f[1] = Name
               /\ t = "RET" =>
                     /\ Len(f) = 0
<1>1. CASE t = "ALLOC"
  BY <1>1 DEF Form, AluOps, Branch, JumpOps
<1>2. CASE t = "FREE"
  BY <1>2 DEF Form, AluOps, Branch, JumpOps
<1>3. CASE t = "MOV"
  BY <1>3 DEF Form, AluOps, Branch, JumpOps
<1>4. CASE t = "TRIGGER_PIN"
  BY <1>4 DEF Form, AluOps, Branch, JumpOps
<1>5. CASE t = "SEND_CHAT"
  BY <1>5 DEF Form, AluOps, Branch, JumpOps
<1>6. CASE t = "ON_CHAT"
  BY <1>6 DEF Form, AluOps, Branch, JumpOps
<1>7. CASE t \in AluOps \cup {"CMP"}
  BY <1>7 DEF Form, AluOps, Branch, JumpOps
<1>8. CASE t \in Branch
  BY <1>8 DEF Form, AluOps, Branch, JumpOps
<1>9. CASE t = "RET"
  BY <1>9 DEF Form, AluOps, Branch, JumpOps
<1> QED
  BY <1>1, <1>2, <1>3, <1>4, <1>5, <1>6, <1>7, <1>8, <1>9 DEF keywords, AluOps, Branch, JumpOps

(* No operand of a form overwrites another. *)
LEMMA FieldsApart ==
    ASSUME NEW w \in keywords, NEW f, f = Form(w),
           NEW j \in DOMAIN f, NEW k \in DOMAIN f, j < k,
           NEW x \in DOMAIN f[j].takes, NEW y \in DOMAIN f[k].takes
    PROVE  f[j].takes[x] # f[k].takes[y]
<1> DEFINE g == f[j].takes[x]
           h == f[k].takes[y]
<1>1. f \in Seq(Slots) /\ Len(f) \in {0, 1, 3}
  BY FormTyped, FormRows
<1>2. /\ j \in 1 .. Len(f) /\ k \in 1 .. Len(f)
  BY <1>1
<1>0. x \in DOMAIN f[j].takes /\ y \in DOMAIN f[k].takes
  OBVIOUS
<1>3. Len(f) = 3 /\ (j = 1 \/ j = 2) /\ (k = 2 \/ k = 3) /\ (j = 2 => k = 3)
  <2> DEFINE n == Len(f)
  <2>1. n \in {0, 1, 3} /\ j \in 1 .. n /\ k \in 1 .. n
    BY <1>1, <1>2
  <2> HIDE DEF n
  <2>2. n = 3 /\ (j = 1 \/ j = 2) /\ (k = 2 \/ k = 3) /\ (j = 2 => k = 3)
    BY <2>1
  <2> QED
    BY <2>2 DEF n
<1>4. w \in {"ALLOC", "MOV", "TRIGGER_PIN", "ON_CHAT", "CMP"} \cup AluOps
  <2>1. /\ w = "FREE" => Len(f) = 1
        /\ w = "SEND_CHAT" => Len(f) = 1
        /\ w \in Branch => Len(f) = 1
        /\ w = "RET" => Len(f) = 0
    BY FormRows
  <2> QED
    BY <1>3, <2>1 DEF keywords, AluOps, Branch, JumpOps
<1>5. f[2] = Comma
  BY <1>4, FormRows
<1>6. ASSUME j = 2 PROVE g = "none"
  <2>1. f[j] = Comma
    BY <1>5, <1>6
  <2> QED
    BY <2>1, TakesComma
<1>7. ASSUME k = 2 PROVE h = "none"
  <2>1. f[k] = Comma
    BY <1>5, <1>7
  <2> QED
    BY <2>1, TakesComma
<1>8. ASSUME j = 1 PROVE g \in {"a", "s"} /\ (g = "s" <=> w = "ON_CHAT")
  <2>1. \/ f[j] = Operand(Register("a")) /\ w # "ON_CHAT"
        \/ f[j] = Operand(Integer("a")) /\ w # "ON_CHAT"
        \/ f[j] = Operand(String) /\ w = "ON_CHAT"
    <3>1. /\ w = "ALLOC" => f[1] = Operand(Register("a"))
          /\ w = "MOV" => f[1] = Operand(Register("a"))
          /\ w = "TRIGGER_PIN" => f[1] = Operand(Integer("a"))
          /\ w = "ON_CHAT" => f[1] = Operand(String)
          /\ w \in AluOps \cup {"CMP"} => f[1] = Operand(Register("a"))
      BY FormRows
    <3>2. "ON_CHAT" \notin AluOps
      BY DEF AluOps
    <3> QED
      BY <1>4, <1>8, <3>1, <3>2
  <2>2. CASE f[j] = Operand(Register("a")) /\ w # "ON_CHAT"
    <3>1. g = "a"
      BY <2>2, TakesRegister
    <3> QED
      BY <2>2, <3>1
  <2>3. CASE f[j] = Operand(Integer("a")) /\ w # "ON_CHAT"
    <3>1. g = "a"
      BY <2>3, TakesInteger
    <3> QED
      BY <2>3, <3>1
  <2>4. CASE f[j] = Operand(String) /\ w = "ON_CHAT"
    <3>1. g = "s"
      BY <2>4, TakesString
    <3> QED
      BY <2>4, <3>1
  <2> QED
    BY <2>1, <2>2, <2>3, <2>4
<1>9. ASSUME k = 3
      PROVE  (w = "ON_CHAT" => h = "a") /\ (w # "ON_CHAT" => h \in {"b", "v", "s"})
  <2>1. \/ f[k] = Operand(Register("b")) /\ w # "ON_CHAT"
        \/ f[k] = Operand(Integer("b")) /\ w # "ON_CHAT"
        \/ f[k] = Operand(Integer("v")) /\ w # "ON_CHAT"
        \/ f[k] = Loose(Either(Register("b"), Either(Integer("v"), String))) /\ w # "ON_CHAT"
        \/ f[k] = Operand(Register("a")) /\ w = "ON_CHAT"
    <3>1. /\ w = "ALLOC" => f[3] = Operand(Integer("v"))
          /\ w = "MOV" => f[3] = Loose(Either(Register("b"), Either(Integer("v"), String)))
          /\ w = "TRIGGER_PIN" => f[3] = Operand(Integer("b"))
          /\ w = "ON_CHAT" => f[3] = Operand(Register("a"))
          /\ w \in AluOps \cup {"CMP"} => f[3] = Operand(Register("b"))
      BY FormRows
    <3>2. "ON_CHAT" \notin AluOps
      BY DEF AluOps
    <3> QED
      BY <1>4, <1>9, <3>1, <3>2
  <2>2. CASE f[k] = Operand(Register("b")) /\ w # "ON_CHAT"
    <3>1. h = "b"
      BY <2>2, TakesRegister
    <3> QED
      BY <2>2, <3>1
  <2>3. CASE f[k] = Operand(Integer("b")) /\ w # "ON_CHAT"
    <3>1. h = "b"
      BY <2>3, TakesInteger
    <3> QED
      BY <2>3, <3>1
  <2>4. CASE f[k] = Operand(Integer("v")) /\ w # "ON_CHAT"
    <3>1. h = "v"
      BY <2>4, TakesInteger
    <3> QED
      BY <2>4, <3>1
  <2>5. CASE f[k] = Loose(Either(Register("b"), Either(Integer("v"), String))) /\ w # "ON_CHAT"
    <3>1. h \in {"b", "v", "s"}
      BY <2>5, TakesAnyValue
    <3> QED
      BY <2>5, <3>1
  <2>6. CASE f[k] = Operand(Register("a")) /\ w = "ON_CHAT"
    <3>1. h = "a"
      BY <2>6, TakesRegister
    <3> QED
      BY <2>6, <3>1
  <2> QED
    BY <2>1, <2>2, <2>3, <2>4, <2>5, <2>6
<1> HIDE DEF g, h
<1>10. g # h
  BY <1>3, <1>6, <1>7, <1>8, <1>9
<1> QED
  BY <1>10 DEF g, h

KindFor(op, t) ==
    CASE op = "MOV" -> IF t \in registers THEN "MOV_REG"
                       ELSE IF t = "INT" THEN "MOV_INT" ELSE "MOV_STR"
      [] op = "SEND_CHAT" -> IF t \in registers THEN "SEND_REG" ELSE "SEND_STR"
      [] OTHER -> op

LEMMA SendStrReads ==
    ASSUME NEW toks, NEW i \in Nat, NEW st, st.op = "SEND_STR", toks[i].type = "SEND_CHAT",
           toks[i + 1].type \in {"STRING"}, Value(toks[i + 1]) = st.s
    PROVE  ReadsAs(toks, i, st)
  BY DEF ReadsAs, AluOps, Branch, JumpOps

(* A statement with every operand of its form reads as its tokens. *)
LEMMA StatementRead ==
    ASSUME NEW toks, NEW i \in Nat, NEW w \in keywords, toks[i].type = w,
           NEW f, f = Form(w), NEW st \in Partial,
           NEW op, op = KindFor(w, toks[i + Len(f)].type),
           \A k \in 1 .. Len(f) : InField(f[k], toks[i + k], st),
           NEW full, full = [st EXCEPT !.op = op]
    PROVE  ReadsAs(toks, i, full) /\ Length(full) = Len(f) + 1
<1>1. /\ full.op = op /\ full.a = st.a /\ full.b = st.b /\ full.v = st.v
      /\ full.s = st.s /\ full.l = st.l
  BY DEF Partial
<1>2. CASE w = "ALLOC"
  <2>1. /\ Len(f) = 3
        /\ f[1] = Operand(Register("a"))
        /\ f[2] = Comma
        /\ f[3] = Operand(Integer("v"))
    BY <1>2, FormRows
  <2>2. /\ InField(f[1], toks[i + 1], st)
        /\ InField(f[2], toks[i + 2], st)
        /\ InField(f[3], toks[i + 3], st)
    BY <2>1
  <2>3. toks[i + 1].type \in registers /\ Value(toks[i + 1]) = full.a
    BY <1>1, <2>1, <2>2, ReadRegister
  <2>4. toks[i + 2].type = ","
    BY <1>1, <2>1, <2>2, ReadComma
  <2>5. toks[i + 3].type \in {"INT"} /\ Value(toks[i + 3]) = full.v
    BY <1>1, <2>1, <2>2, ReadInteger
  <2>6. full.op = w
    BY <1>1, <1>2 DEF KindFor, AluOps, Branch, JumpOps
  <2> QED
    <3>1. ReadsAs(toks, i, full)
      BY <1>2, <2>3, <2>4, <2>5, <2>6 DEF ReadsAs, TwoRegister, AluOps, Branch, JumpOps
    <3>2. Length(full) = Len(f) + 1
      BY <1>2, <2>1, <2>6 DEF Length, TwoRegister, AluOps, Branch, JumpOps
    <3> QED
      BY <3>1, <3>2
<1>3. CASE w = "FREE"
  <2>1. /\ Len(f) = 1
        /\ f[1] = Operand(Register("a"))
    BY <1>3, FormRows
  <2>2. /\ InField(f[1], toks[i + 1], st)
    BY <2>1
  <2>3. toks[i + 1].type \in registers /\ Value(toks[i + 1]) = full.a
    BY <1>1, <2>1, <2>2, ReadRegister
  <2>6. full.op = w
    BY <1>1, <1>3 DEF KindFor, AluOps, Branch, JumpOps
  <2> QED
    <3>1. ReadsAs(toks, i, full)
      BY <1>3, <2>3, <2>6 DEF ReadsAs, TwoRegister, AluOps, Branch, JumpOps
    <3>2. Length(full) = Len(f) + 1
      BY <1>3, <2>1, <2>6 DEF Length, TwoRegister, AluOps, Branch, JumpOps
    <3> QED
      BY <3>1, <3>2
<1>4. CASE w = "TRIGGER_PIN"
  <2>1. /\ Len(f) = 3
        /\ f[1] = Operand(Integer("a"))
        /\ f[2] = Comma
        /\ f[3] = Operand(Integer("b"))
    BY <1>4, FormRows
  <2>2. /\ InField(f[1], toks[i + 1], st)
        /\ InField(f[2], toks[i + 2], st)
        /\ InField(f[3], toks[i + 3], st)
    BY <2>1
  <2>3. toks[i + 1].type \in {"INT"} /\ Value(toks[i + 1]) = full.a
    BY <1>1, <2>1, <2>2, ReadInteger
  <2>4. toks[i + 2].type = ","
    BY <1>1, <2>1, <2>2, ReadComma
  <2>5. toks[i + 3].type \in {"INT"} /\ Value(toks[i + 3]) = full.b
    BY <1>1, <2>1, <2>2, ReadInteger
  <2>6. full.op = w
    BY <1>1, <1>4 DEF KindFor, AluOps, Branch, JumpOps
  <2> QED
    <3>1. ReadsAs(toks, i, full)
      BY <1>4, <2>3, <2>4, <2>5, <2>6 DEF ReadsAs, TwoRegister, AluOps, Branch, JumpOps
    <3>2. Length(full) = Len(f) + 1
      BY <1>4, <2>1, <2>6 DEF Length, TwoRegister, AluOps, Branch, JumpOps
    <3> QED
      BY <3>1, <3>2
<1>5. CASE w = "ON_CHAT"
  <2>1. /\ Len(f) = 3
        /\ f[1] = Operand(String)
        /\ f[2] = Comma
        /\ f[3] = Operand(Register("a"))
    BY <1>5, FormRows
  <2>2. /\ InField(f[1], toks[i + 1], st)
        /\ InField(f[2], toks[i + 2], st)
        /\ InField(f[3], toks[i + 3], st)
    BY <2>1
  <2>3. toks[i + 1].type \in {"STRING"} /\ Value(toks[i + 1]) = full.s
    BY <1>1, <2>1, <2>2, ReadString
  <2>4. toks[i + 2].type = ","
    BY <1>1, <2>1, <2>2, ReadComma
  <2>5. toks[i + 3].type \in registers /\ Value(toks[i + 3]) = full.a
    BY <1>1, <2>1, <2>2, ReadRegister
  <2>6. full.op = w
    BY <1>1, <1>5 DEF KindFor, AluOps, Branch, JumpOps
  <2> QED
    <3>1. ReadsAs(toks, i, full)
      BY <1>5, <2>3, <2>4, <2>5, <2>6 DEF ReadsAs, TwoRegister, AluOps, Branch, JumpOps
    <3>2. Length(full) = Len(f) + 1
      BY <1>5, <2>1, <2>6 DEF Length, TwoRegister, AluOps, Branch, JumpOps
    <3> QED
      BY <3>1, <3>2
<1>6. CASE w \in AluOps \cup {"CMP"}
  <2>1. /\ Len(f) = 3
        /\ f[1] = Operand(Register("a"))
        /\ f[2] = Comma
        /\ f[3] = Operand(Register("b"))
    BY <1>6, FormRows
  <2>2. /\ InField(f[1], toks[i + 1], st)
        /\ InField(f[2], toks[i + 2], st)
        /\ InField(f[3], toks[i + 3], st)
    BY <2>1
  <2>3. toks[i + 1].type \in registers /\ Value(toks[i + 1]) = full.a
    BY <1>1, <2>1, <2>2, ReadRegister
  <2>4. toks[i + 2].type = ","
    BY <1>1, <2>1, <2>2, ReadComma
  <2>5. toks[i + 3].type \in registers /\ Value(toks[i + 3]) = full.b
    BY <1>1, <2>1, <2>2, ReadRegister
  <2>6. full.op = w
    BY <1>1, <1>6 DEF KindFor, AluOps, Branch, JumpOps
  <2> QED
    <3>1. ReadsAs(toks, i, full)
      BY <1>6, <2>3, <2>4, <2>5, <2>6 DEF ReadsAs, TwoRegister, AluOps, Branch, JumpOps
    <3>2. Length(full) = Len(f) + 1
      BY <1>6, <2>1, <2>6 DEF Length, TwoRegister, AluOps, Branch, JumpOps
    <3> QED
      BY <3>1, <3>2
<1>7. CASE w \in Branch
  <2>1. /\ Len(f) = 1
        /\ f[1] = Name
    BY <1>7, FormRows
  <2>2. /\ InField(f[1], toks[i + 1], st)
    BY <2>1
  <2>3. toks[i + 1].type \in {"IDENT"} /\ Value(toks[i + 1]) = full.l
    BY <1>1, <2>1, <2>2, ReadName
  <2>6. full.op = w
    BY <1>1, <1>7 DEF KindFor, AluOps, Branch, JumpOps
  <2> QED
    <3>1. ReadsAs(toks, i, full)
      BY <1>7, <2>3, <2>6 DEF ReadsAs, TwoRegister, AluOps, Branch, JumpOps
    <3>2. Length(full) = Len(f) + 1
      BY <1>7, <2>1, <2>6 DEF Length, TwoRegister, AluOps, Branch, JumpOps
    <3> QED
      BY <3>1, <3>2
<1>8. CASE w = "RET"
  <2>1. /\ Len(f) = 0
    BY <1>8, FormRows
  <2>6. full.op = w
    BY <1>1, <1>8 DEF KindFor, AluOps, Branch, JumpOps
  <2> QED
    <3>1. ReadsAs(toks, i, full)
      BY <1>8, <2>6 DEF ReadsAs, TwoRegister, AluOps, Branch, JumpOps
    <3>2. Length(full) = Len(f) + 1
      BY <1>8, <2>1, <2>6 DEF Length, TwoRegister, AluOps, Branch, JumpOps
    <3> QED
      BY <3>1, <3>2
<1>9. CASE w = "MOV"
  <2>1. /\ Len(f) = 3
        /\ f[1] = Operand(Register("a"))
        /\ f[2] = Comma
        /\ f[3] = Loose(Either(Register("b"), Either(Integer("v"), String)))
    BY <1>9, FormRows
  <2>2. /\ InField(f[1], toks[i + 1], st)
        /\ InField(f[2], toks[i + 2], st)
        /\ InField(f[3], toks[i + 3], st)
    BY <2>1
  <2>3. toks[i + 1].type \in registers /\ Value(toks[i + 1]) = full.a
    BY <1>1, <2>1, <2>2, ReadRegister
  <2>4. toks[i + 2].type = ","
    BY <1>1, <2>1, <2>2, ReadComma
  <2>5. \/ toks[i + 3].type \in registers /\ Value(toks[i + 3]) = full.b
        \/ toks[i + 3].type \in {"INT"} /\ Value(toks[i + 3]) = full.v
        \/ toks[i + 3].type \in {"STRING"} /\ Value(toks[i + 3]) = full.s
    BY <1>1, <2>1, <2>2, ReadAnyValue
  <2>6. CASE toks[i + 3].type \in registers /\ Value(toks[i + 3]) = full.b
    <3>1. full.op = "MOV_REG"
      BY <1>1, <1>9, <2>1, <2>6, RegisterNames DEF KindFor
    <3> QED
      <4>1. ReadsAs(toks, i, full)
        BY <1>9, <2>3, <2>4, <2>6, <3>1 DEF ReadsAs, TwoRegister, AluOps, Branch, JumpOps
      <4>2. Length(full) = Len(f) + 1
        BY <1>9, <2>1, <2>6, <3>1 DEF Length, TwoRegister, AluOps, Branch, JumpOps
      <4> QED
        BY <4>1, <4>2
  <2>7. CASE toks[i + 3].type \in {"INT"} /\ Value(toks[i + 3]) = full.v
    <3>1. full.op = "MOV_INT"
      BY <1>1, <1>9, <2>1, <2>7, RegisterNames DEF KindFor
    <3> QED
      <4>1. ReadsAs(toks, i, full)
        BY <1>9, <2>3, <2>4, <2>7, <3>1 DEF ReadsAs, TwoRegister, AluOps, Branch, JumpOps
      <4>2. Length(full) = Len(f) + 1
        BY <1>9, <2>1, <3>1 DEF Length, TwoRegister, AluOps, Branch, JumpOps
      <4> QED
        BY <4>1, <4>2
  <2>8. CASE toks[i + 3].type \in {"STRING"} /\ Value(toks[i + 3]) = full.s
    <3>1. full.op = "MOV_STR"
      BY <1>1, <1>9, <2>1, <2>8, RegisterNames DEF KindFor
    <3> QED
      <4>1. ReadsAs(toks, i, full)
        BY <1>9, <2>3, <2>4, <2>8, <3>1 DEF ReadsAs, TwoRegister, AluOps, Branch, JumpOps
      <4>2. Length(full) = Len(f) + 1
        BY <1>9, <2>1, <3>1 DEF Length, TwoRegister, AluOps, Branch, JumpOps
      <4> QED
        BY <4>1, <4>2
  <2> QED
    BY <2>5, <2>6, <2>7, <2>8
<1>10. CASE w = "SEND_CHAT"
  <2>1. /\ Len(f) = 1
        /\ f[1] = Loose(Either(Register("a"), String))
    BY <1>10, FormRows
  <2>2. /\ InField(f[1], toks[i + 1], st)
    BY <2>1
  <2>3. \/ toks[i + 1].type \in registers /\ Value(toks[i + 1]) = full.a
        \/ toks[i + 1].type \in {"STRING"} /\ Value(toks[i + 1]) = full.s
    BY <1>1, <2>1, <2>2, ReadRegisterOrString
  <2>6. CASE toks[i + 1].type \in registers /\ Value(toks[i + 1]) = full.a
    <3>1. full.op = "SEND_REG"
      BY <1>1, <1>10, <2>1, <2>6, RegisterNames DEF KindFor
    <3> QED
      <4>1. ReadsAs(toks, i, full)
        BY <1>10, <2>6, <3>1 DEF ReadsAs, TwoRegister, AluOps, Branch, JumpOps
      <4>2. Length(full) = Len(f) + 1
        BY <1>10, <2>1, <2>6, <3>1 DEF Length, TwoRegister, AluOps, Branch, JumpOps
      <4> QED
        BY <4>1, <4>2
  <2>7. CASE toks[i + 1].type \in {"STRING"} /\ Value(toks[i + 1]) = full.s
    <3>1. full.op = "SEND_STR" /\ toks[i].type = "SEND_CHAT"
      BY <1>1, <1>10, <2>1, <2>7, RegisterNames DEF KindFor
    <3>2. Value(toks[i + 1]) = full.s
      BY <2>7
    <3> QED
      <4>1. ReadsAs(toks, i, full)
        BY <2>7, <3>1, <3>2, SendStrReads, Zenon
      <4>2. Length(full) = Len(f) + 1
        <5>1. Length(full) = 2
          BY <3>1 DEF Length, TwoRegister, AluOps
        <5> QED
          BY <2>1, <5>1
      <4> QED
        BY <4>1, <4>2
  <2> QED
    BY <2>3, <2>6, <2>7
<1> QED
  BY <1>2, <1>3, <1>4, <1>5, <1>6, <1>7, <1>8, <1>9, <1>10 DEF keywords, AluOps, Branch, JumpOps

-----------------------------------------------------------------------------
(* How far the source is read: the program is the statements before p, and *)
(* the lexer stands in the statement that begins at p.                     *)
ProgramReads(p) ==
    \E P : /\ Laid(P, program)
           /\ P[Len(program) + 1] = p
           /\ \A k \in 1 .. Len(program) : ReadsAs(TokensOf(source), P[k], program[k])

OperandsRead(p) ==
    LET toks == TokensOf(source)
        f    == Form(stmt.op)
    IN  /\ p \in 1 .. Len(toks) /\ toks[p].type = stmt.op
        /\ \E n \in 0 .. Len(f) :
              /\ want = SubSeq(f, n + 1, Len(f))
              /\ p + n \in 1 .. Len(toks) /\ toks[p + n] = curToken
              /\ At(source, peekToken, p + n + 1)
              /\ \A k \in 1 .. n : InField(f[k], toks[p + k], stmt)

Reading(p) ==
    /\ p \in 1 .. (Len(TokensOf(source)) + 1)
    /\ pc = "statement" => /\ At(source, curToken, p)
                           /\ curToken.type # "EOF" => At(source, peekToken, p + 1)
    /\ pc = "operands"  => OperandsRead(p)
    /\ pc = "after"     => At(source, peekToken, p)
    /\ pc = "done"      => p = Len(TokensOf(source)) + 1

ReadTo(p) ==
    /\ Sentence(TokensOf(source)) <=> Good(TokensOf(source))[p]
    /\ ProgramReads(p)
    /\ Reading(p)

ReadInv ==
    IF errors = 0 THEN \E p : ReadTo(p) ELSE ~Sentence(TokensOf(source))

LEMMA ReadInit == ParserInv /\ Init => ReadInv
<1> SUFFICES ASSUME ParserInv, Init PROVE ReadInv
  OBVIOUS
<1> DEFINE toks == TokensOf(source)
<1>1. source \in Words /\ Len(toks) \in Nat
  BY TokensOfTyped DEF ParserInv, TypeOK
<1>2. At(source, curToken, 1)
  BY <1>1, AtFirst DEF Init
<1>3. curToken.type # "EOF" => At(source, peekToken, 2)
  <2>1. curToken.type # "EOF" => At(source, NextToken(source, curToken.next), 1 + 1)
    BY <1>1, <1>2, AtFacts
  <2> QED
    BY <2>1 DEF Init
<1>4. Reading(1)
  BY <1>1, <1>2, <1>3 DEF Reading, Init
<1>5. ProgramReads(1)
  <2> DEFINE P == [k \in 1 .. 1 |-> 1]
  <2>1. Len(program) = 0 /\ P \in [1 .. 1 -> Nat] /\ P[1] = 1
    BY DEF Init
  <2> HIDE DEF P
  <2>2. Laid(P, program)
    BY <2>1 DEF Laid
  <2> QED
    BY <2>1, <2>2 DEF ProgramReads
<1>6. Sentence(toks) <=> Good(toks)[1]
  BY <1>1, GoodFacts
<1> QED
  BY <1>4, <1>5, <1>6 DEF ReadInv, ReadTo, Init

LEMMA ReadAppend ==
    ASSUME ParserInv, NEW st \in Statement, Append1(st), NEW p,
           ProgramReads(p), ReadsAs(TokensOf(source), p, st)
    PROVE  ProgramReads(p + Length(st))'
<1> DEFINE n == Len(program)
           toks == TokensOf(source)
<1>1. /\ program \in Seq(Statement) /\ n \in Nat /\ block \in 0 .. n
      /\ program' \in Seq(Statement) /\ Len(program') = n + 1
      /\ program'[n + 1] = st
      /\ \A k \in 1 .. n : program'[k].op = program[k].op
      /\ \A k \in 1 .. n : k # block => program'[k] = program[k]
      /\ block # 0 => program'[block] = [program[block] EXCEPT !.body = @ + 1]
  BY Appended
<1>2. source' = source
  BY DEF Append1
<1>3. PICK P : /\ Laid(P, program) /\ P[n + 1] = p
               /\ \A k \in 1 .. n : ReadsAs(toks, P[k], program[k])
  BY DEF ProgramReads
<1>4. PICK Q : /\ Laid(Q, program')
               /\ \A k \in 1 .. (n + 1) : Q[k] = P[k]
               /\ Q[Len(program') + 1] = P[n + 1] + Length(program'[Len(program')])
  <2>1. PICK prog, more : prog = program /\ more = program'
    OBVIOUS
  <2>2. Len(prog) \in Nat /\ Laid(P, prog) /\ Len(more) = Len(prog) + 1
    BY <1>1, <1>3, <2>1
  <2>3. \A k \in 1 .. Len(prog) : more[k].op = prog[k].op
    BY <1>1, <2>1
  <2>4. \E Q : /\ Laid(Q, more)
               /\ \A k \in 1 .. (Len(prog) + 1) : Q[k] = P[k]
               /\ Q[Len(more) + 1] = P[Len(prog) + 1] + Length(more[Len(more)])
    BY <2>2, <2>3, LaidAppend
  <2> QED
    BY <2>1, <2>4
<1>5. ASSUME NEW k \in 1 .. n PROVE ReadsAs(toks, Q[k], program'[k])
  <2>1. ReadsAs(toks, Q[k], program[k])
    BY <1>3, <1>4
  <2>2. program[k] \in Statement /\ program'[k] \in Statement
    BY <1>1, ElementOfSeq
  <2>3. CASE k # block
    BY <1>1, <2>1, <2>3
  <2>4. CASE k = block
    <3>1. program'[k] = [program[k] EXCEPT !.body = @ + 1]
      BY <1>1, <2>4
    <3>2. /\ program'[k].op = program[k].op /\ program'[k].a = program[k].a
          /\ program'[k].b = program[k].b /\ program'[k].v = program[k].v
          /\ program'[k].s = program[k].s /\ program'[k].l = program[k].l
      BY <2>2, <3>1 DEF Statement
    <3> QED
      BY <2>1, <2>2, <3>2, ReadsWithoutBody
  <2> QED
    BY <2>3, <2>4
<1>6. ReadsAs(toks, Q[n + 1], program'[n + 1])
  <2>1. Q[n + 1] = p
    BY <1>1, <1>3, <1>4
  <2> QED
    BY <1>1, <2>1
<1>7. \A k \in 1 .. (n + 1) : ReadsAs(toks, Q[k], program'[k])
  BY <1>1, <1>5, <1>6
<1>8. Q[Len(program') + 1] = p + Length(st)
  BY <1>1, <1>3, <1>4
<1> QED
  BY <1>1, <1>2, <1>4, <1>7, <1>8 DEF ProgramReads

(* What every step of a read source starts from. *)
LEMMA ReadFacts ==
    ASSUME ParserInv
    PROVE  LET toks == TokensOf(source)
           IN  /\ source \in Words /\ toks \in Seq(LocatedTokens(source)) /\ Len(toks) \in Nat
               /\ errors \in Nat /\ stmt \in Partial
               /\ curToken.type \in Types /\ peekToken.type \in Types
               /\ curToken.literal \in Words /\ peekToken.literal \in Words
<1>1. source \in Words /\ errors \in Nat /\ stmt \in Partial
  BY DEF ParserInv, TypeOK
<1>2. /\ curToken.type \in Types /\ peekToken.type \in Types
      /\ curToken.literal \in Words /\ peekToken.literal \in Words
  BY DEF ParserInv, TypeOK, TokenOf
<1> QED
  BY <1>1, <1>2, TokensOfTyped

(* A statement that cannot be finished is none. *)
LEMMA ReadGivesUp ==
    ASSUME ParserInv, ReadInv, NEW n \in {1, 2}, GiveUp(n),
           \A p \in 1 .. Len(TokensOf(source)) : ReadTo(p) =>
               \A k \in Nat : ~Begins(TokensOf(source), p, k),
           \A p : ReadTo(p) => p # Len(TokensOf(source)) + 1
    PROVE  ReadInv'
<1> DEFINE toks == TokensOf(source)
<1>1. Len(toks) \in Nat /\ errors \in Nat
  BY ReadFacts
<1>2. source' = source /\ errors' # 0
  BY <1>1 DEF GiveUp
<1>3. ASSUME NEW p, ReadTo(p) PROVE ~Sentence(toks)
  <2>1. p \in 1 .. Len(toks)
    BY <1>1, <1>3 DEF ReadTo, Reading
  <2>2. \A k \in Nat : ~Begins(toks, p, k)
    BY <1>3, <2>1
  <2>3. ~Good(toks)[p]
    BY <1>1, <2>1, <2>2, GoodFacts
  <2> QED
    BY <1>3, <2>3 DEF ReadTo
<1>4. ~Sentence(toks)
  BY <1>3 DEF ReadInv
<1> QED
  BY <1>2, <1>4 DEF ReadInv

LEMMA ReadBegins == ParserInv /\ ReadInv /\ BeginStatement => ReadInv'
<1> SUFFICES ASSUME ParserInv, ReadInv, BeginStatement PROVE ReadInv'
  OBVIOUS
<1> DEFINE toks == TokensOf(source)
           w == curToken.type
<1>1. /\ pc = "statement" /\ w # "EOF" /\ w \in keywords
      /\ stmt' = [NoStmt EXCEPT !.op = w]
      /\ want' = Form(w)
      /\ pc' = "operands"
      /\ UNCHANGED <<source, curToken, peekToken, block, program, errors>>
  BY DEF BeginStatement, AtStatement, Stay
<1>2. CASE errors # 0
  BY <1>1, <1>2 DEF ReadInv
<1>3. CASE errors = 0
  <2>1. PICK p : ReadTo(p)
    BY <1>3 DEF ReadInv
  <2>2. At(source, curToken, p) /\ At(source, peekToken, p + 1)
    BY <1>1, <2>1 DEF ReadTo, Reading
  <2>3. Len(toks) \in Nat /\ source \in Words
    BY ReadFacts
  <2>4. p \in 1 .. Len(toks) /\ toks[p] = curToken
    BY <1>1, <2>2, <2>3, AtFacts
  <2>5. stmt'.op = w
    BY <1>1 DEF NoStmt
  <2>6. Form(w) \in Seq(Slots) /\ Len(Form(w)) \in Nat
    BY <1>1, FormTyped
  <2>7. want' = SubSeq(Form(w), 0 + 1, Len(Form(w)))
    BY <1>1, <2>6
  <2>8. OperandsRead(p)'
    <3>1. 0 \in 0 .. Len(Form(w)) /\ p + 0 = p /\ p + 0 + 1 = p + 1
      BY <2>4, <2>6
    <3>2. /\ want' = SubSeq(Form(w), 0 + 1, Len(Form(w)))
          /\ p + 0 \in 1 .. Len(toks) /\ toks[p + 0] = curToken
          /\ At(source, peekToken, p + 0 + 1)
          /\ \A k \in 1 .. 0 : InField(Form(w)[k], toks[p + k], stmt')
      BY <2>2, <2>4, <2>7, <3>1
    <3>3. toks[p].type = stmt'.op
      BY <2>4, <2>5
    <3> QED
      BY <1>1, <2>4, <2>5, <3>1, <3>2, <3>3 DEF OperandsRead
  <2>9. Reading(p)'
    BY <1>1, <2>1, <2>8 DEF ReadTo, Reading
  <2>10. ProgramReads(p)'
    BY <1>1, <2>1 DEF ReadTo, ProgramReads
  <2> QED
    BY <1>1, <1>3, <2>1, <2>9, <2>10 DEF ReadTo, ReadInv
<1> QED
  BY <1>2, <1>3

(* The operand that is wanted is the one that stands behind the cursor. *)
LEMMA NextOperand ==
    ASSUME ParserInv, NEW p, ReadTo(p), pc = "operands", want # <<>>
    PROVE  LET toks == TokensOf(source)
               f    == Form(stmt.op)
           IN  /\ p \in 1 .. Len(toks) /\ toks[p].type = stmt.op /\ stmt.op \in keywords
               /\ \E n \in 0 .. (Len(f) - 1) :
                     /\ want = SubSeq(f, n + 1, Len(f))
                     /\ Expected = f[n + 1] /\ Tail(want) = SubSeq(f, n + 2, Len(f))
                     /\ p + n \in 1 .. Len(toks) /\ toks[p + n] = curToken
                     /\ At(source, peekToken, p + n + 1)
                     /\ \A k \in 1 .. n : InField(f[k], toks[p + k], stmt)
<1> DEFINE toks == TokensOf(source)
           f == Form(stmt.op)
<1>1. OperandsRead(p)
  BY DEF ReadTo, Reading
<1>2. p \in 1 .. Len(toks) /\ toks[p].type = stmt.op
  BY <1>1 DEF OperandsRead
<1>3. PICK n \in 0 .. Len(f) :
        /\ want = SubSeq(f, n + 1, Len(f))
        /\ p + n \in 1 .. Len(toks) /\ toks[p + n] = curToken
        /\ At(source, peekToken, p + n + 1)
        /\ \A k \in 1 .. n : InField(f[k], toks[p + k], stmt)
  BY <1>1 DEF OperandsRead
<1>4. stmt.op \in keywords
  BY ReadFacts DEF Partial
<1>5. f \in Seq(Slots) /\ Len(f) \in Nat
  BY <1>4, FormTyped
<1>6. n # Len(f)
  <2> SUFFICES ASSUME n = Len(f) PROVE FALSE
    OBVIOUS
  <2> HIDE DEF f
  <2>1. want = SubSeq(f, Len(f) + 1, Len(f))
    BY <1>3
  <2> QED
    BY <1>5, <2>1
<1>7. Expected = f[n + 1] /\ Tail(want) = SubSeq(f, n + 2, Len(f))
  <2>1. n \in 0 .. (Len(f) - 1)
    BY <1>5, <1>6
  <2> HIDE DEF f
  <2>2. want = SubSeq(f, n + 1, Len(f))
    BY <1>3
  <2>3. Head(want) = f[n + 1]
    BY <1>5, <2>1, <2>2
  <2>4. Tail(want) = SubSeq(f, n + 2, Len(f))
    BY <1>5, <2>1, <2>2
  <2> QED
    BY <2>3, <2>4 DEF Expected
<1>8. n \in 0 .. (Len(f) - 1)
  BY <1>5, <1>6
<1> QED
  BY <1>2, <1>3, <1>4, <1>7, <1>8

LEMMA ReadTakes == ParserInv /\ ReadInv /\ TakeOperand => ReadInv'
<1> SUFFICES ASSUME ParserInv, ReadInv, TakeOperand PROVE ReadInv'
  OBVIOUS
<1> DEFINE toks == TokensOf(source)
           t == peekToken.type
<1>1. /\ pc = "operands" /\ want # <<>>
      /\ t \in DOMAIN Expected.takes /\ ~Overflows(peekToken)
      /\ curToken' = peekToken /\ peekToken' = NextToken(source, peekToken.next)
      /\ stmt' = LET g == Expected.takes[t]
                 IN  IF g = "none" THEN stmt ELSE [stmt EXCEPT ![g] = Value(peekToken)]
      /\ want' = Tail(want)
      /\ UNCHANGED <<source, pc, block, program, errors>>
  BY DEF TakeOperand, Fits, nextToken
<1>2. CASE errors # 0
  BY <1>1, <1>2 DEF ReadInv
<1>3. CASE errors = 0
  <2>1. PICK p : ReadTo(p)
    BY <1>3 DEF ReadInv
  <2>2. PICK f : f = Form(stmt.op)
    OBVIOUS
  <2>3. /\ p \in 1 .. Len(toks) /\ toks[p].type = stmt.op /\ stmt.op \in keywords
    BY <1>1, <2>1, NextOperand
  <2>4. PICK n \in 0 .. (Len(f) - 1) :
          /\ Expected = f[n + 1] /\ Tail(want) = SubSeq(f, n + 2, Len(f))
          /\ p + n \in 1 .. Len(toks)
          /\ At(source, peekToken, p + n + 1)
          /\ \A k \in 1 .. n : InField(f[k], toks[p + k], stmt)
    BY <1>1, <2>1, <2>2, NextOperand
  <2>5. Len(toks) \in Nat /\ source \in Words /\ stmt \in Partial
    BY ReadFacts
  <2>6. f \in Seq(Slots) /\ Len(f) \in Nat
    BY <2>2, <2>3, FormTyped
  <2>7. n + 1 \in 1 .. Len(f) /\ n + 1 \in DOMAIN f /\ f[n + 1] \in Slots
    BY <2>4, <2>6
  <2>8. t # "EOF"
    <3>1. t \in DOMAIN f[n + 1].takes
      BY <1>1, <2>4
    <3>2. "EOF" \notin registers
      <4>1. \A m \in 1 .. 16 :
              registerTokens[m] \in {"R1", "R2", "R3", "R4", "R5", "R6", "R7", "R8", "R9", "R10",
                                     "R11", "R12", "R13", "R14", "R15", "R16"}
        BY DEF registerTokens
      <4> QED
        BY <4>1 DEF registers
    <3> QED
      BY <2>7, <3>1, <3>2, SlotTyped
  <2>9. /\ p + n + 1 \in 1 .. Len(toks) /\ toks[p + n + 1] = peekToken
        /\ At(source, NextToken(source, peekToken.next), p + n + 1 + 1)
    BY <2>4, <2>5, <2>8, AtFacts
  <2> DEFINE g == f[n + 1].takes[t]
  <2>10. stmt' = IF g = "none" THEN stmt ELSE [stmt EXCEPT ![g] = Value(peekToken)]
    BY <1>1, <2>4
  <2>11. g \in {"a", "b", "v", "s", "l", "none"} /\ t \in DOMAIN f[n + 1].takes
    <3>1. t \in DOMAIN f[n + 1].takes
      BY <1>1, <2>4
    <3> QED
      BY <2>7, <3>1, SlotTyped
  <2>12. /\ \A x \in {"a", "b", "v", "s", "l"} : x # g => stmt'[x] = stmt[x]
         /\ g # "none" => stmt'[g] = Value(peekToken)
         /\ stmt'.op = stmt.op
    <3> HIDE DEF g
    <3>1. CASE g = "none"
      BY <2>10, <3>1
    <3>2. CASE g \in {"a", "b", "v", "s", "l"}
      <4>1. stmt' = [stmt EXCEPT ![g] = Value(peekToken)]
        BY <2>10, <3>2
      <4>2. g \in DOMAIN stmt /\ "op" # g
        BY <2>5, <3>2 DEF Partial
      <4>3. stmt'[g] = Value(peekToken)
        BY <4>1, <4>2
      <4>4. \A x \in {"a", "b", "v", "s", "l"} : x # g => stmt'[x] = stmt[x]
        BY <2>5, <4>1, <4>2 DEF Partial
      <4> QED
        BY <2>5, <4>1, <4>2, <4>3, <4>4 DEF Partial
    <3> QED
      BY <2>11, <3>1, <3>2
  <2>13. InField(f[n + 1], toks[p + (n + 1)], stmt')
    <3>1. p + (n + 1) = p + n + 1
      BY <2>3, <2>4
    <3> QED
      BY <1>1, <2>9, <2>11, <2>12, <3>1 DEF InField
  <2>14. ASSUME NEW k \in 1 .. n PROVE InField(f[k], toks[p + k], stmt')
    <3> DEFINE x == toks[p + k].type
               h == f[k].takes[x]
    <3>1. InField(f[k], toks[p + k], stmt)
      BY <2>4
    <3>2. x \in DOMAIN f[k].takes /\ k \in DOMAIN f /\ k < n + 1
      BY <2>4, <2>6, <3>1 DEF InField
    <3>3. h # g
      BY <2>2, <2>3, <2>7, <2>11, <3>2, FieldsApart
    <3>4. h \in {"a", "b", "v", "s", "l", "none"}
      <4>1. f[k] \in Slots
        BY <2>6, <3>2
      <4> QED
        BY <3>2, <4>1, SlotTyped
    <3>5. h # "none" => stmt'[h] = stmt[h]
      <4> HIDE DEF g, h
      <4> QED
        BY <2>12, <3>3, <3>4
    <3> QED
      BY <3>1, <3>5 DEF InField
  <2>15. \A k \in 1 .. (n + 1) : InField(f[k], toks[p + k], stmt')
    BY <2>4, <2>13, <2>14
  <2>16. OperandsRead(p)'
    <3>1. stmt'.op = stmt.op /\ f = Form(stmt'.op)
      BY <2>2, <2>12
    <3>2. n + 1 \in 0 .. Len(f) /\ n + 2 = (n + 1) + 1
      BY <2>4, <2>6
    <3>3. p + n + 1 = p + (n + 1) /\ p + n + 1 + 1 = p + (n + 1) + 1
      BY <2>3, <2>4
    <3>4. want' = SubSeq(f, (n + 1) + 1, Len(f))
      BY <1>1, <2>4, <3>2
    <3>5. /\ p + (n + 1) \in 1 .. Len(toks) /\ toks[p + (n + 1)] = curToken'
          /\ At(source, peekToken', p + (n + 1) + 1)
      BY <1>1, <2>9, <3>3
    <3> QED
      BY <1>1, <2>3, <2>15, <3>1, <3>2, <3>4, <3>5 DEF OperandsRead
  <2>17. Reading(p)'
    BY <1>1, <2>1, <2>16 DEF ReadTo, Reading
  <2>18. ProgramReads(p)'
    BY <1>1, <2>1 DEF ReadTo, ProgramReads
  <2> QED
    BY <1>1, <1>3, <2>1, <2>17, <2>18 DEF ReadTo, ReadInv
<1> QED
  BY <1>2, <1>3

LEMMA ReadRefuses == ParserInv /\ ReadInv /\ (WrongOperand \/ TooLarge) => ReadInv'
<1> SUFFICES ASSUME ParserInv, ReadInv, WrongOperand \/ TooLarge PROVE ReadInv'
  OBVIOUS
<1> DEFINE toks == TokensOf(source)
<1>1. /\ pc = "operands" /\ want # <<>>
      /\ peekToken.type \notin DOMAIN Expected.takes \/ Overflows(peekToken)
  BY DEF WrongOperand, TooLarge, Fits
<1>2. PICK m \in {1, 2} : GiveUp(m)
  BY DEF WrongOperand, TooLarge
<1>3. ASSUME NEW p, ReadTo(p)
      PROVE  p \in 1 .. Len(toks) /\ \A k \in Nat : ~Begins(toks, p, k)
  <2>1. PICK f : f = Form(stmt.op)
    OBVIOUS
  <2>2. /\ p \in 1 .. Len(toks) /\ toks[p].type = stmt.op /\ stmt.op \in keywords
    BY <1>1, <1>3, NextOperand
  <2>3. PICK n \in 0 .. (Len(f) - 1) :
          /\ Expected = f[n + 1] /\ At(source, peekToken, p + n + 1)
    BY <1>1, <1>3, <2>1, NextOperand
  <2>4. Len(toks) \in Nat /\ source \in Words
    BY ReadFacts
  <2>5. f \in Seq(Slots) /\ Len(f) \in Nat
    BY <2>1, <2>2, FormTyped
  <2>6. n + 1 \in DOMAIN f /\ p + (n + 1) = p + n + 1
    BY <2>2, <2>3, <2>5
  <2>7. ASSUME NEW k \in Nat, Begins(toks, p, k) PROVE FALSE
    <3>1. /\ p + Len(f) <= Len(toks)
          /\ toks[p + (n + 1)].type \in DOMAIN f[n + 1].takes
          /\ ~Overflows(toks[p + (n + 1)])
      BY <2>1, <2>2, <2>6, <2>7 DEF Begins
    <3>2. peekToken.type # "EOF"
      <4>1. p + n + 1 # Len(toks) + 1
        BY <2>2, <2>3, <2>4, <2>5, <3>1
      <4> QED
        BY <2>3, <2>4, <4>1, AtFacts
    <3>3. toks[p + n + 1] = peekToken
      BY <2>3, <2>4, <3>2, AtFacts
    <3> QED
      BY <1>1, <2>3, <2>6, <3>1, <3>3
  <2> QED
    BY <2>2, <2>7
<1>4. Len(toks) \in Nat
  BY ReadFacts
<1>5. /\ \A p \in 1 .. Len(toks) : ReadTo(p) => \A k \in Nat : ~Begins(toks, p, k)
      /\ \A p : ReadTo(p) => p # Len(toks) + 1
  BY <1>3, <1>4
<1> QED
  BY <1>2, <1>5, ReadGivesUp

(* A statement appended: what follows it is where the next one begins. *)
LEMMA ReadStatement ==
    ASSUME ParserInv, errors = 0, NEW p, ReadTo(p), NEW st \in Statement, Append1(st),
           p \in 1 .. Len(TokensOf(source)),
           ReadsAs(TokensOf(source), p, st),
           p + Length(st) \in 1 .. (Len(TokensOf(source)) + 1),
           Begins(TokensOf(source), p, Length(st)),
           At(source, peekToken', p + Length(st))
    PROVE  ReadInv'
<1> DEFINE toks == TokensOf(source)
           q == p + Length(st)
<1>1. Len(toks) \in Nat
  BY ReadFacts
<1>2. source' = source /\ errors' = 0 /\ pc' = "after"
  BY DEF Append1
<1>3. Length(st) \in 1 .. (Len(toks) + 1 - p)
  <2>1. Length(st) \in {1, 2, 4}
    BY LengthTyped
  <2> QED
    BY <1>1, <2>1
<1>4. Good(toks)[p] <=> Good(toks)[q]
  BY <1>1, <1>3, GoodFacts
<1>5. Sentence(toks) <=> Good(toks)[q]
  BY <1>4 DEF ReadTo
<1>6. ProgramReads(q)'
  BY ReadAppend DEF ReadTo
<1>7. Reading(q)'
  BY <1>2 DEF Reading
<1>8. ReadTo(q)'
  BY <1>2, <1>5, <1>6, <1>7 DEF ReadTo
<1> QED
  BY <1>2, <1>8 DEF ReadInv

LEMMA ReadEnds == ParserInv /\ ReadInv /\ EndStatement => ReadInv'
<1> SUFFICES ASSUME ParserInv, ReadInv, EndStatement PROVE ReadInv'
  OBVIOUS
<1> DEFINE toks == TokensOf(source)
           full == [stmt EXCEPT !.op = Kind(@)]
           w == stmt.op
<1>1. pc = "operands" /\ want = <<>> /\ Append1(full) /\ UNCHANGED <<curToken, peekToken>>
  BY DEF EndStatement, Stay
<1>2. CASE errors # 0
  BY <1>1, <1>2 DEF ReadInv, Append1
<1>3. CASE errors = 0
  <2>1. PICK p : ReadTo(p)
    BY <1>3 DEF ReadInv
  <2>2. PICK f : f = Form(w)
    OBVIOUS
  <2>3. OperandsRead(p)
    BY <1>1, <2>1 DEF ReadTo, Reading
  <2>4. p \in 1 .. Len(toks) /\ toks[p].type = w
    BY <2>3 DEF OperandsRead
  <2>5. PICK n \in 0 .. Len(f) :
          /\ want = SubSeq(f, n + 1, Len(f))
          /\ p + n \in 1 .. Len(toks) /\ toks[p + n] = curToken
          /\ At(source, peekToken, p + n + 1)
          /\ \A k \in 1 .. n : InField(f[k], toks[p + k], stmt)
    BY <2>2, <2>3 DEF OperandsRead
  <2>6. Len(toks) \in Nat /\ source \in Words /\ stmt \in Partial
    BY ReadFacts
  <2>7. w \in keywords
    BY <2>6 DEF Partial
  <2>8. f \in Seq(Slots) /\ Len(f) \in Nat
    BY <2>2, <2>7, FormTyped
  <2>9. n = Len(f)
    <3>1. Len(SubSeq(f, n + 1, Len(f))) = Len(f) - n
      BY <2>5, <2>8
    <3>2. Len(want) = 0
      BY <1>1
    <3>3. Len(f) - n = 0
      BY <2>5, <3>1, <3>2
    <3> QED
      BY <2>5, <2>8, <3>3
  <2>10. full \in Statement
    BY <2>6, CompletedTyped
  <2>11. full = [stmt EXCEPT !.op = Kind(w)]
    BY <2>6 DEF Partial
  <2>12. Kind(w) = KindFor(w, toks[p + Len(f)].type)
    <3>1. toks[p + Len(f)] = curToken
      BY <2>5, <2>9
    <3> QED
      BY <3>1 DEF Kind, KindFor
  <2>13. ReadsAs(toks, p, full) /\ Length(full) = Len(f) + 1
    <3>1. \A k \in 1 .. Len(f) : InField(f[k], toks[p + k], stmt)
      BY <2>5, <2>9
    <3>2. PICK op : op = Kind(w)
      OBVIOUS
    <3>3. full = [stmt EXCEPT !.op = op] /\ op = KindFor(w, toks[p + Len(f)].type)
      BY <2>11, <2>12, <3>2
    <3>4. p \in Nat
      BY <2>4
    <3>5. ReadsAs(toks, p, full) /\ Length(full) = Len(f) + 1
      <4>1. PICK st : st = stmt
        OBVIOUS
      <4>2. PICK tk : tk = toks
        OBVIOUS
      <4>3. PICK word : word = w
        OBVIOUS
      <4>4. PICK done : done = full
        OBVIOUS
      <4>5. /\ tk[p].type = word /\ f = Form(word) /\ st \in Partial /\ word \in keywords
            /\ op = KindFor(word, tk[p + Len(f)].type) /\ done = [st EXCEPT !.op = op]
            /\ \A k \in 1 .. Len(f) : InField(f[k], tk[p + k], st)
        BY <2>2, <2>4, <2>6, <2>7, <3>1, <3>3, <4>1, <4>2, <4>3, <4>4
      <4> HIDE DEF full, toks, w
      <4>6. ReadsAs(tk, p, done) /\ Length(done) = Len(f) + 1
        BY <3>4, <4>5, StatementRead
      <4> QED
        BY <4>2, <4>4, <4>6
    <3> QED
      BY <3>5
  <2>14. Begins(toks, p, Len(f) + 1)
    <3>1. DOMAIN f = 1 .. Len(f) /\ p + Len(f) <= Len(toks)
      BY <2>5, <2>8, <2>9
    <3>2. \A k \in DOMAIN f : toks[p + k].type \in DOMAIN f[k].takes /\ ~Overflows(toks[p + k])
      BY <2>5, <2>9, <3>1 DEF InField
    <3> QED
      BY <2>2, <2>4, <2>7, <3>1, <3>2 DEF Begins
  <2>15. /\ p + Length(full) = p + n + 1
         /\ p + Length(full) \in 1 .. (Len(toks) + 1)
    <3>1. p + Length(full) = p + n + 1
      BY <2>4, <2>5, <2>8, <2>9, <2>13
    <3> QED
      BY <2>4, <2>5, <2>6, <3>1
  <2>16. At(source, peekToken', p + Length(full))
    BY <1>1, <2>5, <2>15
  <2> HIDE DEF full
  <2> QED
    BY <1>1, <1>3, <2>1, <2>4, <2>10, <2>13, <2>14, <2>15, <2>16, ReadStatement
<1> QED
  BY <1>2, <1>3

LEMMA LabelReads ==
    ASSUME NEW toks, NEW i \in Nat, NEW st, st.op = "LABEL",
           toks[i].type = "IDENT", st.l = toks[i].literal, toks[i + 1].type = ":"
    PROVE  ReadsAs(toks, i, st) /\ Length(st) = 2
<1>1. Value(toks[i]) = toks[i].literal
  BY RegisterNames DEF Value
<1>2. toks[i + 0] = toks[i]
  OBVIOUS
<1>3. ReadsAs(toks, i, st)
  BY <1>1, <1>2 DEF ReadsAs, AluOps, Branch, JumpOps
<1>4. Length(st) = 2
  BY DEF Length, TwoRegister, AluOps
<1> QED
  BY <1>3, <1>4

LEMMA ReadLabel == ParserInv /\ ReadInv /\ LabelStatement => ReadInv'
<1> SUFFICES ASSUME ParserInv, ReadInv, LabelStatement PROVE ReadInv'
  OBVIOUS
<1> DEFINE toks == TokensOf(source)
           st == [NoStmt EXCEPT !.op = "LABEL", !.l = curToken.literal]
<1>1. /\ pc = "statement" /\ curToken.type = "IDENT" /\ peekToken.type = ":"
      /\ Append1(st) /\ peekToken' = NextToken(source, peekToken.next)
  BY DEF LabelStatement, AtStatement, nextToken
<1>2. CASE errors # 0
  BY <1>1, <1>2 DEF ReadInv, Append1
<1>3. CASE errors = 0
  <2>1. PICK p : ReadTo(p)
    BY <1>3 DEF ReadInv
  <2>2. At(source, curToken, p) /\ At(source, peekToken, p + 1)
    BY <1>1, <2>1 DEF ReadTo, Reading
  <2>3. Len(toks) \in Nat /\ source \in Words /\ curToken.literal \in Words
    BY ReadFacts
  <2>4. /\ p \in 1 .. Len(toks) /\ toks[p] = curToken
        /\ p + 1 \in 1 .. Len(toks) /\ toks[p + 1] = peekToken
        /\ At(source, NextToken(source, peekToken.next), p + 1 + 1)
    BY <1>1, <2>2, <2>3, AtFacts
  <2>5. st \in Statement
    BY <2>3, LabelTyped
  <2>6. st.op = "LABEL" /\ st.l = curToken.literal
    BY DEF NoStmt
  <2> HIDE DEF st
  <2>7. ReadsAs(toks, p, st) /\ Length(st) = 2
    <3>1. p \in Nat
      BY <2>4
    <3> QED
      BY <1>1, <2>4, <2>6, <3>1, LabelReads
  <2>9. Begins(toks, p, 2)
    <3>1. "IDENT" \notin keywords
      BY DEF keywords
    <3> QED
      BY <1>1, <2>3, <2>4, <3>1 DEF Begins
  <2>10. p + Length(st) \in 1 .. (Len(toks) + 1) /\ p + 1 + 1 = p + Length(st)
    BY <2>3, <2>4, <2>7
  <2> QED
    BY <1>1, <1>3, <2>1, <2>4, <2>5, <2>7, <2>9, <2>10, ReadStatement
<1> QED
  BY <1>2, <1>3

LEMMA ReadStumbles == ParserInv /\ ReadInv /\ Unexpected => ReadInv'
<1> SUFFICES ASSUME ParserInv, ReadInv, Unexpected PROVE ReadInv'
  OBVIOUS
<1> DEFINE toks == TokensOf(source)
<1>1. /\ pc = "statement" /\ curToken.type # "EOF" /\ curToken.type \notin keywords
      /\ ~(curToken.type = "IDENT" /\ peekToken.type = ":") /\ GiveUp(1)
  BY DEF Unexpected, AtStatement
<1>2. ASSUME NEW p, ReadTo(p)
      PROVE  p \in 1 .. Len(toks) /\ \A k \in Nat : ~Begins(toks, p, k)
  <2>1. At(source, curToken, p) /\ At(source, peekToken, p + 1)
    BY <1>1, <1>2 DEF ReadTo, Reading
  <2>2. Len(toks) \in Nat /\ source \in Words
    BY ReadFacts
  <2>3. p \in 1 .. Len(toks) /\ toks[p] = curToken
    BY <1>1, <2>1, <2>2, AtFacts
  <2>4. ASSUME NEW k \in Nat, Begins(toks, p, k) PROVE FALSE
    <3>1. p < Len(toks) /\ toks[p].type = "IDENT" /\ toks[p + 1].type = ":"
      BY <1>1, <2>3, <2>4 DEF Begins
    <3>2. peekToken.type # "EOF"
      <4>1. p + 1 # Len(toks) + 1
        BY <2>2, <2>3, <3>1
      <4> QED
        BY <2>1, <2>2, <4>1, AtFacts
    <3>3. toks[p + 1] = peekToken
      BY <2>1, <2>2, <3>2, AtFacts
    <3> QED
      BY <1>1, <2>3, <3>1, <3>3
  <2> QED
    BY <2>3, <2>4
<1>3. Len(toks) \in Nat
  BY ReadFacts
<1>4. /\ \A p \in 1 .. Len(toks) : ReadTo(p) => \A k \in Nat : ~Begins(toks, p, k)
      /\ \A p : ReadTo(p) => p # Len(toks) + 1
  BY <1>2, <1>3
<1> QED
  BY <1>1, <1>4, ReadGivesUp

(* A step that moves on between statements. *)
LEMMA ReadMoves ==
    ASSUME ReadInv, UNCHANGED <<source, program, errors>>,
           \A p : ReadTo(p) => Reading(p)'
    PROVE  ReadInv'
<1>1. CASE errors # 0
  BY <1>1 DEF ReadInv
<1>2. CASE errors = 0
  <2>1. PICK p : ReadTo(p)
    BY <1>2 DEF ReadInv
  <2>2. ProgramReads(p)'
    BY <2>1 DEF ReadTo, ProgramReads
  <2>3. ReadTo(p)'
    BY <2>1, <2>2 DEF ReadTo
  <2> QED
    BY <1>2, <2>3 DEF ReadInv
<1> QED
  BY <1>1, <1>2

LEMMA ReadNext == ParserInv /\ ReadInv /\ [Next]_vars => ReadInv'
<1> SUFFICES ASSUME ParserInv, ReadInv, [Next]_vars PROVE ReadInv'
  OBVIOUS
<1> DEFINE toks == TokensOf(source)
<1>1. CASE CloseBlock
  <2>1. UNCHANGED <<source, pc, curToken, peekToken, stmt, want, program, errors>> /\ pc = "after"
    BY <1>1 DEF CloseBlock
  <2>2. \A p : ReadTo(p) => Reading(p)'
    BY <2>1 DEF ReadTo, Reading
  <2> QED
    BY <2>1, <2>2, ReadMoves
<1>2. CASE NextStatement
  <2>1. /\ UNCHANGED <<source, program, errors>> /\ pc = "after" /\ pc' = "statement"
        /\ curToken' = peekToken /\ peekToken' = NextToken(source, peekToken.next)
    BY <1>2 DEF NextStatement, nextToken
  <2>2. source \in Words
    BY ReadFacts
  <2>3. ASSUME NEW p, ReadTo(p) PROVE Reading(p)'
    <3>1. p \in 1 .. (Len(toks) + 1) /\ At(source, peekToken, p)
      BY <2>1, <2>3 DEF ReadTo, Reading
    <3>2. peekToken.type # "EOF" => At(source, NextToken(source, peekToken.next), p + 1)
      BY <2>2, <3>1, AtFacts
    <3> QED
      BY <2>1, <3>1, <3>2 DEF Reading
  <2> QED
    BY <2>1, <2>3, ReadMoves
<1>3. CASE EndOfInput
  <2>1. /\ UNCHANGED <<source, program, errors>> /\ pc = "statement" /\ pc' = "done"
        /\ curToken.type = "EOF"
    BY <1>3 DEF EndOfInput
  <2>2. source \in Words
    BY ReadFacts
  <2>3. ASSUME NEW p, ReadTo(p) PROVE Reading(p)'
    <3>1. p \in 1 .. (Len(toks) + 1) /\ At(source, curToken, p)
      BY <2>1, <2>3 DEF ReadTo, Reading
    <3>2. p = Len(toks) + 1
      BY <2>1, <2>2, <3>1, AtFacts
    <3> QED
      BY <2>1, <3>1, <3>2 DEF Reading
  <2> QED
    BY <2>1, <2>3, ReadMoves
<1>4. CASE UNCHANGED vars
  <2>1. UNCHANGED <<source, pc, curToken, peekToken, stmt, want, program, errors>>
    BY <1>4 DEF vars
  <2>2. \A p : ReadTo(p) => Reading(p)'
    BY <2>1 DEF ReadTo, Reading, OperandsRead
  <2> QED
    BY <2>1, <2>2, ReadMoves
<1> QED
  BY <1>1, <1>2, <1>3, <1>4, ReadBegins, ReadTakes, ReadRefuses, ReadEnds, ReadLabel,
     ReadStumbles DEF Next

LEMMA ReadSafe == Spec => [](ParserInv /\ ReadInv)
  BY ParserInit, ParserNext, ReadInit, ReadNext, PTL DEF Spec

(***************************************************************************)
(* A source is refused exactly when its tokens are no row of statements,   *)
(* whatever it stumbled over and recovered from (parser.go:141-228).       *)
(***************************************************************************)
THEOREM RefusesExactlyNonSentences == Spec => []AcceptsExactly
<1>1. ParserInv /\ ReadInv => AcceptsExactly
  <2> SUFFICES ASSUME ParserInv, ReadInv, pc = "done"
               PROVE  errors = 0 <=> Sentence(Toks)
    BY DEF AcceptsExactly, Finished
  <2>1. Toks = TokensOf(source)
    BY ReadFacts, TokensAreRests DEF Toks, TokensOf
  <2>2. CASE errors # 0
    BY <2>1, <2>2 DEF ReadInv
  <2>3. CASE errors = 0
    <3>1. PICK p : ReadTo(p)
      BY <2>3 DEF ReadInv
    <3>2. p = Len(TokensOf(source)) + 1 /\ Len(TokensOf(source)) \in Nat
      BY <3>1, ReadFacts DEF ReadTo, Reading
    <3>3. Good(TokensOf(source))[p]
      BY <3>2, GoodFacts
    <3> QED
      BY <2>1, <2>3, <3>1, <3>3 DEF ReadTo
  <2> QED
    BY <2>2, <2>3
<1> QED
  BY ReadSafe, <1>1, PTL

(***************************************************************************)
(* The statements of an accepted source, one behind the other, read as its *)
(* tokens, and none is left over (parser.go:230-456).                      *)
(***************************************************************************)
THEOREM ProgramReadsAsSource == Spec => []ReadsBack
<1>1. ParserInv /\ ReadInv => ReadsBack
  <2> SUFFICES ASSUME ParserInv, ReadInv, pc = "done", errors = 0
               PROVE  /\ Start(Len(program) + 1) = Len(Toks) + 1
                      /\ \A k \in DOMAIN program : ReadsAs(Toks, Start(k), program[k])
    BY DEF ReadsBack, Finished
  <2>1. Toks = TokensOf(source)
    BY ReadFacts, TokensAreRests DEF Toks, TokensOf
  <2>2. PICK p : ReadTo(p)
    BY DEF ReadInv
  <2>3. p = Len(TokensOf(source)) + 1
    BY <2>2 DEF ReadTo, Reading
  <2>4. PICK P : /\ Laid(P, program)
                 /\ P[Len(program) + 1] = p
                 /\ \A k \in 1 .. Len(program) : ReadsAs(TokensOf(source), P[k], program[k])
    BY <2>2 DEF ReadTo, ProgramReads
  <2>5. Len(program) \in Nat /\ DOMAIN program = 1 .. Len(program)
    BY DEF ParserInv, TypeOK
  <2>6. \A k \in 1 .. (Len(program) + 1) : Start(k) = P[k]
    BY <2>4, <2>5, StartIs
  <2>7. Start(Len(program) + 1) = Len(Toks) + 1
    BY <2>1, <2>3, <2>4, <2>5, <2>6
  <2>8. ASSUME NEW k \in 1 .. Len(program) PROVE ReadsAs(Toks, Start(k), program[k])
    <3>1. Start(k) = P[k]
      BY <2>5, <2>6
    <3> QED
      BY <2>1, <2>4, <3>1
  <2> QED
    BY <2>5, <2>7, <2>8
<1> QED
  BY ReadSafe, <1>1, PTL

-----------------------------------------------------------------------------
(* Pieces put together.  W are pieces; F[k] is the first k of them in one. *)
Joined(F, W, n) ==
    /\ F = [k \in 0 .. n |-> F[k]]
    /\ F[0] = <<>>
    /\ \A k \in 1 .. n : F[k] = F[k - 1] \o W[k]

LEMMA JoinExists ==
    ASSUME NEW S, NEW n \in Nat, NEW W \in [1 .. n -> Seq(S)]
    PROVE  \E F \in [0 .. n -> Seq(S)] : Joined(F, W, n)
<1> DEFINE G == [k \in 1 .. n |-> [x \in Seq(S) |-> x \o W[k]]]
<1>1. G \in [1 .. n -> [Seq(S) -> Seq(S)]]
  <2>1. ASSUME NEW k \in 1 .. n, NEW x \in Seq(S) PROVE x \o W[k] \in Seq(S)
    OBVIOUS
  <2> QED
    BY <2>1
<1>2. <<>> \in Seq(S)
  OBVIOUS
<1>3. PICK F : Iterates(F, <<>>, G, n)
  <2> HIDE DEF G
  <2> QED
    BY <1>1, <1>2, IterationExists
<1>4. \A k \in 0 .. n : F[k] \in Seq(S)
  <2> HIDE DEF G
  <2> QED
    BY <1>1, <1>2, <1>3, IterationTyped
<1>5. F = [k \in 0 .. n |-> F[k]] /\ F[0] = <<>>
  BY <1>3 DEF Iterates
<1>6. F \in [0 .. n -> Seq(S)]
  BY <1>4, <1>5
<1>7. ASSUME NEW k \in 1 .. n PROVE F[k] = F[k - 1] \o W[k]
  <2>1. F[k] = G[k][F[k - 1]]
    BY <1>3 DEF Iterates
  <2>2. k - 1 \in 0 .. n
    OBVIOUS
  <2>3. F[k - 1] \in Seq(S)
    BY <1>4, <2>2
  <2> QED
    BY <2>1, <2>3
<1> QED
  BY <1>5, <1>6, <1>7 DEF Joined

-----------------------------------------------------------------------------
(* The source up to its first NUL, and the quotes in it.                   *)
Stop == First(source, 1, {NUL})

LEMMA StopFound ==
    ASSUME source \in Words
    PROVE  /\ Stop \in 1 .. (Len(source) + 1) /\ Stop \in Nat \ {0}
           /\ Len(source) \in Nat
           /\ Ch(source, Stop) = NUL
           /\ Counted = SubSeq(source, 1, Stop - 1)
           /\ Len(Counted) = Stop - 1
<1>1. Len(source) \in Nat /\ 1 \in 1 .. (Len(source) + 1)
  BY DEF Words
<1>2. /\ Stop \in 1 .. (Len(source) + 1)
      /\ Ch(source, Stop) = NUL
  BY <1>1, FirstFound DEF Stop
<1>3. Stop \in Nat \ {0} /\ Stop - 1 \in 0 .. Len(source)
  BY <1>1, <1>2
<1>4. Counted = SubSeq(source, 1, Stop - 1)
  BY DEF Counted, Stop
<1>5. Len(SubSeq(source, 1, Stop - 1)) = Stop - 1
  BY <1>1, <1>3 DEF Words
<1> QED
  BY <1>1, <1>2, <1>3, <1>4, <1>5

LEMMA CountedIs ==
    ASSUME source \in Words, NEW k \in 1 .. (Stop - 1)
    PROVE  /\ Counted[k] = source[k] /\ Ch(source, k) = source[k]
           /\ source[k] \in Characters /\ source[k] # NUL
           /\ k \in Nat \ {0} /\ k <= Len(source)
<1>1. /\ Stop \in 1 .. (Len(source) + 1) /\ Len(source) \in Nat
      /\ Counted = SubSeq(source, 1, Stop - 1)
  BY StopFound
<1>2. k \in Nat \ {0} /\ k <= Len(source) /\ k \in 1 .. Len(source) /\ Stop - 1 \in 0 .. Len(source)
  BY <1>1
<1>3. SubSeq(source, 1, Stop - 1)[k] = source[k]
  BY <1>1, <1>2 DEF Words
<1>4. Ch(source, k) = source[k] /\ Ch(source, k) \in Characters
  BY <1>2, CharTyped
<1>5. \A j \in 1 .. (Stop - 1) : Ch(source, j) \notin {NUL}
  BY <1>1, FirstFound, 1 \in 1 .. (Len(source) + 1) DEF Stop
<1> QED
  BY <1>1, <1>2, <1>3, <1>4, <1>5

QuotesIn(i) == {k \in 1 .. i : Counted[k] = Quote}

LEMMA QuotesAre == \A i : Quotes(i) = Cardinality(QuotesIn(i))
  BY DEF Quotes, QuotesIn

LEMMA QuotesNone == Quotes(0) = 0
<1>1. QuotesIn(0) = {}
  BY DEF QuotesIn
<1> QED
  BY <1>1, QuotesAre, FS_EmptySet

LEMMA QuotesStep ==
    ASSUME source \in Words, NEW k \in 1 .. (Stop - 1)
    PROVE  /\ Quotes(k - 1) \in Nat
           /\ Quotes(k) = IF source[k] = Quote THEN Quotes(k - 1) + 1 ELSE Quotes(k - 1)
<1>1. Stop \in Nat /\ k \in Nat \ {0}
  BY StopFound
<1>2. IsFiniteSet(QuotesIn(k - 1))
  <2>1. IsFiniteSet(1 .. (k - 1))
    BY <1>1, FS_Interval
  <2> QED
    BY <2>1, FS_Subset DEF QuotesIn
<1>3. Cardinality(QuotesIn(k - 1)) \in Nat
  BY <1>2, FS_CardinalityType
<1>4. Counted[k] = source[k]
  BY CountedIs
<1>5. 1 .. k = (1 .. (k - 1)) \cup {k} /\ k \notin 1 .. (k - 1)
  BY <1>1
<1>6. CASE source[k] = Quote
  <2>1. QuotesIn(k) = QuotesIn(k - 1) \cup {k} /\ k \notin QuotesIn(k - 1)
    BY <1>4, <1>5, <1>6 DEF QuotesIn
  <2>2. Cardinality(QuotesIn(k)) = Cardinality(QuotesIn(k - 1)) + 1
    BY <1>2, <2>1, FS_AddElement
  <2> QED
    BY <1>3, <1>6, <2>2, QuotesAre
<1>7. CASE source[k] # Quote
  <2>1. QuotesIn(k) = QuotesIn(k - 1)
    BY <1>4, <1>5, <1>7 DEF QuotesIn
  <2> QED
    BY <1>3, <1>7, <2>1, QuotesAre
<1> QED
  BY <1>6, <1>7

LEMMA QuotesTyped ==
    ASSUME source \in Words, NEW k \in 1 .. Stop
    PROVE  Quotes(k - 1) \in Nat
<1>1. Stop \in Nat
  BY StopFound
<1>2. CASE k = 1
  BY <1>2, QuotesNone
<1>3. CASE k # 1
  <2>1. k - 1 \in 1 .. (Stop - 1)
    BY <1>1, <1>3
  <2>2. /\ Quotes((k - 1) - 1) \in Nat
        /\ Quotes(k - 1) \in {Quotes((k - 1) - 1), Quotes((k - 1) - 1) + 1}
    BY <2>1, QuotesStep
  <2> QED
    BY <2>2
<1> QED
  BY <1>2, <1>3

(* Where no quote is passed, it is inside a string before and after.       *)
LEMMA QuotesRun ==
    ASSUME source \in Words, NEW a \in 1 .. Stop, NEW b \in a .. Stop,
           \A k \in a .. (b - 1) : source[k] # Quote
    PROVE  \A k \in a .. b : Quotes(k - 1) = Quotes(a - 1)
<1> DEFINE T == {m \in Nat : a + m <= b => Quotes((a + m) - 1) = Quotes(a - 1)}
<1>1. Stop \in Nat /\ a \in Nat \ {0} /\ b \in Nat
  BY StopFound
<1>2. 0 \in T
  BY <1>1
<1>3. ASSUME NEW m \in Nat, m \in T PROVE m + 1 \in T
  <2> SUFFICES ASSUME a + (m + 1) <= b PROVE Quotes((a + (m + 1)) - 1) = Quotes(a - 1)
    OBVIOUS
  <2>1. /\ a + m \in 1 .. (Stop - 1) /\ a + m \in a .. (b - 1)
        /\ (a + (m + 1)) - 1 = a + m /\ a + m <= b
    BY <1>1
  <2>2. Quotes((a + m) - 1) = Quotes(a - 1)
    BY <1>3, <2>1
  <2>3. Quotes(a + m) = Quotes((a + m) - 1)
    BY <2>1, QuotesStep
  <2> QED
    BY <2>1, <2>2, <2>3
<1>4. Nat \subseteq T
  <2> HIDE DEF T
  <2> QED
    BY <1>2, <1>3, SetInduction
<1>5. ASSUME NEW k \in a .. b PROVE Quotes(k - 1) = Quotes(a - 1)
  <2>1. k - a \in T /\ a + (k - a) = k /\ k <= b
    BY <1>1, <1>4
  <2> QED
    BY <2>1
<1> QED
  BY <1>5

-----------------------------------------------------------------------------
(* What is kept of the first k characters.                                 *)
Piece(k) == IF Keeps(k) THEN <<Counted[k]>> ELSE <<>>

IsKeeping(K) ==
    /\ K \in [0 .. Len(Counted) -> Seq(Characters)]
    /\ K[0] = <<>>
    /\ \A k \in 1 .. Len(Counted) : K[k] = K[k - 1] \o Piece(k)

(* As Kept defines it. *)
KeepStep(K) ==
    [k \in 0 .. Len(Counted) |->
        IF k = 0 THEN <<>>
        ELSE IF Keeps(k) THEN Append(K[k - 1], Counted[k]) ELSE K[k - 1]]

Keeping == CHOOSE K : K = KeepStep(K)

LEMMA KeptIs == Kept = Keeping[Len(Counted)]
  BY DEF Kept, Keeping, KeepStep

LEMMA PieceTyped ==
    ASSUME source \in Words, NEW k \in 1 .. Len(Counted)
    PROVE  Piece(k) \in Seq(Characters) /\ Counted[k] \in Characters
<1>1. k \in 1 .. (Stop - 1)
  BY StopFound
<1>2. Counted[k] \in Characters
  BY <1>1, CountedIs
<1> QED
  BY <1>2 DEF Piece

LEMMA KeepingExists ==
    ASSUME source \in Words
    PROVE  \E K : K = KeepStep(K)
<1> DEFINE n == Len(Counted)
           W == [k \in 1 .. n |-> Piece(k)]
<1>1. n \in Nat
  BY StopFound
<1>2. W \in [1 .. n -> Seq(Characters)]
  BY PieceTyped
<1>3. PICK F \in [0 .. n -> Seq(Characters)] : Joined(F, W, n)
  <2> HIDE DEF W, n
  <2> QED
    BY <1>1, <1>2, JoinExists
<1>4. ASSUME NEW k \in 0 .. n
      PROVE  F[k] = IF k = 0 THEN <<>>
                    ELSE IF Keeps(k) THEN Append(F[k - 1], Counted[k]) ELSE F[k - 1]
  <2>1. CASE k = 0
    BY <1>3, <2>1 DEF Joined
  <2>2. CASE k # 0
    <3>1. k \in 1 .. n /\ k - 1 \in 0 .. n
      BY <1>1, <2>2
    <3>2. F[k] = F[k - 1] \o W[k] /\ W[k] = Piece(k)
      BY <1>3, <3>1 DEF Joined
    <3> DEFINE x == F[k - 1]
    <3>3. x \in Seq(Characters) /\ Counted[k] \in Characters
      BY <1>3, <3>1, PieceTyped
    <3>4. x \o <<Counted[k]>> = Append(x, Counted[k]) /\ x \o <<>> = x
      <4> HIDE DEF x
      <4>1. \A c \in Characters : x \o <<c>> = Append(x, c)
        BY <3>3, AppendIsConcat
      <4>2. x \o <<>> = x
        BY <3>3, ConcatEmptySeq
      <4> QED
        BY <3>3, <4>1, <4>2
    <3>5. F[k] = IF Keeps(k) THEN Append(x, Counted[k]) ELSE x
      BY <3>2, <3>4 DEF Piece
    <3> QED
      BY <2>2, <3>5
  <2> QED
    BY <2>1, <2>2
<1>5. F = KeepStep(F)
  BY <1>3, <1>4 DEF KeepStep
<1> QED
  BY <1>5

LEMMA KeepingFacts ==
    ASSUME source \in Words
    PROVE  IsKeeping(Keeping)
<1> DEFINE n == Len(Counted)
           K == Keeping
<1>1. n \in Nat
  BY StopFound
<1>2. K = KeepStep(K)
  BY KeepingExists DEF Keeping
<1>3. K[0] = <<>>
  BY <1>1, <1>2 DEF KeepStep
<1>4. ASSUME NEW k \in 1 .. n
      PROVE  K[k] = IF Keeps(k) THEN Append(K[k - 1], Counted[k]) ELSE K[k - 1]
  <2>1. k \in 0 .. n /\ k # 0
    BY <1>1
  <2> HIDE DEF K, n
  <2> QED
    BY <1>2, <2>1 DEF KeepStep, n
<1> DEFINE T == {m \in Nat : m <= n => K[m] \in Seq(Characters)}
<1>5. 0 \in T
  <2>1. <<>> \in Seq(Characters)
    OBVIOUS
  <2> HIDE DEF K, n
  <2>2. K[0] \in Seq(Characters)
    BY <1>3, <2>1
  <2> QED
    BY <2>2
<1>6. ASSUME NEW m \in Nat, m \in T PROVE m + 1 \in T
  <2> SUFFICES ASSUME m + 1 <= n PROVE K[m + 1] \in Seq(Characters)
    OBVIOUS
  <2>1. m + 1 \in 1 .. n /\ (m + 1) - 1 = m /\ m <= n
    BY <1>1
  <2>2. K[m] \in Seq(Characters) /\ Counted[m + 1] \in Characters
    BY <1>6, <2>1, PieceTyped
  <2>3. Append(K[m], Counted[m + 1]) \in Seq(Characters)
    BY <2>2
  <2> QED
    BY <1>4, <2>1, <2>2, <2>3
<1>7. Nat \subseteq T
  <2> HIDE DEF T
  <2> QED
    BY <1>5, <1>6, SetInduction
<1>8. \A k \in 0 .. n : K[k] \in Seq(Characters)
  BY <1>1, <1>7
<1>9. K = [k \in 0 .. n |-> K[k]]
  <2> HIDE DEF K, n
  <2> QED
    BY <1>2 DEF KeepStep, n
<1>10. ASSUME NEW k \in 1 .. n PROVE K[k] = K[k - 1] \o Piece(k)
  <2> DEFINE x == K[k - 1]
  <2>1. k - 1 \in 0 .. n
    BY <1>1
  <2>2. x \in Seq(Characters) /\ Counted[k] \in Characters
    BY <1>8, <2>1, PieceTyped
  <2>3. x \o <<Counted[k]>> = Append(x, Counted[k]) /\ x \o <<>> = x
    <3> HIDE DEF x
    <3>1. \A c \in Characters : x \o <<c>> = Append(x, c)
      BY <2>2, AppendIsConcat
    <3>2. x \o <<>> = x
      BY <2>2, ConcatEmptySeq
    <3> QED
      BY <2>2, <3>1, <3>2
  <2>4. K[k] = IF Keeps(k) THEN Append(x, Counted[k]) ELSE x
    BY <1>4
  <2> HIDE DEF K, x
  <2>5. K[k] = x \o Piece(k)
    BY <2>3, <2>4 DEF Piece
  <2> QED
    BY <2>5 DEF x
<1> QED
  <2> HIDE DEF K, n
  <2>1. IsKeeping(K)
    BY <1>3, <1>8, <1>9, <1>10 DEF IsKeeping, n
  <2> QED
    BY <2>1 DEF K

(* A run of which all is kept, and one of which nothing is.                *)
LEMMA KeptRun ==
    ASSUME source \in Words, NEW a \in 1 .. Stop, NEW b \in a .. Stop,
           \A k \in a .. (b - 1) : Keeps(k)
    PROVE  Keeping[b - 1] = Keeping[a - 1] \o SubSeq(source, a, b - 1)
<1> DEFINE K == Keeping
           x == K[a - 1]
           Read(m) == K[(a + m) - 1] = x \o SubSeq(source, a, (a + m) - 1)
           T == {m \in Nat : a + m <= b => Read(m)}
<1>1. /\ Stop \in Nat \ {0} /\ Len(Counted) = Stop - 1 /\ a \in Nat \ {0} /\ b \in Nat
      /\ Stop <= Len(source) + 1 /\ Len(source) \in Nat
  BY StopFound
<1>2. IsKeeping(K)
  BY KeepingFacts
<1>3. x \in Seq(Characters)
  BY <1>1, <1>2 DEF IsKeeping
<1>4. 0 \in T
  <2>1. (a + 0) - 1 < a /\ (a + 0) - 1 = a - 1 /\ a \in Int /\ a - 1 \in Int
    BY <1>1
  <2>2. SubSeq(source, a, a - 1) = <<>>
    BY <2>1, SubSeqEmpty
  <2>3. x \o <<>> = x
    <3> HIDE DEF x
    <3> QED
      BY <1>3, ConcatEmptySeq
  <2>4. Read(0)
    BY <2>1, <2>2, <2>3
  <2> HIDE DEF Read
  <2> QED
    BY <2>4
<1>5. ASSUME NEW m \in Nat, m \in T PROVE m + 1 \in T
  <2> HIDE DEF Read
  <2> SUFFICES ASSUME a + (m + 1) <= b PROVE Read(m + 1)
    OBVIOUS
  <2> DEFINE k == a + m
  <2>1. /\ k \in 1 .. (Stop - 1) /\ k \in a .. (b - 1) /\ k \in 1 .. Len(Counted)
        /\ (a + (m + 1)) - 1 = k /\ k <= b
        /\ a \in 1 .. Len(source) /\ k \in a .. Len(source) /\ k - 1 \in 0 .. Len(source)
    BY <1>1
  <2>2. K[k - 1] = x \o SubSeq(source, a, k - 1)
    <3>1. Read(m)
      BY <1>5, <2>1
    <3> QED
      BY <3>1 DEF Read
  <2> HIDE DEF k, K, x, T
  <2>3. K[k] = K[k - 1] \o Piece(k) /\ Piece(k) = <<source[k]>>
    <3>1. Keeps(k) /\ Counted[k] = source[k]
      BY <2>1, CountedIs
    <3> QED
      BY <1>2, <2>1, <3>1 DEF IsKeeping, Piece
  <2>4. SubSeq(source, a, k) = SubSeq(source, a, k - 1) \o <<source[k]>>
    BY <2>1, SubSeqRecursiveSecond DEF Words
  <2>5. SubSeq(source, a, k - 1) \in Seq(Characters) /\ <<source[k]>> \in Seq(Characters)
    <3>1. a \in 1 .. (Len(source) + 2)
      BY <1>1
    <3>2. SubSeq(source, a, k - 1) \in Words
      BY <2>1, <3>1, SliceTyped
    <3>3. source[k] \in Characters
      BY <2>1, CountedIs
    <3> QED
      BY <3>2, <3>3 DEF Words
  <2>6. (x \o SubSeq(source, a, k - 1)) \o <<source[k]>>
           = x \o (SubSeq(source, a, k - 1) \o <<source[k]>>)
    <3>1. \A s, u, v \in Seq(Characters) : (s \o u) \o v = s \o (u \o v)
      BY ConcatAssociative
    <3> QED
      BY <1>3, <2>5, <3>1
  <2> QED
    BY <2>1, <2>2, <2>3, <2>4, <2>6 DEF Read
<1>6. Nat \subseteq T
  <2> HIDE DEF T
  <2> QED
    BY <1>4, <1>5, SetInduction
<1>7. b - a \in T /\ a + (b - a) = b /\ b <= b
  <2>1. b - a \in Nat /\ a + (b - a) = b /\ b <= b
    BY <1>1
  <2> HIDE DEF T
  <2> QED
    BY <1>6, <2>1
<1>8. K[(a + (b - a)) - 1] = x \o SubSeq(source, a, (a + (b - a)) - 1)
  <2>1. Read(b - a)
    <3> HIDE DEF Read
    <3> QED
      BY <1>7
  <2> QED
    BY <2>1
<1> HIDE DEF T, K, x
<1>9. K[b - 1] = x \o SubSeq(source, a, b - 1)
  BY <1>7, <1>8
<1> QED
  BY <1>9 DEF K, x

LEMMA DroppedRun ==
    ASSUME source \in Words, NEW a \in 1 .. Stop, NEW b \in a .. Stop,
           \A k \in a .. (b - 1) : ~Keeps(k)
    PROVE  Keeping[b - 1] = Keeping[a - 1]
<1> DEFINE K == Keeping
           T == {m \in Nat : a + m <= b => K[(a + m) - 1] = K[a - 1]}
<1>1. Stop \in Nat \ {0} /\ Len(Counted) = Stop - 1 /\ a \in Nat \ {0} /\ b \in Nat
  BY StopFound
<1>2. IsKeeping(K)
  BY KeepingFacts
<1>3. 0 \in T
  BY <1>1
<1>4. ASSUME NEW m \in Nat, m \in T PROVE m + 1 \in T
  <2> DEFINE k == a + m
  <2> SUFFICES ASSUME a + (m + 1) <= b PROVE K[(a + (m + 1)) - 1] = K[a - 1]
    OBVIOUS
  <2>1. /\ k \in a .. (b - 1) /\ k \in 1 .. Len(Counted) /\ k - 1 \in 0 .. Len(Counted)
        /\ (a + (m + 1)) - 1 = k /\ k <= b
    BY <1>1
  <2>2. K[k - 1] = K[a - 1]
    BY <1>4, <2>1
  <2> HIDE DEF k, K, T
  <2>3. K[k] = K[k - 1] \o <<>>
    BY <1>2, <2>1 DEF IsKeeping, Piece
  <2>4. K[k - 1] \in Seq(Characters)
    BY <1>2, <2>1 DEF IsKeeping
  <2>5. \A s \in Seq(Characters) : s \o <<>> = s
    BY ConcatEmptySeq
  <2> QED
    BY <2>1, <2>2, <2>3, <2>4, <2>5
<1>5. Nat \subseteq T
  <2> HIDE DEF T
  <2> QED
    BY <1>3, <1>4, SetInduction
<1>6. b - a \in T /\ a + (b - a) = b /\ b <= b
  <2>1. b - a \in Nat /\ a + (b - a) = b /\ b <= b
    BY <1>1
  <2> HIDE DEF T
  <2> QED
    BY <1>5, <2>1
<1> QED
  BY <1>6

-----------------------------------------------------------------------------
(* What NextToken returns, by the first character that is no white space.  *)
LEMMA ClassesApart ==
    /\ NUL \notin White /\ NUL \notin Letters \cup Digits /\ NUL \notin Digits /\ NUL \notin Letters
    /\ Quote \notin White /\ Quote \notin Letters \cup Digits /\ Quote # NUL
    /\ \A c \in {",", ":"} : c \notin White \cup Letters \cup Digits /\ c # NUL /\ c # Quote
    /\ \A c \in Letters \cup Digits : c \notin White
    /\ \A c \in Digits : c \notin Letters
  BY LexerAssumption DEF Quote, NUL

LEMMA StringToken ==
    ASSUME NEW src, NEW i, NEW s, s = Past(src, i, White), Ch(src, s) = Quote,
           NEW end, end = First(src, s + 1, {Quote, NUL})
    PROVE  NextToken(src, i) =
              Token("STRING", SubSeq(src, s + 1, end - 1), AfterString(src, end))
<1>1. Quote \notin {",", ":"} /\ Quote # NUL /\ Quote \notin Digits /\ Quote \notin Letters
  BY ClassesApart DEF Quote
<1> QED
  BY <1>1 DEF NextToken

LEMMA MarkToken ==
    ASSUME NEW src, NEW i, NEW s, s = Past(src, i, White),
           NEW c, c = Ch(src, s), c \in {",", ":"}
    PROVE  NextToken(src, i) = Token(c, <<c>>, s + 1)
<1>1. c # Quote /\ c # NUL /\ c \notin Digits /\ c \notin Letters
  BY ClassesApart
<1> QED
  BY <1>1 DEF NextToken

LEMMA EndToken ==
    ASSUME NEW src, NEW i, NEW s, s = Past(src, i, White), Ch(src, s) = NUL
    PROVE  NextToken(src, i) = Token("EOF", <<>>, s)
<1>1. NUL # Quote /\ NUL \notin {",", ":"} /\ NUL \notin Digits /\ NUL \notin Letters
  BY ClassesApart DEF NUL
<1> QED
  BY <1>1 DEF NextToken

LEMMA NumberToken ==
    ASSUME NEW src, NEW i, NEW s, s = Past(src, i, White), Ch(src, s) \in Digits,
           NEW n, n = Past(src, s, Digits)
    PROVE  NextToken(src, i) = Token("INT", SubSeq(src, s, n - 1), n)
<1> DEFINE c == Ch(src, s)
<1>1. c # Quote /\ c # NUL /\ c \notin {",", ":"} /\ c \notin Letters
  BY ClassesApart
<1> QED
  BY <1>1 DEF NextToken

LEMMA WordToken ==
    ASSUME NEW src, NEW i, NEW s, s = Past(src, i, White), Ch(src, s) \in Letters,
           NEW w, w = Past(src, s, Letters \cup Digits)
    PROVE  NextToken(src, i) =
              Token(LookupIdent(SubSeq(src, s, w - 1)), SubSeq(src, s, w - 1), w)
<1> DEFINE c == Ch(src, s)
<1>1. c # Quote /\ c # NUL /\ c \notin {",", ":"} /\ c \notin Digits
  BY ClassesApart
<1> QED
  BY <1>1 DEF NextToken, Word

LEMMA OtherToken ==
    ASSUME NEW src, NEW i, NEW s, s = Past(src, i, White),
           NEW c, c = Ch(src, s), c \notin Letters \cup Digits \cup {Quote, ",", ":", NUL}
    PROVE  NextToken(src, i) = Token("ILLEGAL", <<c>>, s + 1)
  BY DEF NextToken

-----------------------------------------------------------------------------
(* How far the lexer looks before the end.                                 *)
LEMMA FirstStops ==
    ASSUME source \in Words, NEW a \in 1 .. Stop, NEW C, NUL \in C
    PROVE  /\ First(source, a, C) \in a .. Stop
           /\ Ch(source, First(source, a, C)) \in C
           /\ \A k \in a .. (First(source, a, C) - 1) :
                 /\ Ch(source, k) \notin C /\ source[k] = Ch(source, k)
                 /\ source[k] \in Characters
<1> DEFINE b == First(source, a, C)
<1>1. Stop \in 1 .. (Len(source) + 1) /\ Len(source) \in Nat /\ Ch(source, Stop) = NUL
  BY StopFound
<1>2. a \in 1 .. (Len(source) + 1)
  BY <1>1
<1>3. /\ b \in a .. (Len(source) + 1) /\ Ch(source, b) \in C
      /\ \A k \in a .. (b - 1) : Ch(source, k) \notin C
  BY <1>2, FirstFound
<1>4. Stop \notin a .. (b - 1)
  BY <1>1, <1>3
<1>5. b \in a .. Stop
  BY <1>1, <1>2, <1>3, <1>4
<1>6. ASSUME NEW k \in a .. (b - 1) PROVE source[k] = Ch(source, k) /\ source[k] \in Characters
  <2>1. k \in 1 .. (Stop - 1)
    BY <1>1, <1>5
  <2> QED
    BY <2>1, CountedIs
<1> QED
  BY <1>3, <1>5, <1>6

LEMMA PastStops ==
    ASSUME source \in Words, NEW a \in 1 .. Stop, NEW C, NUL \notin C
    PROVE  /\ Past(source, a, C) \in a .. Stop
           /\ Ch(source, Past(source, a, C)) \notin C
           /\ \A k \in a .. (Past(source, a, C) - 1) : source[k] \in C /\ Ch(source, k) = source[k]
<1>1. NUL \in Characters \ C
  BY DEF Characters
<1> QED
  BY <1>1, FirstStops DEF Past

LEMMA OutsideRun ==
    ASSUME source \in Words, NEW a \in 1 .. Stop, NEW b \in a .. Stop, Quotes(a - 1) % 2 = 0,
           \A k \in a .. (b - 1) : source[k] \notin White /\ source[k] # Quote
    PROVE  /\ Keeping[b - 1] = Keeping[a - 1] \o SubSeq(source, a, b - 1)
           /\ Quotes(b - 1) % 2 = 0
<1>1. Stop \in Nat
  BY StopFound
<1>2. ASSUME NEW k \in a .. (b - 1) PROVE Keeps(k)
  <2>1. k \in 1 .. (Stop - 1)
    BY <1>1
  <2>2. Counted[k] = source[k]
    BY <2>1, CountedIs
  <2> QED
    BY <2>2 DEF Keeps
<1>3. Keeping[b - 1] = Keeping[a - 1] \o SubSeq(source, a, b - 1)
  BY <1>2, KeptRun
<1>4. \A k \in a .. b : Quotes(k - 1) = Quotes(a - 1)
  BY QuotesRun
<1>5. b \in a .. b
  BY <1>1
<1> QED
  BY <1>3, <1>4, <1>5

LEMMA SkipsWhite ==
    ASSUME source \in Words, NEW a \in 1 .. Stop, Quotes(a - 1) % 2 = 0,
           NEW s, s = Past(source, a, White)
    PROVE  /\ s \in a .. Stop /\ s \in 1 .. Stop
           /\ Ch(source, s) \notin White
           /\ Quotes(s - 1) % 2 = 0 /\ Keeping[s - 1] = Keeping[a - 1]
<1>1. Stop \in Nat
  BY StopFound
<1>2. /\ s \in a .. Stop /\ Ch(source, s) \notin White
      /\ \A k \in a .. (s - 1) : source[k] \in White
  BY PastStops, ClassesApart
<1>3. \A k \in a .. (s - 1) : source[k] # Quote
  BY <1>2, ClassesApart
<1>4. \A k \in a .. s : Quotes(k - 1) = Quotes(a - 1)
  BY <1>2, <1>3, QuotesRun
<1>5. ASSUME NEW k \in a .. (s - 1) PROVE ~Keeps(k)
  <2>1. k \in 1 .. (Stop - 1) /\ k \in a .. s
    BY <1>1, <1>2
  <2>2. Counted[k] = source[k]
    BY <2>1, CountedIs
  <2>3. Quotes(k - 1) % 2 = 0
    BY <1>4, <2>1
  <2> QED
    BY <1>2, <2>2, <2>3 DEF Keeps, InString
<1>6. Keeping[s - 1] = Keeping[a - 1]
  BY <1>2, <1>5, DroppedRun
<1>7. s \in a .. s /\ s \in 1 .. Stop
  BY <1>1, <1>2
<1> QED
  BY <1>2, <1>4, <1>6, <1>7

-----------------------------------------------------------------------------
(* No token ends early, and reserved words are told from identifiers.      *)
LEMMA SpellingHead ==
    ASSUME NEW r \in DOMAIN Spelling
    PROVE  /\ Spelling[r] \in Seq(Letters \cup Digits) /\ Spelling[r] # <<>>
           /\ Spelling[r][1] \in Letters
           /\ r \in keywords \cup registers
<1>1. /\ Spelling[r] \in Seq(Letters \cup Digits) /\ Spelling[r] # <<>>
      /\ Head(Spelling[r]) \in Letters /\ r \in keywords \cup registers
  BY LexerAssumption
<1>2. Head(Spelling[r]) = Spelling[r][1]
  OBVIOUS
<1> QED
  BY <1>1, <1>2

LEMMA ReservedTypes ==
    ASSUME NEW r \in keywords \cup registers
    PROVE  r \notin {"IDENT", "INT", "STRING", ",", ":", "EOF", "ILLEGAL"}
<1>1. \A n \in 1 .. 16 :
        registerTokens[n] \in {"R1", "R2", "R3", "R4", "R5", "R6", "R7", "R8", "R9", "R10",
                               "R11", "R12", "R13", "R14", "R15", "R16"}
  BY DEF registerTokens
<1>2. CASE r \in keywords
  BY <1>2 DEF keywords
<1>3. CASE r \in registers
  BY <1>1, <1>3 DEF registers
<1> QED
  BY <1>2, <1>3

LEMMA LookupIs ==
    ASSUME NEW w
    PROVE  /\ LookupIdent(w) \in keywords \cup registers \cup {"IDENT"}
           /\ \A r \in DOMAIN Spelling : LookupIdent(w) = r <=> w = Spelling[r]
<1>1. CASE \E t \in DOMAIN Spelling : Spelling[t] = w
  <2>1. LookupIdent(w) \in DOMAIN Spelling /\ Spelling[LookupIdent(w)] = w
    BY <1>1 DEF LookupIdent
  <2>2. \A r, q \in DOMAIN Spelling : Spelling[q] = Spelling[r] => q = r
    BY LexerAssumption
  <2>3. LookupIdent(w) \in keywords \cup registers
    BY <2>1, SpellingHead
  <2> QED
    BY <2>1, <2>2, <2>3
<1>2. CASE ~ \E t \in DOMAIN Spelling : Spelling[t] = w
  <2>1. LookupIdent(w) = "IDENT"
    BY <1>2 DEF LookupIdent
  <2>2. \A r \in DOMAIN Spelling : r # "IDENT"
    BY SpellingHead, ReservedTypes
  <2> QED
    BY <1>2, <2>1, <2>2
<1> QED
  BY <1>1, <1>2

(* A token that is neither a word nor a string spells no reserved word.    *)
LEMMA NotReserved ==
    ASSUME NEW type \in {"INT", ",", ":", "EOF", "ILLEGAL"}
    PROVE  /\ type \notin keywords \cup registers \cup {"IDENT"}
           /\ \A r \in DOMAIN Spelling : type # r
<1>1. type \notin keywords \cup registers \cup {"IDENT"}
  BY ReservedTypes
<1> QED
  BY <1>1, SpellingHead

LEMMA NotSpelled ==
    ASSUME NEW literal, literal = <<>> \/ literal[1] \notin Letters
    PROVE  \A r \in DOMAIN Spelling : literal # Spelling[r]
  BY SpellingHead

LEMMA TokenFields ==
    ASSUME NEW type, NEW literal, NEW next
    PROVE  /\ Token(type, literal, next).type = type
           /\ Token(type, literal, next).literal = literal
           /\ Token(type, literal, next).next = next
  BY DEF Token

LEMMA WellCutToken ==
    ASSUME source \in Words, NEW i \in 1 .. (Len(source) + 1)
    PROVE  WellCut(NextToken(source, i))
<1> SUFFICES ASSUME NEW s, s = Past(source, i, White), NEW c, c = Ch(source, s),
                    NEW t, t = NextToken(source, i)
             PROVE  WellCut(t)
  OBVIOUS
<1>1. s \in 1 .. (Len(source) + 1) /\ s \in Nat \ {0} /\ Len(source) \in Nat
  <2>1. s \in i .. (Len(source) + 1)
    BY PastFound, ClassesApart
  <2> QED
    BY <2>1 DEF Words
<1>2. \A x : <<x>>[1] = x
  OBVIOUS
<1>3. CASE c = Quote
  <2>1. PICK end : end = First(source, s + 1, {Quote, NUL})
    OBVIOUS
  <2>2. t = Token("STRING", SubSeq(source, s + 1, end - 1), AfterString(source, end))
    BY <1>3, <2>1, StringToken
  <2>3. t.type = "STRING"
    BY <2>2, TokenFields
  <2>4. "STRING" \notin keywords \cup registers
    BY ReservedTypes
  <2> QED
    BY <2>3, <2>4 DEF WellCut
<1>4. CASE c \in {",", ":"}
  <2>1. t = Token(c, <<c>>, s + 1)
    BY <1>4, MarkToken
  <2>2. t.type = c /\ t.literal = <<c>>
    BY <2>1, TokenFields
  <2>3. t.literal[1] \notin Letters /\ t.type \in {",", ":"}
    BY <1>2, <1>4, <2>2, ClassesApart
  <2>8. /\ t.type \in {"INT", ",", ":", "EOF", "ILLEGAL"}
        /\ t.literal = <<>> \/ t.literal[1] \notin Letters
    BY <2>3
  <2>9. /\ t.type \notin keywords \cup registers \cup {"IDENT"}
        /\ \A r \in DOMAIN Spelling : t.type # r /\ t.literal # Spelling[r]
    BY <2>8, NotReserved, NotSpelled
  <2> QED
    BY <2>3, <2>9 DEF WellCut
<1>5. CASE c = NUL
  <2>1. t = Token("EOF", <<>>, s)
    BY <1>5, EndToken
  <2>2. t.type = "EOF" /\ t.literal = <<>>
    BY <2>1, TokenFields
  <2>8. /\ t.type \in {"INT", ",", ":", "EOF", "ILLEGAL"}
        /\ t.literal = <<>> \/ t.literal[1] \notin Letters
    BY <2>2
  <2>9. /\ t.type \notin keywords \cup registers \cup {"IDENT"}
        /\ \A r \in DOMAIN Spelling : t.type # r /\ t.literal # Spelling[r]
    BY <2>8, NotReserved, NotSpelled
  <2> QED
    BY <2>2, <2>9 DEF WellCut
<1>6. CASE c \in Digits
  <2>1. PICK n, word : n = Past(source, s, Digits) /\ word = SubSeq(source, s, n - 1)
    OBVIOUS
  <2>2. t = Token("INT", word, n)
    BY <1>6, <2>1, NumberToken
  <2>3. n \in s .. (Len(source) + 1) /\ Ch(source, n) \notin Digits /\ n > s
    BY <1>1, <1>6, <2>1, PastFound, ClassesApart
  <2>4. t.type = "INT" /\ t.literal = word /\ t.next = n
    BY <2>2, TokenFields
  <2>5. word[1] = c
    <3>1. c # NUL
      BY <1>6, ClassesApart
    <3>2. source[s] = c /\ s \in 1 .. Len(source) /\ n - 1 \in s .. Len(source)
      BY <1>1, <2>3, <3>1, CharTyped
    <3> QED
      BY <1>1, <2>1, <3>2 DEF Words
  <2>6. t.literal[1] \notin Letters
    BY <1>6, <2>4, <2>5, ClassesApart
  <2>8. /\ t.type \in {"INT", ",", ":", "EOF", "ILLEGAL"}
        /\ t.literal = <<>> \/ t.literal[1] \notin Letters
    BY <2>3, <2>4, <2>6
  <2>9. /\ t.type \notin keywords \cup registers \cup {"IDENT"}
        /\ \A r \in DOMAIN Spelling : t.type # r /\ t.literal # Spelling[r]
    BY <2>8, NotReserved, NotSpelled
  <2> QED
    BY <2>3, <2>4, <2>6, <2>9 DEF WellCut
<1>7. CASE c \in Letters
  <2>1. PICK w, word : w = Past(source, s, Letters \cup Digits) /\ word = SubSeq(source, s, w - 1)
    OBVIOUS
  <2>2. t = Token(LookupIdent(word), word, w)
    <3>1. t = Token(LookupIdent(SubSeq(source, s, w - 1)), SubSeq(source, s, w - 1), w)
      BY <1>7, <2>1, WordToken
    <3> QED
      BY <2>1, <3>1
  <2>3. Ch(source, w) \notin Letters \cup Digits
    BY <1>1, <2>1, PastFound, ClassesApart
  <2>4. t.type = LookupIdent(word) /\ t.literal = word /\ t.next = w
    BY <2>2, TokenFields
  <2>5. /\ t.type \in keywords \cup registers \cup {"IDENT"}
        /\ \A r \in DOMAIN Spelling : t.type = r <=> t.literal = Spelling[r]
    BY <2>4, LookupIs
  <2>6. t.type # "INT"
    BY <2>5, ReservedTypes
  <2> QED
    BY <2>3, <2>4, <2>5, <2>6 DEF WellCut
<1>8. CASE c \notin Letters \cup Digits \cup {Quote, ",", ":", NUL}
  <2>1. t = Token("ILLEGAL", <<c>>, s + 1)
    BY <1>8, OtherToken
  <2>2. t.type = "ILLEGAL" /\ t.literal = <<c>>
    BY <2>1, TokenFields
  <2>3. t.literal[1] \notin Letters
    BY <1>2, <1>8, <2>2
  <2>8. /\ t.type \in {"INT", ",", ":", "EOF", "ILLEGAL"}
        /\ t.literal = <<>> \/ t.literal[1] \notin Letters
    BY <2>2, <2>3
  <2>9. /\ t.type \notin keywords \cup registers \cup {"IDENT"}
        /\ \A r \in DOMAIN Spelling : t.type # r /\ t.literal # Spelling[r]
    BY <2>8, NotReserved, NotSpelled
  <2> QED
    BY <2>2, <2>3, <2>9 DEF WellCut
<1> QED
  BY <1>3, <1>4, <1>5, <1>6, <1>7, <1>8

-----------------------------------------------------------------------------
(* x is what the tokens before cursor c read, outside strings or at the end *)
(* of one that is not closed.                                              *)
Outside(c, x) == Quotes(c - 1) % 2 = 0 /\ x = Keeping[c - 1]

Ended(c, x) == c = Stop /\ Quotes(c - 1) % 2 = 1 /\ x = Keeping[c - 1] \o <<Quote>>

LEMMA KeepingTyped ==
    ASSUME source \in Words, NEW c \in 1 .. Stop
    PROVE  Keeping[c - 1] \in Seq(Characters)
<1>1. Len(Counted) = Stop - 1 /\ Stop \in Nat
  BY StopFound
<1>2. c - 1 \in 0 .. Len(Counted)
  BY <1>1
<1> QED
  BY <1>2, KeepingFacts DEF IsKeeping

(* At the end all is read.                                                 *)
LEMMA AllRead ==
    ASSUME source \in Words, NEW x, Outside(Stop, x) \/ Ended(Stop, x)
    PROVE  x = Kept \o Unclosed
<1>1. Len(Counted) = Stop - 1 /\ Kept = Keeping[Stop - 1]
  BY StopFound, KeptIs
<1>2. Keeping[Stop - 1] \in Seq(Characters)
  <2>1. Stop \in 1 .. Stop
    BY StopFound
  <2> QED
    BY <2>1, KeepingTyped
<1>3. CASE Outside(Stop, x)
  <2>1. Unclosed = <<>> /\ x = Keeping[Stop - 1]
    BY <1>1, <1>3 DEF Unclosed, Outside
  <2>2. \A s \in Seq(Characters) : s \o <<>> = s
    BY ConcatEmptySeq
  <2> QED
    BY <1>1, <1>2, <2>1, <2>2
<1>4. CASE Ended(Stop, x)
  <2>1. Unclosed = <<Quote>>
    BY <1>1, <1>4 DEF Unclosed, Ended
  <2> QED
    BY <1>1, <1>4, <2>1 DEF Ended
<1> QED
  BY <1>3, <1>4

LEMMA JoinedAlike ==
    \A p, q, r \in Seq(Characters) : (p \o q) \o r = p \o (q \o r)
  BY ConcatAssociative

LEMMA Parity ==
    \A q \in Nat : (q % 2 = 0 => (q + 1) % 2 = 1) /\ (q % 2 = 1 => (q + 1) % 2 = 0)
  OBVIOUS

(* A string: its quotes and all between them is kept.                      *)
LEMMA StringRead ==
    ASSUME source \in Words, NEW s \in 1 .. Stop, Quotes(s - 1) % 2 = 0,
           Ch(source, s) = Quote,
           NEW end, end = First(source, s + 1, {Quote, NUL}),
           NEW next, next = AfterString(source, end),
           NEW x, x = Keeping[s - 1] \o (<<Quote>> \o SubSeq(source, s + 1, end - 1) \o <<Quote>>)
    PROVE  next \in 1 .. Stop /\ (Outside(next, x) \/ Ended(next, x))
<1>1. /\ Stop \in 1 .. (Len(source) + 1) /\ Len(source) \in Nat /\ Ch(source, Stop) = NUL
      /\ s \in Nat \ {0}
  BY StopFound
<1>2. s \in 1 .. (Stop - 1) /\ s + 1 \in 1 .. Stop
  <2>1. s # Stop
    BY <1>1, ClassesApart
  <2> QED
    BY <1>1, <2>1
<1>3. source[s] = Quote
  BY <1>2, CountedIs
<1>4. /\ end \in (s + 1) .. Stop
      /\ Ch(source, end) \in {Quote, NUL}
      /\ \A k \in (s + 1) .. (end - 1) : source[k] # Quote
  <2>1. PICK b, C : b = s + 1 /\ C = {Quote, NUL}
    OBVIOUS
  <2>2. b \in 1 .. Stop /\ NUL \in C /\ end = First(source, b, C)
    BY <1>2, <2>1
  <2>4. /\ First(source, b, C) \in b .. Stop /\ Ch(source, First(source, b, C)) \in C
        /\ \A k \in b .. (First(source, b, C) - 1) :
              Ch(source, k) \notin C /\ source[k] = Ch(source, k)
    BY <2>2, FirstStops
  <2>3. /\ end \in b .. Stop /\ Ch(source, end) \in C
        /\ \A k \in b .. (end - 1) : Ch(source, k) \notin C /\ source[k] = Ch(source, k)
    BY <2>2, <2>4
  <2> QED
    BY <2>1, <2>3
<1>5. /\ end \in Nat /\ end - 1 \in s .. (Stop - 1) /\ end \in s .. Stop /\ end \in 1 .. Stop
      /\ s \in 1 .. Len(source) /\ end - 1 \in s .. Len(source) /\ end - 1 \in 0 .. Len(source)
      /\ s + 1 \in 1 .. (Len(source) + 2) /\ (s + 1) - 1 = s
  <2>1. PICK l, e : l = Len(source) /\ e = Stop
    OBVIOUS
  <2>2. l \in Nat /\ e \in 1 .. (l + 1) /\ s \in 1 .. (e - 1) /\ end \in (s + 1) .. e
    BY <1>1, <1>2, <1>4, <2>1
  <2>3. end \in Nat /\ end - 1 \in s .. (e - 1) /\ end \in s .. e /\ end \in 1 .. e
    BY <2>2
  <2>4. s \in 1 .. l /\ end - 1 \in s .. l /\ end - 1 \in 0 .. l
    BY <2>2
  <2>5. s + 1 \in 1 .. (l + 2) /\ (s + 1) - 1 = s
    BY <2>2
  <2> QED
    BY <2>1, <2>3, <2>4, <2>5
<1>6. Quotes(s) = Quotes(s - 1) + 1 /\ Quotes(s - 1) \in Nat
  BY <1>2, <1>3, QuotesStep
<1>7. Quotes(s) % 2 = 1
  BY <1>6, Parity
<1>8. \A k \in (s + 1) .. end : Quotes(k - 1) = Quotes(s)
  <2>1. \A k \in (s + 1) .. end : Quotes(k - 1) = Quotes((s + 1) - 1)
    BY <1>2, <1>4, QuotesRun
  <2> QED
    BY <1>5, <2>1
<1>9. ASSUME NEW k \in s .. (end - 1) PROVE Keeps(k)
  <2>1. k \in 1 .. (Stop - 1) /\ (k = s \/ k \in (s + 1) .. end)
    <3>1. PICK e : e = Stop
      OBVIOUS
    <3>2. s \in Nat \ {0} /\ e \in Nat /\ end \in Nat /\ end - 1 \in s .. (e - 1)
      BY <1>1, <1>5, <3>1
    <3>3. k \in 1 .. (e - 1) /\ (k = s \/ k \in (s + 1) .. end)
      BY <3>2
    <3> QED
      BY <3>1, <3>3
  <2>2. Counted[k] = source[k]
    BY <2>1, CountedIs
  <2>3. CASE k = s
    BY <1>3, <2>2, <2>3, ClassesApart DEF Keeps
  <2>4. CASE k \in (s + 1) .. end
    BY <1>7, <1>8, <2>4 DEF Keeps, InString
  <2> QED
    BY <2>1, <2>3, <2>4
<1> DEFINE K0 == Keeping[s - 1]
           body == SubSeq(source, s + 1, end - 1)
<1>10. Keeping[end - 1] = K0 \o SubSeq(source, s, end - 1)
  BY <1>5, <1>9, KeptRun
<1>11. SubSeq(source, s, end - 1) = <<Quote>> \o body
  <2>1. SubSeq(source, s, end - 1) = <<source[s]>> \o SubSeq(source, s + 1, end - 1)
    BY <1>5, SubSeqRecursiveFirst DEF Words
  <2> QED
    BY <1>3, <2>1
<1>12. K0 \in Seq(Characters) /\ body \in Seq(Characters) /\ <<Quote>> \in Seq(Characters)
  <2>1. body \in Words
    BY <1>5, SliceTyped
  <2>2. Quote \in Characters
    BY DEF Characters
  <2>3. K0 \in Seq(Characters)
    BY KeepingTyped
  <2>4. <<Quote>> \in Seq(Characters)
    BY <2>2
  <2> QED
    BY <2>1, <2>3, <2>4 DEF Words
<1>13. x = Keeping[end - 1] \o <<Quote>>
  <2>2. <<Quote>> \o body \in Seq(Characters)
    <3> HIDE DEF body
    <3> QED
      BY <1>12, ConcatProperties
  <2>3. x = K0 \o ((<<Quote>> \o body) \o <<Quote>>)
    OBVIOUS
  <2> HIDE DEF K0, body
  <2>4. (K0 \o (<<Quote>> \o body)) \o <<Quote>> = K0 \o ((<<Quote>> \o body) \o <<Quote>>)
    BY <1>12, <2>2, JoinedAlike
  <2> QED
    BY <1>10, <1>11, <2>3, <2>4
<1>14. Quotes(end - 1) = Quotes(s)
  <2>1. end \in (s + 1) .. end
    BY <1>1, <1>4
  <2> QED
    BY <1>8, <2>1
<1>15. CASE Ch(source, end) = Quote
  <2>1. end # Stop /\ next = end + 1
    BY <1>1, <1>15, ClassesApart DEF AfterString
  <2>2. end \in 1 .. (Stop - 1) /\ next \in 1 .. Stop /\ next - 1 = end /\ end + 1 \in end .. Stop
    <3>1. PICK e : e = Stop
      OBVIOUS
    <3>2. e \in Nat /\ end \in 1 .. e /\ end # e
      BY <1>1, <1>5, <2>1, <3>1
    <3>3. end \in 1 .. (e - 1) /\ end + 1 \in 1 .. e /\ (end + 1) - 1 = end /\ end + 1 \in end .. e
      BY <3>2
    <3> QED
      BY <2>1, <3>1, <3>3
  <2>3. source[end] = Quote /\ Counted[end] = Quote
    BY <1>15, <2>2, CountedIs
  <2>4. Quotes(end) = Quotes(end - 1) + 1
    BY <2>2, <2>3, QuotesStep
  <2>5. Quotes(next - 1) % 2 = 0
    <3>1. Quotes(end - 1) \in Nat /\ Quotes(end - 1) % 2 = 1
      BY <1>5, <1>7, <1>14, QuotesTyped
    <3> QED
      BY <2>2, <2>4, <3>1, Parity
  <2>6. Keeping[end] = Keeping[end - 1] \o <<Quote>>
    <3>1. Keeps(end)
      BY <2>3, ClassesApart DEF Keeps
    <3>2. end \in 1 .. Len(Counted)
      BY <2>2, StopFound
    <3> QED
      BY <2>3, <3>1, <3>2, KeepingFacts DEF IsKeeping, Piece
  <2> QED
    BY <1>13, <2>2, <2>5, <2>6 DEF Outside
<1>16. CASE Ch(source, end) = NUL
  <2>1. end = Stop
    <3>1. end \notin 1 .. (Stop - 1)
      BY <1>16, CountedIs
    <3> QED
      BY <1>1, <1>5, <3>1
  <2>2. next = end
    BY <1>16, ClassesApart DEF AfterString
  <2> QED
    BY <1>5, <1>7, <1>13, <1>14, <2>1, <2>2 DEF Ended
<1> QED
  BY <1>4, <1>15, <1>16

(* What is read outside strings: a run of characters, one character.       *)
LEMMA RunRead ==
    ASSUME source \in Words, NEW s \in 1 .. Stop, NEW b \in s .. Stop, Quotes(s - 1) % 2 = 0,
           \A k \in s .. (b - 1) : source[k] \notin White /\ source[k] # Quote,
           NEW x, x = Keeping[s - 1] \o SubSeq(source, s, b - 1)
    PROVE  b \in 1 .. Stop /\ Outside(b, x)
<1>1. Stop \in Nat
  BY StopFound
<1>2. b \in 1 .. Stop
  BY <1>1
<1>3. Keeping[b - 1] = Keeping[s - 1] \o SubSeq(source, s, b - 1) /\ Quotes(b - 1) % 2 = 0
  BY OutsideRun
<1> QED
  BY <1>2, <1>3 DEF Outside

LEMMA CharRead ==
    ASSUME source \in Words, NEW s \in 1 .. Stop, Quotes(s - 1) % 2 = 0,
           NEW ch, ch = Ch(source, s), ch # NUL, ch # Quote, ch \notin White,
           NEW x, x = Keeping[s - 1] \o <<ch>>
    PROVE  s + 1 \in 1 .. Stop /\ Outside(s + 1, x)
<1>1. /\ Stop \in 1 .. (Len(source) + 1) /\ Len(source) \in Nat /\ Ch(source, Stop) = NUL
      /\ s \in Nat \ {0}
  BY StopFound
<1>2. s \in 1 .. (Stop - 1) /\ s + 1 \in s .. Stop /\ (s + 1) - 1 = s /\ s \in 1 .. Len(source)
  BY <1>1
<1>3. source[s] = ch
  BY <1>2, CountedIs
<1>4. SubSeq(source, s, s) = <<source[s]>>
  <2>1. s \in s .. Len(source) /\ s < s + 1 /\ s \in Int /\ s + 1 \in Int
    BY <1>1, <1>2
  <2>2. SubSeq(source, s, s) = <<source[s]>> \o SubSeq(source, s + 1, s)
    BY <1>2, <2>1, SubSeqRecursiveFirst DEF Words
  <2>3. SubSeq(source, s + 1, s) = <<>>
    BY <2>1, SubSeqEmpty
  <2>4. source[s] \in Characters
    BY <1>2, CountedIs
  <2>5. \A e \in Characters : <<e>> \o <<>> = <<e>>
    BY ConcatEmptySeq
  <2> QED
    BY <2>2, <2>3, <2>4, <2>5
<1>5. \A k \in s .. ((s + 1) - 1) : source[k] \notin White /\ source[k] # Quote
  BY <1>1, <1>3
<1>6. x = Keeping[s - 1] \o SubSeq(source, s, (s + 1) - 1)
  BY <1>2, <1>3, <1>4
<1>7. PICK b : b = s + 1
  OBVIOUS
<1>8. b \in 1 .. Stop /\ Outside(b, x)
  BY <1>2, <1>5, <1>6, <1>7, RunRead
<1> QED
  BY <1>7, <1>8

Reaches(c, x) == c \in 1 .. Stop /\ (Outside(c, x) \/ Ended(c, x))

(* One token on: its text is what comes next of what is kept.              *)
LEMMA ReadOn ==
    ASSUME source \in Words, NEW c, NEW x, Reaches(c, x), NEW t, t = NextToken(source, c)
    PROVE  IF t.type = "EOF" THEN x = Kept \o Unclosed
           ELSE \A y : y = x \o Text(t) => Reaches(t.next, y)
<1>1. c \in 1 .. Stop /\ Stop \in Nat /\ (Outside(c, x) \/ Ended(c, x)) /\ Ch(source, Stop) = NUL
  BY StopFound DEF Reaches
<1>2. PICK s, ch : s = Past(source, c, White) /\ ch = Ch(source, s)
  OBVIOUS
<1>3. CASE Ended(c, x)
  <2>1. c = Stop
    BY <1>3 DEF Ended
  <2>2. s \in c .. Stop
    BY <1>1, <1>2, PastStops, ClassesApart
  <2>3. s = Stop
    BY <1>1, <2>1, <2>2
  <2>4. t = Token("EOF", <<>>, s)
    BY <1>1, <1>2, <2>3, EndToken
  <2>5. t.type = "EOF"
    BY <2>4, TokenFields
  <2>6. x = Kept \o Unclosed
    BY <1>3, <2>1, AllRead
  <2> QED
    BY <2>5, <2>6
<1>4. CASE Outside(c, x)
  <2>1. Quotes(c - 1) % 2 = 0 /\ x = Keeping[c - 1]
    BY <1>4 DEF Outside
  <2>2. /\ s \in c .. Stop /\ s \in 1 .. Stop /\ Ch(source, s) \notin White
        /\ Quotes(s - 1) % 2 = 0 /\ Keeping[s - 1] = Keeping[c - 1]
    BY <1>1, <1>2, <2>1, SkipsWhite
  <2>3. x = Keeping[s - 1] /\ ch \notin White
    BY <1>2, <2>1, <2>2
  <2>4. CASE ch = Quote
    <3>1. PICK end, next : /\ end = First(source, s + 1, {Quote, NUL})
                           /\ next = AfterString(source, end)
      OBVIOUS
    <3>2. PICK body : body = SubSeq(source, s + 1, end - 1)
      OBVIOUS
    <3>3. t = Token("STRING", body, next)
      BY <1>2, <2>4, <3>1, <3>2, StringToken
    <3>4. t.type = "STRING" /\ t.literal = body /\ t.next = next
      BY <3>3, TokenFields
    <3>5. ASSUME NEW y, y = x \o Text(t) PROVE Reaches(next, y)
      <4>1. y = Keeping[s - 1] \o (<<Quote>> \o SubSeq(source, s + 1, end - 1) \o <<Quote>>)
        BY <2>3, <3>2, <3>4, <3>5 DEF Text
      <4>2. next \in 1 .. Stop /\ (Outside(next, y) \/ Ended(next, y))
        BY <1>2, <2>2, <2>4, <3>1, <4>1, StringRead
      <4> QED
        BY <4>2 DEF Reaches
    <3> QED
      BY <3>4, <3>5
  <2>5. CASE ch \in {",", ":"}
    <3>1. t = Token(ch, <<ch>>, s + 1)
      BY <1>2, <2>5, MarkToken
    <3>2. t.type = ch /\ t.literal = <<ch>> /\ t.next = s + 1
      BY <3>1, TokenFields
    <3>3. t.type # "EOF" /\ t.type # "STRING" /\ ch # NUL /\ ch # Quote
      BY <2>5, <3>2, ClassesApart
    <3>4. ASSUME NEW y, y = x \o Text(t) PROVE Reaches(s + 1, y)
      <4>1. y = Keeping[s - 1] \o <<ch>>
        BY <2>3, <3>2, <3>3, <3>4 DEF Text
      <4> QED
        BY <1>2, <2>2, <2>3, <3>3, <4>1, CharRead DEF Reaches
    <3> QED
      BY <3>2, <3>3, <3>4
  <2>6. CASE ch = NUL
    <3>1. t = Token("EOF", <<>>, s)
      BY <1>2, <2>6, EndToken
    <3>2. t.type = "EOF"
      BY <3>1, TokenFields
    <3>3. s = Stop
      <4>1. s \notin 1 .. (Stop - 1)
        BY <1>2, <2>6, CountedIs
      <4> QED
        BY <1>1, <2>2, <4>1
    <3>4. Outside(Stop, x)
      BY <2>2, <2>3, <3>3 DEF Outside
    <3>5. x = Kept \o Unclosed
      BY <3>4, AllRead
    <3> QED
      BY <3>2, <3>5
  <2>7. CASE ch \in Digits
    <3>1. PICK n, word : n = Past(source, s, Digits) /\ word = SubSeq(source, s, n - 1)
      OBVIOUS
    <3>2. t = Token("INT", word, n)
      BY <1>2, <2>7, <3>1, NumberToken
    <3>3. t.type = "INT" /\ t.literal = word /\ t.next = n
      BY <3>2, TokenFields
    <3>4. n \in s .. Stop /\ \A k \in s .. (n - 1) : source[k] \in Digits
      BY <2>2, <3>1, PastStops, ClassesApart
    <3>5. \A k \in s .. (n - 1) : source[k] \notin White /\ source[k] # Quote
      BY <3>4, ClassesApart
    <3>6. ASSUME NEW y, y = x \o Text(t) PROVE Reaches(n, y)
      <4>1. y = Keeping[s - 1] \o SubSeq(source, s, n - 1)
        BY <2>3, <3>1, <3>3, <3>6 DEF Text
      <4> QED
        BY <2>2, <3>4, <3>5, <4>1, RunRead DEF Reaches
    <3> QED
      BY <3>3, <3>6
  <2>8. CASE ch \in Letters
    <3>1. PICK n, word : n = Past(source, s, Letters \cup Digits) /\ word = SubSeq(source, s, n - 1)
      OBVIOUS
    <3>2. t = Token(LookupIdent(word), word, n)
      BY <1>2, <2>8, <3>1, WordToken
    <3>3. t.type = LookupIdent(word) /\ t.literal = word /\ t.next = n
      BY <3>2, TokenFields
    <3>4. t.type # "EOF" /\ t.type # "STRING"
      BY <3>3, LookupIs, ReservedTypes
    <3>5. n \in s .. Stop /\ \A k \in s .. (n - 1) : source[k] \in Letters \cup Digits
      BY <2>2, <3>1, PastStops, ClassesApart
    <3>6. \A k \in s .. (n - 1) : source[k] \notin White /\ source[k] # Quote
      BY <3>5, ClassesApart
    <3>7. ASSUME NEW y, y = x \o Text(t) PROVE Reaches(n, y)
      <4>1. y = Keeping[s - 1] \o SubSeq(source, s, n - 1)
        BY <2>3, <3>1, <3>3, <3>4, <3>7 DEF Text
      <4> QED
        BY <2>2, <3>5, <3>6, <4>1, RunRead DEF Reaches
    <3> QED
      BY <3>3, <3>4, <3>7
  <2>9. CASE ch \notin Letters \cup Digits \cup {Quote, ",", ":", NUL}
    <3>1. t = Token("ILLEGAL", <<ch>>, s + 1)
      BY <1>2, <2>9, OtherToken
    <3>2. t.type = "ILLEGAL" /\ t.literal = <<ch>> /\ t.next = s + 1
      BY <3>1, TokenFields
    <3>3. ASSUME NEW y, y = x \o Text(t) PROVE Reaches(s + 1, y)
      <4>1. y = Keeping[s - 1] \o <<ch>>
        BY <2>3, <3>2, <3>3 DEF Text
      <4>2. ch # NUL /\ ch # Quote
        BY <2>9
      <4> QED
        BY <1>2, <2>2, <2>3, <4>1, <4>2, CharRead DEF Reaches
    <3> QED
      BY <3>2, <3>3
  <2> QED
    BY <2>4, <2>5, <2>6, <2>7, <2>8, <2>9
<1> QED
  BY <1>1, <1>3, <1>4

-----------------------------------------------------------------------------
(* The texts of a row of tokens, one after the other, as Texts defines it. *)
TextStep(toks, X) ==
    [k \in 0 .. Len(toks) |-> IF k = 0 THEN <<>> ELSE X[k - 1] \o Text(toks[k])]

TextOf(toks) == CHOOSE X : X = TextStep(toks, X)

LEMMA TextsIs == \A toks : Texts(toks) = TextOf(toks)[Len(toks)]
  BY DEF Texts, TextOf, TextStep

LEMMA TextTyped ==
    ASSUME NEW t, t.literal \in Words
    PROVE  Text(t) \in Seq(Characters)
<1>1. <<Quote>> \in Seq(Characters)
  <2>1. Quote \in Characters
    BY DEF Characters
  <2> QED
    BY <2>1
<1>2. PICK w : w = t.literal
  OBVIOUS
<1>3. w \in Seq(Characters)
  BY <1>2 DEF Words
<1>4. <<Quote>> \o w \in Seq(Characters)
  BY <1>1, <1>3, ConcatProperties
<1>5. (<<Quote>> \o w) \o <<Quote>> \in Seq(Characters)
  BY <1>1, <1>4, ConcatProperties
<1> QED
  BY <1>2, <1>3, <1>5 DEF Text

LEMMA TextOfFacts ==
    ASSUME NEW toks, Len(toks) \in Nat,
           \A k \in 1 .. Len(toks) : Text(toks[k]) \in Seq(Characters)
    PROVE  /\ TextOf(toks)[0] = <<>>
           /\ \A k \in 1 .. Len(toks) : TextOf(toks)[k] = TextOf(toks)[k - 1] \o Text(toks[k])
<1> DEFINE n == Len(toks)
           W == [k \in 1 .. n |-> Text(toks[k])]
<1>1. PICK F : Joined(F, W, n)
  <2>1. W \in [1 .. n -> Seq(Characters)]
    OBVIOUS
  <2> HIDE DEF W, n
  <2>2. n \in Nat
    BY DEF n
  <2> QED
    BY <2>1, <2>2, JoinExists
<1>2. ASSUME NEW k \in 0 .. n
      PROVE  F[k] = IF k = 0 THEN <<>> ELSE F[k - 1] \o Text(toks[k])
  <2>1. CASE k = 0
    BY <1>1, <2>1 DEF Joined
  <2>2. CASE k # 0
    <3>1. k \in 1 .. n
      BY <2>2
    <3>2. W[k] = Text(toks[k])
      BY <3>1
    <3> HIDE DEF W
    <3>3. F[k] = F[k - 1] \o W[k]
      BY <1>1, <3>1 DEF Joined
    <3> QED
      BY <2>2, <3>2, <3>3
  <2> QED
    BY <2>1, <2>2
<1>3. F = TextStep(toks, F)
  <2>1. F = [k \in 0 .. n |-> F[k]]
    BY <1>1 DEF Joined
  <2> QED
    BY <1>2, <2>1 DEF TextStep
<1>4. PICK X : X = TextOf(toks)
  OBVIOUS
<1>5. X = TextStep(toks, X)
  BY <1>3, <1>4 DEF TextOf
<1>6. X[0] = <<>>
  BY <1>5 DEF TextStep
<1>7. ASSUME NEW k \in 1 .. n PROVE X[k] = X[k - 1] \o Text(toks[k])
  <2>1. k \in 0 .. n /\ k # 0
    OBVIOUS
  <2> QED
    BY <1>5, <2>1 DEF TextStep
<1> QED
  BY <1>4, <1>6, <1>7

(* The first m tokens read what is kept up to the cursor behind them.      *)
LEMMA ReadSoFar ==
    ASSUME source \in Words, NEW toks, toks = TokensOf(source), NEW X, X = TextOf(toks)
    PROVE  \A m \in 0 .. Len(toks) :
              \E c \in 1 .. (Len(source) + 1) : Stands(source, c, m + 1) /\ Reaches(c, X[m])
<1> DEFINE n == Len(toks)
           At1(m) == \E c \in 1 .. (Len(source) + 1) : Stands(source, c, m + 1) /\ Reaches(c, X[m])
           T == {m \in Nat : m <= n => At1(m)}
<1>1. toks \in Seq(LocatedTokens(source)) /\ n \in Nat
  BY TokensOfTyped
<1>2. ASSUME NEW k \in 1 .. n PROVE Text(toks[k]) \in Seq(Characters)
  <2>1. toks[k] \in LocatedTokens(source)
    BY <1>1, ElementOfSeq
  <2> QED
    BY <2>1, TextTyped DEF LocatedTokens, Located
<1>3. X[0] = <<>> /\ \A k \in 1 .. n : X[k] = X[k - 1] \o Text(toks[k])
  BY <1>1, <1>2, TextOfFacts
<1>4. /\ Stop \in 1 .. (Len(source) + 1) /\ Len(source) \in Nat /\ 1 \in 1 .. Stop
      /\ 1 \in 1 .. (Len(source) + 1) /\ 1 - 1 = 0
  BY StopFound
<1>5. 0 \in T
  <2>1. Stands(source, 1, 0 + 1)
    BY StandsFirst
  <2>2. Quotes(0) % 2 = 0 /\ Keeping[0] = <<>>
    BY QuotesNone, KeepingFacts DEF IsKeeping
  <2>3. Reaches(1, X[0])
    BY <1>3, <1>4, <2>2 DEF Reaches, Outside
  <2>4. At1(0)
    BY <1>4, <2>1, <2>3
  <2> HIDE DEF At1
  <2> QED
    BY <2>4
<1>6. ASSUME NEW m \in Nat, m \in T PROVE m + 1 \in T
  <2> HIDE DEF At1
  <2> SUFFICES ASSUME m + 1 <= n PROVE At1(m + 1)
    OBVIOUS
  <2>1. At1(m) /\ m + 1 \in 1 .. n /\ (m + 1) - 1 = m
    BY <1>1, <1>6
  <2>2. PICK c \in 1 .. (Len(source) + 1) : Stands(source, c, m + 1) /\ Reaches(c, X[m])
    BY <2>1 DEF At1
  <2>3. PICK t, x, y, p : t = NextToken(source, c) /\ x = X[m] /\ y = X[m + 1] /\ p = m + 1
    OBVIOUS
  <2>4. Stands(source, c, p)
    BY <2>2, <2>3
  <2>5. /\ t.type = "EOF" => p = Len(TokensOf(source)) + 1
        /\ t.type # "EOF" => /\ TokensOf(source)[p] = t
                             /\ t.next \in 1 .. (Len(source) + 1)
                             /\ Stands(source, t.next, p + 1)
    BY <2>3, <2>4, StandsFacts
  <2>6. t.type # "EOF"
    BY <1>1, <2>1, <2>3, <2>5
  <2>7. y = x \o Text(t)
    BY <1>3, <2>1, <2>3, <2>5, <2>6
  <2>8. Reaches(c, x)
    BY <2>2, <2>3
  <2>9. Reaches(t.next, y)
    BY <2>3, <2>6, <2>7, <2>8, ReadOn
  <2> QED
    BY <2>3, <2>5, <2>6, <2>9 DEF At1
<1>7. Nat \subseteq T
  <2> HIDE DEF T
  <2> QED
    BY <1>5, <1>6, SetInduction
<1>8. ASSUME NEW m \in 0 .. n PROVE At1(m)
  <2> HIDE DEF At1
  <2> QED
    BY <1>1, <1>7
<1> QED
  BY <1>8

LEMMA LexerReadsAll ==
    ASSUME source \in Words
    PROVE  LexesAll
<1>1. PICK toks, X : toks = TokensOf(source) /\ X = TextOf(toks)
  OBVIOUS
<1>2. Toks = toks
  BY <1>1, TokensAreRests DEF Toks, TokensOf
<1>3. toks \in Seq(LocatedTokens(source)) /\ Len(toks) \in Nat
  BY <1>1, TokensOfTyped
<1>4. ASSUME NEW m \in 0 .. Len(toks)
      PROVE  \E c \in 1 .. (Len(source) + 1) : Stands(source, c, m + 1) /\ Reaches(c, X[m])
  BY <1>1, ReadSoFar
<1>5. Texts(toks) = Kept \o Unclosed
  <2>1. PICK n, x : n = Len(toks) /\ x = X[n]
    OBVIOUS
  <2>2. n \in 0 .. Len(toks)
    BY <1>3, <2>1
  <2>3. PICK c \in 1 .. (Len(source) + 1) : Stands(source, c, n + 1) /\ Reaches(c, X[n])
    BY <1>4, <2>2
  <2>4. PICK t, p : t = NextToken(source, c) /\ p = n + 1
    OBVIOUS
  <2>5. t.type # "EOF" => p \in 1 .. Len(TokensOf(source))
    BY <2>3, <2>4, StandsFacts
  <2>6. t.type = "EOF"
    BY <1>1, <1>3, <2>1, <2>4, <2>5
  <2>7. Reaches(c, x)
    BY <2>1, <2>3
  <2>8. x = Kept \o Unclosed
    BY <2>4, <2>6, <2>7, ReadOn
  <2> QED
    BY <1>1, <2>1, <2>8, TextsIs
<1>6. ASSUME NEW k \in DOMAIN toks PROVE WellCut(toks[k])
  <2>1. PICK m, p : m = k - 1 /\ p = k
    OBVIOUS
  <2>2. k \in 1 .. Len(toks) /\ m \in 0 .. Len(toks) /\ m + 1 = p
    BY <1>3, <2>1
  <2>3. PICK c \in 1 .. (Len(source) + 1) : Stands(source, c, m + 1)
    BY <1>4, <2>2
  <2>4. PICK t : t = NextToken(source, c)
    OBVIOUS
  <2>5. Stands(source, c, p)
    BY <2>2, <2>3
  <2>6. /\ t.type = "EOF" => p = Len(TokensOf(source)) + 1
        /\ t.type # "EOF" => TokensOf(source)[p] = t
    BY <2>4, <2>5, StandsFacts
  <2>7. toks[k] = t
    BY <1>1, <1>3, <2>1, <2>2, <2>6
  <2> QED
    BY <2>4, <2>7, WellCutToken
<1> QED
  BY <1>2, <1>5, <1>6 DEF LexesAll

(* The lexer reads all there is: put together, the texts of its tokens are *)
(* the source without the white space outside strings, up to the first     *)
(* NUL, and no word or number is cut short (lexer.go:238-340).             *)
THEOREM LexerLosesNothing == Spec => []LexesAll
<1>1. ParserInv => source \in Words
  BY DEF ParserInv, TypeOK
<1>2. ParserInv => LexesAll
  BY <1>1, LexerReadsAll
<1> QED
  BY <1>2, ParserSafe, PTL
-----------------------------------------------------------------------------
(***************************************************************************)
(* The parser's progress.  Every step lowers Rank: it consumes a token, or *)
(* it goes on to a later part of a round of the loop.                      *)
(***************************************************************************)
Left == IF curToken.type = "EOF" THEN 0 ELSE (Len(source) + 2) - curToken.next

Stage ==
    CASE pc = "done"      -> 0
      [] pc = "after"     -> IF block = 0 THEN 2 ELSE 3
      [] pc = "operands"  -> 4 + Len(want)
      [] pc = "statement" -> IF curToken.type = "EOF" THEN 1 ELSE 8

Rank == 9 * Left + Stage

(* The lookahead is the token behind curToken, and behind EOF is EOF.      *)
Window == /\ peekToken = NextToken(source, curToken.next)
          /\ curToken.type = "EOF" => peekToken.type = "EOF"

LEMMA EndStays ==
    ASSUME NEW src \in Words, NEW i \in 1 .. (Len(src) + 1),
           NEW t, t = NextToken(src, i), t.type = "EOF"
    PROVE  NextToken(src, t.next).type = "EOF"
<1>0. PICK s, c : s = Past(src, i, White) /\ c = Ch(src, s)
  OBVIOUS
<1> USE <1>0
<1>1. c = NUL
  <2>1. c # Quote
    BY StringToken, TokenFields
  <2>2. c \notin {",", ":"}
    <3> SUFFICES ASSUME c \in {",", ":"} PROVE FALSE
      OBVIOUS
    <3>1. t = Token(c, <<c>>, s + 1)
      BY MarkToken
    <3>2. t.type = c
      BY <3>1 DEF Token
    <3> QED
      BY <3>2
  <2>3. c \notin Digits
    BY NumberToken, TokenFields
  <2>4. c \notin Letters
    <3>1. \A w : LookupIdent(w) # "EOF"
      BY LookupIs, ReservedTypes
    <3> SUFFICES ASSUME c \in Letters PROVE FALSE
      OBVIOUS
    <3>2. PICK w : w = Past(src, s, Letters \cup Digits)
      OBVIOUS
    <3>3. t = Token(LookupIdent(SubSeq(src, s, w - 1)), SubSeq(src, s, w - 1), w)
      BY <3>2, WordToken
    <3> QED
      BY <3>1, <3>3, TokenFields
  <2>5. c \in Letters \cup Digits \cup {Quote, ",", ":", NUL}
    <3> DEFINE Known == c \in Letters \cup Digits \cup {Quote, ",", ":", NUL}
    <3>1. ~Known => t = Token("ILLEGAL", <<c>>, s + 1)
      BY OtherToken
    <3> HIDE DEF Known
    <3>2. ~Known => t.type = "ILLEGAL"
      BY <3>1 DEF Token
    <3>3. Known
      BY <3>2
    <3> QED
      BY <3>3 DEF Known
  <2> QED
    BY <2>1, <2>2, <2>3, <2>4, <2>5
<1>2. t.next = s
  <2>1. t = Token("EOF", <<>>, s)
    BY <1>1, EndToken
  <2> QED
    BY <2>1, TokenFields
<1>3. s \in 1 .. (Len(src) + 1)
  <2>1. NUL \notin White
    BY ClassesApart
  <2>2. Past(src, i, White) \in i .. (Len(src) + 1)
    BY <2>1, PastFound
  <2>3. Len(src) \in Nat
    BY DEF Words
  <2> QED
    BY <2>2, <2>3
<1>4. PICK p : p = Past(src, s, White)
  OBVIOUS
<1>5. p = s
  <2>1. NUL \in Characters \ White
    BY ClassesApart DEF Characters
  <2>2. p \in s .. (Len(src) + 1) /\ \A k \in s .. (p - 1) : Ch(src, k) \notin Characters \ White
    BY <1>3, <1>4, <2>1, FirstFound DEF Past
  <2>3. s \notin s .. (p - 1)
    BY <1>1, <2>1, <2>2
  <2> QED
    BY <1>3, <2>2, <2>3 DEF Words
<1>6. NextToken(src, s) = Token("EOF", <<>>, p)
  BY <1>1, <1>4, <1>5, EndToken
<1> QED
  BY <1>2, <1>6, TokenFields

LEMMA WindowMoves ==
    ASSUME TypeOK, Window, UNCHANGED source, nextToken \/ Stay
    PROVE  Window'
<1>1. CASE Stay
  BY <1>1 DEF Stay, Window
<1>2. CASE nextToken
  <2>1. source \in Words /\ curToken.next \in 1 .. (Len(source) + 1)
    BY DEF TypeOK, TokenOf
  <2>2. /\ curToken' = peekToken /\ peekToken' = NextToken(source, peekToken.next)
        /\ peekToken = NextToken(source, curToken.next)
    BY <1>2 DEF nextToken, Window
  <2>3. peekToken.type = "EOF" => NextToken(source, peekToken.next).type = "EOF"
    BY <2>1, <2>2, EndStays
  <2> QED
    BY <2>2, <2>3 DEF Window
<1> QED
  BY <1>1, <1>2

(* What is left of the source.                                             *)
LEMMA LeftFalls ==
    ASSUME TypeOK, Window, UNCHANGED source, nextToken \/ Stay
    PROVE  /\ Left \in Nat /\ Left' \in Nat /\ Left' <= Left
           /\ nextToken /\ curToken.type # "EOF" => Left' < Left
           /\ curToken.type = "EOF" => Left = 0 /\ Left' = 0 /\ curToken'.type = "EOF"
<1>1. /\ source \in Words /\ Len(source) \in Nat
      /\ curToken.next \in 1 .. (Len(source) + 1) /\ peekToken.next \in 1 .. (Len(source) + 1)
  BY DEF TypeOK, TokenOf, Words
<1>2. Left \in Nat /\ (curToken.type # "EOF" => Left > 0)
  BY <1>1 DEF Left
<1>3. CASE Stay
  <2>1. Left' = Left
    BY <1>3 DEF Stay, Left
  <2>2. nextToken => (curToken.type # "EOF" => Left' < Left)
    <3> SUFFICES ASSUME nextToken, curToken.type # "EOF" PROVE FALSE
      BY <1>2, <2>1
    <3>1. curToken = peekToken /\ peekToken = NextToken(source, curToken.next)
      BY <1>3 DEF Stay, nextToken, Window
    <3>2. peekToken.next > curToken.next
      BY <1>1, <3>1, NextTokenTyped
    <3> QED
      BY <1>1, <3>1, <3>2
  <2> QED
    BY <1>2, <1>3, <2>1, <2>2 DEF Stay, Left
<1>4. CASE nextToken
  <2>1. curToken' = peekToken /\ peekToken = NextToken(source, curToken.next)
    BY <1>4 DEF nextToken, Window
  <2>2. Left' = IF peekToken.type = "EOF" THEN 0 ELSE (Len(source) + 2) - peekToken.next
    BY <2>1 DEF Left
  <2>3. peekToken.type # "EOF" => peekToken.next > curToken.next
    BY <1>1, <2>1, NextTokenTyped
  <2>4. curToken.type = "EOF" => peekToken.type = "EOF"
    BY DEF Window
  <2> QED
    BY <1>1, <1>2, <2>1, <2>2, <2>3, <2>4 DEF Left
<1> QED
  BY <1>3, <1>4

LEMMA FormShort ==
    ASSUME NEW t \in keywords
    PROVE  Len(Form(t)) \in Nat /\ Len(Form(t)) <= 3
<1>1. CASE t = "ALLOC"
  BY <1>1 DEF Form, AluOps, Branch, JumpOps
<1>2. CASE t = "FREE"
  BY <1>2 DEF Form, AluOps, Branch, JumpOps
<1>3. CASE t = "MOV"
  BY <1>3 DEF Form, AluOps, Branch, JumpOps
<1>4. CASE t = "TRIGGER_PIN"
  BY <1>4 DEF Form, AluOps, Branch, JumpOps
<1>5. CASE t = "SEND_CHAT"
  BY <1>5 DEF Form, AluOps, Branch, JumpOps
<1>6. CASE t = "ON_CHAT"
  BY <1>6 DEF Form, AluOps, Branch, JumpOps
<1>7. CASE t \in AluOps \cup {"CMP"}
  BY <1>7 DEF Form, AluOps, Branch, JumpOps
<1>8. CASE t \in Branch
  BY <1>8 DEF Form, AluOps, Branch, JumpOps
<1>9. CASE t = "RET"
  BY <1>9 DEF Form, AluOps, Branch, JumpOps
<1> QED
  BY <1>1, <1>2, <1>3, <1>4, <1>5, <1>6, <1>7, <1>8, <1>9 DEF keywords, AluOps, Branch, JumpOps

LEMMA WantTyped ==
    ASSUME TypeOK, WantsRest, pc = "operands"
    PROVE  /\ Len(want) \in Nat
           /\ want # <<>> => Len(Tail(want)) = Len(want) - 1
<1>1. Form(stmt.op) \in Seq(Slots)
  BY FormTyped DEF TypeOK, Partial
<1>2. PICK n \in 0 .. Len(Form(stmt.op)) : want = SubSeq(Form(stmt.op), n + 1, Len(Form(stmt.op)))
  BY DEF WantsRest
<1>3. want \in Seq(Slots)
  BY <1>1, <1>2, SubSeqProperties
<1> QED
  BY <1>3

LEMMA RoundFalls ==
    ASSUME NEW l \in Nat, NEW m \in Nat, m <= l, NEW s \in Nat, NEW n \in Nat,
           n < s \/ (m < l /\ n <= s + 8)
    PROVE  /\ 9 * l + s \in Nat /\ 9 * m + n \in Nat
           /\ 9 * m + n < 9 * l + s
  OBVIOUS

LEMMA RankFalls ==
    ASSUME ParserInv, Window, Next
    PROVE  Rank \in Nat /\ Rank' \in Nat /\ Rank' < Rank
<1>0. TypeOK /\ WantsRest
  BY DEF ParserInv
<1>1. /\ UNCHANGED source /\ (nextToken \/ Stay)
      /\ pc \in {"statement", "operands", "after"}
  BY DEF Next, BeginStatement, TakeOperand, WrongOperand, TooLarge, EndStatement, LabelStatement,
         Unexpected, CloseBlock, NextStatement, EndOfInput, AtStatement, Append1, GiveUp, Stay
<1>2. /\ Left \in Nat /\ Left' \in Nat /\ Left' <= Left
      /\ nextToken /\ curToken.type # "EOF" => Left' < Left
      /\ curToken.type = "EOF" => Left = 0 /\ Left' = 0 /\ curToken'.type = "EOF"
  BY <1>0, <1>1, LeftFalls
<1>3. /\ Stage \in Nat /\ Stage' \in Nat
      /\ Stage' < Stage \/ (Left' < Left /\ Stage' <= Stage + 8)
  <2>1. CASE BeginStatement
    <3>1. /\ pc = "statement" /\ pc' = "operands" /\ curToken.type # "EOF"
          /\ curToken.type \in keywords /\ want' = Form(curToken.type)
      BY <2>1 DEF BeginStatement, AtStatement
    <3>2. Len(want') \in Nat /\ Len(want') <= 3
      BY <3>1, FormShort
    <3>3. Stage = 8 /\ Stage' = 4 + Len(want')
      BY <3>1 DEF Stage
    <3> QED
      BY <3>2, <3>3
  <2>2. CASE TakeOperand
    <3>1. pc = "operands" /\ pc' = "operands" /\ want # <<>> /\ want' = Tail(want)
      BY <2>2 DEF TakeOperand
    <3>2. Len(want) \in Nat /\ Len(want') = Len(want) - 1 /\ Len(want') \in Nat
      <4>1. Len(want) \in Nat /\ Len(want') = Len(want) - 1
        BY <1>0, <3>1, WantTyped
      <4>2. ParserInv'
        BY <2>2, TakeKeeps
      <4>3. (TypeOK /\ WantsRest /\ pc = "operands" => Len(want) \in Nat)'
        BY WantTyped, PTL
      <4> QED
        BY <3>1, <4>1, <4>2, <4>3 DEF ParserInv
    <3>3. Stage = 4 + Len(want) /\ Stage' = 4 + Len(want')
      BY <3>1 DEF Stage
    <3> QED
      BY <3>2, <3>3
  <2>3. CASE WrongOperand \/ TooLarge \/ EndStatement \/ LabelStatement \/ Unexpected
    <3>1. /\ pc' = "after" /\ pc \in {"operands", "statement"}
          /\ pc = "statement" => curToken.type # "EOF"
      BY <2>3 DEF WrongOperand, TooLarge, EndStatement, LabelStatement, Unexpected, AtStatement,
                  Append1, GiveUp
    <3>2. Stage' \in {2, 3}
      BY <3>1 DEF Stage
    <3>3. Stage \in Nat /\ Stage >= 4
      <4>1. CASE pc = "operands"
        BY <1>0, <4>1, WantTyped DEF Stage
      <4>2. CASE pc = "statement"
        BY <3>1, <4>2 DEF Stage
      <4> QED
        BY <3>1, <4>1, <4>2
    <3> QED
      BY <3>2, <3>3
  <2>4. CASE CloseBlock
    BY <2>4 DEF CloseBlock, Stage
  <2>5. CASE NextStatement
    <3>1. pc = "after" /\ pc' = "statement" /\ nextToken
      BY <2>5 DEF NextStatement
    <3>2. Stage \in {2, 3} /\ Stage' = IF curToken'.type = "EOF" THEN 1 ELSE 8
      BY <3>1 DEF Stage
    <3> QED
      BY <1>2, <3>1, <3>2
  <2>6. CASE EndOfInput
    BY <2>6 DEF EndOfInput, Stage
  <2> QED
    BY <2>1, <2>2, <2>3, <2>4, <2>5, <2>6 DEF Next
<1>4. Rank = 9 * Left + Stage /\ Rank' = 9 * Left' + Stage'
  BY DEF Rank
<1> QED
  BY <1>2, <1>3, <1>4, RoundFalls

LEMMA WindowNext == ParserInv /\ Window /\ [Next]_vars => Window'
<1>1. ParserInv /\ Next => UNCHANGED source /\ (nextToken \/ Stay)
  BY DEF Next, BeginStatement, TakeOperand, WrongOperand, TooLarge, EndStatement, LabelStatement,
         Unexpected, CloseBlock, NextStatement, EndOfInput, AtStatement, Append1, GiveUp, Stay
<1>2. UNCHANGED vars => UNCHANGED source /\ Stay
  BY DEF vars, Stay
<1> QED
  BY <1>1, <1>2, WindowMoves DEF ParserInv

LEMMA WindowInit == ParserInv /\ Init => Window
<1> SUFFICES ASSUME ParserInv, Init PROVE Window
  OBVIOUS
<1>1. /\ source \in Words /\ 1 \in 1 .. (Len(source) + 1)
      /\ curToken = NextToken(source, 1) /\ peekToken = NextToken(source, curToken.next)
  BY DEF Init, ParserInv, TypeOK, Words
<1>2. curToken.type = "EOF" => NextToken(source, curToken.next).type = "EOF"
  BY <1>1, EndStays
<1> QED
  BY <1>1, <1>2 DEF Window

(***************************************************************************)
(* Every step of the parser lowers a natural number, whatever is wrong     *)
(* with the source: neither of its loops goes round without end            *)
(* (parser.go:141, 378).  It is the safety half of ParserEnds.             *)
(***************************************************************************)
ParserAdvances == [][Rank' < Rank /\ Rank \in Nat /\ Rank' \in Nat]_vars

THEOREM EveryStepAdvances == Spec => ParserAdvances
<1>1. ParserInv /\ Window /\ [Next]_vars => [Rank' < Rank /\ Rank \in Nat /\ Rank' \in Nat]_vars
  BY RankFalls
<1> QED
  BY <1>1, ParserInit, ParserNext, WindowInit, WindowNext, PTL DEF Spec, ParserAdvances
====================================================================================
