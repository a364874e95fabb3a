---------------------------------- MODULE Grammar ----------------------------------
(***************************************************************************)
(* What the lexer and the parser promise, said without a cursor: the words *)
(* of a source, which rows of tokens are programs, and what a statement of *)
(* the AST reads as.                                                       *)
(***************************************************************************)
EXTENDS Parser, FiniteSets

Finished == pc = "done"

Toks == Tokens(source, 1)

-----------------------------------------------------------------------------
(* The lexer.  The source counts up to its first NUL; a character is       *)
(* inside a string when an odd number of quotes precede it.                *)
Counted == SubSeq(source, 1, First(source, 1, {NUL}) - 1)

Quotes(i) == Cardinality({k \in 1 .. i : Counted[k] = Quote})

InString(i) == Quotes(i - 1) % 2 = 1

Keeps(i) == Counted[i] \notin White \/ InString(i)

Kept ==
    LET upto[k \in 0 .. Len(Counted)] ==
            IF k = 0 THEN <<>>
            ELSE IF Keeps(k) THEN Append(upto[k - 1], Counted[k]) ELSE upto[k - 1]
    IN  upto[Len(Counted)]

Unclosed == IF Quotes(Len(Counted)) % 2 = 1 THEN <<Quote>> ELSE <<>>

Text(t) == IF t.type = "STRING" THEN <<Quote>> \o t.literal \o <<Quote>> ELSE t.literal

Texts(toks) ==
    LET upto[k \in 0 .. Len(toks)] ==
            IF k = 0 THEN <<>> ELSE upto[k - 1] \o Text(toks[k])
    IN  upto[Len(toks)]

(* A word or a number goes on as long as it can, and is a reserved word    *)
(* exactly when it is spelled like one.                                    *)
WellCut(t) ==
    LET behind == Ch(source, t.next)
    IN  /\ t.type = "INT" => behind \notin Digits
        /\ t.type \in keywords \cup registers \cup {"IDENT"} => behind \notin Letters \cup Digits
        /\ t.type # "STRING" =>
              \A r \in DOMAIN Spelling : t.type = r <=> t.literal = Spelling[r]

(* The tokens are the source: nothing but white space outside strings is   *)
(* lost, nothing is read twice, and no token ends early (lexer.go:238-340). *)
LexesAll ==
    Finished => /\ Texts(Toks) = Kept \o Unclosed
                /\ \A k \in DOMAIN Toks : WellCut(Toks[k])

-----------------------------------------------------------------------------
(* The parser.  toks from i on begin with a statement of n tokens.         *)
Begins(toks, i, n) ==
    IF toks[i].type \in keywords
    THEN LET f == Form(toks[i].type)
         IN  /\ n = Len(f) + 1 /\ i + Len(f) <= Len(toks)
             /\ \A k \in DOMAIN f : /\ toks[i + k].type \in DOMAIN f[k].takes
                                    /\ ~Overflows(toks[i + k])
    ELSE /\ n = 2 /\ i < Len(toks)
         /\ toks[i].type = "IDENT" /\ toks[i + 1].type = ":"

Sentence(toks) ==
    LET good[i \in 1 .. (Len(toks) + 1)] ==
            \/ i = Len(toks) + 1
            \/ \E n \in 1 .. (Len(toks) + 1 - i) : Begins(toks, i, n) /\ good[i + n]
    IN  good[1]

(* A source is refused exactly when it is no row of statements: recovery   *)
(* after an error neither forgets it nor makes one up (parser.go:141-228). *)
AcceptsExactly == Finished => (errors = 0 <=> Sentence(Toks))

Length(st) ==
    CASE st.op \in {"ALLOC", "MOV_INT", "MOV_STR", "TRIGGER_PIN", "ON_CHAT"} \cup TwoRegister -> 4
      [] st.op = "RET" -> 1
      [] OTHER         -> 2

(* The tokens of toks from i on read as the statement st. *)
ReadsAs(toks, i, st) ==
    LET word == toks[i].type
        is(k, types, value) == toks[i + k].type \in types /\ Value(toks[i + k]) = value
        two(xs, x, ys, y) == is(1, xs, x) /\ toks[i + 2].type = "," /\ is(3, ys, y)
        R == registers
        I == {"INT"}
        S == {"STRING"}
    IN  CASE st.op = "LABEL"       -> is(0, {"IDENT"}, st.l) /\ toks[i + 1].type = ":"
          [] st.op = "MOV_REG"     -> word = "MOV" /\ two(R, st.a, R, st.b)
          [] st.op = "MOV_INT"     -> word = "MOV" /\ two(R, st.a, I, st.v)
          [] st.op = "MOV_STR"     -> word = "MOV" /\ two(R, st.a, S, st.s)
          [] st.op = "SEND_REG"    -> word = "SEND_CHAT" /\ is(1, R, st.a)
          [] st.op = "SEND_STR"    -> word = "SEND_CHAT" /\ is(1, S, st.s)
          [] st.op = "ALLOC"       -> word = st.op /\ two(R, st.a, I, st.v)
          [] st.op = "TRIGGER_PIN" -> word = st.op /\ two(I, st.a, I, st.b)
          [] st.op = "ON_CHAT"     -> word = st.op /\ two(S, st.s, R, st.a)
          [] st.op \in AluOps \cup {"CMP"} -> word = st.op /\ two(R, st.a, R, st.b)
          [] st.op = "FREE"        -> word = st.op /\ is(1, R, st.a)
          [] st.op \in Branch      -> word = st.op /\ is(1, {"IDENT"}, st.l)
          [] st.op = "RET"         -> word = st.op

(* The position of statement k among the tokens of a program. *)
Start(k) ==
    LET at[j \in 1 .. (Len(program) + 1)] ==
            IF j = 1 THEN 1 ELSE at[j - 1] + Length(program[j - 1])
    IN  at[k]

(* The AST of an accepted source reads as the source: every token is in    *)
(* one statement, with its value, and in its place.                        *)
ReadsBack ==
    Finished /\ errors = 0 =>
        /\ Start(Len(program) + 1) = Len(Toks) + 1
        /\ \A k \in DOMAIN program : ReadsAs(Toks, Start(k), program[k])

(* A body holds all that follows its ON_CHAT up to the next ALLOC, FREE    *)
(* or ON_CHAT or the end: code meant to come after a handler is part of    *)
(* it. These three are isBlockStarter's (parser.go:123-129), by which the  *)
(* code goes; the comments at parser.go:351-353 and ast.go:218-220 count   *)
(* MOV among them, see NoMovInBody.                                        *)
BodiesMaximal ==
    Finished /\ errors = 0 =>
        \A k \in DOMAIN program : program[k].op = "ON_CHAT" =>
            LET last == k + program[k].body
            IN  last = Len(program) \/ program[last + 1].op \in TopLevel

-----------------------------------------------------------------------------
(* A claim of the comments that the code does not keep. *)

(* "The body is a sequence of statements that ends when the lookahead is   *)
(* either EOF or one of the block-starter tokens (ALLOC, FREE, MOV,        *)
(* ON_CHAT)" (parser.go:351-353; ast.go:218-220).                          *)
NoMovInBody ==
    Finished /\ errors = 0 =>
        \A k \in DOMAIN program : program[k].op = "ON_CHAT" =>
            \A j \in (k + 1) .. (k + program[k].body) :
                program[j].op \notin TopLevel \cup {"MOV_REG", "MOV_INT", "MOV_STR"}
====================================================================================
