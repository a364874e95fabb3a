----------------------------------- MODULE Lexer -----------------------------------
(***************************************************************************)
(* The lexical analyser, compiler/lexer/lexer.go.  A source is a sequence  *)
(* of characters; a character is one of its class.  The cursor is the      *)
(* position of the current character, and past the end that is NUL.        *)
(***************************************************************************)
EXTENDS Naturals, Sequences

CONSTANTS Letters,      \* what isLetter accepts
          Digits,       \* what isDigit accepts
          White,        \* what skipWhitespace skips
          Others,       \* bytes flux does not understand
          Spelling      \* reserved words: token type -> sequence of characters

registerTokens == << "R1", "R2", "R3", "R4", "R5", "R6", "R7", "R8", "R9", "R10",
                     "R11", "R12", "R13", "R14", "R15", "R16" >>

registers == {registerTokens[n] : n \in 1 .. 16}

keywords == {"ALLOC", "FREE", "MOV", "ON_CHAT", "SEND_CHAT", "TRIGGER_PIN",
             "ADD", "SUB", "MUL", "DIV", "AND", "OR", "XOR", "SHL", "SHR",
             "CMP", "JMP", "JZ", "JNZ", "CALL", "RET"}

Types == keywords \cup registers
         \cup {"IDENT", "INT", "STRING", ",", ":", "EOF", "ILLEGAL"}

NUL   == "NUL"
Quote == "quote"

Characters == Letters \cup Digits \cup White \cup Others \cup {Quote, ",", ":", NUL}

Words == Seq(Characters)

(* The classes are disjoint, and reserved words are identifiers, spelled   *)
(* differently. *)
ASSUME LexerAssumption ==
    /\ Letters \cap Digits = {} /\ White \cap (Letters \cup Digits) = {}
    /\ DOMAIN Spelling \subseteq keywords \cup registers
    /\ \A r \in DOMAIN Spelling :
          /\ Spelling[r] \in Seq(Letters \cup Digits)
          /\ Spelling[r] # <<>> /\ Head(Spelling[r]) \in Letters
          /\ \A q \in DOMAIN Spelling : Spelling[q] = Spelling[r] => q = r
    /\ \A c \in {Quote, ",", ":", NUL} : c \notin Letters \cup Digits \cup White \cup Others

-----------------------------------------------------------------------------
Ch(src, i) == IF i <= Len(src) THEN src[i] ELSE NUL

(* The first position from i on whose character is in C. *)
First(src, i, C) ==
    CHOOSE j \in i .. (Len(src) + 1) :
        Ch(src, j) \in C /\ \A k \in i .. (j - 1) : Ch(src, k) \notin C

(* The end of a run of C's, of a string's interior. *)
Past(src, i, C) == First(src, i, Characters \ C)

Token(type, literal, next) == [type |-> type, literal |-> literal, next |-> next]

LookupIdent(word) ==
    IF \E t \in DOMAIN Spelling : Spelling[t] = word
    THEN CHOOSE t \in DOMAIN Spelling : Spelling[t] = word
    ELSE "IDENT"

(* Mutant of Word: an identifier has no digits after its first letter. *)
WordOfLetters(src, i) == Past(src, i, Letters)

Word(src, i) == Past(src, i, Letters \cup Digits)

(* Mutant of AfterString: the closing quote is not consumed. *)
AfterStringAtQuote(src, end) == end

(* A string that is not closed ends with the source. *)
AfterString(src, end) == IF Ch(src, end) = Quote THEN end + 1 ELSE end

(* The token at cursor i and the cursor behind it.  The cursor never moves *)
(* over a NUL: the end of the source, or a byte 0 in it, is EOF for ever.  *)
NextToken(src, i) ==
    LET s   == Past(src, i, White)
        c   == Ch(src, s)
        end == First(src, s + 1, {Quote, NUL})
        w   == Word(src, s)
        n   == Past(src, s, Digits)
    IN  CASE c = Quote       -> Token("STRING", SubSeq(src, s + 1, end - 1),
                                      AfterString(src, end))
          [] c \in {",", ":"} -> Token(c, <<c>>, s + 1)
          [] c = NUL          -> Token("EOF", <<>>, s)
          [] c \in Digits     -> Token("INT", SubSeq(src, s, n - 1), n)
          [] c \in Letters    -> Token(LookupIdent(SubSeq(src, s, w - 1)),
                                       SubSeq(src, s, w - 1), w)
          [] OTHER            -> Token("ILLEGAL", <<c>>, s + 1)

(* The tokens from cursor i on, up to the first EOF. *)
Tokens(src, i) ==
    LET from[j \in i .. (Len(src) + 1)] ==
            LET t == NextToken(src, j)
            IN  IF t.type = "EOF" THEN <<>> ELSE <<t>> \o from[t.next]
    IN  from[i]
====================================================================================
