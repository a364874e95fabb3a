---------------------------------- MODULE MCGrammar ----------------------------------
(***************************************************************************)
(* Sources for the model checker: every sequence of at most MaxLength      *)
(* characters of one class each, and rows of lexemes, some of them         *)
(* programs, some with a lexeme lost, changed or doubled.                  *)
(***************************************************************************)
EXTENDS Grammar, MCText, SequencesExt

CONSTANTS MaxLength,    \* of the sources of single characters
          MaxLexemes    \* of the sources of lexemes

Cs(S, n) == UNION { [1 .. m -> S] : m \in 0 .. n }

(* Sources of characters. *)
Strokes == Cs({"E", "x", "R", "1", Quote, ":", " ", NUL, "-"}, MaxLength)

Lexemes == { <<"A">>, <<"F">>, <<"M">>, <<"O">>, <<"S">>, <<"R", "1">>, <<",">>, <<":">>,
             <<"1", "2">>, <<"9", "9">>, Str("x"), <<"x">>, <<"E">> }

Rows == Cs(Lexemes, MaxLexemes)

Statements ==
    { << <<"A">>, Reg1, Cm, <<"1">> >>, << <<"F">>, Reg2 >>, << <<"M">>, Reg2, Cm, Reg1 >>,
      << <<"M">>, Reg1, Cm, <<"1", "2">> >>, << <<"M">>, Reg1, Cm, Str("x") >>,
      << <<"T">>, <<"1">>, Cm, <<"2">> >>, << <<"S">>, Str(" ") >>, << <<"S">>, Reg2 >>,
      << <<"O">>, Str("x"), Cm, Reg1 >>, << <<"P">>, Reg1, Cm, Reg2 >>,
      << <<"C">>, Reg2, Cm, Reg2 >>, << <<"J">>, <<"x">> >>, << <<"K">>, <<"x">> >>,
      << <<"E">> >>, << <<"x">>, <<":">> >> }

OnChatStatement == << <<"O">>, Str("x"), Cm, Reg1 >>

(* Two statements, and two behind an ON_CHAT. *)
Programs == { h \o x \o y : h \in {<<>>, OnChatStatement}, x \in Statements, y \in Statements }

(* The lexeme at k is lost, doubled, or replaced by l. *)
Broken(row, k, l) ==
    CASE k > Len(row)  -> row
      [] l = "lost"    -> RemoveAt(row, k)
      [] l = "doubled" -> InsertAt(row, k, row[k])
      [] l = "large"   -> ReplaceAt(row, k, <<"9", "9">>)
      [] l = "starter" -> ReplaceAt(row, k, <<"F">>)

BrokenPrograms ==
    { Broken(OnChatStatement \o x \o y, k, l) :
        x \in Statements, y \in Statements, k \in 3 .. 12,
        l \in {"lost", "doubled", "large", "starter"} }

MCSources == Strokes \cup { Spaced(r) : r \in Rows \cup Programs \cup BrokenPrograms }
======================================================================================
