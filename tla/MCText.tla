----------------------------------- MODULE MCText -----------------------------------
(***************************************************************************)
(* Source texts for the model checker, spelled with one letter for each    *)
(* keyword and a character or two for everything else.                     *)
(***************************************************************************)
LOCAL INSTANCE Naturals
LOCAL INSTANCE Sequences

MCLetters == {"A", "F", "M", "O", "S", "T", "P", "B", "D", "C", "J", "Z", "N", "K", "E",
              "R", "x", "y", "h"}
MCDigits  == {"1", "2", "3", "9"}
MCWhite   == {" "}
MCOthers  == {"-"}

MCSpelling ==
    [ALLOC |-> <<"A">>, FREE |-> <<"F">>, MOV |-> <<"M">>, ON_CHAT |-> <<"O">>,
     SEND_CHAT |-> <<"S">>, TRIGGER_PIN |-> <<"T">>, ADD |-> <<"P">>, SUB |-> <<"B">>,
     DIV |-> <<"D">>, CMP |-> <<"C">>, JMP |-> <<"J">>, JZ |-> <<"Z">>, JNZ |-> <<"N">>,
     CALL |-> <<"K">>, RET |-> <<"E">>,
     R1 |-> <<"R", "1">>, R2 |-> <<"R", "2">>, R3 |-> <<"R", "3">>]

DigitValue(c) == CASE c = "1" -> 1 [] c = "2" -> 2 [] c = "3" -> 3 [] OTHER -> 9

MCParseInt(w) ==
    LET upto[k \in 0 .. Len(w)] == IF k = 0 THEN 0 ELSE 10 * upto[k - 1] + DigitValue(w[k])
    IN  upto[Len(w)]

(* A row of lexemes, a space behind each. *)
Spaced(row) ==
    LET upto[k \in 0 .. Len(row)] == IF k = 0 THEN <<>> ELSE upto[k - 1] \o row[k] \o <<" ">>
    IN  upto[Len(row)]

Str(c) == <<"quote", c, "quote">>

Reg1 == <<"R", "1">>
Reg2 == <<"R", "2">>
Reg3 == <<"R", "3">>
Cm   == <<",">>
=====================================================================================
