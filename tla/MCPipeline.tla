--------------------------------- MODULE MCPipeline ---------------------------------
(***************************************************************************)
(* Sources for the model checker: top-level code with a subroutine, then   *)
(* an ON_CHAT whose body, the rest of the source or up to an ALLOC, is     *)
(* drawn from calls, jumps, arithmetic and string moves.                   *)
(***************************************************************************)
EXTENDS Pipeline, MCText

Op2(op, x, y) == << <<op>>, x, Cm, y >>
To(op, l)     == << <<op>>, <<l>> >>
Mark(l)       == << <<l>>, <<":">> >>
Send(x)       == << <<"S">>, x >>
Ret           == << <<"E">> >>
On(r)         == Op2("O", Str("h"), r)

(* MOV R1, 3; JMP y; x: SUB R1, R1; CMP R1, R3; t; RET; y: u *)
Top(t, u) ==
    Op2("M", Reg1, <<"3">>) \o To("J", "y") \o Mark("x") \o Op2("B", Reg1, Reg1)
    \o Op2("C", Reg1, Reg3) \o t \o Ret \o Mark("y") \o u

InSubroutine == { <<>>, To("N", "x"), To("K", "x"), Op2("D", Reg1, Reg3) }

AtTop == { Op2("M", Reg3, <<"1">>) \o To("K", "x"), Op2("M", Reg2, <<"1">>) \o To("K", "x"),
           Op2("M", Reg1, Str("y")) \o << <<"F">>, Reg1 >> }

InBody == { To("K", "x"), To("J", "y"), To("Z", "x"), Ret, Send(Str("h")), Send(Reg2),
            Op2("M", Reg3, Str("y")), Op2("P", Reg1, Reg1), Op2("T", <<"9", "9", "9">>, <<"2">>) }

Behind == { <<>>, Op2("A", Reg3, <<"9">>) \o Send(Reg3), On(Reg3) \o To("K", "x") }

MCSources ==
    { Spaced(Top(t, u) \o On(Reg2) \o x \o z) :
        t \in InSubroutine, u \in AtTop, x \in InBody, z \in Behind }
    \cup { Spaced(Top(<<>>, <<>>) \o On(Reg2) \o x \o y) : x \in InBody, y \in InBody }
    \cup { Spaced(s) : s \in { To("J", "h"), Mark("x") \o Mark("x"), To("J", "O") } }

MCStrLen  == [w \in {<<"h">>, <<"y">>} |-> Len(w) + 4]
MCStrByte == [w \in {<<"h">>, <<"y">>} |-> 5]
MCMessages == {<<"h">>, <<"y">>}
MCUsers == {<<"y">>}
=====================================================================================
