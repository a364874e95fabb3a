--------------------------------- MODULE MCFlxFile ---------------------------------
(***************************************************************************)
(* Three compiled programs, one with more constants than the 16-bit count  *)
(* can say, and files with up to two damaged header or pool bytes.         *)
(***************************************************************************)
EXTENDS FlxFile

MCMagic == <<1, 2, 0, 1>>

Small == [consts |-> << <<2>>, <<>> >>, code |-> <<1, 2>>]

Bare == [consts |-> <<>>, code |-> <<2, 0, 1, 1>>]

Many == [consts |-> << <<>>, <<0>>, <<1>>, <<2>>, <<0, 0>>, <<0, 1>>, <<0, 2>>, <<1, 0>>, <<1, 1>> >>,
         code |-> <<1>>]

MCImages == {Small, Bare, Many}

(* The files of the first two, spelled out. *)
SmallFile ==
    <<1, 2, 0, 1, 1>> \o <<0, 2>> \o <<0, 2, 2, 0>> \o <<0, 0, 0, 2>>
    \o <<0, 0, 0, 1>> \o <<2>> \o <<0, 0, 0, 0>> \o <<1, 2>>

BareFile ==
    <<1, 2, 0, 1, 1>> \o <<0, 0>> \o <<0, 1, 2, 0>> \o <<0, 0, 1, 1>> \o <<2, 0, 1, 1>>

Damaged ==
    { [SmallFile EXCEPT ![j] = v, ![k] = w] :
        j \in 5 .. 20, k \in 8 .. 15, v \in Byte, w \in Byte }

MCFound == {<<>>, SmallFile, BareFile, BareFile \o <<0>>} \cup Damaged

(* What a compiler may have left there before. *)
MCCompiled == {<<>>, SmallFile, BareFile}

(* The compiler does not come while a damaged file is read, twice during   *)
(* one read, nor after the machine has read its file.                      *)
OneTrouble ==
    disk' # disk => /\ found \notin Damaged
                    /\ torn => pending # <<>>
                    /\ pc \in {"start", "reading"}
====================================================================================
