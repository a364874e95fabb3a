----------------------------------- MODULE Alu -----------------------------------
(***************************************************************************)
(* The arithmetic, logic and shift opcodes of the virtual CPU              *)
(* (vm/cpu/cpu.go, opAdd to opShr) on unsigned words of WordBits bits: 32  *)
(* in the code.  Everything wraps modulo 2^WordBits; shifts by WordBits or *)
(* more give 0; DIV by 0 is an error, decided by the instruction itself.   *)
(***************************************************************************)
EXTENDS Integers

CONSTANT WordBits

ASSUME AluAssumption == WordBits \in Nat /\ WordBits >= 1

(* 2 to the n.  Written out, as the provers know nothing of ^. *)
Pow2(n) ==
    LET power[k \in 0 .. n] == IF k = 0 THEN 1 ELSE 2 * power[k - 1]
    IN  power[n]

WordSize == Pow2(WordBits)

AluOps == {"ADD", "SUB", "MUL", "DIV", "AND", "OR", "XOR", "SHL", "SHR"}

Places == 0 .. (WordBits - 1)

Bit(x, i) == (x \div Pow2(i)) % 2

(* The word in which the bits B are set: low[k] is its lowest k bits. *)
FromBits(B) ==
    LET low[k \in 0 .. WordBits] ==
            IF k = 0 THEN 0
            ELSE low[k - 1] + (IF k - 1 \in B THEN Pow2(k - 1) ELSE 0)
    IN  low[WordBits]

(* Mutant of Wrap: results are not cut to the register's width. *)
NoWrap(x) == x

(* A register keeps the low WordBits bits of a result. *)
Wrap(x) == x % WordSize

AluResult(op, x, y) ==
    CASE op = "ADD" -> Wrap(x + y)
      [] op = "SUB" -> Wrap(x - y)
      [] op = "MUL" -> Wrap(x * y)
      [] op = "DIV" -> x \div y
      [] op = "AND" -> FromBits({i \in Places : Bit(x, i) = 1 /\ Bit(y, i) = 1})
      [] op = "OR"  -> FromBits({i \in Places : Bit(x, i) = 1 \/ Bit(y, i) = 1})
      [] op = "XOR" -> FromBits({i \in Places : Bit(x, i) # Bit(y, i)})
      [] op = "SHL" -> IF y >= WordBits THEN 0 ELSE Wrap(x * Pow2(y))
      [] op = "SHR" -> IF y >= WordBits THEN 0 ELSE x \div Pow2(y)
==================================================================================
