------------------------------- MODULE FlxFileProofs -------------------------------
(***************************************************************************)
(* What holds of FlxFile for every byte base, set of programs and file     *)
(* found: how the numbers of the format read back, what the pool's bytes   *)
(* are, what the loader has checked when it slices the file, and what the  *)
(* bytes it read can be.                                                   *)
(***************************************************************************)
EXTENDS FlxFile, Induction
LOCAL INSTANCE SequenceTheorems

-----------------------------------------------------------------------------
(* The numbers of the format. *)

(* Division with remainder by the number of values of a byte. *)
LEMMA DivMod ==
    ASSUME NEW v \in Nat
    PROVE  /\ v \div Base \in Nat
           /\ v % Base \in Byte
           /\ (v \div Base) * Base + (v % Base) = v
  BY FlxAssumption, SMT DEF Byte

(* The digits of a number written in base B are the number's again. *)
LEMMA DigitsUnique ==
    ASSUME NEW B \in Nat \ {0}, NEW h \in Nat, NEW l \in Nat, l < B
    PROVE  (h * B + l) \div B = h /\ (h * B + l) % B = l
<1> DEFINE q == (h * B + l) \div B
           r == (h * B + l) % B
<1>1. q \in Nat /\ r \in Nat /\ r < B /\ q * B + r = h * B + l
  <2>1. h * B \in Nat /\ h * B + l \in Nat
    OBVIOUS
  <2>2. \A v \in Nat : v \div B \in Nat /\ v % B \in Nat /\ v % B < B
                       /\ (v \div B) * B + (v % B) = v
    OBVIOUS
  <2> QED
    BY <2>1, <2>2
<1> HIDE DEF q, r
<1>2. ASSUME NEW x \in Nat, NEW y \in Nat, x < y PROVE x * B + B <= y * B
  <2>1. x + 1 <= y
    BY <1>2
  <2>2. (x + 1) * B <= y * B
    BY <2>1
  <2>3. (x + 1) * B = x * B + B
    OBVIOUS
  <2> QED
    BY <2>2, <2>3
<1>3. ~(q < h) /\ ~(h < q)
  <2>1. q * B \in Nat /\ h * B \in Nat
    BY <1>1
  <2>2. q < h => q * B + B <= h * B
    BY <1>1, <1>2
  <2>3. h < q => h * B + B <= q * B
    BY <1>1, <1>2
  <2> QED
    BY <1>1, <2>1, <2>2, <2>3
<1>4. q = h
  BY <1>1, <1>3
<1>5. r = l
  BY <1>1, <1>4
<1> QED
  BY <1>4, <1>5 DEF q, r

(* A number below w is its own remainder. *)
LEMMA ModSmall ==
    ASSUME NEW w \in Nat, NEW x \in Nat, x < w
    PROVE  x % w = x
  OBVIOUS

(* Two digits: what h * B + l is below. *)
LEMMA TwoDigits ==
    ASSUME NEW B \in Nat, NEW h \in Nat, NEW l \in Nat, NEW m \in Nat, h < m, l < B
    PROVE  h * B + l \in Nat /\ h * B + l < m * B
<1>1. (h + 1) * B <= m * B
  <2>1. h + 1 <= m
    OBVIOUS
  <2> QED
    BY <2>1
<1>2. (h + 1) * B = h * B + B
  OBVIOUS
<1>3. h * B \in Nat /\ m * B \in Nat
  OBVIOUS
<1> QED
  BY <1>1, <1>2, <1>3

LEMMA HalfWord ==
    /\ Base * Base \in Nat \ {0}
    /\ Word \in Nat \ {0}
    /\ Word = (Base * Base) * (Base * Base)
<1>1. Base * Base \in Nat \ {0}
  BY FlxAssumption
<1>2. Word = (Base * Base) * (Base * Base)
  BY FlxAssumption DEF Word
<1> DEFINE h == Base * Base
<1>3. h * h \in Nat \ {0}
  <2>1. h \in Nat \ {0}
    BY <1>1
  <2> HIDE DEF h
  <2> QED
    BY <2>1
<1> QED
  BY <1>1, <1>2, <1>3

(* U16 cuts a number to 16 bits and Uint16 reads those back. *)
LEMMA U16Facts ==
    ASSUME NEW n \in Nat
    PROVE  /\ U16(n) \in Bytes /\ Len(U16(n)) = 2
           /\ U16(n)[1] \in Byte /\ U16(n)[2] \in Byte
           /\ U16(n)[1] * Base + U16(n)[2] = n % (Base * Base)
<1> DEFINE q == n \div Base
           d == n % Base
           p == q \div Base
           e == q % Base
<1>1. q \in Nat /\ d \in Byte /\ q * Base + d = n
  BY DivMod
<1> HIDE DEF q, d
<1>2. p \in Nat /\ e \in Byte /\ p * Base + e = q
  BY <1>1, DivMod
<1> HIDE DEF p, e
<1>3. U16(n) = <<e, d>>
  BY DEF U16, e, q, d
<1>4. e * Base + d = n % (Base * Base)
  <2>1. e \in Nat /\ d \in Nat /\ e < Base /\ d < Base /\ Base \in Nat
    BY <1>1, <1>2, FlxAssumption DEF Byte
  <2>2. e * Base + d \in Nat /\ e * Base + d < Base * Base
    BY <2>1, TwoDigits
  <2>3. n = p * (Base * Base) + (e * Base + d)
    BY <1>1, <1>2, <2>1
  <2> DEFINE B == Base * Base
             l == e * Base + d
  <2>4. B \in Nat \ {0} /\ l \in Nat /\ l < B /\ n = p * B + l
    BY <2>2, <2>3, HalfWord
  <2>5. n % B = l
    <3> HIDE DEF B, l
    <3> QED
      BY <1>2, <2>4, DigitsUnique
  <2> QED
    BY <2>5
<1> QED
  BY <1>1, <1>2, <1>3, <1>4 DEF Bytes

LEMMA ProductGrows ==
    ASSUME NEW x \in Nat, NEW y \in Nat, NEW z \in Nat, x <= y
    PROVE  x * z <= y * z
<1>1. PICK k \in Nat : y = x + k
  <2>1. y - x \in Nat /\ y = x + (y - x)
    OBVIOUS
  <2> QED
    BY <2>1
<1>2. y * z = x * z + k * z
  BY <1>1
<1>3. k * z \in Nat /\ x * z \in Nat
  OBVIOUS
<1> QED
  BY <1>2, <1>3

(* Bytes, one behind the other. *)
LEMMA Joined ==
    ASSUME NEW s \in Bytes, NEW t \in Bytes
    PROVE  /\ s \o t \in Bytes
           /\ Len(s) \in Nat /\ Len(t) \in Nat
           /\ Len(s \o t) = Len(s) + Len(t)
           /\ \A k \in 1 .. Len(s) : (s \o t)[k] = s[k]
           /\ \A k \in 1 .. Len(t) : (s \o t)[Len(s) + k] = t[k]
<1>1. /\ s \o t \in Bytes
      /\ Len(s \o t) = Len(s) + Len(t)
      /\ \A k \in 1 .. Len(s) + Len(t) :
             (s \o t)[k] = IF k <= Len(s) THEN s[k] ELSE t[k - Len(s)]
  BY ConcatProperties DEF Bytes
<1>2. Len(s) \in Nat /\ Len(t) \in Nat
  BY DEF Bytes
<1>3. ASSUME NEW k \in 1 .. Len(t) PROVE (s \o t)[Len(s) + k] = t[k]
  <2>1. /\ Len(s) + k \in 1 .. Len(s) + Len(t) /\ ~(Len(s) + k <= Len(s))
        /\ Len(s) + k - Len(s) = k
    BY <1>2
  <2> QED
    BY <1>1, <2>1
<1> QED
  BY <1>1, <1>2, <1>3

LEMMA JoinedThrice ==
    ASSUME NEW s \in Bytes, NEW t \in Bytes, NEW u \in Bytes
    PROVE  (s \o t) \o u = s \o (t \o u)
  BY ConcatAssociative DEF Bytes

(* A part of some bytes. *)
LEMMA PartFacts ==
    ASSUME NEW s \in Bytes, NEW lo \in Nat, NEW n \in Nat, lo + n <= Len(s)
    PROVE  /\ SubSeq(s, lo + 1, lo + n) \in Bytes
           /\ Len(SubSeq(s, lo + 1, lo + n)) = n
           /\ \A k \in 1 .. n : SubSeq(s, lo + 1, lo + n)[k] = s[lo + k]
<1> DEFINE a == lo + 1
           b == lo + n
           t == SubSeq(s, a, b)
<1>1. /\ a \in Int /\ b \in Int /\ b - a + 1 = n
      /\ (IF a <= b THEN b - a + 1 ELSE 0) = n
      /\ \A k \in 1 .. n : a + k - 1 = lo + k
  OBVIOUS
<1>2. \A i \in a .. b : s[i] \in Byte
  BY DEF Bytes
<1> HIDE DEF a, b
<1>3. /\ t \in Seq(Byte) /\ Len(t) = (IF a <= b THEN b - a + 1 ELSE 0)
      /\ \A k \in 1 .. b - a + 1 : t[k] = s[a + k - 1]
  BY <1>1, <1>2, SubSeqProperties
<1> HIDE DEF t
<1>4. t \in Bytes /\ Len(t) = n /\ \A k \in 1 .. n : t[k] = s[lo + k]
  BY <1>1, <1>3 DEF Bytes
<1> QED
  BY <1>4 DEF t, a, b

LEMMA FourBytes ==
    ASSUME NEW s \in Bytes, NEW t \in Bytes, Len(s) = 2, Len(t) = 2
    PROVE  /\ s \o t \in Bytes /\ Len(s \o t) = 4
           /\ (s \o t)[1] = s[1] /\ (s \o t)[2] = s[2]
           /\ (s \o t)[3] = t[1] /\ (s \o t)[4] = t[2]
           /\ s \o t = <<s[1], s[2], t[1], t[2]>>
<1> DEFINE u == s \o t
<1>1. /\ u \in Bytes /\ Len(u) = 2 + 2
      /\ \A k \in 1 .. 2 : u[k] = s[k]
      /\ \A k \in 1 .. 2 : u[2 + k] = t[k]
  <2>1. /\ u \in Bytes /\ Len(u) = Len(s) + Len(t)
        /\ \A k \in 1 .. Len(s) : u[k] = s[k]
        /\ \A k \in 1 .. Len(t) : u[Len(s) + k] = t[k]
    BY Joined
  <2> HIDE DEF u
  <2> QED
    BY <2>1
<1> HIDE DEF u
<1>2. /\ 2 + 1 = 3 /\ 2 + 2 = 4 /\ 1 \in 1 .. 2 /\ 2 \in 1 .. 2
  OBVIOUS
<1>3. u[1] = s[1] /\ u[2] = s[2] /\ u[3] = t[1] /\ u[4] = t[2]
  BY <1>1, <1>2
<1>4. u = <<u[1], u[2], u[3], u[4]>>
  BY <1>1 DEF Bytes
<1> QED
  BY <1>1, <1>3, <1>4 DEF u

(* U32 writes four bytes, and Uint32 reads a number below a word from them. *)
LEMMA U32Facts ==
    ASSUME NEW n \in Nat
    PROVE  /\ U32(n) \in Bytes /\ Len(U32(n)) = 4
           /\ n < Word =>
                (U32(n)[1] * Base + U32(n)[2]) * (Base * Base)
                    + (U32(n)[3] * Base + U32(n)[4]) = n
<1> DEFINE B == Base * Base
           h == n \div B
           l == n % B
<1>1. B \in Nat \ {0}
  BY HalfWord
<1>2. h \in Nat /\ l \in Nat /\ l < B /\ h * B + l = n
  <2> HIDE DEF B
  <2> QED
    BY <1>1
<1>3. /\ U16(h) \in Bytes /\ Len(U16(h)) = 2
      /\ U16(h)[1] * Base + U16(h)[2] = h % B
  BY <1>2, U16Facts
<1>4. /\ U16(n) \in Bytes /\ Len(U16(n)) = 2
      /\ U16(n)[1] * Base + U16(n)[2] = l
  BY U16Facts
<1>5. U32(n) = U16(h) \o U16(n)
  BY DEF U32
<1> HIDE DEF h, l, B
<1>6. /\ U32(n) \in Bytes /\ Len(U32(n)) = 4
      /\ U32(n)[1] = U16(h)[1] /\ U32(n)[2] = U16(h)[2]
      /\ U32(n)[3] = U16(n)[1] /\ U32(n)[4] = U16(n)[2]
  BY <1>3, <1>4, <1>5, FourBytes
<1>7. ASSUME n < Word PROVE h % B = h
  <2>2. h >= B => h * B >= B * B
    BY <1>1, <1>2, ProductGrows
  <2>3. Word = B * B
    BY HalfWord DEF B
  <2>4. h < B
    <3>1. B * B \in Nat /\ h * B \in Nat
      BY <1>1, <1>2
    <3> QED
      BY <1>1, <1>2, <1>7, <2>2, <2>3, <3>1
  <2> QED
    BY <1>1, <1>2, <2>4, ModSmall
<1>8. n < Word => (U32(n)[1] * Base + U32(n)[2]) * B
                    + (U32(n)[3] * Base + U32(n)[4]) = n
  BY <1>2, <1>3, <1>4, <1>6, <1>7
<1> QED
  BY <1>6, <1>8 DEF B

(* Reading a number where a file has the bytes for it. *)
LEMMA Uint16Facts ==
    ASSUME NEW s \in Bytes, NEW i \in Nat, 1 <= i, i + 1 <= Len(s)
    PROVE  /\ Uint16(s, i) \in Nat /\ Uint16(s, i) < Base * Base
           /\ s[i] \in Byte /\ s[i + 1] \in Byte
           /\ U16(Uint16(s, i)) = <<s[i], s[i + 1]>>
<1> DEFINE a == s[i]
           b == s[i + 1]
<1>1. a \in Byte /\ b \in Byte
  BY DEF Bytes
<1>2. Uint16(s, i) = a * Base + b
  BY DEF Uint16
<1> HIDE DEF a, b
<1>3. a \in Nat /\ b \in Nat /\ a < Base /\ b < Base /\ Base \in Nat \ {0}
  BY <1>1, FlxAssumption DEF Byte
<1>4. Uint16(s, i) \in Nat /\ Uint16(s, i) < Base * Base
  BY <1>2, <1>3, TwoDigits
<1>5. Uint16(s, i) \div Base = a /\ Uint16(s, i) % Base = b
  <2>1. (a * Base + b) \div Base = a /\ (a * Base + b) % Base = b
    BY <1>3, DigitsUnique
  <2> QED
    BY <1>2, <2>1
<1>6. a % Base = a
  BY <1>3, ModSmall
<1>7. U16(Uint16(s, i)) = <<a, b>>
  <2> DEFINE v == Uint16(s, i)
  <2>1. v \div Base = a /\ v % Base = b
    BY <1>5
  <2> HIDE DEF v
  <2>2. U16(v) = <<a, b>>
    BY <1>6, <2>1 DEF U16
  <2> QED
    BY <2>2 DEF v
<1> QED
  BY <1>1, <1>4, <1>7 DEF a, b

LEMMA Uint32Facts ==
    ASSUME NEW s \in Bytes, NEW i \in Nat, 1 <= i, i + 3 <= Len(s)
    PROVE  /\ Uint32(s, i) \in Nat /\ Uint32(s, i) < Word
           /\ U32(Uint32(s, i)) = <<s[i], s[i + 1], s[i + 2], s[i + 3]>>
<1> DEFINE B == Base * Base
           h == Uint16(s, i)
           l == Uint16(s, i + 2)
           v == Uint32(s, i)
<1>1. B \in Nat \ {0} /\ Word = B * B
  BY HalfWord
<1>2. /\ h \in Nat /\ h < B
      /\ U16(h) = <<s[i], s[i + 1]>>
  BY Uint16Facts
<1>3. /\ l \in Nat /\ l < B
      /\ U16(l) = <<s[i + 2], s[i + 2 + 1]>>
  <2>1. i + 2 \in Nat /\ (i + 2) + 1 = i + 3 /\ 1 <= i + 2 /\ (i + 2) + 1 <= Len(s)
    BY DEF Bytes
  <2> QED
    BY <2>1, Uint16Facts
<1>4. v = h * B + l
  BY DEF Uint32
<1> HIDE DEF h, l, v
<1>5. v \in Nat /\ v < Word
  <2> HIDE DEF B
  <2> QED
    BY <1>1, <1>2, <1>3, <1>4, TwoDigits
<1>6. v \div B = h /\ v % B = l
  <2> HIDE DEF B
  <2> QED
    BY <1>1, <1>2, <1>3, <1>4, DigitsUnique
<1>7. U16(v) = U16(l)
  <2> DEFINE x == U16(v)[1]
             y == U16(v)[2]
             z == U16(l)[1]
             w == U16(l)[2]
  <2>1. U16(v) \in Bytes /\ Len(U16(v)) = 2 /\ x \in Byte /\ y \in Byte /\ x * Base + y = v % B
    BY <1>5, U16Facts
  <2>2. U16(l) \in Bytes /\ Len(U16(l)) = 2 /\ z \in Byte /\ w \in Byte /\ z * Base + w = l % B
    BY <1>3, U16Facts
  <2>3. l % B = l
    <3> HIDE DEF B
    <3> QED
      BY <1>1, <1>3, ModSmall
  <2>4. x = z /\ y = w
    <3> HIDE DEF x, y, z, w
    <3>1. /\ x \in Nat /\ y \in Nat /\ y < Base /\ z \in Nat /\ w \in Nat /\ w < Base
          /\ Base \in Nat \ {0}
      BY <2>1, <2>2, FlxAssumption DEF Byte
    <3>2. x * Base + y = z * Base + w
      BY <1>6, <2>1, <2>2, <2>3
    <3>3. (x * Base + y) \div Base = x /\ (x * Base + y) % Base = y
      BY <3>1, DigitsUnique
    <3>4. (z * Base + w) \div Base = z /\ (z * Base + w) % Base = w
      BY <3>1, DigitsUnique
    <3> QED
      BY <3>2, <3>3, <3>4
  <2>5. U16(v) = << x, y >> /\ U16(l) = << z, w >>
    BY <2>1, <2>2 DEF Bytes, U16
  <2> QED
    BY <2>4, <2>5
<1>8. U32(v) = U16(h) \o U16(v)
  BY <1>6 DEF U32
<1>9. U32(v) = <<s[i], s[i + 1], s[i + 2], s[i + 3]>>
  <2>1. U16(h) \in Bytes /\ Len(U16(h)) = 2 /\ U16(l) \in Bytes /\ Len(U16(l)) = 2
    BY <1>2, <1>3, U16Facts
  <2>2. U32(v) = <<U16(h)[1], U16(h)[2], U16(l)[1], U16(l)[2]>>
    BY <1>7, <1>8, <2>1, FourBytes
  <2>3. /\ U16(h)[1] = s[i] /\ U16(h)[2] = s[i + 1]
        /\ U16(l)[1] = s[i + 2] /\ U16(l)[2] = s[i + 3]
    <3>1. \A x, y : <<x, y>>[1] = x /\ <<x, y>>[2] = y
      OBVIOUS
    <3>2. i + 2 + 1 = i + 3
      OBVIOUS
    <3> QED
      BY <1>2, <1>3, <3>1, <3>2
  <2> QED
    BY <2>2, <2>3
<1> QED
  BY <1>5, <1>9 DEF v

-----------------------------------------------------------------------------
(* The pool. *)
Added(x, c) == x \o U32(Len(c)) \o c

PoolSteps(cs) == [k \in 1 .. Len(cs) |-> [x \in Bytes |-> Added(x, cs[k])]]

LEMMA AddedBytes ==
    ASSUME NEW x \in Bytes, NEW c \in Bytes
    PROVE  /\ Added(x, c) \in Bytes
           /\ Len(x) \in Nat /\ Len(c) \in Nat
           /\ Len(Added(x, c)) = Len(x) + 4 + Len(c)
           /\ \A j \in 1 .. Len(x) : Added(x, c)[j] = x[j]
           /\ \A j \in 1 .. 4 : Added(x, c)[Len(x) + j] = U32(Len(c))[j]
           /\ \A j \in 1 .. Len(c) : Added(x, c)[Len(x) + 4 + j] = c[j]
<1> DEFINE u == U32(Len(c))
           y == x \o u
<1>1. Len(x) \in Nat /\ Len(c) \in Nat
  BY DEF Bytes
<1>2. u \in Bytes /\ Len(u) = 4
  BY <1>1, U32Facts
<1> HIDE DEF u
<1>3. /\ y \in Bytes /\ Len(y) = Len(x) + 4
      /\ \A j \in 1 .. Len(x) : y[j] = x[j]
      /\ \A j \in 1 .. 4 : y[Len(x) + j] = u[j]
  <2>1. /\ y \in Bytes /\ Len(y) = Len(x) + Len(u)
        /\ \A j \in 1 .. Len(x) : y[j] = x[j]
        /\ \A j \in 1 .. Len(u) : y[Len(x) + j] = u[j]
    BY <1>2, Joined
  <2> HIDE DEF y
  <2> QED
    BY <1>2, <2>1
<1>4. /\ Added(x, c) \in Bytes /\ Len(Added(x, c)) = Len(y) + Len(c)
      /\ \A j \in 1 .. Len(y) : Added(x, c)[j] = y[j]
      /\ \A j \in 1 .. Len(c) : Added(x, c)[Len(y) + j] = c[j]
  <2>1. Added(x, c) = y \o c
    BY DEF Added, u
  <2> HIDE DEF y
  <2>2. y \in Bytes
    BY <1>3
  <2>3. /\ y \o c \in Bytes /\ Len(y \o c) = Len(y) + Len(c)
        /\ \A j \in 1 .. Len(y) : (y \o c)[j] = y[j]
        /\ \A j \in 1 .. Len(c) : (y \o c)[Len(y) + j] = c[j]
    BY <2>2, Joined
  <2> QED
    BY <2>1, <2>3
<1> HIDE DEF y
<1>5. \A j \in 1 .. Len(x) : j \in 1 .. Len(y)
  BY <1>1, <1>3
<1>6. \A j \in 1 .. 4 : Len(x) + j \in 1 .. Len(y)
  BY <1>1, <1>3
<1>7. \A j \in 1 .. Len(c) : Added(x, c)[Len(x) + 4 + j] = c[j]
  BY <1>3, <1>4
<1>8. \A j \in 1 .. 4 : Added(x, c)[Len(x) + j] = u[j]
  BY <1>3, <1>4, <1>6
<1>9. Len(Added(x, c)) = Len(x) + 4 + Len(c)
  BY <1>1, <1>3, <1>4
<1> QED
  BY <1>1, <1>3, <1>4, <1>5, <1>7, <1>8, <1>9 DEF u

(* The pool is what adding its constants, one after the other, makes. *)
LEMMA PoolIterates ==
    ASSUME NEW cs \in Seq(Bytes)
    PROVE  /\ PoolSteps(cs) \in [1 .. Len(cs) -> [Bytes -> Bytes]]
           /\ \E F : /\ Iterates(F, <<>>, PoolSteps(cs), Len(cs))
                     /\ \A k \in 0 .. Len(cs) : F[k] \in Bytes
                     /\ encodeConstantPool(cs) = F[Len(cs)]
<1> DEFINE n == Len(cs)
           G == PoolSteps(cs)
           Upto(F) == [k \in 0 .. n |-> IF k = 0 THEN <<>>
                                        ELSE F[k - 1] \o U32(Len(cs[k])) \o cs[k]]
<1>1. n \in Nat /\ \A k \in 1 .. n : cs[k] \in Bytes
  OBVIOUS
<1>2. G \in [1 .. n -> [Bytes -> Bytes]]
  BY <1>1, AddedBytes DEF PoolSteps
<1>3. <<>> \in Bytes
  BY DEF Bytes
<1>4. PICK F : Iterates(F, <<>>, G, n)
  <2> HIDE DEF G, n
  <2> QED
    BY <1>1, <1>2, <1>3, IterationExists
<1>5. \A k \in 0 .. n : F[k] \in Bytes
  <2> HIDE DEF G, n
  <2> QED
    BY <1>1, <1>2, <1>3, <1>4, IterationTyped
<1>6. \A k \in 1 .. n, x \in Bytes : G[k][x] = x \o U32(Len(cs[k])) \o cs[k]
  BY DEF PoolSteps, Added
<1>7. F = Upto(F)
  <2>1. ASSUME NEW k \in 1 .. n PROVE F[k] = F[k - 1] \o U32(Len(cs[k])) \o cs[k]
    <3>1. k - 1 \in 0 .. n
      BY <1>1
    <3>2. F[k] = G[k][F[k - 1]]
      BY <1>4 DEF Iterates
    <3> QED
      BY <1>5, <1>6, <3>1, <3>2
  <2>2. F = [k \in 0 .. n |-> F[k]] /\ F[0] = <<>>
    BY <1>4 DEF Iterates
  <2>3. \A k \in 0 .. n : k # 0 => k \in 1 .. n
    BY <1>1
  <2> HIDE DEF n, G
  <2> QED
    BY <2>1, <2>2, <2>3
<1> DEFINE E == CHOOSE F_1 : F_1 = Upto(F_1)
<1>8. E = Upto(E)
  <2> HIDE DEF Upto
  <2> QED
    BY <1>7
<1>9. encodeConstantPool(cs) = E[n]
  BY DEF encodeConstantPool
<1>10. E = [k \in 0 .. n |-> E[k]] /\ E[0] = <<>>
       /\ \A k \in 1 .. n : E[k] = E[k - 1] \o U32(Len(cs[k])) \o cs[k]
  <2>1. \A k \in 1 .. n : k \in 0 .. n /\ k # 0
    BY <1>1
  <2>2. 0 \in 0 .. n
    BY <1>1
  <2> HIDE DEF E, n
  <2> QED
    BY <1>8, <2>1, <2>2
<1> HIDE DEF E
<1>11. \A k \in 0 .. n : E[k] \in Bytes
  <2> DEFINE T == {k \in Nat : k <= n => E[k] \in Bytes}
  <2>1. 0 \in T
    BY <1>3, <1>10
  <2>2. ASSUME NEW k \in Nat, k \in T PROVE k + 1 \in T
    <3> SUFFICES ASSUME k + 1 <= n PROVE E[k + 1] \in Bytes
      OBVIOUS
    <3>1. k + 1 \in 1 .. n /\ (k + 1) - 1 = k /\ E[k] \in Bytes
      BY <1>1, <2>2
    <3>2. Added(E[k], cs[k + 1]) \in Bytes
      BY <1>1, <3>1, AddedBytes
    <3> HIDE DEF n
    <3> QED
      BY <1>10, <3>1, <3>2 DEF Added
  <2>3. Nat \subseteq T
    <3> HIDE DEF T
    <3> QED
      BY <2>1, <2>2, SetInduction
  <2> QED
    BY <2>3
<1>12. Iterates(E, <<>>, G, n)
  <2>1. \A k \in 1 .. n : k - 1 \in 0 .. n
    BY <1>1
  <2> HIDE DEF n, G
  <2> QED
    BY <1>6, <1>10, <1>11, <2>1 DEF Iterates
<1> QED
  BY <1>2, <1>9, <1>11, <1>12

(* The pool of some constants, and of one more; what comes first stays. *)
LEMMA PoolFacts ==
    ASSUME NEW cs \in Seq(Bytes)
    PROVE  /\ encodeConstantPool(cs) \in Bytes
           /\ cs = <<>> => encodeConstantPool(cs) = <<>>
           /\ \A c \in Bytes : encodeConstantPool(Append(cs, c)) =
                                   Added(encodeConstantPool(cs), c)
<1> DEFINE n == Len(cs)
<1>1. n \in Nat
  OBVIOUS
<1>2. PICK F : /\ Iterates(F, <<>>, PoolSteps(cs), n)
               /\ \A k \in 0 .. n : F[k] \in Bytes
               /\ encodeConstantPool(cs) = F[n]
  BY PoolIterates
<1>3. cs = <<>> => encodeConstantPool(cs) = <<>>
  BY <1>2 DEF Iterates
<1>4. ASSUME NEW c \in Bytes
      PROVE  encodeConstantPool(Append(cs, c)) = Added(encodeConstantPool(cs), c)
  <2> DEFINE ds == Append(cs, c)
             m  == n + 1
  <2>1. /\ ds \in Seq(Bytes) /\ Len(ds) = m /\ m \in Nat
        /\ ds[m] = c /\ \A k \in 1 .. n : ds[k] = cs[k]
    OBVIOUS
  <2> HIDE DEF ds
  <2>2. PICK E : /\ Iterates(E, <<>>, PoolSteps(ds), m)
                 /\ \A k \in 0 .. m : E[k] \in Bytes
                 /\ encodeConstantPool(ds) = E[m]
    BY <2>1, PoolIterates
  <2>3. \A k \in 1 .. n : PoolSteps(cs)[k] = PoolSteps(ds)[k]
    <3>1. \A k \in 1 .. n : k \in 1 .. m
      BY <1>1
    <3> QED
      BY <2>1, <3>1 DEF PoolSteps
  <2>4. \A k \in 0 .. n : F[k] = E[k]
    <3>1. n \in 0 .. m /\ m \in Nat
      BY <1>1, <2>1
    <3> DEFINE G == PoolSteps(cs)
               H == PoolSteps(ds)
    <3>2. /\ Iterates(F, <<>>, G, n) /\ Iterates(E, <<>>, H, m)
          /\ \A k \in 1 .. n : G[k] = H[k]
      BY <1>2, <2>2, <2>3
    <3> HIDE DEF n, m, G, H
    <3> QED
      BY <3>1, <3>2, IterationUnique
  <2>5. E[m] = PoolSteps(ds)[m][E[m - 1]] /\ m - 1 = n
    BY <1>1, <2>2 DEF Iterates
  <2>6. E[n] \in Bytes /\ E[n] = F[n]
    BY <1>1, <2>2, <2>4
  <2>7. PoolSteps(ds)[m][E[n]] = Added(E[n], c)
    <3>1. m \in 1 .. Len(ds)
      BY <1>1, <2>1
    <3> QED
      BY <2>1, <2>6, <3>1 DEF PoolSteps
  <2> HIDE DEF m, n
  <2> QED
    BY <1>2, <2>2, <2>5, <2>6, <2>7 DEF ds
<1> QED
  BY <1>1, <1>2, <1>3, <1>4

-----------------------------------------------------------------------------
(* What a slice into the read buffer's capacity holds. *)
Padded == data \o [k \in 1 .. slack |-> 0]

LEMMA PaddedFacts ==
    ASSUME TypeOK
    PROVE  /\ Padded \in Bytes
           /\ Len(data) \in Nat /\ slack \in Nat
           /\ Len(Padded) = Len(data) + slack
           /\ \A k \in 1 .. Len(data) : Padded[k] = data[k]
           /\ \A k \in 1 .. Len(Padded) : k > Len(data) => Padded[k] = 0
<1> DEFINE z == [k \in 1 .. slack |-> 0]
<1>1. slack \in Nat /\ data \in Bytes
  BY FlxAssumption DEF TypeOK
<1>2. 0 \in Byte
  BY FlxAssumption DEF Byte
<1>3. z \in Bytes /\ Len(z) = slack
  BY <1>1, <1>2 DEF Bytes
<1>4. \A k \in 1 .. slack : z[k] = 0
  OBVIOUS
<1>5. Padded = data \o z
  BY DEF Padded
<1> HIDE DEF z
<1>6. /\ Padded \in Bytes /\ Len(data) \in Nat
      /\ Len(Padded) = Len(data) + Len(z)
      /\ \A k \in 1 .. Len(data) : Padded[k] = data[k]
      /\ \A k \in 1 .. Len(z) : Padded[Len(data) + k] = z[k]
  BY <1>1, <1>3, <1>5, Joined
<1>7. ASSUME NEW k \in 1 .. Len(Padded), k > Len(data) PROVE Padded[k] = 0
  <2>1. k - Len(data) \in 1 .. slack /\ Len(data) + (k - Len(data)) = k
    BY <1>1, <1>3, <1>6, <1>7
  <2> QED
    BY <1>3, <1>4, <1>6, <2>1
<1> QED
  BY <1>1, <1>3, <1>6, <1>7

LEMMA SliceFacts ==
    ASSUME TypeOK, NEW lo \in Nat, NEW hi \in Nat, SliceOK(lo, hi)
    PROVE  /\ Slice(lo, hi) \in Bytes
           /\ Len(Slice(lo, hi)) = hi - lo
           /\ \A k \in 1 .. (hi - lo) : /\ lo + k \in 1 .. Len(Padded)
                                        /\ Slice(lo, hi)[k] = Padded[lo + k]
<1> DEFINE n == hi - lo
<1>1. /\ Padded \in Bytes /\ Len(data) \in Nat /\ slack \in Nat
      /\ Len(Padded) = Len(data) + slack
      /\ \A k \in 1 .. Len(data) : Padded[k] = data[k]
      /\ \A k \in 1 .. Len(Padded) : k > Len(data) => Padded[k] = 0
  BY PaddedFacts
<1>2. n \in Nat
  BY DEF SliceOK
<1>3. ASSUME NEW k \in 1 .. n
      PROVE  /\ lo + k \in 1 .. Len(Padded) /\ Padded[lo + k] \in Byte
             /\ Slice(lo, hi)[k] = Padded[lo + k]
  <2>1. lo + k \in 1 .. Len(Padded)
    BY <1>1, <1>2 DEF SliceOK
  <2>2. Slice(lo, hi)[k] = IF lo + k <= Len(data) THEN data[lo + k] ELSE 0
    BY DEF Slice
  <2>3. lo + k <= Len(data) => lo + k \in 1 .. Len(data)
    BY <2>1
  <2>4. Padded[lo + k] \in Byte
    BY <1>1, <2>1 DEF Bytes
  <2> QED
    BY <1>1, <2>1, <2>2, <2>3, <2>4
<1>4. Slice(lo, hi) = [k \in 1 .. n |-> Slice(lo, hi)[k]]
  BY DEF Slice
<1>5. Slice(lo, hi) \in [1 .. n -> Byte]
  BY <1>3, <1>4
<1>6. Slice(lo, hi) \in Bytes /\ Len(Slice(lo, hi)) = n
  BY <1>2, <1>5 DEF Bytes
<1> QED
  BY <1>3, <1>6

(* The numbers of the header. *)
LEMMA HeaderNumbers ==
    ASSUME TypeOK, Len(data) >= FlxHeaderSize
    PROVE  /\ constCount \in Nat
           /\ codeOffset \in Nat /\ codeOffset < Word
           /\ codeSize \in Nat /\ codeSize < Word
           /\ codeEnd \in Nat /\ codeEnd < Word
           /\ codeOffset + codeSize < Word => codeEnd = codeOffset + codeSize
           /\ codeOffset <= codeEnd => codeEnd = codeOffset + codeSize
           /\ codeEnd <= codeOffset + codeSize
<1>1. data \in Bytes /\ Len(data) >= 15 /\ Len(data) \in Nat
  BY DEF TypeOK, FlxHeaderSize, Bytes
<1>2. constCount \in Nat
  BY <1>1, Uint16Facts DEF constCount
<1>3. codeOffset \in Nat /\ codeOffset < Word
  BY <1>1, Uint32Facts DEF codeOffset
<1>4. codeSize \in Nat /\ codeSize < Word
  BY <1>1, Uint32Facts DEF codeSize
<1> DEFINE o == codeOffset
           s == codeSize
<1>5. Word \in Nat \ {0} /\ codeEnd = (o + s) % Word
  BY HalfWord DEF codeEnd
<1>6. o \in Nat /\ s \in Nat /\ o < Word /\ s < Word
  BY <1>3, <1>4
<1> HIDE DEF o, s
<1>7. o + s < Word => codeEnd = o + s
  BY <1>5, <1>6, ModSmall
<1>8. o + s >= Word => codeEnd = o + s - Word
  <2> SUFFICES ASSUME o + s >= Word PROVE codeEnd = o + s - Word
    OBVIOUS
  <2> DEFINE r == o + s - Word
  <2>1. r \in Nat /\ r < Word /\ 1 * Word + r = o + s
    BY <1>5, <1>6
  <2>2. (1 * Word + r) % Word = r
    <3> HIDE DEF r
    <3>1. 1 \in Nat
      OBVIOUS
    <3> QED
      BY <1>5, <2>1, <3>1, DigitsUnique
  <2> QED
    BY <1>5, <2>1, <2>2
<1>9. /\ codeEnd \in Nat /\ codeEnd < Word /\ codeEnd <= o + s
      /\ o <= codeEnd => codeEnd = o + s
  BY <1>5, <1>6, <1>7, <1>8
<1> QED
  BY <1>2, <1>3, <1>4, <1>7, <1>9 DEF o, s

-----------------------------------------------------------------------------
(* Where the described pool ends, constant by constant. *)
PoolStep == [j \in Nat |-> IF j + 4 <= codeOffset THEN j + 4 + Uint32(data, j + 1)
                           ELSE codeOffset + 1]

LEMMA PoolEndFacts ==
    ASSUME TypeOK, Len(data) >= FlxHeaderSize, codeOffset <= Len(data)
    PROVE  /\ PoolEnd(0) = FlxHeaderSize
           /\ \A k \in 0 .. constCount : PoolEnd(k) \in Nat
           /\ \A k \in 1 .. constCount : PoolEnd(k) = PoolStep[PoolEnd(k - 1)]
<1> DEFINE n == constCount
           G == [k \in 1 .. n |-> PoolStep]
           Ending(F) == [k \in 0 .. n |->
                          IF k = 0 THEN FlxHeaderSize
                          ELSE LET start == F[k - 1]
                               IN  IF start + 4 <= codeOffset
                                   THEN start + 4 + Uint32(data, start + 1)
                                   ELSE codeOffset + 1]
<1>1. n \in Nat /\ codeOffset \in Nat /\ FlxHeaderSize \in Nat
  BY HeaderNumbers DEF FlxHeaderSize
<1>2. PoolStep \in [Nat -> Nat]
  <2>1. ASSUME NEW j \in Nat, j + 4 <= codeOffset
        PROVE  j + 4 + Uint32(data, j + 1) \in Nat
    <3>1. data \in Bytes /\ j + 1 \in Nat /\ 1 <= j + 1 /\ (j + 1) + 3 <= Len(data)
      BY <1>1, <2>1 DEF TypeOK, Bytes
    <3>2. Uint32(data, j + 1) \in Nat
      BY <3>1, Uint32Facts
    <3> QED
      BY <3>2
  <2> QED
    BY <1>1, <2>1 DEF PoolStep
<1>3. G \in [1 .. n -> [Nat -> Nat]]
  BY <1>2
<1>4. PICK F : Iterates(F, FlxHeaderSize, G, n)
  <2> HIDE DEF G, n
  <2> QED
    BY <1>1, <1>3, IterationExists
<1>5. \A k \in 0 .. n : F[k] \in Nat
  <2> HIDE DEF G, n
  <2> QED
    BY <1>1, <1>3, <1>4, IterationTyped
<1>6. F = Ending(F)
  <2>1. ASSUME NEW k \in 0 .. n, k # 0
        PROVE  F[k] = LET start == F[k - 1]
                      IN  IF start + 4 <= codeOffset
                          THEN start + 4 + Uint32(data, start + 1)
                          ELSE codeOffset + 1
    <3>1. k \in 1 .. n /\ k - 1 \in 0 .. n
      BY <1>1, <2>1
    <3>2. F[k] = G[k][F[k - 1]] /\ F[k - 1] \in Nat
      BY <1>4, <1>5, <3>1 DEF Iterates
    <3> QED
      BY <3>1, <3>2 DEF PoolStep
  <2>2. F = [k \in 0 .. n |-> F[k]] /\ F[0] = FlxHeaderSize
    BY <1>4 DEF Iterates
  <2> HIDE DEF n, G
  <2> QED
    BY <2>1, <2>2
<1> DEFINE E == CHOOSE F_1 : F_1 = Ending(F_1)
<1>7. E = Ending(E)
  <2> HIDE DEF Ending
  <2> QED
    BY <1>6
<1>8. \A k : PoolEnd(k) = E[k]
  BY DEF PoolEnd
<1>9. /\ E[0] = FlxHeaderSize
      /\ \A k \in 1 .. n : E[k] = IF E[k - 1] + 4 <= codeOffset
                                  THEN E[k - 1] + 4 + Uint32(data, E[k - 1] + 1)
                                  ELSE codeOffset + 1
  <2>1. 0 \in 0 .. n /\ \A k \in 1 .. n : k \in 0 .. n /\ k # 0
    BY <1>1
  <2> HIDE DEF E, n
  <2> QED
    BY <1>7, <2>1
<1> HIDE DEF E
<1>10. \A k \in 0 .. n : E[k] \in Nat
  <2> DEFINE T == {k \in Nat : k <= n => E[k] \in Nat}
  <2>1. 0 \in T
    BY <1>1, <1>9
  <2>2. ASSUME NEW k \in Nat, k \in T PROVE k + 1 \in T
    <3> SUFFICES ASSUME k + 1 <= n PROVE E[k + 1] \in Nat
      OBVIOUS
    <3>1. k + 1 \in 1 .. n /\ (k + 1) - 1 = k /\ E[k] \in Nat
      BY <1>1, <2>2
    <3>2. E[k + 1] = PoolStep[E[k]]
      BY <1>9, <3>1 DEF PoolStep
    <3> QED
      BY <1>2, <3>1, <3>2
  <2>3. Nat \subseteq T
    <3> HIDE DEF T
    <3> QED
      BY <2>1, <2>2, SetInduction
  <2> QED
    BY <2>3
<1>11. ASSUME NEW k \in 1 .. n PROVE E[k] = PoolStep[E[k - 1]]
  <2>1. k - 1 \in 0 .. n
    BY <1>1
  <2>2. E[k - 1] \in Nat
    BY <1>10, <2>1
  <2> QED
    BY <1>9, <2>2 DEF PoolStep
<1> HIDE DEF n
<1> QED
  BY <1>8, <1>9, <1>10, <1>11 DEF n

(* Once past the code's offset, always. *)
LEMMA PoolEndPast ==
    ASSUME TypeOK, Len(data) >= FlxHeaderSize, codeOffset <= Len(data),
           NEW k \in 0 .. constCount, PoolEnd(k) > codeOffset
    PROVE  PoolEnd(constCount) > codeOffset
<1> DEFINE n == constCount
           T == {m \in Nat : k + m <= n => PoolEnd(k + m) > codeOffset}
<1>1. n \in Nat /\ codeOffset \in Nat
  BY HeaderNumbers
<1>2. 0 \in T
  BY <1>1
<1>3. ASSUME NEW m \in Nat, m \in T PROVE m + 1 \in T
  <2> SUFFICES ASSUME k + (m + 1) <= n PROVE PoolEnd(k + (m + 1)) > codeOffset
    OBVIOUS
  <2> DEFINE i == k + m
  <2>1. /\ i \in 0 .. n /\ k + (m + 1) = i + 1 /\ i + 1 \in 1 .. n /\ (i + 1) - 1 = i
        /\ PoolEnd(i) > codeOffset
    BY <1>1, <1>3
  <2> HIDE DEF i, n
  <2>2. PoolEnd(i) \in Nat /\ PoolEnd(i + 1) = PoolStep[PoolEnd(i)]
    BY <2>1, PoolEndFacts DEF n
  <2>3. PoolEnd(i + 1) = codeOffset + 1
    BY <1>1, <2>1, <2>2 DEF PoolStep
  <2> QED
    BY <1>1, <2>1, <2>3
<1>4. Nat \subseteq T
  <2> HIDE DEF T
  <2> QED
    BY <1>2, <1>3, SetInduction
<1>5. n - k \in Nat /\ k + (n - k) = n
  BY <1>1
<1>6. n - k \in T
  <2> HIDE DEF T
  <2> QED
    BY <1>4, <1>5
<1> QED
  BY <1>1, <1>5, <1>6

(***************************************************************************)
(* While the loader parses the pool: the header was accepted and its       *)
(* slice of the pool is one Go allows, and the bytes up to the cursor are  *)
(* the pool of the constants parsed so far.                                *)
(***************************************************************************)
Parsed ==
    /\ HeaderOK /\ SliceOK(FlxHeaderSize, codeOffset)
    /\ Len(consts) <= constCount
    /\ cursor <= codeOffset
    /\ \A j \in 1 .. Len(encodeConstantPool(consts)) :
           Padded[FlxHeaderSize + j] = encodeConstantPool(consts)[j]
    /\ codeOffset <= Len(data) => PoolEnd(Len(consts)) = cursor

LoadInv ==
    /\ TypeOK
    /\ pc \in {"start", "reading", "header"} => consts = <<>>
    /\ pc = "start" => data = <<>>
    /\ pc = "pool" => Parsed

LEMMA Pieces ==
    ASSUME NEW s \in Bytes, NEW n \in Nat
    PROVE  /\ Piece(s, n) \in Bytes
           /\ SubSeq(s, n + 1, Len(s)) \in Bytes
           /\ Piece(s, n) \o SubSeq(s, n + 1, Len(s)) = s
           /\ Len(Piece(s, n)) <= Len(s)
           /\ Piece(s, n) = SubSeq(s, 1, Len(Piece(s, n)))
<1> DEFINE m == IF Len(s) < n THEN Len(s) ELSE n
           p == SubSeq(s, 1, m)
           r == SubSeq(s, m + 1, Len(s))
<1>1. Len(s) \in Nat /\ s \in Seq(Byte) /\ m \in 0 .. Len(s)
  BY DEF Bytes
<1>2. Piece(s, n) = p
  BY DEF Piece
<1> HIDE DEF m
<1>3. p \in Bytes /\ Len(p) = m /\ r \in Bytes
  BY <1>1 DEF Bytes
<1>4. p \o r = s
  <2>1. 1 \in 1 .. Len(s) + 1 /\ m \in 1 - 1 .. Len(s) /\ Len(s) \in m .. Len(s)
    BY <1>1
  <2>2. SubSeq(s, 1, m) \o SubSeq(s, m + 1, Len(s)) = SubSeq(s, 1, Len(s))
    BY <1>1, <2>1, ConcatAdjacentSubSeq
  <2>3. SubSeq(s, 1, Len(s)) = s
    BY <1>1, SubSeqFull
  <2> QED
    BY <2>2, <2>3
<1>5. SubSeq(s, n + 1, Len(s)) = r
  <2>1. CASE Len(s) < n
    <3>1. m = Len(s)
      BY <2>1 DEF m
    <3>2. SubSeq(s, n + 1, Len(s)) = <<>> /\ r = <<>>
      BY <1>1, <2>1, <3>1, SubSeqEmpty
    <3> QED
      BY <3>2
  <2>2. CASE ~(Len(s) < n)
    BY <2>2 DEF m
  <2> QED
    BY <2>1, <2>2
<1>6. Len(Piece(s, n)) = m /\ Piece(s, n) = SubSeq(s, 1, Len(Piece(s, n)))
  BY <1>2, <1>3
<1>7. m <= Len(s)
  BY <1>1
<1> HIDE DEF p, r
<1> QED
  BY <1>2, <1>3, <1>4, <1>5, <1>6, <1>7

LEMMA BinaryBytes ==
    ASSUME NEW p \in Images
    PROVE  Binary(p) \in Bytes
<1> DEFINE pool == encodeConstantPool(p.consts)
<1>1. p.consts \in Seq(Bytes) /\ p.code \in Bytes
  BY FlxAssumption
<1>2. pool \in Bytes
  BY <1>1, PoolFacts
<1> HIDE DEF pool
<1>3. Len(p.consts) \in Nat /\ Len(pool) \in Nat /\ Len(p.code) \in Nat
  BY <1>1, <1>2 DEF Bytes
<1>4. FlxHeaderSize + Len(pool) \in Nat
  BY <1>3 DEF FlxHeaderSize
<1>5. /\ FlxMagic \in Bytes /\ U16(Len(p.consts)) \in Bytes
      /\ U32(FlxHeaderSize + Len(pool)) \in Bytes /\ U32(Len(p.code)) \in Bytes
  BY <1>3, <1>4, U16Facts, U32Facts, FlxAssumption
<1>6. <<FlxVersion>> \in Bytes
  BY FlxAssumption DEF Bytes, Byte, FlxVersion
<1>7. \A s, t \in Bytes : s \o t \in Bytes
  BY Joined
<1>8. Binary(p) = FlxMagic \o <<FlxVersion>> \o U16(Len(p.consts))
        \o U32(FlxHeaderSize + Len(pool)) \o U32(Len(p.code)) \o pool \o p.code
  BY DEF Binary, pool
<1> QED
  BY <1>1, <1>2, <1>5, <1>6, <1>7, <1>8

LEMMA SameHeader ==
    ASSUME UNCHANGED data
    PROVE  /\ constCount' = constCount /\ codeOffset' = codeOffset
           /\ codeSize' = codeSize /\ codeEnd' = codeEnd
           /\ HeaderOK' <=> HeaderOK
  BY DEF constCount, codeOffset, codeSize, codeEnd, HeaderOK, Extends, Uint16, Uint32

LEMMA SamePoolEnd ==
    ASSUME UNCHANGED data
    PROVE  \A k : PoolEnd(k)' = PoolEnd(k)
<1>1. constCount' = constCount /\ codeOffset' = codeOffset
  BY SameHeader
<1> QED
  BY <1>1 DEF PoolEnd, Uint32, Uint16

LEMMA SameParsed ==
    ASSUME Parsed, UNCHANGED <<data, slack, consts>>
    PROVE  Parsed'
<1>1. /\ constCount' = constCount /\ codeOffset' = codeOffset /\ HeaderOK'
      /\ PoolEnd(Len(consts))' = PoolEnd(Len(consts))
  BY SameHeader, SamePoolEnd DEF Parsed
<1>2. Padded' = Padded /\ cursor' = cursor
  BY DEF Padded, cursor
<1>3. SliceOK(FlxHeaderSize, codeOffset)'
  BY <1>1 DEF SliceOK, Parsed
<1> QED
  BY <1>1, <1>2, <1>3 DEF Parsed

(* The compiler's steps leave the loader alone. *)
LEMMA WriterStep ==
    ASSUME LoadInv, disk' \in Bytes, pending' \in Bytes, torn' \in BOOLEAN,
           UNCHANGED <<pc, data, slack, consts, code, found>>
    PROVE  LoadInv'
<1>1. TypeOK'
  BY DEF LoadInv, TypeOK, Ends
<1> QED
  BY <1>1, SameParsed DEF LoadInv

LEMMA CompilerLoads ==
    ASSUME LoadInv,
           \/ \E p \in Images : BeginWrite(p)
           \/ Write
           \/ \E n \in 0 .. (WriteSize - 1) : WriteFails(n)
    PROVE  LoadInv'
<1>1. disk \in Bytes /\ pending \in Bytes /\ torn \in BOOLEAN /\ <<>> \in Bytes
  BY DEF LoadInv, TypeOK, Bytes
<1>2. ASSUME NEW p \in Images, BeginWrite(p) PROVE LoadInv'
  BY <1>1, <1>2, BinaryBytes, WriterStep DEF BeginWrite
<1>3. ASSUME Write PROVE LoadInv'
  <2>1. WriteSize \in Nat
    BY FlxAssumption
  <2>2. Piece(pending, WriteSize) \in Bytes /\ SubSeq(pending, WriteSize + 1, Len(pending)) \in Bytes
    BY <1>1, <2>1, Pieces
  <2>3. disk \o Piece(pending, WriteSize) \in Bytes
    BY <1>1, <2>2, Joined
  <2> QED
    BY <1>1, <1>3, <2>2, <2>3, WriterStep DEF Write
<1>4. ASSUME NEW n \in 0 .. (WriteSize - 1), WriteFails(n) PROVE LoadInv'
  <2>1. n \in Nat
    BY FlxAssumption
  <2>2. Piece(pending, n) \in Bytes
    BY <1>1, <2>1, Pieces
  <2>3. disk \o Piece(pending, n) \in Bytes
    BY <1>1, <2>2, Joined
  <2> QED
    BY <1>1, <1>4, <2>2, <2>3, WriterStep DEF WriteFails
<1> QED
  BY <1>2, <1>3, <1>4

(* An end, or the state the loader goes to, with what it has unchanged. *)
LEMMA EndStep ==
    ASSUME LoadInv, pc \in {"header", "pool"}, NEW how \in Ends, End(how)
    PROVE  LoadInv'
<1>1. TypeOK'
  BY DEF LoadInv, TypeOK, End, writer
<1>2. pc' \notin {"start", "reading", "header", "pool"}
  BY DEF End, Ends
<1> QED
  BY <1>1, <1>2 DEF LoadInv

LEMMA OpenStep ==
    ASSUME LoadInv, Open
    PROVE  LoadInv'
<1>1. TypeOK'
  BY DEF LoadInv, TypeOK, Open, writer
<1> QED
  BY <1>1 DEF LoadInv, Open

LEMMA ReadStep ==
    ASSUME LoadInv, Read
    PROVE  LoadInv'
<1>1. data \in Bytes /\ disk \in Bytes /\ Len(data) \in Nat /\ ReadSize \in Nat
  BY FlxAssumption DEF LoadInv, TypeOK, Bytes
<1>2. Unread \in Bytes
  BY <1>1, Pieces DEF Unread
<1>3. data \o Piece(Unread, ReadSize) \in Bytes
  BY <1>1, <1>2, Pieces, Joined
<1>4. TypeOK'
  BY <1>3 DEF LoadInv, TypeOK, Read, writer, Ends
<1> QED
  BY <1>4 DEF LoadInv, Read

LEMMA EndOfFileStep ==
    ASSUME LoadInv, EndOfFile
    PROVE  LoadInv'
<1>1. TypeOK'
  BY DEF LoadInv, TypeOK, EndOfFile, writer, Ends
<1> QED
  BY <1>1 DEF LoadInv, EndOfFile

LEMMA BeginPoolStep ==
    ASSUME LoadInv, BeginPool
    PROVE  LoadInv'
<1>1. TypeOK'
  BY DEF LoadInv, TypeOK, BeginPool, End, writer
<1>2. /\ consts = <<>> /\ HeaderOK /\ SliceOK(FlxHeaderSize, codeOffset)
      /\ UNCHANGED <<data, slack, consts>>
  BY DEF LoadInv, BeginPool, End
<1>3. Parsed
  <2>1. encodeConstantPool(consts) = <<>> /\ Len(consts) = 0
    <3>1. consts \in Seq(Bytes)
      BY DEF LoadInv, TypeOK
    <3> QED
      BY <1>2, <3>1, PoolFacts
  <2>2. TypeOK /\ Len(data) >= FlxHeaderSize
    BY <1>2 DEF LoadInv, HeaderOK
  <2>3. constCount \in Nat
    BY <2>2, HeaderNumbers
  <2>4. cursor = FlxHeaderSize
    BY <2>1 DEF cursor, FlxHeaderSize
  <2>5. FlxHeaderSize <= codeOffset
    BY <1>2 DEF SliceOK
  <2>6. codeOffset <= Len(data) => PoolEnd(Len(consts)) = cursor
    BY <2>1, <2>2, <2>4, PoolEndFacts
  <2>7. 1 .. Len(encodeConstantPool(consts)) = {}
    BY <2>1
  <2> QED
    BY <1>2, <2>1, <2>3, <2>4, <2>5, <2>6, <2>7 DEF Parsed
<1>4. Parsed'
  BY <1>2, <1>3, SameParsed
<1> QED
  BY <1>1, <1>2, <1>4 DEF LoadInv, BeginPool, End

(* The constant the cursor is at fits: what the bytes behind it are. *)
LEMMA ConstantAt ==
    ASSUME LoadInv, pc = "pool", Body <= codeOffset
    PROVE  /\ cursor \in Nat /\ Body = cursor + 4 /\ BodyLen \in Nat
           /\ cursor + 4 <= Len(Padded)
           /\ U32(BodyLen) = << Padded[cursor + 1], Padded[cursor + 2],
                                Padded[cursor + 3], Padded[cursor + 4] >>
           /\ codeOffset <= Len(data) => BodyLen = Uint32(data, cursor + 1)
<1>1. TypeOK /\ Parsed
  BY DEF LoadInv
<1>2. Len(data) >= FlxHeaderSize
  BY <1>1 DEF Parsed, HeaderOK
<1>3. codeOffset \in Nat
  BY <1>1, <1>2, HeaderNumbers
<1>4. cursor \in Nat
  <2>1. encodeConstantPool(consts) \in Bytes
    BY <1>1, PoolFacts DEF TypeOK
  <2> QED
    BY <2>1 DEF cursor, Bytes, FlxHeaderSize
<1>5. /\ Padded \in Bytes /\ Len(Padded) = Len(data) + slack
      /\ Len(data) \in Nat /\ slack \in Nat
      /\ \A k \in 1 .. Len(data) : Padded[k] = data[k]
  BY <1>1, PaddedFacts
<1>6. Body = cursor + 4 /\ cursor + 4 <= Len(Padded)
  BY <1>1, <1>3, <1>4, <1>5 DEF Body, Parsed, SliceOK
<1>7. BodyLen = Uint32(Padded, cursor + 1)
  BY DEF BodyLen, Padded
<1>8. /\ cursor + 1 \in Nat /\ 1 <= cursor + 1 /\ (cursor + 1) + 3 <= Len(Padded)
      /\ (cursor + 1) + 1 = cursor + 2 /\ (cursor + 1) + 2 = cursor + 3
      /\ (cursor + 1) + 3 = cursor + 4
  BY <1>4, <1>5, <1>6
<1>9. /\ Uint32(Padded, cursor + 1) \in Nat
      /\ U32(Uint32(Padded, cursor + 1)) =
            << Padded[cursor + 1], Padded[(cursor + 1) + 1],
               Padded[(cursor + 1) + 2], Padded[(cursor + 1) + 3] >>
  BY <1>5, <1>8, Uint32Facts
<1>10. ASSUME codeOffset <= Len(data) PROVE BodyLen = Uint32(data, cursor + 1)
  <2>1. \A k \in 1 .. 4 : Padded[cursor + k] = data[cursor + k]
    BY <1>3, <1>4, <1>5, <1>6, <1>10
  <2>2. /\ Padded[cursor + 1] = data[cursor + 1] /\ Padded[cursor + 2] = data[cursor + 2]
        /\ Padded[cursor + 3] = data[cursor + 3] /\ Padded[cursor + 4] = data[cursor + 4]
    BY <2>1
  <2>3. \A s : Uint32(s, cursor + 1) =
                  (s[cursor + 1] * Base + s[cursor + 2]) * (Base * Base)
                      + (s[cursor + 3] * Base + s[cursor + 4])
    <3>1. cursor + 1 + 1 = cursor + 2 /\ cursor + 1 + 2 = cursor + 3 /\ cursor + 1 + 2 + 1 = cursor + 4
      BY <1>4
    <3> QED
      BY <3>1 DEF Uint32, Uint16
  <2> QED
    BY <1>7, <2>2, <2>3
<1> QED
  BY <1>4, <1>6, <1>7, <1>8, <1>9, <1>10

LEMMA ParseConstantStep ==
    ASSUME LoadInv, ParseConstant
    PROVE  LoadInv'
<1> DEFINE c == Slice(Body, Body + BodyLen)
           x == encodeConstantPool(consts)
<1>1. /\ pc = "pool" /\ TypeOK /\ Parsed /\ Len(consts) < constCount
      /\ Body <= codeOffset /\ Body + BodyLen <= codeOffset
  BY DEF LoadInv, ParseConstant, ConstantFits
<1>2. /\ cursor \in Nat /\ Body = cursor + 4 /\ BodyLen \in Nat
      /\ U32(BodyLen) = << Padded[cursor + 1], Padded[cursor + 2],
                           Padded[cursor + 3], Padded[cursor + 4] >>
      /\ codeOffset <= Len(data) => BodyLen = Uint32(data, cursor + 1)
  BY <1>1, ConstantAt
<1>3. /\ Len(data) >= FlxHeaderSize /\ Len(data) \in Nat /\ slack \in Nat
      /\ codeOffset \in Nat /\ constCount \in Nat
  BY <1>1, HeaderNumbers, PaddedFacts DEF Parsed, HeaderOK
<1>4. SliceOK(Body, Body + BodyLen)
  BY <1>1, <1>2, <1>3 DEF SliceOK, Parsed
<1>5. /\ c \in Bytes /\ Len(c) = BodyLen
      /\ \A k \in 1 .. BodyLen : c[k] = Padded[cursor + 4 + k]
  <2>1. Body \in Nat /\ Body + BodyLen \in Nat /\ (Body + BodyLen) - Body = BodyLen
    BY <1>2
  <2> QED
    BY <1>1, <1>2, <1>4, <2>1, SliceFacts
<1> HIDE DEF c
<1>6. /\ consts \in Seq(Bytes) /\ x \in Bytes
      /\ consts' = Append(consts, c)
      /\ UNCHANGED <<disk, pending, torn, pc, data, slack, code, found>>
      /\ encodeConstantPool(consts') = Added(x, c)
  BY <1>1, <1>5, PoolFacts DEF TypeOK, ParseConstant, c, writer
<1> HIDE DEF x
<1>7. TypeOK'
  <2>1. consts' \in Seq(Bytes)
    BY <1>5, <1>6
  <2> QED
    BY <1>1, <1>6, <2>1 DEF TypeOK
<1>8. /\ Len(x) \in Nat /\ Len(Added(x, c)) = Len(x) + 4 + BodyLen
      /\ \A j \in 1 .. Len(x) : Added(x, c)[j] = x[j]
      /\ \A j \in 1 .. 4 : Added(x, c)[Len(x) + j] = U32(BodyLen)[j]
      /\ \A j \in 1 .. BodyLen : Added(x, c)[Len(x) + 4 + j] = c[j]
  BY <1>5, <1>6, AddedBytes
<1>9. cursor = FlxHeaderSize + Len(x) /\ cursor' = FlxHeaderSize + Len(Added(x, c))
  BY <1>6 DEF cursor, x
<1>10. cursor' = cursor + 4 + BodyLen
  BY <1>2, <1>8, <1>9 DEF FlxHeaderSize
<1>11. Len(consts') = Len(consts) + 1 /\ Len(consts) \in Nat
  BY <1>6
<1>12. Padded' = Padded /\ constCount' = constCount /\ codeOffset' = codeOffset
       /\ HeaderOK' /\ (\A k : PoolEnd(k)' = PoolEnd(k))
       /\ SliceOK(FlxHeaderSize, codeOffset)'
  <2>1. constCount' = constCount /\ codeOffset' = codeOffset /\ HeaderOK'
    BY <1>1, <1>6, SameHeader DEF Parsed
  <2>2. \A k : PoolEnd(k)' = PoolEnd(k)
    BY <1>6, SamePoolEnd
  <2>3. SliceOK(FlxHeaderSize, codeOffset)'
    BY <1>1, <1>6, <2>1 DEF Parsed, SliceOK
  <2> QED
    BY <1>6, <2>1, <2>2, <2>3 DEF Padded
<1>13. ASSUME NEW j \in 1 .. Len(Added(x, c))
       PROVE  Padded[FlxHeaderSize + j] = Added(x, c)[j]
  <2>1. CASE j \in 1 .. Len(x)
    BY <1>1, <1>8, <2>1 DEF Parsed, x
  <2>2. CASE j \in (Len(x) + 1) .. (Len(x) + 4)
    <3>1. /\ Padded[cursor + 1] = U32(BodyLen)[1] /\ Padded[cursor + 2] = U32(BodyLen)[2]
          /\ Padded[cursor + 3] = U32(BodyLen)[3] /\ Padded[cursor + 4] = U32(BodyLen)[4]
      BY <1>2
    <3>2. \A i \in 1 .. 4 : Padded[cursor + i] = U32(BodyLen)[i]
      BY <3>1
    <3>3. PICK i \in 1 .. 4 : j = Len(x) + i
      <4>1. j - Len(x) \in 1 .. 4 /\ j = Len(x) + (j - Len(x))
        BY <1>8, <2>2
      <4> QED
        BY <4>1
    <3>4. FlxHeaderSize + j = cursor + i
      BY <1>8, <1>9, <3>3 DEF FlxHeaderSize
    <3> QED
      BY <1>8, <3>2, <3>3, <3>4
  <2>3. CASE j \in (Len(x) + 4 + 1) .. (Len(x) + 4 + BodyLen)
    <3>1. PICK i \in 1 .. BodyLen : j = Len(x) + 4 + i
      <4>1. j - (Len(x) + 4) \in 1 .. BodyLen /\ j = Len(x) + 4 + (j - (Len(x) + 4))
        BY <1>2, <1>8, <2>3
      <4> QED
        BY <4>1
    <3>2. FlxHeaderSize + j = cursor + 4 + i
      BY <1>8, <1>9, <3>1 DEF FlxHeaderSize
    <3> QED
      BY <1>5, <1>8, <3>1, <3>2
  <2> QED
    BY <1>2, <1>8, <2>1, <2>2, <2>3
<1>14. ASSUME codeOffset <= Len(data) PROVE PoolEnd(Len(consts) + 1) = cursor + 4 + BodyLen
  <2>1. Len(consts) + 1 \in 1 .. constCount /\ (Len(consts) + 1) - 1 = Len(consts)
    BY <1>1, <1>3, <1>11
  <2>2. PoolEnd(Len(consts) + 1) = PoolStep[PoolEnd(Len(consts))]
    BY <1>1, <1>3, <1>14, <2>1, PoolEndFacts
  <2>3. PoolEnd(Len(consts)) = cursor
    BY <1>1, <1>14 DEF Parsed
  <2> QED
    BY <1>1, <1>2, <1>14, <2>2, <2>3 DEF PoolStep
<1>15. cursor' <= codeOffset
  BY <1>1, <1>2, <1>10
<1>16. Parsed'
  <2>1. Len(consts') <= constCount
    BY <1>1, <1>3, <1>11
  <2> QED
    BY <1>6, <1>10, <1>11, <1>12, <1>13, <1>14, <1>15, <2>1 DEF Parsed
<1> QED
  BY <1>1, <1>6, <1>7, <1>16 DEF LoadInv

LEMMA CopyCodeStep ==
    ASSUME LoadInv, CopyCode
    PROVE  LoadInv'
<1>1. TypeOK /\ Parsed /\ SliceOK(codeOffset, codeEnd)
  BY DEF LoadInv, CopyCode
<1>2. codeOffset \in Nat /\ codeEnd \in Nat
  BY <1>1, HeaderNumbers DEF Parsed, HeaderOK
<1>3. Slice(codeOffset, codeEnd) \in Bytes
  BY <1>1, <1>2, SliceFacts
<1>4. TypeOK'
  BY <1>1, <1>3 DEF TypeOK, CopyCode, writer, Ends
<1> QED
  BY <1>4 DEF LoadInv, CopyCode

LEMMA LoadInit == Init => LoadInv
<1> SUFFICES ASSUME Init PROVE LoadInv
  OBVIOUS
<1>1. <<>> \in Bytes /\ <<>> \in Seq(Bytes)
  BY DEF Bytes
<1>2. disk \in Bytes
  BY FlxAssumption DEF Init
<1>3. TypeOK
  BY <1>1, <1>2 DEF Init, TypeOK
<1> QED
  BY <1>3 DEF Init, LoadInv

LEMMA LoadNext == LoadInv /\ [Next]_vars => LoadInv'
<1> SUFFICES ASSUME LoadInv, [Next]_vars PROVE LoadInv'
  OBVIOUS
<1>1. CASE UNCHANGED vars
  BY <1>1, WriterStep DEF vars, writer, LoadInv, TypeOK
<1>2. ASSUME \/ \E p \in Images : BeginWrite(p)
             \/ Write
             \/ \E n \in 0 .. (WriteSize - 1) : WriteFails(n)
      PROVE  LoadInv'
  BY <1>2, CompilerLoads
<1>3. ASSUME RefuseHeader \/ PanicOnPool \/ RefuseConstant \/ PanicOnCode PROVE LoadInv'
  BY <1>3, EndStep DEF RefuseHeader, PanicOnPool, RefuseConstant, PanicOnCode, Ends
<1> QED
  BY <1>1, <1>2, <1>3, OpenStep, ReadStep, EndOfFileStep, BeginPoolStep,
     ParseConstantStep, CopyCodeStep DEF Next

(* Whatever lies at the path and however writing and reading interleave,   *)
(* everything stays of its type: no slice the loader takes leaves the      *)
(* buffer (cpu.go:129-157). *)
THEOREM LoaderTyped == Spec => []TypeOK
<1>1. LoadInv => TypeOK
  BY DEF LoadInv
<1> QED
  BY <1>1, LoadInit, LoadNext, PTL DEF Spec

-----------------------------------------------------------------------------
(* Why the loader panics. *)

(* A range Go does not slice, where the header is one the loader accepts. *)
LEMMA BadSlice ==
    ASSUME TypeOK, HeaderOK,
           \/ ~SliceOK(FlxHeaderSize, codeOffset)
           \/ ~SliceOK(codeOffset, codeEnd)
    PROVE  /\ SubSeq(data, 1, 4) = FlxMagic
           /\ codeOffset < FlxHeaderSize \/ codeOffset + codeSize >= Word
           /\ ~Described \/ Len(data) >= Word
<1>1. Len(data) >= FlxHeaderSize /\ SubSeq(data, 1, 4) = FlxMagic /\ ~(codeEnd > Len(data))
  BY DEF HeaderOK, Extends
<1>2. /\ codeOffset \in Nat /\ codeOffset < Word
      /\ codeSize \in Nat /\ codeSize < Word /\ codeEnd \in Nat
      /\ codeOffset + codeSize < Word => codeEnd = codeOffset + codeSize
  BY <1>1, HeaderNumbers
<1>3. Len(data) \in Nat /\ slack \in Nat /\ Word \in Nat
  BY PaddedFacts, HalfWord
<1>4. codeOffset < FlxHeaderSize \/ codeOffset + codeSize >= Word
  <2> SUFFICES ASSUME codeOffset >= FlxHeaderSize, codeOffset + codeSize < Word PROVE FALSE
    BY <1>2, <1>3 DEF FlxHeaderSize
  <2>1. codeEnd = codeOffset + codeSize /\ codeEnd <= Len(data)
    BY <1>1, <1>2, <1>3
  <2> QED
    BY <1>2, <1>3, <2>1 DEF SliceOK
<1>5. Described => Len(data) >= Word
  BY <1>2, <1>3, <1>4 DEF Described, FlxHeaderSize
<1> QED
  BY <1>1, <1>4, <1>5

LEMMA Panicking ==
    ASSUME LoadInv, PanicOnPool \/ PanicOnCode
    PROVE  /\ SubSeq(data, 1, 4) = FlxMagic
           /\ codeOffset < FlxHeaderSize \/ codeOffset + codeSize >= Word
           /\ ~Described \/ Len(data) >= Word
  BY BadSlice DEF LoadInv, Parsed, PanicOnPool, PanicOnCode

(* What each action does to pc, once the compiler's are left out. *)
LEMMA Ending ==
    ASSUME LoadInv, [Next]_vars, pc' \in Ends
    PROVE  \/ pc' = pc /\ UNCHANGED <<data, consts, code, slack>>
           \/ RefuseHeader \/ RefuseConstant
           \/ PanicOnPool \/ PanicOnCode
           \/ CopyCode
<1>1. CASE UNCHANGED vars
  BY <1>1 DEF vars
<1>2. ASSUME \/ \E p \in Images : BeginWrite(p)
             \/ Write
             \/ \E n \in 0 .. (WriteSize - 1) : WriteFails(n)
      PROVE  pc' = pc /\ UNCHANGED <<data, consts, code, slack>>
  BY <1>2 DEF BeginWrite, Write, WriteFails
<1>3. ASSUME Open \/ Read \/ EndOfFile \/ BeginPool \/ ParseConstant PROVE FALSE
  BY <1>3 DEF Open, Read, EndOfFile, BeginPool, ParseConstant, End, Ends
<1> QED
  BY <1>1, <1>2, <1>3 DEF Next

LEMMA PanicNext == LoadInv /\ PanicsOnlyOn /\ [Next]_vars => PanicsOnlyOn'
<1> SUFFICES ASSUME LoadInv, PanicsOnlyOn, [Next]_vars, pc' = "panicked"
             PROVE  /\ SubSeq(data', 1, 4) = FlxMagic
                    /\ codeOffset' < FlxHeaderSize \/ codeOffset' + codeSize' >= Word
  BY DEF PanicsOnlyOn
<1>1. pc' \in Ends
  BY DEF Ends
<1>2. CASE pc' = pc /\ UNCHANGED <<data, consts, code, slack>>
  BY <1>2, SameHeader DEF PanicsOnlyOn
<1>3. CASE PanicOnPool \/ PanicOnCode
  <2>1. UNCHANGED data
    BY <1>3 DEF PanicOnPool, PanicOnCode, End
  <2> QED
    BY <1>3, <2>1, Panicking, SameHeader
<1>4. CASE RefuseHeader \/ RefuseConstant \/ CopyCode
  BY <1>4 DEF RefuseHeader, RefuseConstant, CopyCode, End
<1> QED
  BY <1>1, <1>2, <1>3, <1>4, Ending

(* The loader fails, where it should refuse, only on a code offset inside  *)
(* the header or a range that wraps around 32 bits (cpu.go:118-122, 129),  *)
(* whatever lies at the path. *)
THEOREM LoaderPanics == Spec => []PanicsOnlyOn
<1>1. Init => PanicsOnlyOn
  BY DEF Init, PanicsOnlyOn
<1> QED
  BY <1>1, LoadInit, LoadNext, PanicNext, PTL DEF Spec

-----------------------------------------------------------------------------
(* What is loaded. *)
LEMMA SameDescribed == UNCHANGED data => (Described' <=> Described)
<1> SUFFICES ASSUME UNCHANGED data PROVE Described' <=> Described
  OBVIOUS
<1>1. constCount' = constCount /\ codeOffset' = codeOffset /\ codeSize' = codeSize
  BY SameHeader
<1>2. PoolEnd(constCount)' = PoolEnd(constCount)
  BY <1>1, SamePoolEnd
<1> QED
  BY <1>1, <1>2 DEF Described

LEMMA RefusedHeader ==
    ASSUME TypeOK, ~HeaderOK
    PROVE  ~Described
<1> SUFFICES ASSUME Described PROVE FALSE
  OBVIOUS
<1>1. Len(data) >= FlxHeaderSize
  BY DEF Described
<1>2. codeEnd \in Nat /\ codeOffset \in Nat /\ codeSize \in Nat /\ codeEnd <= codeOffset + codeSize
  BY <1>1, HeaderNumbers
<1>3. Len(data) \in Nat
  BY PaddedFacts
<1>4. ~(codeEnd > Len(data))
  BY <1>2, <1>3 DEF Described
<1> QED
  BY <1>4 DEF HeaderOK, Described, Extends

LEMMA RefusedConstant ==
    ASSUME LoadInv, RefuseConstant
    PROVE  ~Described
<1> SUFFICES ASSUME Described PROVE FALSE
  OBVIOUS
<1>1. /\ pc = "pool" /\ TypeOK /\ Parsed /\ Len(consts) < constCount /\ ~ConstantFits
  BY DEF LoadInv, RefuseConstant
<1>2. /\ Len(data) >= FlxHeaderSize /\ codeOffset \in Nat /\ codeSize \in Nat
      /\ constCount \in Nat /\ Len(data) \in Nat
  BY <1>1, HeaderNumbers, PaddedFacts DEF Described
<1>3. codeOffset <= Len(data)
  BY <1>2 DEF Described
<1>4. consts \in Seq(Bytes) /\ Len(consts) \in Nat
  BY <1>1 DEF TypeOK
<1> DEFINE k == Len(consts) + 1
<1>5. PoolEnd(k) = PoolStep[cursor]
  <2>1. k \in 1 .. constCount /\ k - 1 = Len(consts)
    BY <1>1, <1>2, <1>4
  <2>2. PoolEnd(k) = PoolStep[PoolEnd(k - 1)]
    BY <1>1, <1>2, <1>3, <2>1, PoolEndFacts
  <2> QED
    BY <1>1, <1>3, <2>1, <2>2 DEF Parsed
<1>6. cursor \in Nat
  <2>1. encodeConstantPool(consts) \in Bytes
    BY <1>4, PoolFacts
  <2> QED
    BY <2>1 DEF cursor, Bytes, FlxHeaderSize
<1>7. PoolEnd(k) > codeOffset
  <2>1. CASE cursor + 4 <= codeOffset
    <3>1. Body = cursor + 4 /\ BodyLen = Uint32(data, cursor + 1) /\ BodyLen \in Nat
      BY <1>1, <1>3, <2>1, ConstantAt DEF Body
    <3>2. Body + BodyLen > codeOffset
      BY <1>1, <1>2, <1>6, <2>1, <3>1 DEF ConstantFits
    <3> QED
      BY <1>5, <1>6, <2>1, <3>1, <3>2 DEF PoolStep
  <2>2. CASE ~(cursor + 4 <= codeOffset)
    BY <1>2, <1>5, <1>6, <2>2 DEF PoolStep
  <2> QED
    BY <2>1, <2>2
<1>8. PoolEnd(constCount) > codeOffset
  <2>1. k \in 0 .. constCount
    BY <1>1, <1>2, <1>4
  <2> QED
    BY <1>1, <1>2, <1>3, <1>7, <2>1, PoolEndPast
<1>9. PoolEnd(constCount) \in Nat
  <2>1. constCount \in 0 .. constCount
    BY <1>2
  <2> QED
    BY <1>1, <1>2, <1>3, <2>1, PoolEndFacts
<1> QED
  BY <1>2, <1>8, <1>9 DEF Described

(* What is copied is what the file describes. *)
LEMMA Copied ==
    ASSUME LoadInv, CopyCode
    PROVE  /\ Described
           /\ code' = SubSeq(data, codeOffset + 1, codeOffset + codeSize)
           /\ Len(code') = codeSize
           /\ Prefix(FlxMagic \o SubSeq(data, 5, FlxHeaderSize)
                     \o encodeConstantPool(consts), SubSeq(data, 1, codeOffset))
<1>1. /\ pc = "pool" /\ TypeOK /\ Parsed /\ Len(consts) = constCount
      /\ SliceOK(codeOffset, codeEnd) /\ HeaderOK
      /\ code' = Slice(codeOffset, codeEnd)
  BY DEF LoadInv, CopyCode, Parsed
<1>2. Len(data) >= FlxHeaderSize
  BY <1>1 DEF HeaderOK
<1>3. /\ codeOffset \in Nat /\ codeSize \in Nat /\ codeEnd \in Nat /\ constCount \in Nat
      /\ codeEnd = codeOffset + codeSize
  BY <1>1, <1>2, HeaderNumbers DEF SliceOK
<1>4. /\ Padded \in Bytes /\ Len(data) \in Nat /\ slack \in Nat /\ data \in Bytes
      /\ \A k \in 1 .. Len(data) : Padded[k] = data[k]
  BY <1>1, PaddedFacts DEF TypeOK
<1>5. codeOffset + codeSize <= Len(data) /\ codeOffset <= Len(data)
  BY <1>1, <1>3, <1>4 DEF HeaderOK, Extends
<1>6. Described
  <2>1. PoolEnd(constCount) <= codeOffset
    BY <1>1, <1>5 DEF Parsed
  <2>2. codeOffset >= FlxHeaderSize
    BY <1>1, <1>3 DEF Parsed, SliceOK, FlxHeaderSize
  <2>3. SubSeq(data, 1, 4) = FlxMagic /\ data[5] = FlxVersion
    BY <1>1 DEF HeaderOK
  <2> QED
    BY <1>2, <1>5, <2>1, <2>2, <2>3 DEF Described
<1> DEFINE s == Slice(codeOffset, codeEnd)
           t == SubSeq(data, codeOffset + 1, codeOffset + codeSize)
<1>7. /\ s \in Bytes /\ Len(s) = codeSize
      /\ \A k \in 1 .. codeSize : s[k] = Padded[codeOffset + k]
  <2>1. codeEnd - codeOffset = codeSize
    BY <1>3
  <2> QED
    BY <1>1, <1>3, <2>1, SliceFacts
<1>8. /\ t \in Bytes /\ Len(t) = codeSize
      /\ \A k \in 1 .. codeSize : t[k] = data[codeOffset + k]
  BY <1>3, <1>4, <1>5, PartFacts
<1>9. s = t
  <2>1. \A k \in 1 .. codeSize : s[k] = t[k]
    <3>1. \A k \in 1 .. codeSize : codeOffset + k \in 1 .. Len(data)
      BY <1>3, <1>5
    <3> QED
      BY <1>4, <1>7, <1>8, <3>1
  <2> HIDE DEF s, t
  <2> QED
    BY <1>7, <1>8, <2>1, SeqEqual DEF Bytes
<1>10. code' = t /\ Len(code') = codeSize
  BY <1>1, <1>7, <1>9
<1> DEFINE pool == encodeConstantPool(consts)
           h == FlxMagic \o SubSeq(data, 5, FlxHeaderSize)
           front == SubSeq(data, 1, codeOffset)
<1>11. pool \in Bytes
  BY <1>1, PoolFacts DEF TypeOK
<1>12. /\ front \in Bytes /\ Len(front) = codeOffset
       /\ \A k \in 1 .. codeOffset : front[k] = data[k]
  BY <1>3, <1>4, <1>5 DEF Bytes
<1>13. /\ h \in Bytes /\ Len(h) = 15
       /\ \A k \in 1 .. 15 : h[k] = data[k]
  <2> DEFINE m == SubSeq(data, 1, 4)
             r == SubSeq(data, 5, 15)
  <2>1. /\ m \in Bytes /\ Len(m) = 4 /\ \A k \in 1 .. 4 : m[k] = data[k]
    BY <1>2, <1>4 DEF Bytes, FlxHeaderSize
  <2>2. r \in Bytes /\ Len(r) = 11 /\ \A k \in 1 .. 11 : r[k] = data[4 + k]
    <3>1. PICK lo \in Nat, n \in Nat : lo = 4 /\ n = 11
      OBVIOUS
    <3>2. r = SubSeq(data, lo + 1, lo + n) /\ lo + n <= Len(data)
      BY <1>2, <3>1 DEF FlxHeaderSize
    <3> HIDE DEF r
    <3>3. r \in Bytes /\ Len(r) = n /\ \A k \in 1 .. n : r[k] = data[lo + k]
      BY <1>4, <3>2, PartFacts
    <3> QED
      BY <3>1, <3>3
  <2>3. h = m \o r
    BY <1>1 DEF HeaderOK, FlxHeaderSize
  <2> HIDE DEF h, m, r
  <2>4. /\ h \in Bytes /\ Len(h) = Len(m) + Len(r)
        /\ \A k \in 1 .. Len(m) : h[k] = m[k]
        /\ \A k \in 1 .. Len(r) : h[Len(m) + k] = r[k]
    BY <2>1, <2>2, <2>3, Joined
  <2>5. ASSUME NEW k \in 1 .. 15 PROVE h[k] = data[k]
    <3>1. k \in 1 .. 4 \/ (k - 4 \in 1 .. 11 /\ 4 + (k - 4) = k)
      OBVIOUS
    <3> QED
      BY <2>1, <2>2, <2>4, <3>1
  <2> QED
    BY <2>1, <2>2, <2>4, <2>5
<1>14. Prefix(h \o pool, front)
  <2> HIDE DEF h, pool, front
  <2> DEFINE w == h \o pool
  <2>1. /\ w \in Bytes /\ Len(w) = Len(h) + Len(pool) /\ Len(pool) \in Nat
        /\ \A k \in 1 .. Len(h) : w[k] = h[k]
        /\ \A k \in 1 .. Len(pool) : w[Len(h) + k] = pool[k]
    BY <1>11, <1>13, Joined
  <2> HIDE DEF w
  <2>2. /\ Len(w) <= codeOffset
        /\ \A k \in 1 .. Len(pool) : Padded[15 + k] = pool[k]
    BY <1>1, <1>13, <2>1 DEF Parsed, cursor, pool, FlxHeaderSize
  <2>3. ASSUME NEW k \in 1 .. Len(w) PROVE w[k] = front[k]
    <3>1. k \in 1 .. codeOffset /\ k \in 1 .. Len(data)
      BY <1>3, <1>4, <1>5, <2>1, <2>2
    <3>2. CASE k \in 1 .. 15
      BY <1>12, <1>13, <2>1, <3>1, <3>2
    <3>3. CASE k - 15 \in 1 .. Len(pool) /\ 15 + (k - 15) = k
      <4>1. w[k] = pool[k - 15]
        BY <1>13, <2>1, <3>3
      <4>2. Padded[k] = pool[k - 15]
        BY <2>2, <3>3
      <4> QED
        BY <1>4, <1>12, <3>1, <4>1, <4>2
    <3>4. k \in 1 .. 15 \/ (k - 15 \in 1 .. Len(pool) /\ 15 + (k - 15) = k)
      BY <1>13, <2>1
    <3> QED
      BY <3>2, <3>3, <3>4
  <2>4. w = SubSeq(front, 1, Len(w))
    <3> DEFINE v == SubSeq(front, 1, Len(w))
    <3>1. /\ v \in Bytes /\ Len(v) = Len(w) /\ \A k \in 1 .. Len(w) : v[k] = front[k]
      BY <1>3, <1>12, <2>1, <2>2 DEF Bytes
    <3> HIDE DEF v
    <3>2. \A k \in 1 .. Len(w) : w[k] = v[k]
      BY <2>3, <3>1
    <3>3. w = v
      BY <2>1, <3>1, <3>2, SeqEqual DEF Bytes
    <3> QED
      BY <3>3 DEF v
  <2> QED
    BY <1>12, <2>2, <2>4 DEF Prefix, w
<1> QED
  BY <1>6, <1>10, <1>14

LEMMA LoadsNext == LoadInv /\ LoadsAsDescribed /\ [Next]_vars => LoadsAsDescribed'
<1> SUFFICES ASSUME LoadInv, LoadsAsDescribed, [Next]_vars, pc' \in Ends, Len(data') < Word
             PROVE  LoadsAsDescribed'
  BY DEF LoadsAsDescribed, Ends
<1>1. Len(data) \in Nat /\ Word \in Nat
  BY PaddedFacts, HalfWord DEF LoadInv
<1>2. CASE pc' = pc /\ UNCHANGED <<data, consts, code, slack>>
  BY <1>2, SameHeader, SameDescribed DEF LoadsAsDescribed, Ends
<1>3. CASE RefuseHeader \/ RefuseConstant \/ PanicOnPool \/ PanicOnCode
  <2>1. UNCHANGED data /\ pc' # "loaded"
    BY <1>3 DEF RefuseHeader, RefuseConstant, PanicOnPool, PanicOnCode, End
  <2>2. ~Described
    <3>1. ASSUME RefuseHeader PROVE ~Described
      BY <3>1, RefusedHeader DEF RefuseHeader, LoadInv
    <3>2. ASSUME PanicOnPool \/ PanicOnCode PROVE ~Described
      BY <1>1, <2>1, <3>2, Panicking
    <3> QED
      BY <1>3, <3>1, <3>2, RefusedConstant
  <2> QED
    BY <2>1, <2>2, SameDescribed DEF LoadsAsDescribed
<1>4. CASE CopyCode
  <2>1. UNCHANGED <<data, consts>> /\ Len(consts) = constCount
    BY <1>4 DEF CopyCode
  <2> QED
    BY <1>4, <2>1, Copied, SameHeader, SameDescribed DEF LoadsAsDescribed, CopyCode
<1> QED
  BY <1>2, <1>3, <1>4, Ending

(* Whatever the bytes read are, exactly the files of the format are        *)
(* loaded, and as they say (cpu.go:104-157). *)
THEOREM LoaderExact == Spec => []LoadsAsDescribed
<1>1. Init => LoadsAsDescribed
  BY DEF Init, LoadsAsDescribed, Ends
<1> QED
  BY <1>1, LoadInit, LoadNext, LoadsNext, PTL DEF Spec

-----------------------------------------------------------------------------
(* What a file that was read while a compiler wrote it can be. *)

LEMMA PrefixIff ==
    ASSUME NEW s \in Bytes, NEW t \in Bytes
    PROVE  Prefix(s, t) <=> /\ Len(s) <= Len(t)
                            /\ \A k \in 1 .. Len(s) : s[k] = t[k]
<1> SUFFICES ASSUME Len(s) <= Len(t)
             PROVE  s = SubSeq(t, 1, Len(s)) <=> \A k \in 1 .. Len(s) : s[k] = t[k]
  BY DEF Prefix
<1> DEFINE u == SubSeq(t, 1, Len(s))
<1>1. /\ u \in Bytes /\ Len(u) = Len(s)
      /\ \A k \in 1 .. Len(s) : u[k] = t[k]
  BY DEF Bytes
<1> HIDE DEF u
<1>2. (\A k \in 1 .. Len(s) : s[k] = u[k]) => s = u
  BY <1>1, SeqEqual DEF Bytes
<1>3. s = u <=> \A k \in 1 .. Len(s) : s[k] = t[k]
  BY <1>1, <1>2
<1> QED
  BY <1>3 DEF u

LEMMA PrefixFacts ==
    ASSUME NEW s \in Bytes, NEW t \in Bytes, NEW u \in Bytes
    PROVE  /\ Prefix(s, s) /\ Prefix(<<>>, s)
           /\ Prefix(s, s \o t)
           /\ Prefix(s, t) /\ Prefix(t, u) => Prefix(s, u)
           /\ Prefix(s, t) /\ Len(t) <= Len(s) => s = t
<1>1. Len(s) \in Nat /\ Len(t) \in Nat /\ Len(u) \in Nat /\ <<>> \in Bytes
  BY DEF Bytes
<1>2. Prefix(s, s)
  BY <1>1, PrefixIff
<1>3. Prefix(<<>>, s)
  <2>1. Len(<<>>) = 0 /\ 1 .. 0 = {}
    OBVIOUS
  <2> QED
    BY <1>1, <2>1, PrefixIff
<1>4. Prefix(s, s \o t)
  <2>1. /\ s \o t \in Bytes /\ Len(s \o t) = Len(s) + Len(t)
        /\ \A k \in 1 .. Len(s) : (s \o t)[k] = s[k]
    BY Joined
  <2> DEFINE w == s \o t
  <2>2. w \in Bytes /\ Len(s) <= Len(w) /\ \A k \in 1 .. Len(s) : s[k] = w[k]
    BY <1>1, <2>1
  <2> HIDE DEF w
  <2>3. Prefix(s, w)
    BY <2>2, PrefixIff
  <2> QED
    BY <2>3 DEF w
<1>5. ASSUME Prefix(s, t), Prefix(t, u) PROVE Prefix(s, u)
  <2>1. /\ Len(s) <= Len(t) /\ \A k \in 1 .. Len(s) : s[k] = t[k]
        /\ Len(t) <= Len(u) /\ \A k \in 1 .. Len(t) : t[k] = u[k]
    BY <1>5, PrefixIff
  <2>2. Len(s) <= Len(u) /\ \A k \in 1 .. Len(s) : s[k] = u[k]
    BY <1>1, <2>1
  <2> QED
    BY <2>2, PrefixIff
<1>6. ASSUME Prefix(s, t), Len(t) <= Len(s) PROVE s = t
  <2>1. Len(s) = Len(t) /\ \A k \in 1 .. Len(s) : s[k] = t[k]
    BY <1>1, <1>6, PrefixIff
  <2> QED
    BY <2>1, SeqEqual DEF Bytes
<1> QED
  BY <1>2, <1>3, <1>4, <1>5, <1>6

(* The pool of the first constants, and of one more of them. *)
LEMMA PoolNext ==
    ASSUME NEW cs \in Seq(Bytes), NEW n \in Nat, n < Len(cs)
    PROVE  /\ SubSeq(cs, 1, n) \in Seq(Bytes) /\ cs[n + 1] \in Bytes
           /\ SubSeq(cs, 1, n + 1) = Append(SubSeq(cs, 1, n), cs[n + 1])
           /\ encodeConstantPool(SubSeq(cs, 1, n + 1)) =
                  Added(encodeConstantPool(SubSeq(cs, 1, n)), cs[n + 1])
<1>1. SubSeq(cs, 1, n) \in Seq(Bytes) /\ cs[n + 1] \in Bytes /\ Len(SubSeq(cs, 1, n)) = n
  OBVIOUS
<1>2. SubSeq(cs, 1, n + 1) = Append(SubSeq(cs, 1, n), cs[n + 1])
  OBVIOUS
<1> QED
  BY <1>1, <1>2, PoolFacts

LEMMA PoolPrefix ==
    ASSUME NEW cs \in Seq(Bytes), NEW n \in 0 .. Len(cs)
    PROVE  /\ encodeConstantPool(SubSeq(cs, 1, n)) \in Bytes
           /\ Prefix(encodeConstantPool(SubSeq(cs, 1, n)), encodeConstantPool(cs))
<1> DEFINE Pool(k) == encodeConstantPool(SubSeq(cs, 1, k))
           T == {m \in Nat : n + m <= Len(cs) => Prefix(Pool(n), Pool(n + m))}
<1>1. Len(cs) \in Nat /\ n \in Nat
  OBVIOUS
<1>2. \A k \in 0 .. Len(cs) : Pool(k) \in Bytes
  <2>1. \A k \in 0 .. Len(cs) : SubSeq(cs, 1, k) \in Seq(Bytes)
    OBVIOUS
  <2> QED
    BY <2>1, PoolFacts
<1>3. 0 \in T
  <2>1. n + 0 = n /\ Prefix(Pool(n), Pool(n))
    BY <1>2, PrefixFacts
  <2> QED
    BY <2>1
<1>4. ASSUME NEW m \in Nat, m \in T PROVE m + 1 \in T
  <2> SUFFICES ASSUME n + (m + 1) <= Len(cs) PROVE Prefix(Pool(n), Pool(n + (m + 1)))
    OBVIOUS
  <2> DEFINE i == n + m
  <2>1. i \in Nat /\ i < Len(cs) /\ n + (m + 1) = i + 1 /\ Prefix(Pool(n), Pool(i))
    BY <1>1, <1>4
  <2>2. /\ i \in 0 .. Len(cs) /\ i + 1 \in 0 .. Len(cs)
    BY <1>1, <2>1
  <2> HIDE DEF i
  <2>3. Pool(i + 1) = Added(Pool(i), cs[i + 1]) /\ cs[i + 1] \in Bytes
    BY <2>1, PoolNext
  <2>4. Pool(i) \in Bytes /\ Pool(i + 1) \in Bytes /\ Pool(n) \in Bytes
    BY <1>2, <2>2
  <2> HIDE DEF Pool
  <2>5. /\ Len(Pool(i)) <= Len(Pool(i + 1))
        /\ \A j \in 1 .. Len(Pool(i)) : Pool(i)[j] = Pool(i + 1)[j]
    <3> DEFINE x == Pool(i)
               y == Added(x, cs[i + 1])
    <3>1. x \in Bytes /\ cs[i + 1] \in Bytes
      BY <2>3, <2>4
    <3> HIDE DEF x
    <3>2. /\ Len(x) \in Nat /\ Len(cs[i + 1]) \in Nat
          /\ Len(y) = Len(x) + 4 + Len(cs[i + 1])
          /\ \A j \in 1 .. Len(x) : y[j] = x[j]
      BY <3>1, AddedBytes
    <3>3. y = Pool(i + 1)
      BY <2>3 DEF x
    <3> HIDE DEF y
    <3>4. Len(x) <= Len(y)
      <4>1. \A a, b \in Nat : a <= a + 4 + b
        OBVIOUS
      <4> QED
        BY <3>2, <4>1
    <3> QED
      BY <3>2, <3>3, <3>4 DEF x
  <2>6. Prefix(Pool(i), Pool(i + 1))
    BY <2>4, <2>5, PrefixIff
  <2> QED
    BY <2>1, <2>4, <2>6, PrefixFacts
<1>5. Nat \subseteq T
  <2> HIDE DEF T
  <2> QED
    BY <1>3, <1>4, SetInduction
<1>6. PICK m \in Nat : n + m = Len(cs)
  <2>1. Len(cs) - n \in Nat /\ n + (Len(cs) - n) = Len(cs)
    BY <1>1
  <2> QED
    BY <2>1
<1>7. Prefix(Pool(n), Pool(Len(cs)))
  <2>1. m \in T
    <3> HIDE DEF T
    <3> QED
      BY <1>5
  <2> QED
    BY <1>1, <1>6, <2>1
<1>8. SubSeq(cs, 1, Len(cs)) = cs
  BY SubSeqFull
<1>9. Pool(n) \in Bytes
  BY <1>2
<1> QED
  BY <1>7, <1>8, <1>9

(* A compiled file, part for part. *)
LEMMA ImageBytes ==
    ASSUME NEW p \in Images
    PROVE  /\ p.consts \in Seq(Bytes) /\ p.code \in Bytes
           /\ encodeConstantPool(p.consts) \in Bytes
           /\ Binary(p) \in Bytes
           /\ Len(Binary(p)) = 15 + Len(encodeConstantPool(p.consts)) + Len(p.code)
           /\ \A k \in 1 .. 4 : Binary(p)[k] = FlxMagic[k]
           /\ Binary(p)[5] = FlxVersion
           /\ \A k \in 1 .. 2 : Binary(p)[5 + k] = U16(Len(p.consts))[k]
           /\ \A k \in 1 .. 4 : Binary(p)[7 + k] =
                                    U32(15 + Len(encodeConstantPool(p.consts)))[k]
           /\ \A k \in 1 .. 4 : Binary(p)[11 + k] = U32(Len(p.code))[k]
           /\ \A k \in 1 .. Len(encodeConstantPool(p.consts)) :
                  Binary(p)[15 + k] = encodeConstantPool(p.consts)[k]
           /\ \A k \in 1 .. Len(p.code) :
                  Binary(p)[15 + Len(encodeConstantPool(p.consts)) + k] = p.code[k]
<1> DEFINE pool == encodeConstantPool(p.consts)
           a == FlxMagic
           b == <<FlxVersion>>
           c == U16(Len(p.consts))
           d == U32(15 + Len(pool))
           e == U32(Len(p.code))
           ab == a \o b
           abc == ab \o c
           abcd == abc \o d
           head == abcd \o e
           front == head \o pool
           B == front \o p.code
<1>1. p.consts \in Seq(Bytes) /\ p.code \in Bytes
  BY FlxAssumption
<1>2. pool \in Bytes
  BY <1>1, PoolFacts
<1>3. B = Binary(p)
  BY DEF Binary, FlxHeaderSize
<1> HIDE DEF pool
<1>4. Len(p.consts) \in Nat /\ Len(pool) \in Nat /\ Len(p.code) \in Nat
  BY <1>1, <1>2 DEF Bytes
<1>5. a \in Bytes /\ Len(a) = 4
  BY FlxAssumption
<1>6. b \in Bytes /\ Len(b) = 1 /\ b[1] = FlxVersion
  BY FlxAssumption DEF Bytes, Byte, FlxVersion
<1>7. c \in Bytes /\ Len(c) = 2
  BY <1>4, U16Facts
<1>8. d \in Bytes /\ Len(d) = 4
  <2>1. 15 + Len(pool) \in Nat
    BY <1>4
  <2> QED
    BY <2>1, U32Facts
<1>9. e \in Bytes /\ Len(e) = 4
  BY <1>4, U32Facts
<1> HIDE DEF a, b, c, d, e
<1>10. /\ ab \in Bytes /\ Len(ab) = 5
       /\ \A k \in 1 .. 4 : ab[k] = a[k]
       /\ ab[5] = FlxVersion
  <2>1. /\ ab \in Bytes /\ Len(ab) = Len(a) + Len(b)
        /\ \A k \in 1 .. Len(a) : ab[k] = a[k]
        /\ \A k \in 1 .. Len(b) : ab[Len(a) + k] = b[k]
    BY <1>5, <1>6, Joined
  <2> HIDE DEF ab
  <2>2. 4 + 1 = 5 /\ 1 \in 1 .. 1
    OBVIOUS
  <2> QED
    BY <1>5, <1>6, <2>1, <2>2
<1> HIDE DEF ab
<1>11. /\ abc \in Bytes /\ Len(abc) = 7
       /\ \A k \in 1 .. 5 : abc[k] = ab[k]
       /\ \A k \in 1 .. 2 : abc[5 + k] = c[k]
  <2>1. /\ abc \in Bytes /\ Len(abc) = Len(ab) + Len(c)
        /\ \A k \in 1 .. Len(ab) : abc[k] = ab[k]
        /\ \A k \in 1 .. Len(c) : abc[Len(ab) + k] = c[k]
    BY <1>7, <1>10, Joined
  <2> HIDE DEF abc
  <2> QED
    BY <1>7, <1>10, <2>1
<1> HIDE DEF abc
<1>12. /\ abcd \in Bytes /\ Len(abcd) = 11
       /\ \A k \in 1 .. 7 : abcd[k] = abc[k]
       /\ \A k \in 1 .. 4 : abcd[7 + k] = d[k]
  <2>1. /\ abcd \in Bytes /\ Len(abcd) = Len(abc) + Len(d)
        /\ \A k \in 1 .. Len(abc) : abcd[k] = abc[k]
        /\ \A k \in 1 .. Len(d) : abcd[Len(abc) + k] = d[k]
    BY <1>8, <1>11, Joined
  <2> HIDE DEF abcd
  <2> QED
    BY <1>8, <1>11, <2>1
<1> HIDE DEF abcd
<1>13. /\ head \in Bytes /\ Len(head) = 15
       /\ \A k \in 1 .. 11 : head[k] = abcd[k]
       /\ \A k \in 1 .. 4 : head[11 + k] = e[k]
  <2>1. /\ head \in Bytes /\ Len(head) = Len(abcd) + Len(e)
        /\ \A k \in 1 .. Len(abcd) : head[k] = abcd[k]
        /\ \A k \in 1 .. Len(e) : head[Len(abcd) + k] = e[k]
    BY <1>9, <1>12, Joined
  <2> HIDE DEF head
  <2> QED
    BY <1>9, <1>12, <2>1
<1> HIDE DEF head
<1>14. /\ front \in Bytes /\ Len(front) = 15 + Len(pool)
       /\ \A k \in 1 .. 15 : front[k] = head[k]
       /\ \A k \in 1 .. Len(pool) : front[15 + k] = pool[k]
  <2>1. /\ front \in Bytes /\ Len(front) = Len(head) + Len(pool)
        /\ \A k \in 1 .. Len(head) : front[k] = head[k]
        /\ \A k \in 1 .. Len(pool) : front[Len(head) + k] = pool[k]
    BY <1>2, <1>13, Joined
  <2> HIDE DEF front
  <2> QED
    BY <1>13, <2>1
<1> HIDE DEF front
<1>15. /\ B \in Bytes /\ Len(B) = 15 + Len(pool) + Len(p.code)
       /\ \A k \in 1 .. (15 + Len(pool)) : B[k] = front[k]
       /\ \A k \in 1 .. Len(p.code) : B[15 + Len(pool) + k] = p.code[k]
  <2>1. /\ B \in Bytes /\ Len(B) = Len(front) + Len(p.code)
        /\ \A k \in 1 .. Len(front) : B[k] = front[k]
        /\ \A k \in 1 .. Len(p.code) : B[Len(front) + k] = p.code[k]
    BY <1>1, <1>14, Joined
  <2> HIDE DEF B
  <2> QED
    BY <1>14, <2>1
<1> HIDE DEF B
<1>16. \A k \in 1 .. 15 : B[k] = head[k]
  <2>1. \A k \in 1 .. 15 : k \in 1 .. (15 + Len(pool))
    BY <1>4
  <2> QED
    BY <1>14, <1>15, <2>1
<1>17. \A k \in 1 .. Len(pool) : B[15 + k] = pool[k]
  <2>1. \A k \in 1 .. Len(pool) : 15 + k \in 1 .. (15 + Len(pool))
    BY <1>4
  <2> QED
    BY <1>14, <1>15, <2>1
<1>18. \A k \in 1 .. 4 : B[11 + k] = e[k]
  BY <1>13, <1>16
<1>19. \A k \in 1 .. 11 : B[k] = abcd[k]
  BY <1>13, <1>16
<1>20. \A k \in 1 .. 4 : B[7 + k] = d[k]
  BY <1>12, <1>19
<1>21. \A k \in 1 .. 7 : B[k] = abc[k]
  BY <1>12, <1>19
<1>22. \A k \in 1 .. 2 : B[5 + k] = c[k]
  BY <1>11, <1>21
<1>23. \A k \in 1 .. 5 : B[k] = ab[k]
  BY <1>11, <1>21
<1>24. (\A k \in 1 .. 4 : B[k] = a[k]) /\ B[5] = FlxVersion
  BY <1>10, <1>23
<1> QED
  BY <1>1, <1>2, <1>3, <1>15, <1>17, <1>18, <1>20, <1>22, <1>24 DEF pool, a, c, d, e

(***************************************************************************)
(* The file is the one found or the beginning of a compiled one. Unless    *)
(* it was truncated with bytes already read, what was read is the          *)
(* beginning of it, and, once the end was met, the file found or the       *)
(* beginning of a compiled one. A loader past the header has accepted it,  *)
(* and goes through a whole compiled file constant by constant.            *)
(***************************************************************************)
Written(s) == \E p \in Images : Prefix(s, Binary(p))

Follows(p) ==
    /\ pc \notin {"refused", "panicked"}
    /\ pc = "pool" => /\ Len(consts) <= Len(p.consts)
                      /\ consts = SubSeq(p.consts, 1, Len(consts))
    /\ pc = "loaded" => consts = p.consts /\ code = p.code

ReadInv ==
    /\ (disk = found /\ pending = <<>>) \/ Written(disk \o pending)
    /\ pc = "reading" /\ ~torn => Prefix(data, disk)
    /\ pc \notin {"start", "reading"} /\ ~torn => data = found \/ Written(data)

Describable(p) == p \in Images /\ FitsWord(p) /\ FitsCount(p) /\ data = Binary(p)

WholeInv ==
    /\ pc \in {"pool", "loaded", "panicked"} => HeaderOK
    /\ pc \notin {"start", "reading"} => \A p \in Images : Describable(p) => Follows(p)

(* The header of a file that begins as a compiled one does. *)
LEMMA ImageHeader ==
    ASSUME TypeOK, NEW p \in Images, FitsWord(p), Prefix(data, Binary(p)),
           Len(data) >= FlxHeaderSize
    PROVE  /\ SubSeq(data, 1, 4) = FlxMagic /\ data[5] = FlxVersion
           /\ constCount = Len(p.consts) % (Base * Base)
           /\ codeOffset = FlxHeaderSize + Len(encodeConstantPool(p.consts))
           /\ codeSize = Len(p.code)
           /\ codeEnd = Len(Binary(p)) /\ codeEnd = codeOffset + codeSize
<1> DEFINE pool == encodeConstantPool(p.consts)
           B == Binary(p)
           n == Len(p.consts)
           q == Len(pool)
           o == 15 + q
           z == Len(p.code)
<1>1. /\ p.consts \in Seq(Bytes) /\ p.code \in Bytes /\ pool \in Bytes /\ B \in Bytes
      /\ Len(B) = o + z
      /\ \A k \in 1 .. 4 : B[k] = FlxMagic[k]
      /\ B[5] = FlxVersion
      /\ \A k \in 1 .. 2 : B[5 + k] = U16(n)[k]
      /\ \A k \in 1 .. 4 : B[7 + k] = U32(o)[k]
      /\ \A k \in 1 .. 4 : B[11 + k] = U32(z)[k]
  BY ImageBytes
<1>2. Len(B) < Word
  BY DEF FitsWord
<1>3. n \in Nat /\ q \in Nat /\ z \in Nat /\ Word \in Nat /\ Len(B) = 15 + q + z
  <2>1. p.consts \in Seq(Bytes) /\ p.code \in Seq(Byte) /\ pool \in Seq(Byte)
    BY <1>1 DEF Bytes
  <2> HIDE DEF pool
  <2>2. n \in Nat /\ q \in Nat /\ z \in Nat
    BY <2>1
  <2> QED
    BY <1>1, <2>2, HalfWord
<1>4. data \in Bytes /\ Len(data) >= 15 /\ Len(data) \in Nat
  BY DEF TypeOK, FlxHeaderSize, Bytes
<1>5. \A k \in 1 .. Len(data) : data[k] = B[k]
  <2>1. Prefix(data, B)
    OBVIOUS
  <2> HIDE DEF B
  <2> QED
    BY <1>1, <1>4, <2>1, PrefixIff
<1> HIDE DEF B
<1>6. \A k \in 1 .. 15 : data[k] = B[k]
  BY <1>4, <1>5
<1> HIDE DEF n, q, z
<1>7. o \in Nat /\ o < Word /\ z < Word /\ o + z = Len(B)
  BY <1>2, <1>3
<1> HIDE DEF o
<1>8. data[6] = U16(n)[1] /\ data[7] = U16(n)[2]
  BY <1>1, <1>6
<1>9. /\ data[8] = U32(o)[1] /\ data[9] = U32(o)[2]
      /\ data[10] = U32(o)[3] /\ data[11] = U32(o)[4]
  BY <1>1, <1>6
<1>10. /\ data[12] = U32(z)[1] /\ data[13] = U32(z)[2]
       /\ data[14] = U32(z)[3] /\ data[15] = U32(z)[4]
  BY <1>1, <1>6
<1>11. constCount = n % (Base * Base)
  <2>1. constCount = data[6] * Base + data[7]
    BY DEF constCount, Uint16
  <2>2. U16(n)[1] * Base + U16(n)[2] = n % (Base * Base)
    BY <1>3, U16Facts
  <2> QED
    BY <1>8, <2>1, <2>2
<1>12. codeOffset = o
  <2>1. codeOffset = (data[8] * Base + data[9]) * (Base * Base) + (data[10] * Base + data[11])
    BY DEF codeOffset, Uint32, Uint16
  <2>2. (U32(o)[1] * Base + U32(o)[2]) * (Base * Base) + (U32(o)[3] * Base + U32(o)[4]) = o
    BY <1>7, U32Facts
  <2> QED
    BY <1>9, <2>1, <2>2
<1>13. codeSize = z
  <2>1. codeSize = (data[12] * Base + data[13]) * (Base * Base) + (data[14] * Base + data[15])
    BY DEF codeSize, Uint32, Uint16
  <2>2. (U32(z)[1] * Base + U32(z)[2]) * (Base * Base) + (U32(z)[3] * Base + U32(z)[4]) = z
    BY <1>3, <1>7, U32Facts
  <2> QED
    BY <1>10, <2>1, <2>2
<1>14. codeEnd = Len(B) /\ codeEnd = codeOffset + codeSize
  BY <1>2, <1>7, <1>12, <1>13, HeaderNumbers
<1>15. SubSeq(data, 1, 4) = FlxMagic
  <2> DEFINE m == SubSeq(data, 1, 4)
  <2>1. m \in Bytes /\ Len(m) = 4 /\ \A k \in 1 .. 4 : m[k] = data[k]
    BY <1>4 DEF Bytes
  <2> HIDE DEF m
  <2>2. \A k \in 1 .. 4 : m[k] = FlxMagic[k]
    <3> SUFFICES ASSUME NEW k \in 1 .. 4 PROVE m[k] = FlxMagic[k]
      OBVIOUS
    <3>1. k \in 1 .. 15 /\ B[k] = FlxMagic[k]
      BY <1>1
    <3> QED
      BY <1>6, <2>1, <3>1
  <2>3. m = FlxMagic
    BY <2>1, <2>2, FlxAssumption, SeqEqual DEF Bytes
  <2> QED
    BY <2>3 DEF m
<1>16. data[5] = FlxVersion
  BY <1>1, <1>6
<1> QED
  BY <1>11, <1>12, <1>13, <1>14, <1>15, <1>16 DEF n, o, q, z, B, pool, FlxHeaderSize

(* What is accepted of the beginning of a compiled file is all of it, and  *)
(* all of it is accepted. *)
LEMMA AcceptedWhole ==
    ASSUME TypeOK, NEW p \in Images, FitsWord(p), Prefix(data, Binary(p))
    PROVE  HeaderOK <=> data = Binary(p)
<1>1. data \in Bytes /\ Len(data) \in Nat
  BY DEF TypeOK, Bytes
<1>2. Binary(p) \in Bytes /\ Len(Binary(p)) \in Nat /\ Len(Binary(p)) >= 15
  <2> DEFINE pool == encodeConstantPool(p.consts)
  <2>1. /\ Binary(p) \in Bytes /\ pool \in Bytes /\ p.code \in Bytes
        /\ Len(Binary(p)) = 15 + Len(pool) + Len(p.code)
    BY ImageBytes
  <2> DEFINE a == Len(pool)
             b == Len(p.code)
  <2> HIDE DEF pool
  <2>2. a \in Nat /\ b \in Nat /\ Len(Binary(p)) = 15 + a + b
    BY <2>1 DEF Bytes
  <2> HIDE DEF a, b
  <2>3. 15 + a + b \in Nat /\ 15 + a + b >= 15
    BY <2>2
  <2> QED
    BY <2>1, <2>2, <2>3
<1>3. ASSUME HeaderOK PROVE data = Binary(p)
  <2>1. Len(data) >= FlxHeaderSize /\ ~(codeEnd > Len(data))
    BY <1>3 DEF HeaderOK, Extends
  <2>2. codeEnd = Len(Binary(p))
    BY <2>1, ImageHeader
  <2>3. Len(Binary(p)) <= Len(data)
    BY <1>1, <1>2, <2>1, <2>2
  <2> QED
    BY <1>1, <1>2, <2>3, PrefixFacts
<1>4. ASSUME data = Binary(p) PROVE HeaderOK
  <2>1. Len(data) >= FlxHeaderSize
    BY <1>2, <1>4 DEF FlxHeaderSize
  <2> QED
    BY <1>1, <1>4, <2>1, ImageHeader DEF HeaderOK, Extends
<1> QED
  BY <1>3, <1>4

LEMMA BegunWhole ==
    ASSUME LoadInv, pc = "pool", NEW p \in Images, Describable(p), Follows(p)
    PROVE  /\ constCount = Len(p.consts)
           /\ Len(consts) < Len(p.consts) =>
                 /\ ConstantFits
                 /\ Slice(Body, Body + BodyLen) = p.consts[Len(consts) + 1]
           /\ Len(consts) = Len(p.consts) =>
                 /\ SliceOK(codeOffset, codeEnd)
                 /\ Slice(codeOffset, codeEnd) = p.code
<1> DEFINE pool == encodeConstantPool(p.consts)
           B == Binary(p)
           n == Len(consts)
<1>1. /\ TypeOK /\ Parsed /\ FitsWord(p) /\ data = B
      /\ n <= Len(p.consts) /\ consts = SubSeq(p.consts, 1, n)
  BY DEF LoadInv, Describable, Follows
<1>2. /\ p.consts \in Seq(Bytes) /\ p.code \in Bytes /\ pool \in Bytes /\ B \in Bytes
      /\ Len(B) = 15 + Len(pool) + Len(p.code)
      /\ \A k \in 1 .. Len(pool) : B[15 + k] = pool[k]
      /\ \A k \in 1 .. Len(p.code) : B[15 + Len(pool) + k] = p.code[k]
  BY ImageBytes
<1> DEFINE P == Len(pool)
           Z == Len(p.code)
           L == Len(data)
           C == Len(p.consts)
<1> HIDE DEF B, pool
<1>3. P \in Nat /\ Z \in Nat /\ C \in Nat /\ L = 15 + P + Z
  BY <1>1, <1>2 DEF Bytes
<1>4. n \in Nat /\ n <= C
  <2>1. consts \in Seq(Bytes)
    BY <1>1 DEF TypeOK
  <2> QED
    BY <1>1, <2>1
<1> HIDE DEF P, Z, L, C
<1>5. L \in Nat /\ L >= 15 /\ L < Word /\ Word \in Nat
  BY <1>1, <1>3, HalfWord DEF FitsWord, L, B
<1>6. /\ constCount = C /\ codeOffset = 15 + P
      /\ codeSize = Z /\ codeEnd = L
  <2>1. Len(data) >= FlxHeaderSize
    BY <1>5 DEF FlxHeaderSize, L
  <2>2. Prefix(data, Binary(p))
    BY <1>1, <1>2, PrefixFacts DEF B
  <2>3. /\ constCount = Len(p.consts) % (Base * Base)
        /\ codeOffset = FlxHeaderSize + Len(encodeConstantPool(p.consts))
        /\ codeSize = Len(p.code) /\ codeEnd = Len(Binary(p))
    BY <1>1, <2>1, <2>2, ImageHeader
  <2>4. constCount = C % (Base * Base) /\ C < Base * Base
    BY <2>3 DEF Describable, FitsCount, C
  <2>5. constCount = C
    BY <1>3, <2>4, HalfWord, ModSmall
  <2> QED
    BY <1>1, <2>3, <2>5 DEF P, Z, L, B, pool, FlxHeaderSize
<1>7. /\ slack \in Nat /\ Len(Padded) = L + slack
      /\ \A k \in 1 .. L : Padded[k] = B[k]
      /\ \A k \in 1 .. P : B[15 + k] = pool[k]
      /\ \A k \in 1 .. Z : B[15 + P + k] = p.code[k]
  BY <1>1, <1>2, PaddedFacts DEF L, P, Z
<1>8. ASSUME n < C
      PROVE  ConstantFits /\ Slice(Body, Body + BodyLen) = p.consts[n + 1]
  <2> DEFINE c == p.consts[n + 1]
             x == encodeConstantPool(consts)
             y == encodeConstantPool(SubSeq(p.consts, 1, n + 1))
             X == Len(x)
             K == Len(c)
  <2>1. c \in Bytes /\ y = Added(x, c) /\ x \in Bytes
    BY <1>1, <1>2, <1>4, <1>8, PoolNext, PoolFacts DEF TypeOK, C
  <2>2. y \in Bytes /\ Prefix(y, pool)
    <3>1. n + 1 \in 0 .. Len(p.consts)
      BY <1>3, <1>4, <1>8 DEF C
    <3> QED
      BY <1>2, <3>1, PoolPrefix DEF pool
  <2> HIDE DEF c, x, y
  <2>3. /\ X \in Nat /\ K \in Nat
        /\ Len(y) = X + 4 + K
        /\ \A j \in 1 .. 4 : y[X + j] = U32(K)[j]
        /\ \A j \in 1 .. K : y[X + 4 + j] = c[j]
    BY <2>1, AddedBytes
  <2>4. Len(y) <= P /\ \A k \in 1 .. Len(y) : y[k] = pool[k]
    BY <1>2, <2>2, PrefixIff DEF P
  <2> HIDE DEF X, K
  <2>5. X + 4 + K <= P /\ \A k \in 1 .. (X + 4 + K) : y[k] = pool[k]
    BY <2>3, <2>4
  <2>6. cursor = 15 + X
    BY DEF cursor, x, X, FlxHeaderSize
  <2>7. \A k \in 1 .. (X + 4 + K) : Padded[15 + k] = y[k]
    <3>1. \A k \in 1 .. (X + 4 + K) : k \in 1 .. P /\ 15 + k \in 1 .. L
      BY <1>3, <2>3, <2>5
    <3> QED
      BY <1>7, <2>5, <3>1
  <2>8. Body = cursor + 4 /\ Body <= codeOffset
    <3>1. 15 + X + 4 <= 15 + P
      BY <1>3, <2>3, <2>5
    <3> QED
      BY <1>6, <2>6, <3>1 DEF Body
  <2>9. /\ cursor \in Nat /\ BodyLen \in Nat
        /\ BodyLen = Uint32(data, cursor + 1)
    <3>1. codeOffset <= Len(data)
      BY <1>3, <1>6 DEF L
    <3> QED
      BY <2>8, <3>1, ConstantAt
  <2>10. BodyLen = K
    <3>1. \A j \in 1 .. 4 : data[cursor + j] = U32(K)[j]
      <4>1. \A j \in 1 .. 4 : /\ X + j \in 1 .. (X + 4 + K) /\ 15 + (X + j) = cursor + j
                               /\ cursor + j \in 1 .. L
        BY <1>3, <2>3, <2>5, <2>6
      <4>2. \A j \in 1 .. 4 : Padded[cursor + j] = U32(K)[j]
        BY <2>3, <2>7, <4>1
      <4> QED
        BY <1>1, <1>7, <4>1, <4>2
    <3>2. /\ data[cursor + 1] = U32(K)[1] /\ data[cursor + 2] = U32(K)[2]
          /\ data[cursor + 3] = U32(K)[3] /\ data[cursor + 4] = U32(K)[4]
      BY <3>1
    <3>3. BodyLen = (data[cursor + 1] * Base + data[cursor + 2]) * (Base * Base)
                        + (data[cursor + 3] * Base + data[cursor + 4])
      <4>1. /\ cursor + 1 + 1 = cursor + 2 /\ cursor + 1 + 2 = cursor + 3
            /\ cursor + 1 + 2 + 1 = cursor + 4
        BY <2>9
      <4> QED
        BY <2>9, <4>1 DEF Uint32, Uint16
    <3>4. K < Word
      BY <1>3, <1>5, <2>3, <2>5
    <3>5. (U32(K)[1] * Base + U32(K)[2]) * (Base * Base)
              + (U32(K)[3] * Base + U32(K)[4]) = K
      BY <2>3, <3>4, U32Facts
    <3> QED
      BY <3>2, <3>3, <3>5
  <2>11. Body = 19 + X /\ Body + BodyLen = 19 + X + K
    BY <2>3, <2>6, <2>8, <2>10
  <2>12. ConstantFits
    <3>1. 19 + X + K <= 15 + P
      BY <1>3, <2>3, <2>5
    <3> QED
      BY <1>6, <2>8, <2>11, <3>1 DEF ConstantFits
  <2> DEFINE s == Slice(Body, Body + BodyLen)
  <2>13. /\ s \in Bytes /\ Len(s) = K
         /\ \A k \in 1 .. K : s[k] = Padded[19 + X + k]
    <3>1. SliceOK(Body, Body + BodyLen)
      <4>1. 19 + X <= 19 + X + K /\ 19 + X + K <= L + slack
        BY <1>3, <1>7, <2>3, <2>5
      <4> QED
        BY <2>11, <4>1 DEF SliceOK, L
    <3>2. Body \in Nat /\ Body + BodyLen \in Nat /\ (Body + BodyLen) - Body = K
      BY <2>3, <2>11
    <3> QED
      BY <1>1, <2>11, <3>1, <3>2, SliceFacts
  <2> HIDE DEF s
  <2>14. \A k \in 1 .. K : s[k] = c[k]
    <3> SUFFICES ASSUME NEW k \in 1 .. K PROVE s[k] = c[k]
      OBVIOUS
    <3>1. /\ X + 4 + k \in 1 .. (X + 4 + K)
          /\ 15 + (X + 4 + k) = 19 + X + k
      BY <2>3
    <3>2. Padded[19 + X + k] = y[X + 4 + k]
      BY <2>7, <3>1
    <3>3. y[X + 4 + k] = c[k] /\ s[k] = Padded[19 + X + k]
      BY <2>3, <2>13
    <3> QED
      BY <3>2, <3>3
  <2>15. s = c
    BY <2>1, <2>13, <2>14, SeqEqual DEF Bytes, K
  <2> QED
    BY <2>12, <2>15 DEF s, c
<1>9. SliceOK(codeOffset, codeEnd) /\ Slice(codeOffset, codeEnd) = p.code
  <2>1. SliceOK(codeOffset, codeEnd)
    <3>1. 15 + P <= L /\ L <= L + slack
      BY <1>3, <1>5, <1>7
    <3> QED
      BY <1>6, <3>1 DEF SliceOK, L
  <2>2. codeOffset \in Nat /\ codeEnd \in Nat /\ codeEnd - codeOffset = Z
    BY <1>3, <1>5, <1>6
  <2> DEFINE s == Slice(codeOffset, codeEnd)
  <2>3. /\ s \in Bytes /\ Len(s) = Z
        /\ \A k \in 1 .. Z : s[k] = Padded[codeOffset + k]
    BY <1>1, <2>1, <2>2, SliceFacts
  <2> HIDE DEF s
  <2>4. \A k \in 1 .. Z : s[k] = p.code[k]
    <3>1. \A k \in 1 .. Z : 15 + P + k \in 1 .. L
      BY <1>3
    <3> QED
      BY <1>6, <1>7, <2>3, <3>1
  <2>5. s = p.code
    BY <1>2, <2>3, <2>4, SeqEqual DEF Bytes, Z
  <2> QED
    BY <2>1, <2>5 DEF s
<1> QED
  BY <1>6, <1>8, <1>9 DEF C

HasRead == pc = "reading" /\ data # <<>>

(* The compiler's steps: what is on disk and pending. *)
LEMMA WrittenStep ==
    ASSUME LoadInv, ReadInv,
           \/ \E p \in Images : BeginWrite(p)
           \/ Write
           \/ \E n \in 0 .. (WriteSize - 1) : WriteFails(n)
    PROVE  /\ Written(disk' \o pending')
           /\ torn' \/ (torn' = torn /\ (HasRead => Prefix(disk, disk')))
           /\ torn => torn'
           /\ UNCHANGED <<pc, data, slack, consts, code, found>>
<1>1. /\ disk \in Bytes /\ pending \in Bytes /\ <<>> \in Bytes /\ torn \in BOOLEAN
  BY DEF LoadInv, TypeOK, Bytes
<1>2. ASSUME NEW p \in Images, BeginWrite(p)
      PROVE  /\ Written(disk' \o pending')
             /\ torn' \/ (torn' = torn /\ (HasRead => Prefix(disk, disk')))
             /\ torn => torn'
             /\ UNCHANGED <<pc, data, slack, consts, code, found>>
  <2>1. Binary(p) \in Bytes /\ disk' = <<>> /\ pending' = Binary(p)
    BY <1>2, BinaryBytes DEF BeginWrite
  <2>2. disk' \o pending' = Binary(p)
    BY <2>1, ConcatEmptySeq DEF Bytes
  <2>3. Written(disk' \o pending')
    BY <2>1, <2>2, PrefixFacts DEF Written
  <2> QED
    BY <1>1, <1>2, <2>3 DEF BeginWrite, HasRead
<1>3. ASSUME NEW n \in Nat, NEW r \in Bytes, pending # <<>>,
             disk' = disk \o Piece(pending, n), pending' = r,
             r = SubSeq(pending, n + 1, Len(pending)) \/ r = <<>>,
             UNCHANGED <<torn, pc, data, slack, consts, code, found>>
      PROVE  /\ Written(disk' \o pending')
             /\ torn' \/ (torn' = torn /\ (HasRead => Prefix(disk, disk')))
             /\ torn => torn'
             /\ UNCHANGED <<pc, data, slack, consts, code, found>>
  <2> DEFINE u == Piece(pending, n)
             v == SubSeq(pending, n + 1, Len(pending))
  <2>1. u \in Bytes /\ v \in Bytes /\ u \o v = pending
    BY <1>1, Pieces
  <2> HIDE DEF u, v
  <2>2. disk \o u \in Bytes /\ Prefix(disk, disk \o u)
    BY <1>1, <2>1, PrefixFacts, Joined
  <2>3. (disk \o u) \o v = disk \o pending
    <3>1. \A x \in Bytes : (x \o u) \o v = x \o (u \o v)
      BY <2>1, JoinedThrice
    <3>2. disk \in Bytes
      BY <1>1
    <3>3. (disk \o u) \o v = disk \o (u \o v)
      BY <3>1, <3>2
    <3> QED
      BY <2>1, <3>3
  <2>4. PICK p \in Images : Prefix(disk \o pending, Binary(p))
    BY <1>3 DEF ReadInv, Written
  <2>5. Prefix((disk \o u) \o r, Binary(p))
    <3>1. CASE r = v
      BY <2>3, <2>4, <3>1
    <3>2. CASE r = <<>>
      <4>1. (disk \o u) \o r = disk \o u
        BY <2>2, <3>2, ConcatEmptySeq DEF Bytes
      <4>2. Prefix(disk \o u, (disk \o u) \o v)
        BY <2>1, <2>2, PrefixFacts
      <4>3. disk \o pending \in Bytes /\ Binary(p) \in Bytes
        BY <1>1, Joined, BinaryBytes
      <4>4. Prefix(disk \o u, Binary(p))
        BY <2>2, <2>3, <2>4, <4>2, <4>3, PrefixFacts
      <4> QED
        BY <4>1, <4>4
    <3> QED
      BY <1>3, <3>1, <3>2 DEF v
  <2>6. disk' = disk \o u /\ pending' = r
    BY <1>3 DEF u
  <2>7. Written(disk' \o pending')
    BY <2>5, <2>6 DEF Written
  <2> QED
    BY <1>3, <2>2, <2>6, <2>7
<1>4. ASSUME Write
      PROVE  /\ Written(disk' \o pending')
             /\ torn' \/ (torn' = torn /\ (HasRead => Prefix(disk, disk')))
             /\ torn => torn'
             /\ UNCHANGED <<pc, data, slack, consts, code, found>>
  <2>1. WriteSize \in Nat /\ SubSeq(pending, WriteSize + 1, Len(pending)) \in Bytes
    BY <1>1, FlxAssumption, Pieces
  <2> QED
    BY <1>3, <1>4, <2>1 DEF Write
<1>5. ASSUME NEW n \in 0 .. (WriteSize - 1), WriteFails(n)
      PROVE  /\ Written(disk' \o pending')
             /\ torn' \/ (torn' = torn /\ (HasRead => Prefix(disk, disk')))
             /\ torn => torn'
             /\ UNCHANGED <<pc, data, slack, consts, code, found>>
  <2>1. n \in Nat /\ pending # <<>>
    BY <1>5, FlxAssumption DEF WriteFails
  <2> QED
    BY <1>1, <1>3, <1>5, <2>1 DEF WriteFails
<1> QED
  BY <1>2, <1>4, <1>5

LEMMA ReadNext == LoadInv /\ ReadInv /\ [Next]_vars => ReadInv'
<1> SUFFICES ASSUME LoadInv, ReadInv, [Next]_vars PROVE ReadInv'
  OBVIOUS
<1>1. /\ disk \in Bytes /\ pending \in Bytes /\ data \in Bytes /\ torn \in BOOLEAN
      /\ disk' \in Bytes
  BY LoadNext DEF LoadInv, TypeOK
<1>2. CASE UNCHANGED vars
  BY <1>2 DEF vars, writer, ReadInv, Written
<1>3. CASE \/ \E p \in Images : BeginWrite(p)
           \/ Write
           \/ \E n \in 0 .. (WriteSize - 1) : WriteFails(n)
  <2>1. /\ Written(disk' \o pending')
        /\ torn' \/ (torn' = torn /\ (HasRead => Prefix(disk, disk')))
        /\ torn => torn'
        /\ UNCHANGED <<pc, data, found>>
    BY <1>3, WrittenStep
  <2>2. pc' = "reading" /\ ~torn' => Prefix(data', disk')
    BY <1>1, <2>1, PrefixFacts DEF ReadInv, HasRead
  <2> QED
    BY <2>1, <2>2 DEF ReadInv, Written
<1>4. CASE Open
  <2>1. data = <<>> /\ Prefix(<<>>, disk)
    BY <1>1, <1>4, PrefixFacts DEF LoadInv, Open
  <2> QED
    BY <1>4, <2>1 DEF Open, ReadInv, Written, writer
<1>5. CASE Read
  <2>1. /\ UNCHANGED <<disk, pending, torn, pc, found>> /\ pc = "reading"
        /\ data' = data \o Piece(Unread, ReadSize)
    BY <1>5 DEF Read, writer
  <2>2. ASSUME ~torn PROVE Prefix(data', disk)
    <3>1. Prefix(data, disk) /\ Len(data) \in Nat /\ Len(data) <= Len(disk)
      BY <1>1, <2>1, <2>2 DEF ReadInv, Prefix, Bytes
    <3> DEFINE u == Piece(Unread, ReadSize)
               v == SubSeq(Unread, ReadSize + 1, Len(Unread))
    <3>2. Unread \in Bytes /\ data \o Unread = disk
      <4>1. /\ Piece(disk, Len(data)) \in Bytes
            /\ Unread \in Bytes
            /\ Piece(disk, Len(data)) \o Unread = disk
        BY <1>1, <3>1, Pieces DEF Unread
      <4>2. Piece(disk, Len(data)) = SubSeq(disk, 1, Len(data))
        BY <1>1, <3>1 DEF Piece, Bytes
      <4>3. data = SubSeq(disk, 1, Len(data))
        BY <3>1 DEF Prefix
      <4> QED
        BY <4>1, <4>2, <4>3
    <3>3. u \in Bytes /\ v \in Bytes /\ u \o v = Unread
      BY <3>2, FlxAssumption, Pieces
    <3> HIDE DEF u, v
    <3>4. (data \o u) \o v = disk /\ data \o u \in Bytes
      <4>1. (data \o u) \o v = data \o (u \o v)
        BY <1>1, <3>3, JoinedThrice
      <4>2. data \o u \in Bytes
        BY <1>1, <3>3, Joined
      <4> QED
        BY <3>2, <3>3, <4>1, <4>2
    <3>5. Prefix(data \o u, disk)
      BY <3>3, <3>4, PrefixFacts
    <3> QED
      BY <2>1, <3>5 DEF u
  <2> QED
    BY <2>1, <2>2 DEF ReadInv, Written
<1>6. CASE EndOfFile
  <2>1. /\ UNCHANGED <<disk, pending, torn, data, found>> /\ pc = "reading"
        /\ Unread = <<>> /\ pc' = "header"
    BY <1>6 DEF EndOfFile, writer
  <2>2. ASSUME ~torn PROVE data = found \/ Written(data)
    <3>1. Prefix(data, disk)
      BY <2>1, <2>2 DEF ReadInv
    <3>2. Len(disk) <= Len(data)
      <4> SUFFICES ASSUME ~(Len(disk) <= Len(data)) PROVE FALSE
        OBVIOUS
      <4> DEFINE lo == Len(data)
                 n == Len(disk) - lo
      <4>1. lo \in Nat /\ n \in Nat /\ n > 0 /\ lo + n = Len(disk)
        BY <1>1 DEF Bytes
      <4>2. Unread = SubSeq(disk, lo + 1, lo + n)
        BY <4>1 DEF Unread
      <4> HIDE DEF lo, n
      <4>3. lo + n <= Len(disk)
        BY <4>1
      <4>4. Len(SubSeq(disk, lo + 1, lo + n)) = n
        BY <1>1, <4>1, <4>3, PartFacts
      <4>5. Len(<<>>) = 0
        OBVIOUS
      <4> QED
        BY <2>1, <4>1, <4>2, <4>4, <4>5
    <3>3. data = disk
      BY <1>1, <3>1, <3>2, PrefixFacts
    <3>4. ASSUME Written(disk \o pending) PROVE Written(disk)
      <4>1. PICK p \in Images : Prefix(disk \o pending, Binary(p))
        BY <3>4 DEF Written
      <4>2. disk \o pending \in Bytes /\ Binary(p) \in Bytes /\ Prefix(disk, disk \o pending)
        BY <1>1, Joined, BinaryBytes, PrefixFacts
      <4>3. Prefix(disk, Binary(p))
        BY <1>1, <4>1, <4>2, PrefixFacts
      <4> QED
        BY <4>3 DEF Written
    <3> QED
      BY <3>3, <3>4 DEF ReadInv
  <2> QED
    BY <2>1, <2>2 DEF ReadInv, Written
<1>7. CASE \/ RefuseHeader \/ PanicOnPool \/ BeginPool
           \/ RefuseConstant \/ ParseConstant \/ PanicOnCode \/ CopyCode
  <2>1. /\ UNCHANGED <<disk, pending, torn, data, found>>
        /\ pc \notin {"start", "reading"} /\ pc' \notin {"start", "reading"}
    BY <1>7 DEF RefuseHeader, PanicOnPool, BeginPool, RefuseConstant, ParseConstant,
                PanicOnCode, CopyCode, End, writer
  <2> QED
    BY <2>1 DEF ReadInv, Written
<1> QED
  BY <1>2, <1>3, <1>4, <1>5, <1>6, <1>7 DEF Next

LEMMA WholeNext == LoadInv /\ WholeInv /\ [Next]_vars => WholeInv'
<1> SUFFICES ASSUME LoadInv, WholeInv, [Next]_vars PROVE WholeInv'
  OBVIOUS
<1>1. TypeOK
  BY DEF LoadInv
<1>2. CASE UNCHANGED <<pc, data, consts, code>>
  <2>1. HeaderOK' <=> HeaderOK
    BY <1>2, SameHeader
  <2>2. \A p : (Describable(p)' <=> Describable(p)) /\ (Follows(p)' <=> Follows(p))
    BY <1>2 DEF Describable, Follows
  <2> QED
    BY <1>2, <2>1, <2>2 DEF WholeInv
<1>3. CASE Open \/ Read
  BY <1>3 DEF Open, Read, WholeInv
<1>4. CASE EndOfFile
  <2>1. pc' = "header"
    BY <1>4 DEF EndOfFile
  <2> QED
    BY <2>1 DEF WholeInv, Follows
<1>5. CASE \/ RefuseHeader \/ PanicOnPool \/ BeginPool
           \/ RefuseConstant \/ ParseConstant \/ PanicOnCode \/ CopyCode
  <2>1. /\ UNCHANGED data /\ pc \in {"header", "pool"}
        /\ pc' \notin {"start", "reading"}
    BY <1>5 DEF RefuseHeader, PanicOnPool, BeginPool, RefuseConstant, ParseConstant,
                PanicOnCode, CopyCode, End
  <2>2. pc' \in {"pool", "loaded", "panicked"} => HeaderOK'
    <3>1. pc' \in {"pool", "loaded", "panicked"} => HeaderOK
      BY <1>5 DEF RefuseHeader, PanicOnPool, BeginPool, RefuseConstant, ParseConstant,
                  PanicOnCode, CopyCode, End, WholeInv
    <3> QED
      BY <2>1, <3>1, SameHeader
  <2>3. ASSUME NEW p \in Images, Describable(p)' PROVE Follows(p)'
    <3>1. Describable(p) /\ Follows(p)
      BY <2>1, <2>3 DEF Describable, WholeInv
    <3>2. CASE pc = "header"
      <4>1. consts = <<>>
        BY <3>2 DEF LoadInv
      <4>2. HeaderOK /\ data = Binary(p) /\ FitsWord(p) /\ Prefix(data, Binary(p))
        <5>1. data = Binary(p) /\ FitsWord(p) /\ Binary(p) \in Bytes
          BY <3>1, BinaryBytes DEF Describable
        <5>2. Prefix(data, Binary(p))
          BY <5>1, PrefixFacts
        <5> QED
          BY <1>1, <5>1, <5>2, AcceptedWhole
      <4>3. SliceOK(FlxHeaderSize, codeOffset)
        <5> DEFINE P == Len(encodeConstantPool(p.consts))
                   Z == Len(p.code)
        <5>1. codeOffset = 15 + P /\ codeSize = Z /\ codeEnd = codeOffset + codeSize
          BY <1>1, <4>2, ImageHeader DEF HeaderOK, FlxHeaderSize
        <5>2. P \in Nat /\ Z \in Nat
          <6>1. encodeConstantPool(p.consts) \in Bytes /\ p.code \in Bytes
            BY ImageBytes
          <6> QED
            BY <6>1 DEF Bytes
        <5>3. Len(data) \in Nat /\ slack \in Nat
          BY <1>1, PaddedFacts
        <5> HIDE DEF P, Z
        <5>4. 15 + P + Z <= Len(data)
          BY <4>2, <5>1, <5>2, <5>3 DEF HeaderOK, Extends
        <5> QED
          BY <5>1, <5>2, <5>3, <5>4 DEF SliceOK, FlxHeaderSize
      <4>4. BeginPool
        BY <1>5, <3>2, <4>2, <4>3 DEF RefuseHeader, PanicOnPool, RefuseConstant,
                                      ParseConstant, PanicOnCode, CopyCode
      <4>5. pc' = "pool" /\ consts' = <<>>
        BY <4>1, <4>4 DEF BeginPool, End
      <4>6. p.consts \in Seq(Bytes)
        BY ImageBytes
      <4>7. Len(<<>>) = 0 /\ SubSeq(p.consts, 1, 0) = <<>> /\ 0 <= Len(p.consts)
        BY <4>6
      <4> QED
        BY <4>5, <4>7 DEF Follows
    <3>3. CASE pc = "pool"
      <4>1. /\ constCount = Len(p.consts)
            /\ Len(consts) < Len(p.consts) =>
                  /\ ConstantFits
                  /\ Slice(Body, Body + BodyLen) = p.consts[Len(consts) + 1]
            /\ Len(consts) = Len(p.consts) =>
                  /\ SliceOK(codeOffset, codeEnd)
                  /\ Slice(codeOffset, codeEnd) = p.code
        BY <3>1, <3>3, BegunWhole
      <4>2. /\ Len(consts) <= Len(p.consts)
            /\ consts = SubSeq(p.consts, 1, Len(consts))
        BY <3>1, <3>3 DEF Follows
      <4>3. p.consts \in Seq(Bytes) /\ consts \in Seq(Bytes)
        BY <1>1, ImageBytes DEF TypeOK
      <4>4. ParseConstant \/ CopyCode
        BY <1>5, <3>3, <4>1 DEF RefuseHeader, PanicOnPool, BeginPool, RefuseConstant,
                                PanicOnCode
      <4>5. CASE ParseConstant
        <5>1. /\ pc' = "pool" /\ Len(consts) < Len(p.consts)
              /\ consts' = Append(consts, p.consts[Len(consts) + 1])
          BY <3>3, <4>1, <4>5 DEF ParseConstant
        <5>2. Len(consts) \in Nat
          BY <4>3
        <5>3. consts' = SubSeq(p.consts, 1, Len(consts) + 1)
          BY <4>2, <4>3, <5>1, <5>2, PoolNext
        <5>4. Len(consts') = Len(consts) + 1 /\ Len(consts') <= Len(p.consts)
          BY <4>3, <5>1, <5>2
        <5> QED
          BY <5>1, <5>3, <5>4 DEF Follows
      <4>6. CASE CopyCode
        <5>1. pc' = "loaded" /\ Len(consts) = Len(p.consts) /\ consts' = consts
              /\ code' = p.code
          BY <4>1, <4>6 DEF CopyCode
        <5>2. consts = p.consts
          BY <4>2, <4>3, <5>1, SubSeqFull
        <5> QED
          BY <5>1, <5>2 DEF Follows
      <4> QED
        BY <4>4, <4>5, <4>6
    <3> QED
      BY <2>1, <3>2, <3>3
  <2> QED
    BY <2>2, <2>3 DEF WholeInv, Describable
<1>6. CASE \/ \E p \in Images : BeginWrite(p)
           \/ Write
           \/ \E n \in 0 .. (WriteSize - 1) : WriteFails(n)
  <2>1. UNCHANGED <<pc, data, consts, code>>
    BY <1>6 DEF BeginWrite, Write, WriteFails
  <2> QED
    BY <1>2, <2>1
<1>7. CASE UNCHANGED vars
  BY <1>2, <1>7 DEF vars
<1> QED
  BY <1>3, <1>4, <1>5, <1>6, <1>7 DEF Next

LEMMA WholeFile ==
    ASSUME TypeOK, ReadInv, WholeInv
    PROVE  WholeUnlessTorn
<1> SUFFICES ASSUME pc \in Ends, ~torn, \A p \in Images : FitsWord(p), data # found
             PROVE  \/ \E p \in Images : /\ Prefix(data, Binary(p)) /\ data # Binary(p)
                                         /\ pc = "refused"
                    \/ \E p \in Images : /\ data = Binary(p)
                                         /\ FitsCount(p) => /\ pc = "loaded"
                                                            /\ consts = p.consts
                                                            /\ code = p.code
  BY DEF WholeUnlessTorn
<1>1. pc \notin {"start", "reading", "pool"}
  BY DEF Ends
<1>2. PICK p \in Images : Prefix(data, Binary(p))
  BY <1>1 DEF ReadInv, Written
<1>3. HeaderOK <=> data = Binary(p)
  BY <1>2, AcceptedWhole
<1>4. CASE data = Binary(p)
  <2>1. FitsCount(p) => Describable(p) /\ Follows(p)
    BY <1>1, <1>4 DEF Describable, WholeInv
  <2>2. FitsCount(p) => pc = "loaded" /\ consts = p.consts /\ code = p.code
    BY <2>1 DEF Follows, Ends
  <2> QED
    BY <1>4, <2>2
<1>5. CASE data # Binary(p)
  <2>1. pc = "refused"
    BY <1>3, <1>5 DEF WholeInv, Ends
  <2> QED
    BY <1>2, <1>5, <2>1
<1> QED
  BY <1>4, <1>5

(* Wherever writing stops and whatever of it a read meets, unless the      *)
(* file is truncated with bytes of it already read: what is loaded is the  *)
(* file found or one compiled program, whole; a file half written is       *)
(* refused and never makes the loader fail (compiler main.go:162;          *)
(* cpu.go:118).                                                            *)
THEOREM LoadsWholeUnlessTorn == Spec => []WholeUnlessTorn
<1>1. Init => ReadInv /\ WholeInv
  BY DEF Init, ReadInv, WholeInv
<1>2. LoadInv => TypeOK
  BY DEF LoadInv
<1> QED
  BY <1>1, <1>2, LoadInit, LoadNext, ReadNext, WholeNext, WholeFile, PTL DEF Spec

-----------------------------------------------------------------------------
(* Reads that are torn too: every byte read stands where it stood. *)
Files == {found} \cup { Binary(p) : p \in Images }

Stands(b, k) == \E s \in Files : k <= Len(s) /\ b = s[k]

(* Nothing is unread behind the end. *)
LEMMA PastTheEnd ==
    ASSUME disk \in Bytes, data \in Bytes, Unread # <<>>
    PROVE  Len(data) < Len(disk)
<1>1. Len(disk) \in Nat /\ Len(data) \in Nat
  BY DEF Bytes
<1>2. CASE Len(disk) <= Len(data)
  <2> DEFINE a == Len(data) + 1
             b == Len(disk)
             t == SubSeq(disk, a, b)
  <2>1. a \in Int /\ b \in Int /\ ~(a <= b) /\ \A i \in a .. b : disk[i] \in Byte
    BY <1>1, <1>2
  <2> HIDE DEF a, b
  <2>2. t \in Seq(Byte) /\ Len(t) = (IF a <= b THEN b - a + 1 ELSE 0)
    BY <2>1, SubSeqProperties
  <2>3. t \in Seq(Byte) /\ Len(t) = 0
    BY <2>1, <2>2
  <2> HIDE DEF t
  <2>4. t = <<>>
    BY <2>3, EmptySeq
  <2> QED
    BY <2>4 DEF t, a, b, Unread
<1> QED
  BY <1>1, <1>2

LEMMA DiskInPlace ==
    ASSUME TypeOK, ReadInv, NEW k \in 1 .. Len(disk)
    PROVE  Stands(disk[k], k)
<1>1. disk \in Bytes /\ pending \in Bytes /\ Len(disk) \in Nat
  BY DEF TypeOK, Bytes
<1>2. CASE disk = found
  BY <1>1, <1>2 DEF Stands, Files
<1>3. ASSUME Written(disk \o pending) PROVE Stands(disk[k], k)
  <2>1. PICK p \in Images : Prefix(disk \o pending, Binary(p))
    BY <1>3 DEF Written
  <2>2. disk \o pending \in Bytes /\ Binary(p) \in Bytes /\ Prefix(disk, disk \o pending)
    BY <1>1, Joined, BinaryBytes, PrefixFacts
  <2>3. Prefix(disk, Binary(p))
    BY <1>1, <2>1, <2>2, PrefixFacts
  <2>4. Len(disk) <= Len(Binary(p)) /\ disk[k] = Binary(p)[k]
    BY <1>1, <2>2, <2>3, PrefixIff
  <2>5. Binary(p) \in Files /\ Len(Binary(p)) \in Nat
    BY <2>2 DEF Files, Bytes
  <2> QED
    BY <1>1, <2>4, <2>5 DEF Stands
<1> QED
  BY <1>2, <1>3 DEF ReadInv

LEMMA InPlaceNext == LoadInv /\ ReadInv /\ ReadInPlace /\ [Next]_vars => ReadInPlace'
<1> SUFFICES ASSUME LoadInv, ReadInv, ReadInPlace, [Next]_vars PROVE ReadInPlace'
  OBVIOUS
<1>1. TypeOK /\ disk \in Bytes /\ data \in Bytes /\ Len(data) \in Nat /\ Len(disk) \in Nat
  BY DEF LoadInv, TypeOK, Bytes
<1>2. found' = found
  BY DEF Next, vars, writer, BeginWrite, Write, WriteFails, Open, Read, EndOfFile,
         RefuseHeader, PanicOnPool, BeginPool, RefuseConstant, ParseConstant,
         PanicOnCode, CopyCode, End
<1>3. CASE Read
  <2> DEFINE u == Piece(Unread, ReadSize)
             n == Len(data)
  <2>1. data' = data \o u
    BY <1>3 DEF Read
  <2>2. /\ u \in Bytes /\ Len(u) \in Nat
        /\ \A j \in 1 .. Len(u) : n + j <= Len(disk) /\ u[j] = disk[n + j]
    <3> DEFINE m == Len(disk) - n
    <3>1. m \in Nat /\ n + m = Len(disk) /\ Unread # <<>>
      <4>1. Unread # <<>>
        BY <1>3 DEF Read
      <4>2. n < Len(disk)
        BY <1>1, <4>1, PastTheEnd
      <4> QED
        BY <1>1, <4>1, <4>2
    <3>2. Unread = SubSeq(disk, n + 1, n + m)
      BY <3>1 DEF Unread
    <3> HIDE DEF m
    <3>3. n \in Nat /\ n + m <= Len(disk)
      BY <1>1, <3>1
    <3> HIDE DEF n
    <3>4. /\ Unread \in Bytes /\ Len(Unread) = m
          /\ \A j \in 1 .. m : Unread[j] = disk[n + j]
      BY <1>1, <3>1, <3>2, <3>3, PartFacts
    <3>5. /\ u \in Bytes /\ Len(u) \in Nat /\ Len(u) <= m
          /\ \A j \in 1 .. Len(u) : u[j] = Unread[j]
      <4> DEFINE v == SubSeq(Unread, ReadSize + 1, Len(Unread))
      <4>1. u \in Bytes /\ v \in Bytes /\ u \o v = Unread
        BY <3>4, FlxAssumption, Pieces
      <4> HIDE DEF u, v
      <4>2. /\ Len(u) \in Nat /\ Len(v) \in Nat /\ Len(u \o v) = Len(u) + Len(v)
            /\ \A j \in 1 .. Len(u) : (u \o v)[j] = u[j]
        BY <4>1, Joined
      <4> QED
        BY <3>1, <3>4, <4>1, <4>2
    <3> HIDE DEF u
    <3> QED
      BY <1>1, <3>1, <3>3, <3>4, <3>5
  <2> HIDE DEF u
  <2>3. /\ Len(data \o u) = n + Len(u)
        /\ \A k \in 1 .. n : (data \o u)[k] = data[k]
        /\ \A j \in 1 .. Len(u) : (data \o u)[n + j] = u[j]
    BY <1>1, <2>2, Joined
  <2>4. \A k \in 1 .. Len(data \o u) : Stands((data \o u)[k], k)
    <3> SUFFICES ASSUME NEW k \in 1 .. Len(data \o u) PROVE Stands((data \o u)[k], k)
      OBVIOUS
    <3>1. CASE k <= n
      <4>1. k \in 1 .. n /\ (data \o u)[k] = data[k]
        BY <1>1, <2>2, <2>3, <3>1
      <4> QED
        BY <4>1 DEF ReadInPlace, Stands, Files
    <3>2. CASE ~(k <= n)
      <4> DEFINE j == k - n
      <4>1. j \in 1 .. Len(u) /\ n + j = k
        BY <1>1, <2>2, <2>3, <3>2
      <4> HIDE DEF j
      <4>2. (data \o u)[k] = disk[k] /\ k \in 1 .. Len(disk)
        <5>1. n + j <= Len(disk) /\ u[j] = disk[n + j] /\ (data \o u)[n + j] = u[j]
          BY <2>2, <2>3, <4>1
        <5> QED
          BY <1>1, <4>1, <5>1
      <4>3. Stands(disk[k], k)
        BY <1>1, <4>2, DiskInPlace
      <4> QED
        BY <4>2, <4>3
    <3> QED
      BY <3>1, <3>2
  <2> QED
    BY <1>2, <2>1, <2>4 DEF ReadInPlace, Stands, Files
<1>4. CASE ~Read
  <2>1. data' = data
    BY <1>4 DEF Next, vars, writer, BeginWrite, Write, WriteFails, Open, EndOfFile,
                RefuseHeader, PanicOnPool, BeginPool, RefuseConstant, ParseConstant,
                PanicOnCode, CopyCode, End
  <2> QED
    BY <1>2, <2>1 DEF ReadInPlace
<1> QED
  BY <1>3, <1>4

(* However writing and reading interleave, torn reads included: each byte  *)
(* the machine has read stands where it stood in the file found or in one  *)
(* program's (vm/main.go:29, compiler main.go:162).                        *)
THEOREM ReadsNeverShift == Spec => []ReadInPlace
<1>1. Init => ReadInv /\ ReadInPlace
  BY DEF Init, ReadInv, ReadInPlace
<1> QED
  BY <1>1, LoadInit, LoadNext, ReadNext, InPlaceNext, PTL DEF Spec
====================================================================================
