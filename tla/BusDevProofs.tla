---------------------------- MODULE BusDevProofs ----------------------------
(***************************************************************************)
(* The names of devices are different and fit their fields, for every bus, *)
(* port chain and address.  What a recursive function computes is shown by *)
(* induction: the numbers of which it holds are a set, and a least number  *)
(* outside of it there is none.                                            *)
(***************************************************************************)
EXTENDS BusDev, Integers, SequenceTheorems, WellFoundedInduction, TLAPS

\* A set of numbers has a least element.
LEMMA LeastNumber ==
    ASSUME NEW T \in SUBSET Nat, T # {}
    PROVE  \E m \in T : \A k \in T : m <= k
<1>. DEFINE R == OpToRel(<, Nat)
<1>1. IsWellFoundedOn(R, Nat)
  BY NatLessThanWellFounded
<1>2. \A i, j \in Nat : i < j => <<i, j>> \in R
  BY DEF OpToRel
<1>. HIDE DEF R
<1>3. PICK m \in T : \A y \in T : ~(<<y, m>> \in R)
  BY <1>1, WFMin, Zenon
<1>4. ASSUME NEW k \in T PROVE m <= k
  <2>1. k \in Nat /\ m \in Nat
    OBVIOUS
  <2>2. ~(k < m)
    BY <2>1, <1>2, <1>3, Zenon
  <2>. QED
    BY <2>1, <2>2
<1>. QED
  BY <1>4, Zenon

\* Induction on the numbers, for a set: it holds of all that are in T.
LEMMA SetInduction ==
    ASSUME NEW T, 0 \in T, \A n \in Nat : n \in T => n + 1 \in T
    PROVE  Nat \subseteq T
<1>. DEFINE U == Nat \ T
<1>1. SUFFICES ASSUME U # {} PROVE FALSE
  OBVIOUS
<1>2. PICK m \in U : \A k \in U : m <= k
  BY <1>1, LeastNumber, Zenon
<1>3. m # 0 /\ m - 1 \in Nat
  OBVIOUS
<1>4. m - 1 \in T
  BY <1>2, <1>3
<1>. QED
  BY <1>3, <1>4

\* Induction from a to m.
LEMMA Upward ==
    ASSUME NEW T, NEW a \in Nat, NEW m \in Nat, a <= m, a \in T,
           \A n \in (a + 1)..m : n - 1 \in T => n \in T
    PROVE  a..m \subseteq T
<1>. DEFINE U == {k \in Nat : a + k <= m => a + k \in T}
<1>1. 0 \in U
  OBVIOUS
<1>2. ASSUME NEW k \in Nat, k \in U PROVE k + 1 \in U
  <2>1. SUFFICES ASSUME a + (k + 1) <= m PROVE a + (k + 1) \in T
    OBVIOUS
  <2>2. a + (k + 1) \in (a + 1)..m /\ (a + (k + 1)) - 1 = a + k /\ a + k \in T
    BY <1>2, <2>1
  <2>. QED
    BY <2>2
<1>3. Nat \subseteq U
  <2>. HIDE DEF U
  <2>. QED
    BY <1>1, <1>2, SetInduction
<1>4. ASSUME NEW n \in a..m PROVE n \in T
  <2>1. n - a \in U /\ a + (n - a) = n
    BY <1>3
  <2>. QED
    BY <2>1
<1>. QED
  BY <1>4

\* The values of a function stay in S from a to m.
LEMMA StaysIn ==
    ASSUME NEW a \in Nat, NEW m \in Nat, a <= m, NEW S,
           NEW f, f = [n \in a..m |-> f[n]], f[a] \in S,
           \A n \in (a + 1)..m : f[n - 1] \in S => f[n] \in S
    PROVE  f \in [a..m -> S]
<1>. DEFINE T == {n \in a..m : f[n] \in S}
<1>1. a \in T
  OBVIOUS
<1>2. \A n \in (a + 1)..m : n - 1 \in T => n \in T
  OBVIOUS
<1>. HIDE DEF T
<1>3. a..m \subseteq T
  BY <1>1, <1>2, Upward, Zenon
<1>4. \A n \in a..m : f[n] \in S
  BY <1>3 DEF T
<1>. QED
  BY <1>4

\* g starts with c at a and takes a step with rule to every next n.
IsRule(rule, S, a, m) == rule \in [S \X (a..m) -> S]

Follows(g, rule, S, c, a, m) ==
    /\ g \in [a..m -> S]
    /\ g[a] = c
    /\ \A n \in (a + 1)..m : g[n] = rule[<<g[n - 1], n>>]

\* A function that is defined by recursion on a..m exists.
LEMMA Recursion ==
    ASSUME NEW a \in Nat, NEW m \in Nat, a <= m,
           NEW S, NEW c \in S, NEW rule, IsRule(rule, S, a, m)
    PROVE  \E g : Follows(g, rule, S, c, a, m)
<1>. USE DEF IsRule
<1>. DEFINE Ok(g, k) == /\ g \in [a..(a + k) -> S]
                        /\ g[a] = c
                        /\ \A n \in (a + 1)..(a + k) : g[n] = rule[<<g[n - 1], n>>]
            T == {k \in Nat : a + k <= m => \E g : Ok(g, k)}
<1>1. 0 \in T
  <2>1. Ok([n \in a..(a + 0) |-> c], 0)
    OBVIOUS
  <2>. QED
    BY <2>1, Zenon
<1>2. ASSUME NEW k \in Nat, k \in T PROVE k + 1 \in T
  <2>1. SUFFICES ASSUME a + (k + 1) <= m PROVE \E g : Ok(g, k + 1)
    OBVIOUS
  <2>2. PICK g : Ok(g, k)
    BY <1>2, <2>1
  <2>3. a + k \in a..(a + k) /\ a + (k + 1) \in a..m /\ a + k + 1 = a + (k + 1)
    BY <2>1
  <2>4. PICK v \in S : v = rule[<<g[a + k], a + (k + 1)>>]
    <3>1. g[a + k] \in S
      BY <2>2, <2>3
    <3>. QED
      BY <2>3, <3>1
  <2>. DEFINE f == [n \in a..(a + (k + 1)) |-> IF n = a + (k + 1) THEN v ELSE g[n]]
  <2>5. f \in [a..(a + (k + 1)) -> S]
    BY <2>2
  <2>6. f[a] = c
    BY <2>2
  <2>7. ASSUME NEW n \in (a + 1)..(a + (k + 1)) PROVE f[n] = rule[<<f[n - 1], n>>]
    <3>1. n - 1 \in a..(a + (k + 1)) /\ n - 1 # a + (k + 1) /\ f[n - 1] = g[n - 1]
      BY <2>7
    <3>2. CASE n = a + (k + 1)
      BY <2>4, <3>1, <3>2, SMTT(30)
    <3>3. CASE n # a + (k + 1)
      <4>1. n \in (a + 1)..(a + k)
        BY <2>7, <3>3
      <4>2. f[n] = g[n]
        BY <2>7, <3>3
      <4>. QED
        BY <2>2, <3>1, <4>1, <4>2
    <3>. QED
      BY <3>2, <3>3
  <2>. QED
    BY <2>5, <2>6, <2>7, Zenon
<1>3. m - a \in T
  <2>. HIDE DEF T
  <2>1. Nat \subseteq T
    BY <1>1, <1>2, SetInduction
  <2>. QED
    BY <2>1
<1>4. PICK g : Ok(g, m - a)
  BY <1>3
<1>5. a + (m - a) = m
  OBVIOUS
<1>6. Follows(g, rule, S, c, a, m)
  BY <1>4, <1>5 DEF Follows
<1>. QED
  BY <1>6

-----------------------------------------------------------------------------
(***************************************************************************)
(* The recursive functions                                                 *)
(***************************************************************************)

\* Xor makes a byte of anything.
LEMMA XorType ==
    ASSUME NEW a, NEW b
    PROVE  Xor(a, b) \in Bytes
<1>1. ASSUME NEW bit \in Nat PROVE Differ(a, b, bit) \in {0, bit}
  BY DEF Differ
<1>2. /\ Differ(a, b, 1) \in {0, 1} /\ Differ(a, b, 2) \in {0, 2}
      /\ Differ(a, b, 4) \in {0, 4} /\ Differ(a, b, 8) \in {0, 8}
      /\ Differ(a, b, 16) \in {0, 16} /\ Differ(a, b, 32) \in {0, 32}
      /\ Differ(a, b, 64) \in {0, 64} /\ Differ(a, b, 128) \in {0, 128}
  BY <1>1
<1>. QED
  BY <1>2, SMTT(30) DEF Xor, Bytes

\* A u32: its four bytes.
Word == Bytes \X Bytes \X Bytes \X Bytes

\* One step of the hash.
LEMMA MixType ==
    ASSUME NEW h \in Word, NEW b
    PROVE  Mix(h, b) \in Word
<1>. DEFINE m == WrappingMul(h)
<1>1. ASSUME NEW n \in Nat PROVE n \div 256 \in Nat /\ n % 256 \in Bytes
  BY DEF Bytes
<1>2. h[1] \in Nat /\ h[2] \in Nat /\ h[3] \in Nat /\ h[4] \in Nat
  BY SMTT(30) DEF Word, Bytes
<1>3. m \in Word
  <2>. DEFINE p1 == h[1] * 403
              p2 == h[2] * 403 + p1 \div 256
              p3 == h[3] * 403 + p2 \div 256
              p4 == h[4] * 403 + p3 \div 256 + h[1]
  <2>1. p1 \in Nat
    BY <1>2
  <2>2. p2 \in Nat
    BY <1>1, <1>2, <2>1
  <2>3. p3 \in Nat
    BY <1>1, <1>2, <2>2
  <2>4. p4 \in Nat
    BY <1>1, <1>2, <2>3
  <2>5. m = <<p1 % 256, p2 % 256, p3 % 256, p4 % 256>>
    BY DEF WrappingMul
  <2>. HIDE DEF m, p1, p2, p3, p4
  <2>6. p1 % 256 \in Bytes /\ p2 % 256 \in Bytes /\ p3 % 256 \in Bytes /\ p4 % 256 \in Bytes
    BY <1>1, <2>1, <2>2, <2>3, <2>4
  <2>. QED
    BY <2>5, <2>6 DEF Word
<1>. HIDE DEF m
<1>4. PICK x \in Bytes : x = Xor(m[1], b)
  BY XorType
<1>5. Mix(h, b) = [m EXCEPT ![1] = x]
  BY <1>4 DEF Mix, m
<1>6. [m EXCEPT ![1] = x] = <<x, m[2], m[3], m[4]>>
  BY <1>3 DEF Word
<1>. QED
  BY <1>3, <1>4, <1>5, <1>6 DEF Word

\* The hash: the function that is defined exists, and its values are u32s.
LEMMA HashesDef ==
    ASSUME NEW S, NEW bytes \in Seq(S)
    PROVE  /\ Hashes(bytes) \in [0..Len(bytes) -> Word]
           /\ Hashes(bytes)[0] = Basis
           /\ \A n \in 1..Len(bytes) : Hashes(bytes)[n] = Mix(Hashes(bytes)[n - 1], bytes[n])
<1>. DEFINE N == Len(bytes)
            f == Hashes(bytes)
            Op(v, n) == Mix(v, bytes[n])
            rule == [p \in Word \X (0..N) |-> IF p[2] = 0 THEN Basis ELSE Op(p[1], p[2])]
<1>1. N \in Nat /\ 0 <= N /\ 0 \in Nat
  OBVIOUS
<1>2. /\ 0 \in 0..N
      /\ \A n \in (0 + 1)..N : n \in 0..N /\ n # 0 /\ n - 1 \in 0..N
      /\ \A n \in 1..N : n \in (0 + 1)..N
      /\ \A n \in 0..N : n # 0 => n \in (0 + 1)..N
  BY <1>1
<1>3. Basis \in Word
  BY DEF Basis, Word, Bytes
<1>4. ASSUME NEW v \in Word, NEW n \in 0..N, n # 0 PROVE Op(v, n) \in Word
  BY MixType
<1>. HIDE DEF N, Op
<1>5. IsRule(rule, Word, 0, N)
  BY <1>3, <1>4, Zenon DEF IsRule
<1>6. PICK g : Follows(g, rule, Word, Basis, 0, N)
  <2>. HIDE DEF rule
  <2>. QED
    BY <1>1, <1>3, <1>5, Recursion, Zenon
<1>7. ASSUME NEW n \in (0 + 1)..N PROVE g[n] = Op(g[n - 1], n)
  <2>1. g[n - 1] \in Word /\ g[n] = rule[<<g[n - 1], n>>]
    BY <1>2, <1>6, Zenon DEF Follows
  <2>. QED
    BY <1>2, <2>1
<1>8. g = [n \in 0..N |-> IF n = 0 THEN Basis ELSE Op(g[n - 1], n)]
  BY <1>2, <1>6, <1>7 DEF Follows
<1>9. f = [n \in 0..N |-> IF n = 0 THEN Basis ELSE Op(f[n - 1], n)]
  BY <1>8, Zenon DEF Hashes, N, Op
<1>. HIDE DEF f
<1>10. /\ f = [n \in 0..N |-> f[n]]
       /\ f[0] = Basis
       /\ \A n \in (0 + 1)..N : f[n] = Op(f[n - 1], n)
  BY <1>2, <1>9
<1>11. f \in [0..N -> Word]
  <2>1. ASSUME NEW n \in (0 + 1)..N, f[n - 1] \in Word PROVE f[n] \in Word
    BY <1>2, <1>4, <1>10, <2>1, Zenon
  <2>2. f[0] \in Word /\ f = [n \in 0..N |-> f[n]]
    BY <1>3, <1>10, Zenon
  <2>. QED
    BY <1>1, <2>1, <2>2, StaysIn, Zenon
<1>. QED
  BY <1>2, <1>10, <1>11, Zenon DEF f, N, Op

\* Likewise the value of a number.
LEMMA NumbersDef ==
    ASSUME NEW s \in Seq(48..57)
    PROVE  /\ Numbers(s) \in [0..Len(s) -> Nat]
           /\ Numbers(s)[0] = 0
           /\ \A n \in 1..Len(s) : Numbers(s)[n] = 10 * Numbers(s)[n - 1] + (s[n] - 48)
<1>. DEFINE N == Len(s)
            f == Numbers(s)
            Op(v, n) == 10 * v + (s[n] - 48)
            rule == [p \in Nat \X (0..N) |-> IF p[2] = 0 THEN 0 ELSE Op(p[1], p[2])]
<1>1. N \in Nat /\ 0 <= N /\ 0 \in Nat
  OBVIOUS
<1>2. /\ 0 \in 0..N
      /\ \A n \in (0 + 1)..N : n \in 0..N /\ n # 0 /\ n - 1 \in 0..N
      /\ \A n \in 1..N : n \in (0 + 1)..N
      /\ \A n \in 0..N : n # 0 => n \in (0 + 1)..N
  BY <1>1
<1>3. 0 \in Nat
  OBVIOUS
<1>4. ASSUME NEW v \in Nat, NEW n \in 0..N, n # 0 PROVE Op(v, n) \in Nat
  <2>1. s[n] \in 48..57
    BY <1>2, <1>4
  <2>. QED
    BY <2>1, SMTT(30)
<1>. HIDE DEF N, Op
<1>5. IsRule(rule, Nat, 0, N)
  BY <1>3, <1>4, Zenon DEF IsRule
<1>6. PICK g : Follows(g, rule, Nat, 0, 0, N)
  <2>. HIDE DEF rule
  <2>. QED
    BY <1>1, <1>3, <1>5, Recursion, Zenon
<1>7. ASSUME NEW n \in (0 + 1)..N PROVE g[n] = Op(g[n - 1], n)
  <2>1. g[n - 1] \in Nat /\ g[n] = rule[<<g[n - 1], n>>]
    BY <1>2, <1>6, Zenon DEF Follows
  <2>. QED
    BY <1>2, <2>1
<1>8. g = [n \in 0..N |-> IF n = 0 THEN 0 ELSE Op(g[n - 1], n)]
  BY <1>2, <1>6, <1>7 DEF Follows
<1>9. f = [n \in 0..N |-> IF n = 0 THEN 0 ELSE Op(f[n - 1], n)]
  BY <1>8, Zenon DEF Numbers, N, Op
<1>. HIDE DEF f
<1>10. /\ f = [n \in 0..N |-> f[n]]
       /\ f[0] = 0
       /\ \A n \in (0 + 1)..N : f[n] = Op(f[n - 1], n)
  BY <1>2, <1>9, Zenon
<1>11. f \in [0..N -> Nat]
  <2>1. ASSUME NEW n \in (0 + 1)..N, f[n - 1] \in Nat PROVE f[n] \in Nat
    BY <1>2, <1>4, <1>10, <2>1, Zenon
  <2>2. f[0] \in Nat /\ f = [n \in 0..N |-> f[n]]
    BY <1>3, <1>10, Zenon
  <2>. QED
    BY <1>1, <2>1, <2>2, StaysIn, Zenon
<1>. QED
  BY <1>2, <1>10, <1>11, Zenon DEF f, N, Op

\* ... and the joined ports, whose characters are in S.
LEMMA JoinsDef ==
    ASSUME NEW S, Dot \in S, NEW ports \in Seq(Seq(S)), Len(ports) >= 1
    PROVE  /\ Joins(ports) \in [1..Len(ports) -> Seq(S)]
           /\ Joins(ports)[1] = ports[1]
           /\ \A n \in 2..Len(ports) : Joins(ports)[n] = Joins(ports)[n - 1] \o <<Dot>> \o ports[n]
<1>. DEFINE N == Len(ports)
            f == Joins(ports)
            Op(v, n) == v \o <<Dot>> \o ports[n]
            rule == [p \in Seq(S) \X (1..N) |-> IF p[2] = 1 THEN ports[1] ELSE Op(p[1], p[2])]
<1>1. N \in Nat /\ 1 <= N /\ 1 \in Nat
  OBVIOUS
<1>2. /\ 1 \in 1..N
      /\ \A n \in (1 + 1)..N : n \in 1..N /\ n # 1 /\ n - 1 \in 1..N
      /\ \A n \in 2..N : n \in (1 + 1)..N
      /\ \A n \in 1..N : n # 1 => n \in (1 + 1)..N
  BY <1>1
<1>3. ports[1] \in Seq(S)
  OBVIOUS
<1>4. ASSUME NEW v \in Seq(S), NEW n \in 1..N, n # 1 PROVE Op(v, n) \in Seq(S)
  <2>1. ports[n] \in Seq(S)
    BY <1>2, <1>4
  <2>. QED
    BY <2>1
<1>. HIDE DEF N, Op
<1>5. IsRule(rule, Seq(S), 1, N)
  BY <1>3, <1>4, Zenon DEF IsRule
<1>6. PICK g : Follows(g, rule, Seq(S), ports[1], 1, N)
  <2>. HIDE DEF rule
  <2>. QED
    BY <1>1, <1>3, <1>5, Recursion, Zenon
<1>7. ASSUME NEW n \in (1 + 1)..N PROVE g[n] = Op(g[n - 1], n)
  <2>1. g[n - 1] \in Seq(S) /\ g[n] = rule[<<g[n - 1], n>>]
    BY <1>2, <1>6, Zenon DEF Follows
  <2>. QED
    BY <1>2, <2>1
<1>8. g = [n \in 1..N |-> IF n = 1 THEN ports[1] ELSE Op(g[n - 1], n)]
  BY <1>2, <1>6, <1>7 DEF Follows
<1>9. f = [n \in 1..N |-> IF n = 1 THEN ports[1] ELSE Op(f[n - 1], n)]
  BY <1>8, Zenon DEF Joins, N, Op
<1>. HIDE DEF f
<1>10. /\ f = [n \in 1..N |-> f[n]]
       /\ f[1] = ports[1]
       /\ \A n \in (1 + 1)..N : f[n] = Op(f[n - 1], n)
  BY <1>2, <1>9, Zenon
<1>11. f \in [1..N -> Seq(S)]
  <2>1. ASSUME NEW n \in (1 + 1)..N, f[n - 1] \in Seq(S) PROVE f[n] \in Seq(S)
    BY <1>2, <1>4, <1>10, <2>1, ZenonT(40)
  <2>2. f[1] \in Seq(S) /\ f = [n \in 1..N |-> f[n]]
    BY <1>3, <1>10, Zenon
  <2>. QED
    BY <1>1, <2>1, <2>2, StaysIn, Zenon
<1>. QED
  BY <1>2, <1>10, <1>11, Zenon DEF f, N, Op

-----------------------------------------------------------------------------
(***************************************************************************)
(* derive_bus_dev                                                          *)
(***************************************************************************)

\* The number that the four bytes of a u32 stand for.
Value(h) == h[1] + 256 * h[2] + 65536 * h[3] + 16777216 * h[4]

Two32 == 65536 * 65536

\* A number, its lowest byte and the rest.
LEMMA LowestByte ==
    ASSUME NEW n \in Nat
    PROVE  \E q \in Nat, r \in Bytes : q = n \div 256 /\ r = n % 256 /\ n = 256 * q + r
<1>1. n \div 256 \in Nat /\ n % 256 \in Bytes /\ n = 256 * (n \div 256) + (n % 256)
  BY DEF Bytes
<1>. QED
  BY <1>1, SMT

\* What exceeds 32 bits is lost.
LEMMA Wraps ==
    ASSUME NEW K \in Nat, NEW v \in Nat, v < Two32
    PROVE  (Two32 * K + v) % Two32 = v
BY SMT DEF Two32

\* Four bytes make 32 bits.
LEMMA FourBytes ==
    ASSUME NEW a \in Bytes, NEW b \in Bytes, NEW c \in Bytes, NEW d \in Bytes
    PROVE  Value(<<a, b, c, d>>) \in Nat /\ Value(<<a, b, c, d>>) < Two32
BY SMT DEF Value, Two32, Bytes

\* wrapping_mul: the bytes are those of the product with 0x0100_0193, of which
\* only what exceeds 32 bits is lost.
THEOREM WrappingMulIsProduct ==
    ASSUME NEW h \in Word
    PROVE  Value(WrappingMul(h)) = (Value(h) * 16777619) % Two32
<1>1. PICK a \in Nat, b \in Nat, c \in Nat, d \in Nat : h = <<a, b, c, d>>
  <2>1. /\ h[1] \in Nat /\ h[2] \in Nat /\ h[3] \in Nat /\ h[4] \in Nat
        /\ h = <<h[1], h[2], h[3], h[4]>>
    BY SMTT(30) DEF Word, Bytes
  <2>. QED
    BY <2>1, Zenon
<1>2. PICK q1 \in Nat, r1 \in Bytes :
        q1 = (a * 403) \div 256 /\ r1 = (a * 403) % 256 /\ a * 403 = 256 * q1 + r1
  <2>1. PICK n \in Nat : n = a * 403
    BY SMT
  <2>2. \E q \in Nat, r \in Bytes : q = n \div 256 /\ r = n % 256 /\ n = 256 * q + r
    BY LowestByte
  <2>. QED
    BY <2>1, <2>2, SMT
<1>3. PICK q2 \in Nat, r2 \in Bytes :
        /\ q2 = (b * 403 + q1) \div 256 /\ r2 = (b * 403 + q1) % 256
        /\ b * 403 + q1 = 256 * q2 + r2
  <2>1. PICK n \in Nat : n = b * 403 + q1
    BY SMT
  <2>2. \E q \in Nat, r \in Bytes : q = n \div 256 /\ r = n % 256 /\ n = 256 * q + r
    BY LowestByte
  <2>. QED
    BY <2>1, <2>2, SMT
<1>4. PICK q3 \in Nat, r3 \in Bytes :
        /\ q3 = (c * 403 + q2) \div 256 /\ r3 = (c * 403 + q2) % 256
        /\ c * 403 + q2 = 256 * q3 + r3
  <2>1. PICK n \in Nat : n = c * 403 + q2
    BY SMT
  <2>2. \E q \in Nat, r \in Bytes : q = n \div 256 /\ r = n % 256 /\ n = 256 * q + r
    BY LowestByte
  <2>. QED
    BY <2>1, <2>2, SMT
<1>5. PICK q4 \in Nat, r4 \in Bytes :
        /\ q4 = (d * 403 + q3 + a) \div 256 /\ r4 = (d * 403 + q3 + a) % 256
        /\ d * 403 + q3 + a = 256 * q4 + r4
  <2>1. PICK n \in Nat : n = d * 403 + q3 + a
    BY SMT
  <2>2. \E q \in Nat, r \in Bytes : q = n \div 256 /\ r = n % 256 /\ n = 256 * q + r
    BY LowestByte
  <2>. QED
    BY <2>1, <2>2, SMT
<1>6. WrappingMul(h) = <<r1, r2, r3, r4>>
  BY <1>1, <1>2, <1>3, <1>4, <1>5, SMT DEF WrappingMul
<1>7. PICK K \in Nat : K = q4 + b + 256 * c + 65536 * d
  BY SMT
<1>8. Value(h) * 16777619 = Two32 * K + Value(<<r1, r2, r3, r4>>)
  BY <1>1, <1>2, <1>3, <1>4, <1>5, <1>7, SMTT(30) DEF Value, Two32, Bytes
<1>9. Value(<<r1, r2, r3, r4>>) \in Nat /\ Value(<<r1, r2, r3, r4>>) < Two32
  BY FourBytes
<1>10. (Two32 * K + Value(<<r1, r2, r3, r4>>)) % Two32 = Value(<<r1, r2, r3, r4>>)
  BY <1>9, Wraps
<1>. QED
  BY <1>6, <1>8, <1>10, SMT

\* fnv1a: at most 32 bits of the hash are kept, whatever is hashed.
THEOREM HashIsWord ==
    ASSUME NEW S, NEW bytes \in Seq(S)
    PROVE  Hash(bytes) \in Word
<1>1. Len(bytes) \in 0..Len(bytes)
  OBVIOUS
<1>. QED
  BY <1>1, HashesDef, Zenon DEF Hash

\* parse_bus_id: the number of a bus is a byte, and not 0.
LEMMA ParseBusId ==
    ASSUME NEW bus \in Seq(Nat)
    PROVE  parse_bus_id(bus) \in NonZeroBytes
<1>1. CASE IsNumber(bus)
  <2>1. bus \in Seq(48..57)
    <3>1. DOMAIN bus = 1..Len(bus) /\ Len(bus) \in Nat /\ bus \in [1..Len(bus) -> Nat]
      OBVIOUS
    <3>2. \A i \in 1..Len(bus) : bus[i] \in 48..57
      BY <1>1, <3>1, Zenon DEF IsNumber, Digit
    <3>. QED
      BY <3>1, <3>2
  <2>2. Len(bus) \in 0..Len(bus)
    OBVIOUS
  <2>3. Number(bus) \in Nat
    BY <2>1, <2>2, NumbersDef, Zenon DEF Number
  <2>4. parse_bus_id(bus) = IF Number(bus) > 255 THEN 255 ELSE NonZero(Number(bus))
    BY <1>1, Zenon DEF parse_bus_id
  <2>5. \A n \in Nat : (IF n > 255 THEN 255 ELSE NonZero(n)) \in NonZeroBytes
    BY DEF NonZero, NonZeroBytes
  <2>. QED
    BY <2>3, <2>4, <2>5, Zenon
<1>2. CASE ~IsNumber(bus)
  <2>1. fold_to_u8(Hash(bus)) \in Bytes
    BY XorType DEF fold_to_u8
  <2>2. parse_bus_id(bus) = NonZero(fold_to_u8(Hash(bus)))
    BY <1>2, Zenon DEF parse_bus_id
  <2>. QED
    BY <2>1, <2>2 DEF NonZero, Bytes, NonZeroBytes
<1>. QED
  BY <1>1, <1>2

\* derive_bus_dev: "Both halves must fit in `u8`", and neither is 0.
THEOREM NumbersFit ==
    ASSUME NEW bus \in Seq(Nat), NEW chain, NEW addr
    PROVE  derive_bus_dev(bus, chain, addr) \in NonZeroBytes \X NonZeroBytes
<1>1. fold_to_u8(Hash(Append(chain, addr))) \in Bytes
  BY XorType DEF fold_to_u8
<1>2. NonZero(fold_to_u8(Hash(Append(chain, addr)))) \in NonZeroBytes
  BY <1>1 DEF NonZero, Bytes, NonZeroBytes
<1>. QED
  BY <1>2, ParseBusId, Zenon DEF derive_bus_dev

-----------------------------------------------------------------------------
(***************************************************************************)
(* format_busid                                                            *)
(***************************************************************************)

\* r is a, the separator s and b.
IsParted(r, S, s, a, b) ==
    /\ a \in Seq(S) /\ b \in Seq(S)
    /\ Len(a) \in Nat /\ Len(b) \in Nat
    /\ Len(r) = Len(a) + 1 + Len(b)
    /\ \A i \in 1..Len(a) : r[i] = a[i]
    /\ r[Len(a) + 1] = s
    /\ \A i \in 1..Len(b) : r[Len(a) + 1 + i] = b[i]

Lacks(a, s) == \A i \in 1..Len(a) : a[i] # s

\* The parts of a concatenation.
LEMMA Parted ==
    ASSUME NEW S, NEW s \in S, NEW a \in Seq(S), NEW b \in Seq(S)
    PROVE  /\ a \o <<s>> \o b \in Seq(S)
           /\ IsParted(a \o <<s>> \o b, S, s, a, b)
<1>. DEFINE c == a \o <<s>>
<1>1. /\ c \in Seq(S) /\ Len(a) \in Nat /\ Len(b) \in Nat /\ Len(c) = Len(a) + 1
      /\ \A i \in 1..Len(a) : c[i] = a[i]
      /\ c[Len(a) + 1] = s
  OBVIOUS
<1>. HIDE DEF c
<1>2. /\ c \o b \in Seq(S)
      /\ Len(c \o b) = Len(c) + Len(b)
      /\ \A i \in 1..Len(c) : (c \o b)[i] = c[i]
      /\ \A i \in 1..Len(b) : (c \o b)[Len(c) + i] = b[i]
  BY <1>1
<1>3. PICK r \in Seq(S) :
        /\ r = c \o b
        /\ Len(r) = Len(c) + Len(b)
        /\ \A i \in 1..Len(c) : r[i] = c[i]
        /\ \A i \in 1..Len(b) : r[Len(c) + i] = b[i]
  BY <1>2, Zenon
<1>4. IsParted(r, S, s, a, b)
  BY <1>1, <1>3 DEF IsParted
<1>. QED
  BY <1>3, <1>4, Zenon DEF c

\* Both parts are determined by the length of one.
LEMMA SameParts ==
    ASSUME NEW S, NEW s, NEW r,
           NEW a1, NEW b1, NEW a2, NEW b2,
           IsParted(r, S, s, a1, b1), IsParted(r, S, s, a2, b2), Len(a1) = Len(a2)
    PROVE  a1 = a2 /\ b1 = b2
<1>1. Len(b1) = Len(b2)
  BY DEF IsParted
<1>2. \A i \in 1..Len(a1) : a1[i] = a2[i]
  BY Zenon DEF IsParted
<1>3. \A i \in 1..Len(b1) : b1[i] = b2[i]
  BY <1>1, Zenon DEF IsParted
<1>. QED
  BY <1>1, <1>2, <1>3, SeqEqual, Zenon DEF IsParted

\* What is before the first separator, and what is after it, are determined.
LEMMA FirstCut ==
    ASSUME NEW S, NEW s, NEW r,
           NEW a1, NEW b1, NEW a2, NEW b2,
           IsParted(r, S, s, a1, b1), IsParted(r, S, s, a2, b2), Lacks(a1, s), Lacks(a2, s)
    PROVE  a1 = a2 /\ b1 = b2
<1>1. /\ IsParted(r, S, s, a1, b1) /\ IsParted(r, S, s, a2, b2)
      /\ \A i \in 1..Len(a1) : a1[i] # s
      /\ \A i \in 1..Len(a2) : a2[i] # s
  BY Zenon DEF Lacks
<1>2. Len(a1) \in Nat /\ Len(a2) \in Nat /\ r[Len(a1) + 1] = s /\ r[Len(a2) + 1] = s
  BY <1>1, Zenon DEF IsParted
<1>3. ~(Len(a1) < Len(a2))
  <2>1. SUFFICES ASSUME Len(a1) < Len(a2) PROVE FALSE
    OBVIOUS
  <2>2. Len(a1) + 1 \in 1..Len(a2)
    BY <1>2, <2>1
  <2>. QED
    BY <1>1, <1>2, <2>2, Zenon DEF IsParted
<1>4. ~(Len(a2) < Len(a1))
  <2>1. SUFFICES ASSUME Len(a2) < Len(a1) PROVE FALSE
    OBVIOUS
  <2>2. Len(a2) + 1 \in 1..Len(a1)
    BY <1>2, <2>1
  <2>. QED
    BY <1>1, <1>2, <2>2, Zenon DEF IsParted
<1>5. Len(a1) = Len(a2)
  BY <1>2, <1>3, <1>4
<1>. QED
  BY <1>1, <1>5, SameParts, Zenon

\* The same for the last separator.
LEMMA LastCut ==
    ASSUME NEW S, NEW s, NEW r,
           NEW a1, NEW b1, NEW a2, NEW b2,
           IsParted(r, S, s, a1, b1), IsParted(r, S, s, a2, b2), Lacks(b1, s), Lacks(b2, s)
    PROVE  a1 = a2 /\ b1 = b2
<1>1. /\ IsParted(r, S, s, a1, b1) /\ IsParted(r, S, s, a2, b2)
      /\ \A i \in 1..Len(b1) : b1[i] # s
      /\ \A i \in 1..Len(b2) : b2[i] # s
  BY Zenon DEF Lacks
<1>2. /\ Len(a1) \in Nat /\ Len(a2) \in Nat /\ Len(b1) \in Nat /\ Len(b2) \in Nat
      /\ Len(a1) + 1 + Len(b1) = Len(a2) + 1 + Len(b2)
      /\ r[Len(a1) + 1] = s /\ r[Len(a2) + 1] = s
  BY <1>1, Zenon DEF IsParted
<1>3. ~(Len(a1) < Len(a2))
  <2>1. SUFFICES ASSUME Len(a1) < Len(a2) PROVE FALSE
    OBVIOUS
  <2>2. PICK i \in 1..Len(b1) : Len(a1) + 1 + i = Len(a2) + 1
    <3>1. Len(a2) - Len(a1) \in 1..Len(b1) /\ Len(a1) + 1 + (Len(a2) - Len(a1)) = Len(a2) + 1
      BY <1>2, <2>1
    <3>. QED
      BY <3>1, Zenon
  <2>3. r[Len(a1) + 1 + i] = b1[i]
    BY <1>1, Zenon DEF IsParted
  <2>4. r[Len(a1) + 1 + i] = s
    BY <1>2, <2>2, Zenon
  <2>. QED
    BY <1>1, <2>3, <2>4, Zenon
<1>4. ~(Len(a2) < Len(a1))
  <2>1. SUFFICES ASSUME Len(a2) < Len(a1) PROVE FALSE
    OBVIOUS
  <2>2. PICK i \in 1..Len(b2) : Len(a2) + 1 + i = Len(a1) + 1
    <3>1. Len(a1) - Len(a2) \in 1..Len(b2) /\ Len(a2) + 1 + (Len(a1) - Len(a2)) = Len(a1) + 1
      BY <1>2, <2>1
    <3>. QED
      BY <3>1, Zenon
  <2>3. r[Len(a2) + 1 + i] = b2[i]
    BY <1>1, Zenon DEF IsParted
  <2>4. r[Len(a2) + 1 + i] = s
    BY <1>2, <2>2, Zenon
  <2>. QED
    BY <1>1, <2>3, <2>4, Zenon
<1>5. Len(a1) = Len(a2)
  BY <1>2, <1>3, <1>4
<1>. QED
  BY <1>1, <1>5, SameParts, Zenon

\* Without separators, joined ports determine the ports.
LEMMA JoinsInjective ==
    ASSUME NEW S, Dot \in S,
           NEW p \in Seq(Seq(S)), NEW q \in Seq(Seq(S)), Len(p) >= 1, Len(q) >= 1,
           \A k \in 1..Len(p) : Lacks(p[k], Dot),
           \A k \in 1..Len(q) : Lacks(q[k], Dot),
           Join(p) = Join(q)
    PROVE  p = q
<1>. DEFINE P == Joins(p)
            Q == Joins(q)
            Same(n, m) == P[n] = Q[m] => n = m /\ \A k \in 1..n : p[k] = q[k]
            T == {n \in 1..Len(p) : \A m \in 1..Len(q) : Same(n, m)}
<1>1. /\ Len(p) \in Nat /\ Len(q) \in Nat /\ 1 \in 1..Len(p) /\ 1 \in 1..Len(q)
      /\ \A k \in 1..Len(p) : p[k] \in Seq(S)
      /\ \A k \in 1..Len(q) : q[k] \in Seq(S)
  OBVIOUS
<1>2. /\ P[1] = p[1]
      /\ \A n \in 1..Len(p) : P[n] \in Seq(S)
      /\ \A n \in 2..Len(p) : P[n] = P[n - 1] \o <<Dot>> \o p[n]
  BY JoinsDef, Zenon
<1>3. /\ Q[1] = q[1]
      /\ \A n \in 1..Len(q) : Q[n] \in Seq(S)
      /\ \A n \in 2..Len(q) : Q[n] = Q[n - 1] \o <<Dot>> \o q[n]
  BY JoinsDef, Zenon
<1>. HIDE DEF P, Q
<1>4. ASSUME NEW a \in Seq(S), NEW b \in Seq(S), NEW c \in Seq(S),
             c = a \o <<Dot>> \o b, Lacks(c, Dot)
      PROVE  FALSE
  <2>1. IsParted(c, S, Dot, a, b)
    BY <1>4, Parted, Zenon
  <2>2. Len(a) + 1 \in 1..Len(c) /\ c[Len(a) + 1] = Dot
    BY <2>1 DEF IsParted
  <2>. QED
    BY <1>4, <2>2, Zenon DEF Lacks
<1>5. 1 \in T
  <2>1. ASSUME NEW m \in 1..Len(q), P[1] = Q[m] PROVE m = 1
    <3>1. SUFFICES ASSUME m # 1 PROVE FALSE
      OBVIOUS
    <3>2. m \in 2..Len(q) /\ m - 1 \in 1..Len(q)
      BY <1>1, <3>1
    <3>3. p[1] = Q[m - 1] \o <<Dot>> \o q[m]
      BY <1>2, <1>3, <2>1, <3>2, Zenon
    <3>. QED
      BY <1>1, <1>3, <1>4, <3>2, <3>3, Zenon
  <2>2. ASSUME NEW k \in 1..1 PROVE k = 1
    OBVIOUS
  <2>. QED
    BY <1>1, <1>2, <1>3, <2>1, <2>2, Zenon
<1>6. ASSUME NEW n \in (1 + 1)..Len(p), n - 1 \in T PROVE n \in T
  <2>1. n \in 1..Len(p) /\ n \in 2..Len(p) /\ n - 1 \in 1..Len(p)
    BY <1>1
  <2>2. SUFFICES ASSUME NEW m \in 1..Len(q), P[n] = Q[m]
                 PROVE  n = m /\ \A k \in 1..n : p[k] = q[k]
    BY <2>1, Zenon
  <2>3. m # 1
    <3>1. SUFFICES ASSUME m = 1 PROVE FALSE
      OBVIOUS
    <3>2. q[1] = P[n - 1] \o <<Dot>> \o p[n]
      BY <1>2, <1>3, <2>1, <2>2, <3>1, Zenon
    <3>. QED
      BY <1>1, <1>2, <1>4, <2>1, <3>2, Zenon
  <2>4. m \in 2..Len(q) /\ m - 1 \in 1..Len(q)
    BY <1>1, <2>3
  <2>5. P[n - 1] \o <<Dot>> \o p[n] = Q[m - 1] \o <<Dot>> \o q[m]
    BY <1>2, <1>3, <2>1, <2>2, <2>4, Zenon
  <2>6. P[n - 1] = Q[m - 1] /\ p[n] = q[m]
    <3>1. /\ P[n - 1] \in Seq(S) /\ p[n] \in Seq(S) /\ Q[m - 1] \in Seq(S) /\ q[m] \in Seq(S)
          /\ Lacks(p[n], Dot) /\ Lacks(q[m], Dot)
      BY <1>1, <1>2, <1>3, <2>1, <2>4, Zenon
    <3>2. IsParted(P[n], S, Dot, P[n - 1], p[n]) /\ IsParted(P[n], S, Dot, Q[m - 1], q[m])
      BY <1>2, <2>1, <2>5, <3>1, Parted, ZenonT(40)
    <3>3. PICK r, a1, b1, a2, b2 :
            /\ a1 = P[n - 1] /\ b1 = p[n] /\ a2 = Q[m - 1] /\ b2 = q[m]
            /\ IsParted(r, S, Dot, a1, b1) /\ IsParted(r, S, Dot, a2, b2)
            /\ Lacks(b1, Dot) /\ Lacks(b2, Dot)
      BY <3>1, <3>2, Zenon
    <3>4. a1 = a2 /\ b1 = b2
      BY <3>3, LastCut
    <3>. QED
      BY <3>3, <3>4, Zenon
  <2>7. n - 1 = m - 1 /\ \A k \in 1..(n - 1) : p[k] = q[k]
    BY <1>6, <2>4, <2>6, Zenon
  <2>8. n = m
    BY <2>1, <2>7
  <2>9. ASSUME NEW k \in 1..n PROVE k = n \/ k \in 1..(n - 1)
    BY <2>1
  <2>. QED
    BY <2>6, <2>7, <2>8, <2>9, Zenon
<1>7. Len(p) \in T
  <2>1. 1..Len(p) \subseteq T
    <3>. HIDE DEF T
    <3>1. 1 \in Nat /\ 1 <= Len(p)
      OBVIOUS
    <3>. QED
      BY <1>1, <1>5, <1>6, <3>1, Upward, Zenon
  <2>2. Len(p) \in 1..Len(p)
    BY <1>1
  <2>. QED
    BY <2>1, <2>2, Zenon
<1>8. Len(p) = Len(q) /\ \A k \in 1..Len(p) : p[k] = q[k]
  <2>1. Len(q) \in 1..Len(q)
    BY <1>1
  <2>2. P[Len(p)] = Q[Len(q)]
    BY Zenon DEF P, Q, Join
  <2>. QED
    BY <1>7, <2>1, <2>2, Zenon
<1>. QED
  BY <1>8, SeqEqual

\* s is n in decimal.
IsDecimal(s, n) ==
    \/ \E c \in 0..9 : s = <<48 + c>> /\ n = c
    \/ \E b \in 0..9, c \in 0..9 : s = <<48 + b, 48 + c>> /\ n = 10 * b + c
    \/ \E a \in 0..9, b \in 0..9, c \in 0..9 :
         s = <<48 + a, 48 + b, 48 + c>> /\ n = 100 * a + 10 * b + c

\* Decimal writes a byte with its decimal digits.
LEMMA DecimalForm ==
    ASSUME NEW n \in Bytes
    PROVE  IsDecimal(Decimal(n), n)
<1>1. CASE n \in 0..9
  <2>1. Decimal(n) = <<48 + n>>
    BY <1>1 DEF Decimal
  <2>. QED
    BY <1>1, <2>1, Zenon DEF IsDecimal
<1>2. CASE n \in 10..99
  <2>1. Decimal(n) = <<48 + n \div 10, 48 + (n % 10)>>
    BY <1>2 DEF Decimal
  <2>2. n \div 10 \in 0..9 /\ n % 10 \in 0..9 /\ n = 10 * (n \div 10) + (n % 10)
    BY <1>2
  <2>. QED
    BY <2>1, <2>2, Zenon DEF IsDecimal
<1>3. CASE n \notin 0..99
  <2>1. Decimal(n) = <<48 + n \div 100, 48 + ((n \div 10) % 10), 48 + (n % 10)>>
    BY <1>3 DEF Decimal
  <2>2. /\ n \div 100 \in 0..9 /\ (n \div 10) % 10 \in 0..9 /\ n % 10 \in 0..9
        /\ n = 100 * (n \div 100) + 10 * ((n \div 10) % 10) + (n % 10)
    BY DEF Bytes
  <2>. QED
    BY <2>1, <2>2, ZenonT(40) DEF IsDecimal
<1>4. n \in 0..9 \/ n \in 10..99 \/ n \notin 0..99
  OBVIOUS
<1>. QED
  BY <1>1, <1>2, <1>3, <1>4, Zenon

\* A number in decimal is made of digits.
LEMMA DecimalDigits ==
    ASSUME NEW n \in Bytes
    PROVE  Decimal(n) \in Seq(48..57)
<1>1. \A a \in 0..9, b \in 0..9, c \in 0..9 :
        /\ <<48 + c>> \in Seq(48..57)
        /\ <<48 + b, 48 + c>> \in Seq(48..57)
        /\ <<48 + a, 48 + b, 48 + c>> \in Seq(48..57)
  OBVIOUS
<1>2. PICK s : s = Decimal(n) /\ IsDecimal(s, n)
  BY DecimalForm, Zenon
<1>3. CASE \E c \in 0..9 : s = <<48 + c>> /\ n = c
  BY <1>2, <1>3
<1>4. CASE \E b \in 0..9, c \in 0..9 : s = <<48 + b, 48 + c>> /\ n = 10 * b + c
  BY <1>2, <1>4
<1>5. CASE \E a \in 0..9, b \in 0..9, c \in 0..9 :
             s = <<48 + a, 48 + b, 48 + c>> /\ n = 100 * a + 10 * b + c
  BY <1>2, <1>5
<1>. QED
  BY <1>2, <1>3, <1>4, <1>5, Zenon DEF IsDecimal

\* No two numbers are written alike.
LEMMA DecimalInjective ==
    ASSUME NEW m \in Bytes, NEW n \in Bytes, Decimal(m) = Decimal(n)
    PROVE  m = n
<1>1. PICK s : IsDecimal(s, m) /\ IsDecimal(s, n)
  BY DecimalForm, Zenon
<1>2. ASSUME NEW k, IsDecimal(s, k)
      PROVE  \/ Len(s) = 1 /\ k = s[1] - 48
             \/ Len(s) = 2 /\ k = 10 * (s[1] - 48) + (s[2] - 48)
             \/ Len(s) = 3 /\ k = 100 * (s[1] - 48) + 10 * (s[2] - 48) + (s[3] - 48)
  <2>1. CASE \E c \in 0..9 : s = <<48 + c>> /\ k = c
    BY <2>1
  <2>2. CASE \E b \in 0..9, c \in 0..9 : s = <<48 + b, 48 + c>> /\ k = 10 * b + c
    <3>1. PICK b \in 0..9, c \in 0..9 : s = <<48 + b, 48 + c>> /\ k = 10 * b + c
      BY <2>2, Zenon
    <3>2. Len(s) = 2 /\ s[1] = 48 + b /\ s[2] = 48 + c
      BY <3>1
    <3>. QED
      BY <3>1, <3>2
  <2>3. CASE \E a \in 0..9, b \in 0..9, c \in 0..9 :
               s = <<48 + a, 48 + b, 48 + c>> /\ k = 100 * a + 10 * b + c
    <3>1. PICK a \in 0..9, b \in 0..9, c \in 0..9 :
                 s = <<48 + a, 48 + b, 48 + c>> /\ k = 100 * a + 10 * b + c
      BY <2>3, Zenon
    <3>2. Len(s) = 3 /\ s[1] = 48 + a /\ s[2] = 48 + b /\ s[3] = 48 + c
      BY <3>1
    <3>. QED
      BY <3>1, <3>2
  <2>. QED
    BY <1>2, <2>1, <2>2, <2>3, Zenon DEF IsDecimal
<1>. QED
  BY <1>1, <1>2

\* What follows the dash: the ports, or 0 and the address where there are none.
Path(chain, addr) == IF chain = <<>> THEN <<0, addr>> ELSE chain

\* What a path is written with.
PathChars == (48..57) \cup {Dot}

\* Each of its numbers in decimal.
Written(path) == [i \in DOMAIN path |-> Decimal(path[i])]

\* A path is written as sequences of digits, one per number.
LEMMA WrittenType ==
    ASSUME NEW path \in Seq(Bytes), Len(path) >= 1
    PROVE  /\ Written(path) \in Seq(Seq(48..57))
           /\ Len(Written(path)) = Len(path)
           /\ \A k \in 1..Len(path) : Written(path)[k] = Decimal(path[k]) /\ path[k] \in Bytes
<1>1. DOMAIN path = 1..Len(path) /\ Len(path) \in Nat /\ \A k \in 1..Len(path) : path[k] \in Bytes
  OBVIOUS
<1>2. Written(path) \in [1..Len(path) -> Seq(48..57)]
  BY <1>1, DecimalDigits, Zenon DEF Written
<1>3. \A k \in 1..Len(path) : Written(path)[k] = Decimal(path[k])
  BY <1>1, Zenon DEF Written
<1>. QED
  BY <1>1, <1>2, <1>3, SMTT(30)

\* format_busid in one form: the bus, a dash and the joined path.
LEMMA BusidForm ==
    ASSUME NEW bus \in Seq(Nat), NEW chain \in Seq(Bytes), NEW addr \in Bytes
    PROVE  /\ Path(chain, addr) \in Seq(Bytes) /\ Len(Path(chain, addr)) >= 1
           /\ Join(Written(Path(chain, addr))) \in Seq(PathChars)
           /\ format_busid(bus, chain, addr) = bus \o <<Dash>> \o Join(Written(Path(chain, addr)))
<1>. DEFINE path == Path(chain, addr)
            w == Written(path)
            S == (48..57) \cup {Dot}
<1>1. path \in Seq(Bytes) /\ Len(path) >= 1
  <2>1. chain # <<>> => Len(chain) >= 1
    OBVIOUS
  <2>2. <<0, addr>> \in Seq(Bytes) /\ Len(<<0, addr>>) >= 1
    BY DEF Bytes
  <2>. QED
    BY <2>1, <2>2, Zenon DEF Path
<1>2. /\ w \in Seq(Seq(48..57)) /\ Len(w) = Len(path)
      /\ \A k \in 1..Len(path) : w[k] = Decimal(path[k])
  BY <1>1, WrittenType, Zenon
<1>3. w \in Seq(Seq(S)) /\ Len(w) >= 1 /\ Len(w) \in 1..Len(w)
  <2>. HIDE DEF w, path
  <2>1. Seq(48..57) \subseteq Seq(S)
    OBVIOUS
  <2>2. w \in [1..Len(w) -> Seq(S)] /\ Len(w) \in Nat
    BY <1>2, <2>1
  <2>. QED
    BY <1>1, <1>2, <2>2
<1>4. Dot \in S
  OBVIOUS
<1>. HIDE DEF w, S
<1>5. /\ Joins(w) \in [1..Len(w) -> Seq(S)]
      /\ Joins(w)[1] = w[1]
      /\ \A n \in 2..Len(w) : Joins(w)[n] = Joins(w)[n - 1] \o <<Dot>> \o w[n]
  BY <1>3, <1>4, JoinsDef, Zenon
<1>6. Join(w) \in Seq(S)
  BY <1>3, <1>5, Zenon DEF Join
<1>7. CASE chain # <<>>
  <2>1. path = chain
    BY <1>7, Zenon DEF Path
  <2>. QED
    BY <1>1, <1>6, <1>7, <2>1, Zenon DEF format_busid, w, S, PathChars, Written
<1>8. CASE chain = <<>>
  <2>1. path = <<0, addr>> /\ Len(path) = 2 /\ path[1] = 0 /\ path[2] = addr
    BY <1>8 DEF Path
  <2>2. Len(w) = 2 /\ w[1] = Decimal(0) /\ w[2] = Decimal(addr)
    <3>. HIDE DEF path
    <3>. QED
      BY <1>2, <2>1
  <2>3. Joins(w)[2] = Joins(w)[2 - 1] \o <<Dot>> \o w[2] /\ 2 - 1 = 1
    BY <1>5, <2>2, SMTT(30)
  <2>4. Join(w) = Decimal(0) \o <<Dot>> \o Decimal(addr)
    BY <1>5, <2>2, <2>3, Zenon DEF Join
  <2>. QED
    BY <1>1, <1>6, <1>8, <2>4, Zenon DEF format_busid, w, S, PathChars
<1>. QED
  BY <1>7, <1>8, Zenon

\* What a sequence starts with.
LEMMA FirstOf ==
    ASSUME NEW S, NEW x \in Seq(S), x # <<>>
    PROVE  x[1] \in S
<1>1. Len(x) \in Nat /\ Len(x) # 0
  OBVIOUS
<1>. QED
  BY <1>1

\* The characters of a busid are those of the bus, digits, dots and a dash.
LEMMA BusidType ==
    ASSUME NEW S, S \subseteq Nat, Dash \in S, Dot \in S, 48..57 \subseteq S,
           NEW bus \in Seq(S), NEW chain \in Seq(Bytes), NEW addr \in Bytes
    PROVE  format_busid(bus, chain, addr) \in Seq(S)
<1>1. bus \in Seq(Nat)
  BY SeqMonotonic, Zenon
<1>2. PICK j : /\ j \in Seq(PathChars)
               /\ format_busid(bus, chain, addr) = bus \o <<Dash>> \o j
  BY <1>1, BusidForm, ZenonT(40)
<1>3. j \in Seq(S)
  <2>1. PathChars \subseteq S
    BY DEF PathChars
  <2>. QED
    BY <1>2, <2>1, SeqMonotonic, Zenon
<1>. QED
  BY <1>2, <1>3, Parted, Zenon

IsPlace(bus, chain, addr) == bus \in Seq(Nat \ {Dash}) /\ chain \in Seq(Bytes) /\ addr \in Bytes

\* The same busid is the same path on the same bus.
LEMMA BusidPath ==
    ASSUME NEW b1, NEW c1, NEW a1, IsPlace(b1, c1, a1),
           NEW b2, NEW c2, NEW a2, IsPlace(b2, c2, a2),
           format_busid(b1, c1, a1) = format_busid(b2, c2, a2)
    PROVE  b1 = b2 /\ Path(c1, a1) = Path(c2, a2)
<1>. DEFINE p1 == Path(c1, a1)
            p2 == Path(c2, a2)
            w1 == Written(p1)
            w2 == Written(p2)
<1>1. /\ b1 \in Seq(Nat) /\ c1 \in Seq(Bytes) /\ a1 \in Bytes /\ Lacks(b1, Dash)
      /\ b2 \in Seq(Nat) /\ c2 \in Seq(Bytes) /\ a2 \in Bytes /\ Lacks(b2, Dash)
  <2>1. ASSUME NEW b \in Seq(Nat \ {Dash}) PROVE b \in Seq(Nat) /\ Lacks(b, Dash)
    BY DEF Lacks
  <2>. QED
    BY <2>1, Zenon DEF IsPlace
<1>2. /\ p1 \in Seq(Bytes) /\ Len(p1) >= 1 /\ Join(w1) \in Seq(PathChars)
      /\ format_busid(b1, c1, a1) = b1 \o <<Dash>> \o Join(w1)
  BY <1>1, BusidForm, Zenon
<1>3. /\ p2 \in Seq(Bytes) /\ Len(p2) >= 1 /\ Join(w2) \in Seq(PathChars)
      /\ format_busid(b2, c2, a2) = b2 \o <<Dash>> \o Join(w2)
  BY <1>1, BusidForm, Zenon
<1>. HIDE DEF p1, p2
<1>4. /\ w1 \in Seq(Seq(48..57)) /\ Len(w1) = Len(p1)
      /\ \A k \in 1..Len(p1) : w1[k] = Decimal(p1[k]) /\ p1[k] \in Bytes
  BY <1>2, WrittenType, Zenon
<1>5. /\ w2 \in Seq(Seq(48..57)) /\ Len(w2) = Len(p2)
      /\ \A k \in 1..Len(p2) : w2[k] = Decimal(p2[k]) /\ p2[k] \in Bytes
  BY <1>3, WrittenType, Zenon
<1>. HIDE DEF w1, w2
<1>6. b1 = b2 /\ Join(w1) = Join(w2)
  <2>1. PICK j1, j2 : j1 = Join(w1) /\ j2 = Join(w2) /\ j1 \in Seq(PathChars) /\ j2 \in Seq(PathChars)
    BY <1>2, <1>3, Zenon
  <2>2. j1 \in Seq(Nat) /\ j2 \in Seq(Nat) /\ Dash \in Nat
    <3>1. PathChars \subseteq Nat /\ Dash \in Nat
      BY DEF Dot, Dash, PathChars
    <3>. QED
      BY <2>1, <3>1, SeqMonotonic, Zenon
  <2>3. PICK r : IsParted(r, Nat, Dash, b1, j1) /\ IsParted(r, Nat, Dash, b2, j2)
    BY <1>1, <1>2, <1>3, <2>1, <2>2, Parted, Zenon
  <2>4. b1 = b2 /\ j1 = j2
    BY <1>1, <2>3, FirstCut, Zenon
  <2>. QED
    BY <2>1, <2>4, Zenon
<1>7. ASSUME NEW w \in Seq(Seq(48..57))
      PROVE  w \in Seq(Seq(PathChars)) /\ \A k \in 1..Len(w) : Lacks(w[k], Dot)
  <2>1. /\ Len(w) \in Nat /\ w \in [1..Len(w) -> Seq(48..57)]
        /\ Seq(48..57) \subseteq Seq(PathChars)
    BY DEF PathChars
  <2>2. w \in [1..Len(w) -> Seq(PathChars)]
    BY <2>1, Zenon
  <2>3. w \in Seq(Seq(PathChars))
    BY <2>1, <2>2
  <2>4. ASSUME NEW x \in Seq(48..57) PROVE Lacks(x, Dot)
    <3>1. \A i \in 1..Len(x) : x[i] \in 48..57
      OBVIOUS
    <3>2. Dot \notin 48..57
      BY DEF Dot
    <3>. QED
      BY <3>1, <3>2, Zenon DEF Lacks
  <2>. QED
    BY <2>1, <2>3, <2>4, Zenon
<1>8. w1 = w2
  <2>1. Dot \in PathChars
    BY DEF PathChars
  <2>2. Len(w1) >= 1 /\ Len(w2) >= 1
    BY <1>2, <1>3, <1>4, <1>5, Zenon
  <2>. QED
    BY <1>4, <1>5, <1>6, <1>7, <2>1, <2>2, JoinsInjective, Zenon
<1>9. Len(p1) = Len(p2) /\ \A k \in 1..Len(p1) : p1[k] = p2[k]
  BY <1>4, <1>5, <1>8, DecimalInjective, Zenon
<1>10. p1 = p2
  BY <1>2, <1>3, <1>9, SeqEqual, Zenon
<1>. QED
  BY <1>6, <1>10, Zenon DEF p1, p2

\* No chain of ports starts with 0.
LEMMA NoPortIsZero ==
    ASSUME NEW c \in Seq(NonZeroBytes), NEW a, c # <<>>
    PROVE  <<0, a>> # c
<1>1. PICK x \in NonZeroBytes : x = c[1]
  BY FirstOf, Zenon
<1>2. x # 0
  BY DEF NonZeroBytes
<1>3. <<0, a>>[1] = 0
  OBVIOUS
<1>. QED
  BY <1>1, <1>2, <1>3, Zenon

\* Where a device can be.
IsSite(b, c, a) == b \in Seq(Nat \ {Dash}) /\ c \in Seq(NonZeroBytes) /\ a \in Bytes

\* A busid tells where its device is, and the address of a root hub.
LEMMA SameSite ==
    ASSUME NEW b1, NEW c1, NEW a1, IsSite(b1, c1, a1),
           NEW b2, NEW c2, NEW a2, IsSite(b2, c2, a2),
           format_busid(b1, c1, a1) = format_busid(b2, c2, a2)
    PROVE  b1 = b2 /\ c1 = c2 /\ (c1 = <<>> => a1 = a2)
<1>1. c1 \in Seq(NonZeroBytes) /\ c2 \in Seq(NonZeroBytes)
  BY Zenon DEF IsSite
<1>2. b1 = b2 /\ Path(c1, a1) = Path(c2, a2)
  <2>1. NonZeroBytes \subseteq Bytes
    BY DEF Bytes, NonZeroBytes
  <2>2. c1 \in Seq(Bytes) /\ c2 \in Seq(Bytes)
    BY <1>1, <2>1, SeqMonotonic, Zenon
  <2>3. IsPlace(b1, c1, a1) /\ IsPlace(b2, c2, a2)
    BY <2>2, Zenon DEF IsPlace, IsSite
  <2>. QED
    BY <2>3, BusidPath
<1>3. a1 # a2 => <<0, a1>> # <<0, a2>>
  OBVIOUS
<1>. QED
  BY <1>1, <1>2, <1>3, NoPortIsZero, Zenon DEF Path

\* format_busid: no two places have the same busid, and no root hub has that
\* of another place.  The ports of a chain start at 1, so the 0 of a root hub's
\* busid is no port, and a bus has no dash in its name.
THEOREM BusidInjective ==
    ASSUME NEW b1 \in Seq(Nat \ {Dash}), NEW c1 \in Seq(NonZeroBytes), NEW a1 \in Bytes,
           NEW b2 \in Seq(Nat \ {Dash}), NEW c2 \in Seq(NonZeroBytes), NEW a2 \in Bytes,
           format_busid(b1, c1, a1) = format_busid(b2, c2, a2)
    PROVE  b1 = b2 /\ c1 = c2 /\ (c1 = <<>> => a1 = a2)
<1>1. IsSite(b1, c1, a1) /\ IsSite(b2, c2, a2)
  BY Zenon DEF IsSite
<1>. QED
  BY <1>1, SameSite
=============================================================================
