----------------------------- MODULE WireProofs -----------------------------
(***************************************************************************)
(* What is encoded is what is decoded, for every device and any width.     *)
(***************************************************************************)
EXTENDS Wire, BusDevProofs

\* The characters of a busid; none is NUL.
Char == Nat \ {0}

\* write_fixed_str pads with NUL, which is where read_fixed_str stops.
THEOREM FixedStringReadsBack ==
    ASSUME NEW width \in Nat, NEW s \in Seq(Char), Len(s) <= width
    PROVE  /\ write_fixed_str(s, width) \in Seq(Nat)
           /\ Len(write_fixed_str(s, width)) = width
           /\ read_fixed_str(write_fixed_str(s, width)) = s
<1>. DEFINE buf == write_fixed_str(s, width)
<1>1. buf = [i \in 1..width |-> IF i <= Len(s) THEN s[i] ELSE 0]
  BY DEF write_fixed_str
<1>2. Len(s) \in Nat /\ \A i \in 1..Len(s) : s[i] \in Nat \ {0}
  BY DEF Char
<1>3. \A i \in 1..width : buf[i] \in Nat /\ (buf[i] = 0 <=> i > Len(s))
  BY <1>1, <1>2
<1>4. buf \in Seq(Nat) /\ Len(buf) = width /\ DOMAIN buf = 1..width
  <2>1. buf \in [1..width -> Nat]
    BY <1>1, <1>3
  <2>. QED
    BY <2>1
<1>. HIDE DEF buf
<1>5. Nuls(buf) = (Len(s) + 1)..width
  BY <1>2, <1>3, <1>4 DEF Nuls
<1>6. End(buf) = Len(s) + 1
  <2>1. CASE Len(s) = width
    <3>1. Nuls(buf) = {}
      BY <1>2, <1>5, <2>1
    <3>. QED
      BY <1>4, <2>1, <3>1 DEF End
  <2>2. CASE Len(s) < width
    <3>1. Len(s) + 1 \in Nuls(buf) /\ \A j \in Nuls(buf) : j \in Nat /\ Len(s) + 1 <= j
      BY <1>2, <1>5, <2>2
    <3>2. PICK e : /\ e = CHOOSE i \in Nuls(buf) : \A j \in Nuls(buf) : i <= j
                   /\ e \in Nuls(buf) /\ \A j \in Nuls(buf) : e <= j
      BY <3>1, Zenon
    <3>3. e = Len(s) + 1
      BY <1>2, <3>1, <3>2
    <3>4. End(buf) = e
      BY <3>1, <3>2, Zenon DEF End
    <3>. QED
      BY <3>3, <3>4
  <2>. QED
    BY <1>2, <2>1, <2>2
<1>7. read_fixed_str(buf) = SubSeq(buf, 1, Len(s))
  BY <1>2, <1>6 DEF read_fixed_str
<1>8. \A i \in 1..Len(s) : buf[i] = s[i]
  BY <1>1, <1>2 DEF buf
<1>9. SubSeq(buf, 1, Len(s)) = s
  BY <1>2, <1>4, <1>8
<1>. QED
  BY <1>4, <1>7, <1>9 DEF buf

\* The devices that have room in the record: a busid of at most BusidWidth
\* characters and at most MaxCount interfaces.
Device == [busid : Seq(Char), busnum : Nat, devnum : Nat, class : Nat, interfaces : Seq(Nat)]

\* A sequence and its continuation.
LEMMA Joined ==
    ASSUME NEW a \in Seq(Nat), NEW b \in Seq(Nat)
    PROVE  \E r \in Seq(Nat) :
             /\ r = a \o b
             /\ Len(a) \in Nat /\ Len(b) \in Nat
             /\ Len(r) = Len(a) + Len(b)
             /\ \A i \in 1..Len(a) : r[i] = a[i]
             /\ \A i \in 1..Len(b) : r[Len(a) + i] = b[i]
<1>1. /\ a \o b \in Seq(Nat)
      /\ Len(a) \in Nat /\ Len(b) \in Nat
      /\ Len(a \o b) = Len(a) + Len(b)
      /\ \A i \in 1..Len(a) : (a \o b)[i] = a[i]
      /\ \A i \in 1..Len(b) : (a \o b)[Len(a) + i] = b[i]
  OBVIOUS
<1>. QED
  BY <1>1, Zenon

\* A part of a sequence that equals another sequence.
LEMMA PartOf ==
    ASSUME NEW a \in Seq(Nat), NEW b \in Seq(Nat), NEW k \in Nat, k + Len(b) <= Len(a),
           \A i \in 1..Len(b) : a[k + i] = b[i]
    PROVE  SubSeq(a, k + 1, k + Len(b)) = b
<1>1. Len(a) \in Nat /\ Len(b) \in Nat
  OBVIOUS
<1>2. /\ SubSeq(a, k + 1, k + Len(b)) \in Seq(Nat)
      /\ Len(SubSeq(a, k + 1, k + Len(b))) = Len(b)
      /\ \A i \in 1..Len(b) : SubSeq(a, k + 1, k + Len(b))[i] = a[k + i]
  BY <1>1
<1>. QED
  BY <1>1, <1>2

\* The cells of a header.
LEMMA Header ==
    ASSUME NEW d \in Device, Len(d.busid) <= BusidWidth, Len(d.interfaces) <= MaxCount
    PROVE  LET f == write_fixed_str(d.busid, BusidWidth)
               h == encode_header_only(d)
           IN  /\ f \in Seq(Nat) /\ Len(f) = BusidWidth /\ read_fixed_str(f) = d.busid
               /\ h \in Seq(Nat) /\ Len(h) = HeaderSize
               /\ \A i \in 1..BusidWidth : h[i] = f[i]
               /\ h[BusidWidth + 1] = d.busnum /\ h[BusidWidth + 2] = d.devnum
               /\ h[BusidWidth + 3] = d.class /\ h[HeaderSize] = Len(d.interfaces)
<1>. DEFINE f == write_fixed_str(d.busid, BusidWidth)
            t == <<d.busnum, d.devnum, d.class, Len(d.interfaces)>>
<1>1. /\ d.busid \in Seq(Char) /\ d.busnum \in Nat /\ d.devnum \in Nat /\ d.class \in Nat
      /\ d.interfaces \in Seq(Nat) /\ Len(d.interfaces) \in Nat
      /\ BusidWidth \in Nat
  BY WireAssumption DEF Device
<1>2. f \in Seq(Nat) /\ Len(f) = BusidWidth /\ read_fixed_str(f) = d.busid
  BY <1>1, FixedStringReadsBack
<1>3. /\ t \in Seq(Nat) /\ Len(t) = 4
      /\ t[1] = d.busnum /\ t[2] = d.devnum /\ t[3] = d.class /\ t[4] = Len(d.interfaces)
  BY <1>1
<1>4. encode_header_only(d) = f \o t
  BY DEF encode_header_only, Saturated
<1>. HIDE DEF f, t
<1>5. PICK h \in Seq(Nat) :
        /\ h = f \o t
        /\ Len(h) = Len(f) + Len(t)
        /\ \A i \in 1..Len(f) : h[i] = f[i]
        /\ \A i \in 1..Len(t) : h[Len(f) + i] = t[i]
  <2>1. f \in Seq(Nat) /\ t \in Seq(Nat)
    BY <1>2, <1>3, Zenon
  <2>. QED
    BY <2>1, Joined, Zenon
<1>6. h = encode_header_only(d)
  BY <1>4, <1>5, Zenon
<1>7. /\ Len(h) = BusidWidth + 4
      /\ \A i \in 1..BusidWidth : h[i] = f[i]
      /\ \A i \in 1..4 : h[BusidWidth + i] = t[i]
  BY <1>2, <1>3, <1>5, Zenon
<1>8. /\ h[BusidWidth + 1] = d.busnum /\ h[BusidWidth + 2] = d.devnum
      /\ h[BusidWidth + 3] = d.class /\ h[BusidWidth + 4] = Len(d.interfaces)
  <2>1. 1 \in 1..4 /\ 2 \in 1..4 /\ 3 \in 1..4 /\ 4 \in 1..4
    OBVIOUS
  <2>. QED
    BY <1>3, <1>7, <2>1, Zenon
<1>. QED
  BY <1>2, <1>6, <1>7, <1>8, Zenon DEF f, HeaderSize

\* ExportedDevice::decode inverts encode whatever follows the record, and
\* tells where the next one starts.
THEOREM DecodeInverts ==
    ASSUME NEW d \in Device, Len(d.busid) <= BusidWidth, Len(d.interfaces) <= MaxCount,
           NEW rest \in Seq(Nat)
    PROVE  /\ ~Short(encode(d) \o rest)
           /\ Used(encode(d) \o rest) = Len(encode(d))
           /\ decode(encode(d) \o rest) = d
<1>. DEFINE f == write_fixed_str(d.busid, BusidWidth)
            h == encode_header_only(d)
            c == encode(d)
            n == Len(d.interfaces)
<1>1. /\ d.interfaces \in Seq(Nat) /\ n \in Nat /\ BusidWidth \in Nat
      /\ HeaderSize = BusidWidth + 4
  BY WireAssumption DEF Device, HeaderSize
<1>2. /\ f \in Seq(Nat) /\ Len(f) = BusidWidth /\ read_fixed_str(f) = d.busid
      /\ h \in Seq(Nat) /\ Len(h) = HeaderSize
      /\ \A i \in 1..BusidWidth : h[i] = f[i]
      /\ h[BusidWidth + 1] = d.busnum /\ h[BusidWidth + 2] = d.devnum
      /\ h[BusidWidth + 3] = d.class /\ h[HeaderSize] = n
  BY Header
<1>3. c = h \o d.interfaces
  BY DEF encode
<1>. HIDE DEF f, h, c, n
<1>4. PICK r \in Seq(Nat) :
        /\ r = h \o d.interfaces
        /\ Len(r) = Len(h) + n
        /\ \A i \in 1..Len(h) : r[i] = h[i]
        /\ \A i \in 1..n : r[Len(h) + i] = d.interfaces[i]
  <2>1. PICK v \in Seq(Nat) : v = d.interfaces
    BY <1>1, Zenon
  <2>2. n = Len(v)
    BY <2>1, Zenon DEF n
  <2>3. h \in Seq(Nat)
    BY <1>2, Zenon
  <2>4. \E r \in Seq(Nat) :
          /\ r = h \o v
          /\ Len(r) = Len(h) + Len(v)
          /\ \A i \in 1..Len(h) : r[i] = h[i]
          /\ \A i \in 1..Len(v) : r[Len(h) + i] = v[i]
    BY <2>1, <2>3, Joined, ZenonT(40)
  <2>. QED
    BY <2>1, <2>2, <2>4, Zenon
<1>5. /\ c \in Seq(Nat) /\ Len(c) = HeaderSize + n
      /\ \A i \in 1..HeaderSize : c[i] = h[i]
      /\ \A i \in 1..n : c[HeaderSize + i] = d.interfaces[i]
  <2>1. c = r /\ Len(h) = HeaderSize
    BY <1>2, <1>3, <1>4, Zenon
  <2>. QED
    BY <1>4, <2>1, Zenon
<1>6. PICK buf \in Seq(Nat) :
        /\ buf = c \o rest /\ Len(rest) \in Nat /\ Len(buf) = Len(c) + Len(rest)
        /\ \A i \in 1..Len(c) : buf[i] = c[i]
  BY <1>5, Joined, Zenon
<1>7. /\ Len(rest) \in Nat /\ Len(buf) = HeaderSize + n + Len(rest)
      /\ \A i \in 1..(HeaderSize + n) : buf[i] = c[i]
  BY <1>5, <1>6, Zenon
<1>8. /\ \A i \in 1..HeaderSize : buf[i] = h[i]
      /\ \A i \in 1..n : buf[HeaderSize + i] = d.interfaces[i]
  <2>1. ASSUME NEW i \in 1..HeaderSize PROVE i \in 1..(HeaderSize + n)
    BY <1>1
  <2>2. ASSUME NEW i \in 1..n PROVE HeaderSize + i \in 1..(HeaderSize + n)
    BY <1>1
  <2>. QED
    BY <1>5, <1>7, <2>1, <2>2, Zenon
<1>9. /\ BusidWidth + 1 \in 1..HeaderSize /\ BusidWidth + 2 \in 1..HeaderSize
      /\ BusidWidth + 3 \in 1..HeaderSize /\ HeaderSize \in 1..HeaderSize
      /\ \A i \in 1..BusidWidth : i \in 1..HeaderSize
  BY <1>1
<1>10. /\ buf[BusidWidth + 1] = d.busnum /\ buf[BusidWidth + 2] = d.devnum
       /\ buf[BusidWidth + 3] = d.class /\ buf[HeaderSize] = n
  BY <1>2, <1>8, <1>9, Zenon
<1>11. ~Short(buf) /\ Used(buf) = Len(c)
  <2>1. Used(buf) = HeaderSize + n
    BY <1>10, Zenon DEF Used
  <2>2. ~(Len(buf) < HeaderSize) /\ ~(Len(buf) < HeaderSize + n)
    BY <1>1, <1>7
  <2>. QED
    BY <1>5, <1>10, <2>1, <2>2, Zenon DEF Short
<1>12. SubSeq(buf, 1, BusidWidth) = f
  <2>1. /\ 0 + Len(f) = BusidWidth /\ 0 + 1 = 1 /\ 0 \in Nat
        /\ \A i \in 1..Len(f) : 0 + i = i
    BY <1>1, <1>2
  <2>2. BusidWidth <= HeaderSize + n + Len(rest)
    BY <1>1, <1>7
  <2>3. 0 + Len(f) <= Len(buf)
    BY <1>7, <2>1, <2>2, Zenon
  <2>4. ASSUME NEW i \in 1..Len(f) PROVE buf[0 + i] = f[i]
    <3>1. i \in 1..BusidWidth /\ 0 + i = i
      BY <1>2, <2>1, Zenon
    <3>2. buf[i] = h[i] /\ h[i] = f[i]
      BY <1>2, <1>8, <1>9, <3>1, Zenon
    <3>. QED
      BY <3>1, <3>2, Zenon
  <2>5. SubSeq(buf, 0 + 1, 0 + Len(f)) = f
    BY <1>2, <2>1, <2>3, <2>4, PartOf, Zenon
  <2>. QED
    BY <2>1, <2>5, Zenon
<1>13. SubSeq(buf, HeaderSize + 1, HeaderSize + n) = d.interfaces
  <2>1. HeaderSize + n <= Len(buf) /\ HeaderSize \in Nat
    BY <1>1, <1>7
  <2>. QED
    BY <1>1, <1>8, <2>1, PartOf, Zenon DEF n
<1>14. decode(buf) = [busid |-> d.busid, busnum |-> d.busnum, devnum |-> d.devnum,
                      class |-> d.class, interfaces |-> d.interfaces]
  <2>1. Used(buf) = HeaderSize + n
    BY <1>10, Zenon DEF Used
  <2>. QED
    BY <1>2, <1>10, <1>12, <1>13, <2>1, Zenon DEF decode, DeviceOf
<1>15. d = [busid |-> d.busid, busnum |-> d.busnum, devnum |-> d.devnum,
            class |-> d.class, interfaces |-> d.interfaces]
  BY DEF Device
<1>. QED
  BY <1>6, <1>11, <1>14, <1>15, Zenon DEF c

-----------------------------------------------------------------------------
(***************************************************************************)
(* Lists of devices                                                        *)
(***************************************************************************)
Fits == {d \in Device : Len(d.busid) <= BusidWidth /\ Len(d.interfaces) <= MaxCount}

\* A record is a sequence of cells.
LEMMA EncodeType ==
    ASSUME NEW d \in Fits
    PROVE  encode(d) \in Seq(Nat)
<1>1. d \in Device /\ Len(d.busid) <= BusidWidth /\ Len(d.interfaces) <= MaxCount
  BY Zenon DEF Fits
<1>2. encode_header_only(d) \in Seq(Nat)
  BY <1>1, Header, Zenon
<1>3. d.interfaces \in Seq(Nat)
  BY <1>1, Zenon DEF Device
<1>. QED
  BY <1>2, <1>3, ConcatProperties, Zenon DEF encode

\* encode_rep_devlist: what is written after every n devices.
LEMMA EncodedDef ==
    ASSUME NEW devices \in Seq(Fits)
    PROVE  /\ Encoded(devices) \in [0..Len(devices) -> Seq(Nat)]
           /\ Encoded(devices)[0] = <<>>
           /\ \A n \in 1..Len(devices) :
                Encoded(devices)[n] = Encoded(devices)[n - 1] \o encode(devices[n])
<1>. DEFINE N == Len(devices)
            f == Encoded(devices)
            Op(v, n) == v \o encode(devices[n])
            rule == [p \in Seq(Nat) \X (0..N) |-> IF p[2] = 0 THEN <<>> ELSE Op(p[1], p[2])]
<1>1. N \in Nat /\ 0 <= N /\ 0 \in Nat
  OBVIOUS
<1>2. /\ 0 \in 0..N
      /\ \A n \in (0 + 1)..N : n \in 0..N /\ n # 0 /\ n - 1 \in 0..N
      /\ \A n \in 1..N : n \in (0 + 1)..N
      /\ \A n \in 0..N : n # 0 => n \in (0 + 1)..N
  BY <1>1
<1>3. <<>> \in Seq(Nat)
  OBVIOUS
<1>4. ASSUME NEW v \in Seq(Nat), NEW n \in 0..N, n # 0 PROVE Op(v, n) \in Seq(Nat)
  <2>1. devices[n] \in Fits
    BY <1>2, <1>4
  <2>. QED
    BY <2>1, EncodeType, ConcatProperties, Zenon
<1>. HIDE DEF N, Op
<1>5. IsRule(rule, Seq(Nat), 0, N)
  BY <1>3, <1>4, Zenon DEF IsRule
<1>6. PICK g : Follows(g, rule, Seq(Nat), <<>>, 0, N)
  <2>. HIDE DEF rule
  <2>. QED
    BY <1>1, <1>3, <1>5, Recursion, Zenon
<1>7. ASSUME NEW n \in (0 + 1)..N PROVE g[n] = Op(g[n - 1], n)
  <2>1. g[n - 1] \in Seq(Nat) /\ g[n] = rule[<<g[n - 1], n>>]
    BY <1>2, <1>6, Zenon DEF Follows
  <2>. QED
    BY <1>2, <2>1
<1>8. g = [n \in 0..N |-> IF n = 0 THEN <<>> ELSE Op(g[n - 1], n)]
  BY <1>2, <1>6, <1>7 DEF Follows
<1>9. f = [n \in 0..N |-> IF n = 0 THEN <<>> ELSE Op(f[n - 1], n)]
  BY <1>8, Zenon DEF Encoded, N, Op
<1>. HIDE DEF f
<1>10. /\ f = [n \in 0..N |-> f[n]]
       /\ f[0] = <<>>
       /\ \A n \in (0 + 1)..N : f[n] = Op(f[n - 1], n)
  BY <1>2, <1>9, Zenon
<1>11. f \in [0..N -> Seq(Nat)]
  <2>1. ASSUME NEW n \in (0 + 1)..N, f[n - 1] \in Seq(Nat) PROVE f[n] \in Seq(Nat)
    BY <1>2, <1>4, <1>10, <2>1, Zenon
  <2>2. f[0] \in Seq(Nat) /\ f = [n \in 0..N |-> f[n]]
    BY <1>3, <1>10, Zenon
  <2>. QED
    BY <1>1, <2>1, <2>2, StaysIn, Zenon
<1>. QED
  BY <1>2, <1>10, <1>11, Zenon DEF f, N, Op

\* What is left of the records before every one of them.
IsRest(t, devices) ==
    /\ t \in [0..Len(devices) -> Seq(Nat)]
    /\ t[0] = Encoded(devices)[Len(devices)]
    /\ t[Len(devices)] = <<>>
    /\ \A n \in 1..Len(devices) : t[n - 1] = encode(devices[n]) \o t[n]

\* Three byte strings written one after the other, grouped either way.
Grouped(a, b, c) == (a \o b) \o c = a \o (b \o c)

\* Appending byte strings does not depend on how the writes are grouped.
LEMMA Regroup ==
    ASSUME NEW a \in Seq(Nat), NEW b \in Seq(Nat), NEW c \in Seq(Nat)
    PROVE  Grouped(a, b, c)
BY ConcatAssociative, SMTT(60) DEF Grouped

\* Such a sequence of rests exists for every list.
LEMMA RestExists ==
    ASSUME NEW devices \in Seq(Fits)
    PROVE  \E t : IsRest(t, devices)
<1>. DEFINE N == Len(devices)
            G == Encoded(devices)
            e(n) == encode(devices[n])
            rule == [p \in Seq(Nat) \X (0..N) |-> IF p[2] = 0 THEN <<>> ELSE e(N + 1 - p[2]) \o p[1]]
<1>1. N \in Nat /\ 0 <= N /\ 0 \in Nat /\ <<>> \in Seq(Nat)
  OBVIOUS
<1>2. ASSUME NEW n \in 1..N PROVE e(n) \in Seq(Nat)
  <2>1. devices[n] \in Fits
    OBVIOUS
  <2>. QED
    BY <2>1, EncodeType, Zenon
<1>3. /\ G \in [0..N -> Seq(Nat)]
      /\ G[0] = <<>>
      /\ \A n \in 1..N : G[n] = G[n - 1] \o e(n)
  BY EncodedDef, Zenon
<1>. HIDE DEF N, G, e
<1>4. IsRule(rule, Seq(Nat), 0, N)
  <2>1. ASSUME NEW v \in Seq(Nat), NEW n \in 0..N, n # 0 PROVE e(N + 1 - n) \o v \in Seq(Nat)
    <3>1. N + 1 - n \in 1..N
      BY <1>1, <2>1
    <3>. QED
      BY <1>2, <3>1, ConcatProperties, Zenon
  <2>. QED
    BY <1>1, <2>1, Zenon DEF IsRule
<1>5. PICK h : Follows(h, rule, Seq(Nat), <<>>, 0, N)
  <2>. HIDE DEF rule
  <2>. QED
    BY <1>1, <1>4, Recursion, Zenon
<1>. DEFINE t == [n \in 0..N |-> h[N - n]]
<1>6. t \in [0..N -> Seq(Nat)]
  <2>1. \A n \in 0..N : N - n \in 0..N
    BY <1>1
  <2>. QED
    BY <1>5, <2>1, Zenon DEF Follows
<1>7. t[N] = <<>>
  <2>1. N \in 0..N /\ N - N = 0
    BY <1>1
  <2>. QED
    BY <1>5, <2>1, Zenon DEF Follows
<1>8. ASSUME NEW n \in 1..N PROVE t[n - 1] = e(n) \o t[n]
  <2>1. /\ n \in 0..N /\ n - 1 \in 0..N /\ N - (n - 1) \in 0..N /\ N - (n - 1) \in (0 + 1)..N
        /\ N - (n - 1) # 0 /\ (N - (n - 1)) - 1 = N - n /\ N + 1 - (N - (n - 1)) = n
        /\ N - n \in 0..N
    BY <1>1
  <2>2. h[N - n] \in Seq(Nat) /\ h[N - (n - 1)] = rule[<<h[(N - (n - 1)) - 1], N - (n - 1)>>]
    BY <1>5, <2>1, Zenon DEF Follows
  <2>3. h[N - (n - 1)] = rule[<<h[N - n], N - (n - 1)>>]
    BY <2>1, <2>2, Zenon
  <2>4. rule[<<h[N - n], N - (n - 1)>>] = e(N + 1 - (N - (n - 1))) \o h[N - n]
    BY <2>1, <2>2, Zenon
  <2>5. t[n - 1] = h[N - (n - 1)] /\ t[n] = h[N - n]
    BY <2>1, Zenon
  <2>. QED
    BY <2>1, <2>3, <2>4, <2>5, Zenon
<1>. HIDE DEF t
<1>9. N \in {n \in 0..N : G[n] \o t[n] = t[0]}
  <2>. DEFINE T == {n \in 0..N : G[n] \o t[n] = t[0]}
  <2>1. 0 \in T
    <3>1. 0 \in 0..N
      BY <1>1
    <3>. QED
      BY <1>3, <1>6, <3>1, ConcatEmptySeq, Zenon
  <2>2. ASSUME NEW n \in (0 + 1)..N, n - 1 \in T PROVE n \in T
    <3>1. n \in 0..N /\ n - 1 \in 0..N /\ n \in 1..N
      BY <1>1
    <3>2. G[n] \o t[n] = (G[n - 1] \o e(n)) \o t[n]
      BY <1>3, <3>1, Zenon
    <3>3. (G[n - 1] \o e(n)) \o t[n] = G[n - 1] \o (e(n) \o t[n])
      <4>1. G[n - 1] \in Seq(Nat) /\ e(n) \in Seq(Nat) /\ t[n] \in Seq(Nat)
        BY <1>2, <1>3, <1>6, <3>1, Zenon
      <4>2. Grouped(G[n - 1], e(n), t[n])
        BY <4>1, Regroup, Zenon
      <4>. QED
        BY <4>2, Zenon DEF Grouped
    <3>4. G[n - 1] \o t[n - 1] = t[0]
      BY <2>2, Zenon
    <3>. QED
      BY <1>8, <3>1, <3>2, <3>3, <3>4, Zenon
  <2>3. N \in 0..N
    BY <1>1
  <2>. HIDE DEF T
  <2>4. 0..N \subseteq T
    BY <1>1, <2>1, <2>2, Upward, Zenon
  <2>. QED
    BY <2>3, <2>4, Zenon DEF T
<1>10. t[0] = G[N]
  <2>1. N \in 0..N
    BY <1>1
  <2>. QED
    BY <1>3, <1>7, <1>9, <2>1, ConcatEmptySeq, Zenon
<1>11. IsRest(t, devices)
  BY <1>6, <1>7, <1>8, <1>10, Zenon DEF IsRest, N, G, e
<1>. QED
  BY <1>11, Zenon

\* A client that reads a record and what follows it goes on after the record.
LEMMA ReadStep ==
    ASSUME NEW d \in Fits, NEW rest \in Seq(Nat), NEW devs
    PROVE  ReadOne([bad |-> FALSE, rest |-> encode(d) \o rest, devs |-> devs])
             = [bad |-> FALSE, rest |-> rest, devs |-> Append(devs, d)]
<1>. DEFINE buf == encode(d) \o rest
            st == [bad |-> FALSE, rest |-> buf, devs |-> devs]
<1>1. d \in Device /\ Len(d.busid) <= BusidWidth /\ Len(d.interfaces) <= MaxCount
  BY Zenon DEF Fits
<1>2. encode(d) \in Seq(Nat)
  BY EncodeType, Zenon
<1>3. ~Short(buf) /\ Used(buf) = Len(encode(d)) /\ decode(buf) = d
  BY <1>1, DecodeInverts, Zenon
<1>4. SubSeq(buf, Len(encode(d)) + 1, Len(buf)) = rest
  BY <1>2, PartOf, SMT
<1>. HIDE DEF buf
<1>5. st.bad = FALSE /\ st.rest = buf /\ st.devs = devs
  OBVIOUS
<1>. HIDE DEF st
<1>6. ReadOne(st) = [bad |-> FALSE, rest |-> rest, devs |-> Append(devs, d)]
  BY <1>3, <1>4, <1>5, Zenon DEF ReadOne
<1>. QED
  BY <1>6, Zenon DEF st, buf

\* A client that reads as many devices as encode_rep_devlist wrote gets exactly
\* the devices that were written, in their order, and nothing is left over,
\* however many devices there are and however many interfaces each one has.
THEOREM RecordsReadBack ==
    ASSUME NEW devices \in Seq(Fits)
    PROVE  Reads(Encoded(devices)[Len(devices)], Len(devices))[Len(devices)]
             = [bad |-> FALSE, rest |-> <<>>, devs |-> devices]
<1>. DEFINE N == Len(devices)
            buf == Encoded(devices)[N]
            State(rest, devs) == [bad |-> FALSE, rest |-> rest, devs |-> devs]
            f == Reads(buf, N)
<1>1. PICK t : IsRest(t, devices)
  BY RestExists, Zenon
<1>. DEFINE g == [n \in 0..N |-> State(t[n], SubSeq(devices, 1, n))]
<1>2. /\ t \in [0..N -> Seq(Nat)]
      /\ t[0] = buf
      /\ t[N] = <<>>
      /\ \A n \in 1..N : t[n - 1] = encode(devices[n]) \o t[n]
  BY <1>1, Zenon DEF IsRest
<1>3. /\ N \in Nat /\ 0 <= N /\ 0 \in Nat /\ 0 \in 0..N /\ N \in 0..N
      /\ \A n \in (0 + 1)..N : n \in 1..N /\ n \in 0..N /\ n # 0 /\ n - 1 \in 0..N
      /\ \A n \in 0..N : n # 0 => n \in 1..N /\ n - 1 \in 0..N
  OBVIOUS
<1>4. SubSeq(devices, 1, 0) = <<>> /\ SubSeq(devices, 1, N) = devices
  OBVIOUS
<1>5. ASSUME NEW n \in 1..N
      PROVE  /\ devices[n] \in Fits
             /\ SubSeq(devices, 1, n) = Append(SubSeq(devices, 1, n - 1), devices[n])
  <2>1. devices[n] \in Fits
    OBVIOUS
  <2>2. SubSeq(devices, 1, n) = Append(SubSeq(devices, 1, n - 1), devices[n])
    BY SMT
  <2>. QED
    BY <2>1, <2>2, Zenon
<1>. HIDE DEF N, buf
<1>6. ASSUME NEW n \in 1..N
      PROVE  State(t[n], SubSeq(devices, 1, n)) = ReadOne(State(t[n - 1], SubSeq(devices, 1, n - 1)))
  <2>1. devices[n] \in Fits /\ t[n] \in Seq(Nat)
    BY <1>2, <1>3, <1>5
  <2>2. ReadOne(State(encode(devices[n]) \o t[n], SubSeq(devices, 1, n - 1)))
          = State(t[n], Append(SubSeq(devices, 1, n - 1), devices[n]))
    BY <2>1, ReadStep, Zenon
  <2>. HIDE DEF State
  <2>. QED
    BY <1>2, <1>5, <2>2, Zenon
<1>7. g = [n \in 0..N |-> IF n = 0 THEN State(buf, <<>>) ELSE ReadOne(g[n - 1])]
  <2>. HIDE DEF State
  <2>1. ASSUME NEW n \in 0..N
        PROVE  State(t[n], SubSeq(devices, 1, n))
                 = IF n = 0 THEN State(buf, <<>>) ELSE ReadOne(g[n - 1])
    <3>1. CASE n = 0
      BY <1>2, <1>4, <3>1, Zenon
    <3>2. CASE n # 0
      BY <1>3, <1>6, <3>2, Zenon
    <3>. QED
      BY <3>1, <3>2, Zenon
  <2>. QED
    BY <2>1, Zenon
<1>. HIDE DEF g
<1>8. f = [n \in 0..N |-> IF n = 0 THEN State(buf, <<>>) ELSE ReadOne(f[n - 1])]
  BY <1>7, Zenon DEF Reads
<1>. HIDE DEF f
<1>. DEFINE T == {n \in 0..N : f[n] = State(t[n], SubSeq(devices, 1, n))}
<1>9. 0 \in T
  BY <1>2, <1>3, <1>4, <1>8, Zenon
<1>10. ASSUME NEW n \in (0 + 1)..N, n - 1 \in T PROVE n \in T
  <2>. HIDE DEF State
  <2>1. f[n - 1] = State(t[n - 1], SubSeq(devices, 1, n - 1))
    BY <1>10, Zenon
  <2>2. f[n] = ReadOne(f[n - 1])
    BY <1>3, <1>8, Zenon
  <2>. QED
    BY <1>3, <1>6, <2>1, <2>2, Zenon
<1>. HIDE DEF T
<1>11. 0..N \subseteq T
  BY <1>3, <1>9, <1>10, Upward, Zenon
<1>12. f[N] = State(t[N], SubSeq(devices, 1, N))
  BY <1>3, <1>11, Zenon DEF T
<1>. QED
  BY <1>2, <1>4, <1>12, Zenon DEF f, N, buf

\* What follows a sequence.
LEMMA After ==
    ASSUME NEW a \in Seq(Nat), NEW b \in Seq(Nat)
    PROVE  SubSeq(a \o b, Len(a) + 1, Len(a \o b)) = b
BY PartOf, SMT

\* The busid of an OP_REQ_IMPORT.
LEMMA RequestReadsBack ==
    ASSUME NEW s \in Seq(Char), Len(s) <= BusidWidth
    PROVE  decode_req_import_busid(write_fixed_str(s, BusidWidth)) = s
<1>. DEFINE f == write_fixed_str(s, BusidWidth)
<1>1. f \in Seq(Nat) /\ Len(f) = BusidWidth /\ read_fixed_str(f) = s
  BY WireAssumption, FixedStringReadsBack, Zenon
<1>. HIDE DEF f
<1>2. SubSeq(f, 1, Len(f)) = f
  BY <1>1
<1>. QED
  BY <1>1, <1>2, Zenon DEF decode_req_import_busid, f

\* The numbers in an OP_REP_IMPORT.
LEMMA ReplyReadsBack ==
    ASSUME NEW d \in Fits, NEW interfaces
    PROVE  LET reply == encode_rep_import_ok(d)
               seen  == DeviceOf(SubSeq(reply, 4, Len(reply)), interfaces)
           IN  seen.busnum = d.busnum /\ seen.devnum = d.devnum
<1>1. PICK h \in Seq(Nat) :
        /\ h = encode_header_only(d)
        /\ h[BusidWidth + 1] = d.busnum /\ h[BusidWidth + 2] = d.devnum
  BY Header, Zenon DEF Fits
<1>. DEFINE o == OpHeader(OP_REP_IMPORT, 0)
<1>2. o \in Seq(Nat) /\ Len(o) + 1 = 4
  BY DEF OpHeader, OP_REP_IMPORT, USBIP_VERSION
<1>. HIDE DEF o
<1>3. SubSeq(o \o h, 4, Len(o \o h)) = h
  BY <1>2, After, Zenon
<1>4. encode_rep_import_ok(d) = o \o h
  BY <1>1, Zenon DEF encode_rep_import_ok, o
<1>5. DeviceOf(h, interfaces).busnum = d.busnum /\ DeviceOf(h, interfaces).devnum = d.devnum
  BY <1>1 DEF DeviceOf
<1>. QED
  BY <1>3, <1>4, <1>5, Zenon

\* The count in an OP_REP_DEVLIST, and the records after it.
LEMMA ListMessage ==
    ASSUME NEW n \in Nat, NEW body \in Seq(Nat)
    PROVE  LET buf == OpHeader(OP_REP_DEVLIST, 0) \o <<n>> \o body
           IN  buf[4] = n /\ SubSeq(buf, 5, Len(buf)) = body
<1>. DEFINE o == OpHeader(OP_REP_DEVLIST, 0) \o <<n>>
<1>1. o \in Seq(Nat) /\ Len(o) = 4 /\ o[4] = n
  BY DEF OpHeader, OP_REP_DEVLIST, USBIP_VERSION
<1>. HIDE DEF o
<1>2. (o \o body)[4] = o[4]
  <2>1. PICK r \in Seq(Nat) : r = o \o body /\ \A i \in 1..Len(o) : r[i] = o[i]
    BY <1>1, Joined, Zenon
  <2>2. \A i \in 1..4 : r[i] = o[i]
    BY <1>1, <2>1, Zenon
  <2>3. r[4] = o[4]
    <3>1. 4 \in 1..4
      OBVIOUS
    <3>. QED
      BY <2>2, <3>1, Zenon
  <2>. QED
    BY <2>1, <2>3, Zenon
<1>3. SubSeq(o \o body, 5, Len(o \o body)) = body
  <2>1. 4 + 1 = 5
    OBVIOUS
  <2>. QED
    BY <1>1, <2>1, After, Zenon
<1>. QED
  BY <1>1, <1>2, <1>3, Zenon DEF o
=============================================================================
