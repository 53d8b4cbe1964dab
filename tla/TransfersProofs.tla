-------------------------- MODULE TransfersProofs --------------------------
(***************************************************************************)
(* The lengths of transfers, for every length and packet size.             *)
(***************************************************************************)
EXTENDS Transfers, TLAPS

\* Division with remainder.
LEMMA Division ==
    ASSUME NEW a \in Nat, NEW b \in Nat \ {0}
    PROVE  /\ a \div b \in Nat
           /\ a % b \in 0..(b - 1)
           /\ a = b * (a \div b) + (a % b)
OBVIOUS

\* One packet more.
LEMMA OneMore ==
    ASSUME NEW a \in Nat, NEW b \in Nat
    PROVE  b * a \in Nat /\ (a + 1) * b = b * a + b
OBVIOUS

\* data_transfer: an IN request asks for at least what the client does, for
\* at least one packet, for whole packets, and for less than one packet more
\* than the client or for a single one.
THEOREM PaddingIsWhole ==
    ASSUME NEW length \in Nat, NEW mps \in Nat \ {0}
    PROVE  /\ padded_len(length, mps) \in Nat
           /\ padded_len(length, mps) >= length
           /\ padded_len(length, mps) >= mps
           /\ \E n \in Nat : padded_len(length, mps) = n * mps
           /\ padded_len(length, mps) < length + mps \/ padded_len(length, mps) = mps
<1>. DEFINE q == length \div mps
            r == length % mps
<1>1. /\ q \in Nat /\ r \in 0..(mps - 1)
      /\ length = mps * q + r
  BY Division, Zenon
<1>2. CASE length = 0
  <2>1. padded_len(length, mps) = 1 * mps
    BY <1>2 DEF padded_len
  <2>. QED
    BY <1>2, <2>1
<1>3. CASE length # 0 /\ r = 0
  <2>1. padded_len(length, mps) = q * mps
    BY <1>3 DEF padded_len, div_ceil
  <2>. HIDE DEF q, r
  <2>2. q * mps = length /\ q # 0
    BY <1>1, <1>3
  <2>3. q * mps >= mps
    BY <1>1, <2>2
  <2>. QED
    BY <1>1, <2>1, <2>2, <2>3
<1>4. CASE length # 0 /\ r # 0
  <2>1. padded_len(length, mps) = (q + 1) * mps
    BY <1>4 DEF padded_len, div_ceil
  <2>. HIDE DEF q, r
  <2>2. (q + 1) * mps = mps * q + mps /\ mps * q \in Nat
    BY <1>1, OneMore, Zenon
  <2>3. q + 1 \in Nat
    BY <1>1
  <2>4. \E n \in Nat : padded_len(length, mps) = n * mps
    BY <2>1, <2>3, Zenon
  <2>5. PICK p \in Nat : p = mps * q
    BY <2>2, Zenon
  <2>6. padded_len(length, mps) = p + mps /\ length = p + r
    BY <1>1, <2>1, <2>2, <2>5, Zenon
  <2>7. r \in 1..(mps - 1)
    BY <1>1, <1>4
  <2>. QED
    BY <2>4, <2>6, <2>7
<1>. QED
  BY <1>2, <1>3, <1>4

\* run_submit: an IN reply never carries more than the client's buffer takes,
\* whatever the device has sent, nor an OUT reply any data; an overrun is told
\* from a success.
THEOREM ReplyNeverOverruns ==
    ASSUME NEW dirIn \in BOOLEAN, NEW tbl \in Nat, NEW actual \in Nat, NEW data \in Nat
    PROVE  /\ Reply(dirIn, tbl, actual, data).payload <= (IF dirIn THEN tbl ELSE 0)
           /\ Reply(dirIn, tbl, actual, data).status = 0
                <=> ~(dirIn /\ data > tbl)
           /\ ErrorReply.payload = 0 /\ ErrorReply.status # 0
BY DEF Reply, ErrorReply, EOVERFLOW, EPIPE

\* data_transfer and run_submit together: an IN transfer whose request was
\* padded and whose answer is truncated never overflows the client's buffer.
THEOREM TruncationFits ==
    ASSUME NEW tbl \in Int, NEW received \in Nat
    PROVE  LET used == usable(BufferLength(tbl), received)
           IN  /\ used <= BufferLength(tbl)
               /\ Reply(TRUE, BufferLength(tbl), used, used).status = 0
               /\ Reply(TRUE, BufferLength(tbl), used, used).payload = used
BY DEF Reply, usable, Least, BufferLength

\* A multiple has no remainder.
LEMMA SameMultiple ==
    ASSUME NEW b \in Nat, NEW n \in Nat, NEW q \in Nat, NEW r \in 0..(b - 1),
           n * b = b * q + r
    PROVE  r = 0
<1>1. r = b * (n - q)
  OBVIOUS
<1>2. CASE n <= q
  <2>1. b * (q - n) \in Nat /\ b * (n - q) = -(b * (q - n))
    BY <1>2
  <2>. QED
    BY <1>1, <2>1
<1>3. CASE n > q
  <2>1. n - q - 1 \in Nat /\ b * (n - q) = b * (n - q - 1) + b
    BY <1>3
  <2>2. b * (n - q - 1) \in Nat
    BY <2>1
  <2>. QED
    BY <1>1, <2>1, <2>2
<1>. QED
  BY <1>2, <1>3

\* data_transfer: the same as remainders, also where the size of the packets
\* is not known.
LEMMA PaddingDivides ==
    ASSUME NEW length \in Nat, NEW mps \in Nat
    PROVE  /\ padded_len(length, mps) \in Nat
           /\ padded_len(length, mps) >= length
           /\ mps > 0 => padded_len(length, mps) > 0 /\ padded_len(length, mps) % mps = 0
<1>1. CASE mps = 0
  BY <1>1 DEF padded_len
<1>2. CASE mps # 0
  <2>1. PICK p \in Nat, n \in Nat : p = padded_len(length, mps) /\ p >= length /\ p >= mps /\ p = n * mps
    <3>1. mps \in Nat \ {0}
      BY <1>2
    <3>2. /\ padded_len(length, mps) \in Nat
          /\ padded_len(length, mps) >= length
          /\ padded_len(length, mps) >= mps
          /\ \E n \in Nat : padded_len(length, mps) = n * mps
      BY <3>1, PaddingIsWhole, Zenon
    <3>. QED
      BY <3>2, Zenon
  <2>2. PICK q \in Nat, r \in 0..(mps - 1) : r = p % mps /\ p = mps * q + r
    BY <1>2, Division, Zenon
  <2>3. r = 0
    BY <2>1, <2>2, SameMultiple, Zenon
  <2>4. mps > 0
    BY <1>2
  <2>. QED
    BY <2>1, <2>2, <2>3, <2>4
<1>. QED
  BY <1>1, <1>2

\* run_submit: what the RET_SUBMIT of a URB of tbl bytes carries.
FitsBuffer(dirIn, tbl, reply) ==
    /\ reply.payload = IF dirIn THEN reply.actual_length ELSE 0
    /\ reply.actual_length \in 0..tbl

\* The replies to IN, OUT and control transfers and to failed ones.
LEMMA EveryReplyFits ==
    ASSUME NEW tbl \in Nat, NEW n \in Nat
    PROVE  /\ FitsBuffer(TRUE, tbl, Reply(TRUE, tbl, n, n))
           /\ n <= tbl => FitsBuffer(FALSE, tbl, Reply(FALSE, tbl, n, 0))
           /\ FitsBuffer(FALSE, tbl, Reply(FALSE, tbl, tbl, n))
           /\ \A dirIn \in BOOLEAN : FitsBuffer(dirIn, tbl, ErrorReply)
BY DEF FitsBuffer, Reply, ErrorReply
=============================================================================
