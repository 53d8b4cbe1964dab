------------------------------- MODULE BusDev -------------------------------
(***************************************************************************)
(* The names of devices (crates/host-mac/src/lib.rs): format_busid,        *)
(* derive_bus_dev, parse_bus_id and fold_to_u8.  Strings are sequences of  *)
(* ASCII codes; a u32 is its four bytes, the lowest first.                 *)
(***************************************************************************)
EXTENDS Naturals, Sequences

Bytes        == 0..255
NonZeroBytes == 1..255

Digit(c) == c \in 48..57
Dash == 45
Dot  == 46

\* A number below 1000 in decimal.
Decimal(n) ==
    CASE n \in 0..9   -> <<48 + n>>
      [] n \in 10..99 -> <<48 + n \div 10, 48 + (n % 10)>>
      [] OTHER        -> <<48 + n \div 100, 48 + ((n \div 10) % 10), 48 + (n % 10)>>

\* Fault: the ports are not separated.
TightJoins(ports) ==
    LET join[n \in 1..Len(ports)] ==
            IF n = 1 THEN ports[1] ELSE join[n - 1] \o ports[n]
    IN join

\* ports.join("."), for every n the join of the first n.
Joins(ports) ==
    LET join[n \in 1..Len(ports)] ==
            IF n = 1 THEN ports[1] ELSE join[n - 1] \o <<Dot>> \o ports[n]
    IN join

Join(ports) == Joins(ports)[Len(ports)]

format_busid(bus, chain, addr) ==
    bus \o <<Dash>> \o
    (IF chain = <<>> THEN Decimal(0) \o <<Dot>> \o Decimal(addr)
     ELSE Join([i \in DOMAIN chain |-> Decimal(chain[i])]))

-----------------------------------------------------------------------------
\* 0x811C_9DC5
Basis == <<197, 157, 28, 129>>

\* wrapping_mul(0x0100_0193), which is 2^24 + 403.
WrappingMul(h) ==
    LET p1 == h[1] * 403
        p2 == h[2] * 403 + p1 \div 256
        p3 == h[3] * 403 + p2 \div 256
        p4 == h[4] * 403 + p3 \div 256 + h[1]
    IN <<p1 % 256, p2 % 256, p3 % 256, p4 % 256>>

\* Exclusive or of two bytes: the bits in which they differ.
Differ(a, b, bit) == IF (a \div bit) % 2 # (b \div bit) % 2 THEN bit ELSE 0

Xor(a, b) ==
    Differ(a, b, 1) + Differ(a, b, 2) + Differ(a, b, 4) + Differ(a, b, 8)
    + Differ(a, b, 16) + Differ(a, b, 32) + Differ(a, b, 64) + Differ(a, b, 128)

Mix(h, b) == [WrappingMul(h) EXCEPT ![1] = Xor(@, b)]

\* The hash, after every n bytes.
Hashes(bytes) ==
    LET hash[n \in 0..Len(bytes)] ==
            IF n = 0 THEN Basis ELSE Mix(hash[n - 1], bytes[n])
    IN hash

Hash(bytes) == Hashes(bytes)[Len(bytes)]

fold_to_u8(h) == Xor(Xor(Xor(h[1], h[2]), h[3]), h[4])

NonZero(n) == IF n = 0 THEN 1 ELSE n

\* bus_id.parse::<u32>(), for the short ids that nusb gives.
IsNumber(s) == s # <<>> /\ \A i \in DOMAIN s : Digit(s[i])

Numbers(s) ==
    LET number[n \in 0..Len(s)] ==
            IF n = 0 THEN 0 ELSE 10 * number[n - 1] + (s[n] - 48)
    IN number

Number(s) == Numbers(s)[Len(s)]

parse_bus_id(bus) ==
    IF IsNumber(bus) THEN IF Number(bus) > 255 THEN 255 ELSE NonZero(Number(bus))
    ELSE NonZero(fold_to_u8(Hash(bus)))

\* Fault: devnum keeps 16 bits of the hash.
DeriveWide(bus, chain, addr) ==
    LET h == Hash(Append(chain, addr)) IN <<parse_bus_id(bus), NonZero(h[1] + 256 * h[2])>>

\* <<busnum, devnum>>
derive_bus_dev(bus, chain, addr) ==
    <<parse_bus_id(bus), NonZero(fold_to_u8(Hash(Append(chain, addr))))>>
=============================================================================
