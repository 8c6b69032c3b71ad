---------------------------- MODULE EndPoint_proofs ----------------------------
(***************************************************************************)
(* Proofs about the two address parsers, for any number of pieces, any     *)
(* base, and any texts.                                                    *)
(***************************************************************************)
EXTENDS EndPoint, SequenceTheorems, WellFoundedInduction, TLAPS

Tokens == Group \cup Quads \cup {Colon, Junk}

-----------------------------------------------------------------------------
(* IPv4.                                                                    *)

\* A quotient and a remainder are what they are.
LEMMA Quotient ==
  ASSUME NEW b \in Nat, b >= 1, NEW q \in Nat, NEW r \in 0..b - 1
  PROVE  (q * b + r) \div b = q /\ (q * b + r) % b = r
<1>1. (q * b + r) \div b = q
  OBVIOUS
<1>2. (q * b + r) % b = r
  OBVIOUS
<1> QED BY <1>1, <1>2

LEMMA QuotientTypes ==
  ASSUME NEW b \in Nat, b >= 1, NEW v \in Nat
  PROVE  v \div b \in Nat /\ v % b \in 0..b - 1
OBVIOUS

\* A digit, and a number below a power, make a number below the next one.
LEMMA Digit ==
  ASSUME NEW b \in Nat, b >= 1, NEW m \in Nat, m >= 1, NEW d \in 0..b - 1, NEW r \in 0..m - 1
  PROVE  /\ d * m + r \in 0..b * m - 1
         /\ (d * m + r) \div m = d /\ (d * m + r) % m = r
         /\ ((d * m + r) \div m) % b = d
<1>1. d * m + m <= b * m
  <2>1. PICK e \in Nat : b = d + 1 + e
    BY b - d - 1 \in Nat
  <2>2. b * m = d * m + m + e * m
    BY <2>1
  <2>3. e * m \in Nat /\ d * m \in Nat
    BY <2>1
  <2> QED BY <2>2, <2>3
<1>2. (d * m + r) \div m = d /\ (d * m + r) % m = r
  BY Quotient
<1>3. d % b = d
  <2>1. d = 0 * b + d
    OBVIOUS
  <2> QED BY <2>1, Quotient
<1>4. d * m + r \in 0..b * m - 1
  BY <1>1
<1> QED BY <1>2, <1>3, <1>4

\* Two digits and a number below a power.
LEMMA TwoDigits ==
  ASSUME NEW b \in Nat, b >= 1, NEW m \in Nat, m >= 1,
         NEW n \in Nat, n = b * m, NEW o \in Nat, o = b * n,
         NEW c \in 0..b - 1, NEW d \in 0..b - 1, NEW r \in 0..m - 1,
         NEW v, v = c * n + d * m + r
  PROVE  /\ v \in 0..o - 1 /\ v % m = r
         /\ (v \div m) % b = d /\ (v \div n) % b = c
<1> DEFINE s == d * m + r
           q == c * b + d
<1>1. s \in 0..n - 1 /\ q \in Nat /\ n >= 1
  BY Digit
<1>2. v = c * n + s
  OBVIOUS
<1>3. v = q * m + r
  OBVIOUS
<1>4. q % b = d
  BY Quotient
<1> HIDE DEF s, q
<1>5. v \in 0..o - 1 /\ (v \div n) % b = c
  BY <1>1, <1>2, Digit
<1>6. v \div m = q /\ v % m = r
  BY <1>1, <1>3, Quotient
<1> QED BY <1>4, <1>6, <1>5

LEMMA PowersOf ==
  /\ Base \in Nat /\ Base >= 2
  /\ \A i \in 1..4 : Power[i] \in Nat /\ Power[i] >= 1
  /\ Power[1] = Base
  /\ Power[2] = Base * Power[1] /\ Power[3] = Base * Power[2] /\ Power[4] = Base * Power[3]
<1>1. Base \in Nat /\ Base >= 2
  BY EndPointAssumption
<1>2. \A m \in Nat : m >= 1 => Base * m \in Nat /\ Base * m >= 1
  BY <1>1
<1>3. Power[1] = Base /\ Power[2] = Base * Base
      /\ Power[3] = Base * Base * Base /\ Power[4] = Base * Base * Base * Base
  BY DEF Power
<1>4. Power[2] = Base * Power[1] /\ Power[3] = Base * Power[2] /\ Power[4] = Base * Power[3]
  BY <1>1, <1>3
<1>5. /\ Power[1] \in Nat /\ Power[1] >= 1
      /\ Power[2] \in Nat /\ Power[2] >= 1
      /\ Power[3] \in Nat /\ Power[3] >= 1
      /\ Power[4] \in Nat /\ Power[4] >= 1
  <2> HIDE DEF Power
  <2> QED BY <1>1, <1>2, <1>3, <1>4
<1> QED BY <1>1, <1>3, <1>4, <1>5

\* The numbers of a text with dots only.
LEMMA PartTypes ==
  ASSUME NEW p \in Ipv4Texts
  PROVE  /\ Len(p) \in 1..4 /\ p # <<>>
         /\ \A i \in 1..Len(p) : p[i] \in Nat
         /\ DOMAIN p = 1..Len(p)
         /\ 5 - Len(p) \in 1..4 /\ \A i \in 1..Len(p) - 1 : 4 - i \in 1..4
<1>1. PICK n \in 1..4 : p \in [1..n -> Numbers]
  BY DEF Ipv4Texts
<1>2. p \in Seq(Numbers) /\ Len(p) = n /\ DOMAIN p = 1..n
  BY <1>1
<1>3. \A i \in 1..n : p[i] \in Nat
  BY <1>1, EndPointAssumption
<1>4. p # <<>>
  BY <1>2
<1>5. 5 - n \in 1..4 /\ \A i \in 1..n - 1 : 4 - i \in 1..4
  OBVIOUS
<1> QED BY <1>2, <1>3, <1>4, <1>5

\* All numbers but the last are digits, and the last fits in the places left.
LEMMA FittingNumbers ==
  ASSUME NEW p \in Ipv4Texts
  PROVE  Ipv4Fits(p) <=> /\ \A i \in 1..Len(p) - 1 : p[i] \in 0..Base - 1
                         /\ p[Len(p)] < Power[5 - Len(p)]
<1>1. /\ Len(p) \in 1..4 /\ \A i \in 1..Len(p) : p[i] \in Nat
      /\ DOMAIN p = 1..Len(p)
  BY PartTypes
<1>2. Base \in Nat /\ Base >= 2 /\ Power[5 - Len(p)] \in Nat
  <2>1. 5 - Len(p) \in 1..4
    BY PartTypes
  <2> QED BY <2>1, PowersOf
<1>3. ~Overflows(p) <=> p[Len(p)] < Power[5 - Len(p)]
  <2>1. p[Len(p)] \in Nat
    BY <1>1
  <2> QED BY <1>2, <2>1 DEF Overflows
<1> DEFINE small == \A i \in 1..Len(p) - 1 : p[i] \in 0..Base - 1
           rule == /\ \A i, j \in TooBig(p) : i = j
                   /\ TooBig(p) # {} => p[Len(p)] > Base - 1
<1>4. TooBig(p) = {i \in 1..Len(p) : p[i] > Base - 1}
  BY <1>1 DEF TooBig
<1>5. rule => small
  <2> SUFFICES ASSUME rule, NEW i \in 1..Len(p) - 1, p[i] > Base - 1
               PROVE  FALSE
    BY <1>1, <1>2
  <2>1. i \in TooBig(p)
    BY <1>1, <1>4
  <2>2. Len(p) \in TooBig(p)
    BY <1>1, <1>4, <2>1
  <2>3. i = Len(p)
    BY <2>1, <2>2
  <2> QED BY <1>1, <2>3
<1>6. small => rule
  <2> SUFFICES ASSUME small, NEW i \in TooBig(p) PROVE i = Len(p) /\ p[i] > Base - 1
    OBVIOUS
  <2> QED BY <1>1, <1>2, <1>4
<1> HIDE DEF small, rule
<1>7. Ipv4Fits(p) <=> rule /\ ~Overflows(p)
  BY DEF Ipv4Fits, rule
<1> QED BY <1>3, <1>5, <1>6, <1>7 DEF small

\* What SetAddressIpv4 stores is below Base^4, and gives the numbers back.
LEMMA ValueReads ==
  ASSUME NEW p \in Ipv4Texts, Ipv4Fits(p)
  PROVE  /\ Ipv4Value(p) \in Nat /\ Ipv4Value(p) < Power[4]
         /\ Ipv4Value(p) % Power[5 - Len(p)] = p[Len(p)]
         /\ \A i \in 1..Len(p) - 1 : (Ipv4Value(p) \div Power[4 - i]) % Base = p[i]
<1>1. PICK b \in Nat, m1 \in Nat, m2 \in Nat, m3 \in Nat, m4 \in Nat :
        b = Base /\ m1 = Power[1] /\ m2 = Power[2] /\ m3 = Power[3] /\ m4 = Power[4]
  <2>1. /\ Base \in Nat /\ Power[1] \in Nat /\ Power[2] \in Nat
        /\ Power[3] \in Nat /\ Power[4] \in Nat
    BY PowersOf
  <2> HIDE DEF Power
  <2> QED BY <2>1, Zenon
<1>2. /\ b >= 1 /\ m1 >= 1 /\ m2 >= 1 /\ m3 >= 1 /\ m4 >= 1
      /\ m1 = b /\ m2 = b * m1 /\ m3 = b * m2 /\ m4 = b * m3
  BY <1>1, PowersOf
<1>3. Len(p) \in 1..4 /\ \A i \in 1..Len(p) : p[i] \in Nat
  BY PartTypes
<1>4. /\ \A i \in 1..Len(p) - 1 : p[i] < b
      /\ p[Len(p)] < Power[5 - Len(p)]
  BY <1>1, <1>3, FittingNumbers
<1> DEFINE v == Ipv4Value(p)
<1>5. CASE Len(p) = 1
  <2>1. p[1] \in 0..m4 - 1 /\ v = p[1]
    BY <1>1, <1>3, <1>4, <1>5 DEF Ipv4Value, Weighed
  <2> HIDE DEF v
  <2>2. PICK c \in Nat : c = p[1]
    BY <2>1
  <2>3. c \in 0..m4 - 1
    BY <2>1, <2>2
  <2>4. 0 * m4 + c = c
    OBVIOUS
  <2>5. (0 * m4 + c) % m4 = c
    BY <1>2, <2>3, Quotient
  <2> QED BY <1>1, <1>5, <2>1, <2>2, <2>4, <2>5 DEF v
<1>6. CASE Len(p) = 2
  <2>1. /\ p[1] \in Nat /\ p[1] < b /\ p[2] \in Nat /\ p[2] < m3
        /\ v = p[1] * m3 + p[2]
    BY <1>1, <1>3, <1>4, <1>6 DEF Ipv4Value, Weighed
  <2> HIDE DEF v
  <2>2. PICK c \in Nat, r \in Nat : c = p[1] /\ r = p[2]
    BY <2>1
  <2>3. c \in 0..b - 1 /\ r \in 0..m3 - 1 /\ v = c * m3 + r
    BY <2>1, <2>2
  <2>4. v \in 0..m4 - 1 /\ v % m3 = r /\ (v \div m3) % b = c
    BY <1>2, <2>3, Digit
  <2> QED BY <1>1, <1>6, <2>2, <2>4 DEF v
<1>7. CASE Len(p) = 3
  <2>1. /\ p[1] \in Nat /\ p[1] < b /\ p[2] \in Nat /\ p[2] < b
        /\ p[3] \in Nat /\ p[3] < m2
        /\ v = p[1] * m3 + p[2] * m2 + p[3]
    BY <1>1, <1>3, <1>4, <1>7 DEF Ipv4Value, Weighed
  <2> HIDE DEF v
  <2>2. PICK c \in Nat, d \in Nat, r \in Nat : c = p[1] /\ d = p[2] /\ r = p[3]
    BY <2>1, Zenon
  <2>3. c \in 0..b - 1 /\ d \in 0..b - 1 /\ r \in 0..m2 - 1 /\ v = c * m3 + d * m2 + r
    BY <2>1, <2>2
  <2>4. b >= 1 /\ m2 >= 1 /\ m3 = b * m2 /\ m4 = b * m3
    BY <1>2
  <2>5. v \in 0..m4 - 1 /\ v % m2 = r /\ (v \div m2) % b = d /\ (v \div m3) % b = c
    BY <2>3, <2>4, TwoDigits, SMTT(60)
  <2> QED BY <1>1, <1>7, <2>2, <2>5 DEF v
<1>8. CASE Len(p) = 4
  <2>1. /\ p[1] \in Nat /\ p[1] < b /\ p[2] \in Nat /\ p[2] < b
        /\ p[3] \in Nat /\ p[3] < b /\ p[4] \in Nat /\ p[4] < m1
        /\ v = p[1] * m3 + p[2] * m2 + p[3] * m1 + p[4]
    BY <1>1, <1>3, <1>4, <1>8 DEF Ipv4Value, Weighed
  <2> HIDE DEF v
  <2>2. PICK c \in Nat, d \in Nat, e \in Nat, r \in Nat : c = p[1] /\ d = p[2] /\ e = p[3] /\ r = p[4]
    BY <2>1, Zenon
  <2>3. /\ c \in 0..b - 1 /\ d \in 0..b - 1 /\ e \in 0..b - 1 /\ r \in 0..m1 - 1
        /\ v = c * m3 + d * m2 + e * m1 + r
    BY <2>1, <2>2
  <2>4. b >= 1 /\ m1 >= 1 /\ m2 = b * m1 /\ m3 = b * m2 /\ m4 = b * m3
    BY <1>2
  <2>5. PICK t \in 0..m2 - 1, q \in Nat : t = e * m1 + r /\ q = (c * b + d) * b + e
    <3>1. e * m1 + r \in 0..m2 - 1
      BY <2>3, <2>4, Digit
    <3>2. (c * b + d) * b + e \in Nat
      OBVIOUS
    <3> QED BY <3>1, <3>2, Zenon
  <2>6. v = c * m3 + d * m2 + t
    BY <2>3, <2>5
  <2>7. v \in 0..m4 - 1 /\ (v \div m2) % b = d /\ (v \div m3) % b = c
    <3>1. c \in 0..b - 1 /\ d \in 0..b - 1 /\ t \in 0..m2 - 1
      BY <2>3, <2>5
    <3>2. b >= 1 /\ m2 >= 1 /\ m3 = b * m2 /\ m4 = b * m3
      BY <1>2
    <3> QED BY <2>6, <3>1, <3>2, TwoDigits, SMTT(60)
  <2>8. v = q * m1 + r
    BY <2>3, <2>4, <2>5
  <2>9. v \div m1 = q /\ v % m1 = r
    BY <2>3, <2>4, <2>8, Quotient
  <2>10. q % b = e
    <3>1. PICK x \in Nat : x = c * b + d
      OBVIOUS
    <3>2. q = x * b + e
      BY <2>5, <3>1
    <3> QED BY <2>3, <2>4, <3>2, Quotient
  <2> QED BY <1>1, <1>8, <2>2, <2>7, <2>9, <2>10 DEF v
<1> QED BY <1>3, <1>5, <1>6, <1>7, <1>8

\* Numbers that can be read from a value below Base^4 are accepted.
LEMMA PlaceValues ==
  ASSUME NEW p \in Ipv4Texts
  PROVE  /\ Power[5 - Len(p)] \in Nat /\ Power[5 - Len(p)] >= 1
         /\ \A i \in 1..Len(p) - 1 : Power[4 - i] \in Nat /\ Power[4 - i] >= 1
<1>1. 5 - Len(p) \in 1..4 /\ \A i \in 1..Len(p) - 1 : 4 - i \in 1..4
  BY PartTypes
<1> QED BY <1>1, PowersOf

LEMMA ReadsFit ==
  ASSUME NEW p \in Ipv4Texts, NEW v \in Nat
  PROVE  /\ v % Power[5 - Len(p)] = p[Len(p)]
         /\ \A i \in 1..Len(p) - 1 : (v \div Power[4 - i]) % Base = p[i]
         => Ipv4Fits(p)
<1>1. SUFFICES ASSUME v % Power[5 - Len(p)] = p[Len(p)],
                      \A i \in 1..Len(p) - 1 : (v \div Power[4 - i]) % Base = p[i]
               PROVE  Ipv4Fits(p)
  OBVIOUS
<1>2. p[Len(p)] < Power[5 - Len(p)]
  <2>1. Power[5 - Len(p)] \in Nat /\ Power[5 - Len(p)] >= 1
    BY PlaceValues
  <2>2. v % Power[5 - Len(p)] \in 0..Power[5 - Len(p)] - 1
    BY <2>1, QuotientTypes
  <2>3. p[Len(p)] \in 0..Power[5 - Len(p)] - 1
    BY <1>1, <2>2, Zenon
  <2> QED BY <2>1, <2>3
<1>3. ASSUME NEW i \in 1..Len(p) - 1
      PROVE  p[i] \in 0..Base - 1
  <2>1. Power[4 - i] \in Nat /\ Power[4 - i] >= 1
    BY PlaceValues
  <2>2. v \div Power[4 - i] \in Nat
    BY <2>1, QuotientTypes
  <2>3. Base \in Nat /\ Base >= 1
    BY PowersOf
  <2>4. (v \div Power[4 - i]) % Base \in 0..Base - 1
    BY <2>2, <2>3, QuotientTypes
  <2> QED BY <1>1, <2>4, Zenon
<1> QED BY <1>2, <1>3, FittingNumbers

-----------------------------------------------------------------------------
(* Types, and the bounds of the address.                                    *)

\* What is left of an address behind the pieces parsed so far is zero.
Blank(from, to) == \A k \in from..to : address[k] = 0

InText ==
  /\ verdict = "start" => rest = text /\ address = Zeros /\ current = 0 /\ compress = None
  /\ verdict = "parsing" /\ compress # None => compress \in 1..current
  /\ verdict = "parsing" => Blank(current, Pieces - 1)

InSwaps ==
  /\ swaps # 0 => verdict = "swapping"
  /\ verdict = "swapping" =>
       /\ compress \in 1..Pieces /\ compress + swaps <= current + 1 /\ current < Pieces
       /\ Blank(compress + swaps, current)

BInv ==
  /\ TypeOK /\ text \in Seq(Tokens) /\ rest \in Seq(Tokens) /\ current \in 0..Pieces
  /\ IF parts = <<>> THEN text \in Texts ELSE text = <<>> /\ verdict \in {"start", "set", "rejected"}
  /\ InText /\ InSwaps

LEMMA Constants ==
  /\ Pieces \in Nat /\ Pieces >= 2 /\ None \notin Nat /\ 0 \in Groups /\ Groups \subseteq Nat
  /\ Quads \subseteq Groups \X Groups /\ Texts \subseteq Seq(Tokens)
  /\ Zeros \in Addresses
BY EndPointAssumption DEF Tokens, Zeros, Addresses

LEMMA OneNumber ==
  ASSUME NEW v \in Nat
  PROVE  <<v>> \in [{1} -> Nat]
<1>1. 1..1 = {1}
  OBVIOUS
<1>2. <<v>> \in Seq(Nat) /\ Len(<<v>>) = 1
  OBVIOUS
<1>3. <<v>> \in [1..1 -> Nat]
  BY <1>2, LenProperties
<1> QED BY <1>1, <1>3

LEMMA BoundsStart == ASSUME Init PROVE BInv
<1>1. parts # <<>> => parts \in Ipv4Texts /\ text = <<>>
  BY DEF Init
<1>2. parts = <<>> => text \in Texts
  BY PartTypes DEF Init
<1>3. text \in Seq(Tokens) /\ storage \in [{1} -> Nat]
  <2>1. <<0>> \in [{1} -> Nat]
    BY OneNumber
  <2>2. <<>> \in Seq(Tokens)
    OBVIOUS
  <2> QED BY <1>1, <1>2, <2>1, <2>2, Constants DEF Init
<1>4. TypeOK
  BY <1>1, <1>2, <1>3, Constants DEF Init, TypeOK
<1> QED BY <1>1, <1>2, <1>3, <1>4, Constants DEF Init, BInv, InText, InSwaps, Blank

\* What a token holds.
LEMMA TokenKinds ==
  ASSUME NEW t \in Tokens
  PROVE  \/ t \in Group /\ t[1] \in Groups /\ t = <<t[1]>> /\ t \notin Quads /\ t # Colon /\ t # Junk
         \/ t \in Quads /\ t[1] \in Groups /\ t[2] \in Groups /\ t = <<t[1], t[2]>>
                       /\ t \notin Group /\ t # Colon /\ t # Junk
         \/ t = Colon /\ t \notin Group /\ t \notin Quads /\ t # Junk
         \/ t = Junk /\ t \notin Group /\ t \notin Quads /\ t # Colon
<1>1. ASSUME NEW g \in Groups PROVE <<g>> \notin Quads /\ <<g>> # Colon /\ <<g>> # Junk
  <2>1. Len(<<g>>) = 1 /\ Len(Colon) = 0 /\ Len(Junk) = 3
    BY DEF Colon, Junk
  <2>2. ASSUME NEW q \in Quads PROVE Len(q) = 2
    <3>1. q \in Groups \X Groups
      BY Constants
    <3>2. PICK x \in Groups, y \in Groups : q = <<x, y>>
      BY <3>1
    <3> QED BY <3>2
  <2>3. ASSUME <<g>> \in Quads PROVE FALSE
    <3>1. Len(<<g>>) = 2
      BY <2>2, <2>3, Zenon
    <3> QED BY <2>1, <3>1
  <2>4. <<g>> # Colon /\ <<g>> # Junk
    BY <2>1
  <2> QED BY <2>3, <2>4
<1>2. ASSUME NEW q \in Quads
      PROVE  q[1] \in Groups /\ q[2] \in Groups /\ q = <<q[1], q[2]>> /\ q # Colon /\ q # Junk
  <2>1. q \in Groups \X Groups /\ Len(q) = 2 /\ Len(Colon) = 0 /\ Len(Junk) = 3
    BY Constants DEF Colon, Junk
  <2> QED BY <2>1
<1>3. Colon # Junk
  BY DEF Colon, Junk
<1> QED BY <1>1, <1>2, <1>3 DEF Tokens, Group

LEMMA BoundsOfReject ==
  ASSUME BInv, verdict \in {"start", "parsing"}, parts = <<>>, Reject
  PROVE  BInv'
BY DEF Reject, BInv, TypeOK, InText, InSwaps

\* The rest of a text, one or two tokens further.
LEMMA RestOf ==
  ASSUME rest \in Seq(Tokens), rest # <<>>
  PROVE  /\ rest[1] \in Tokens /\ Tail(rest) \in Seq(Tokens)
         /\ Len(rest) \in Nat /\ Len(rest) >= 1 /\ Len(Tail(rest)) = Len(rest) - 1
         /\ \A i \in 1..Len(rest) - 1 : Tail(rest)[i] = rest[i + 1]
         /\ Len(rest) >= 2 =>
              /\ rest[2] \in Tokens /\ Tail(Tail(rest)) \in Seq(Tokens)
              /\ Len(Tail(Tail(rest))) = Len(rest) - 2
              /\ \A i \in 1..Len(rest) - 2 : Tail(Tail(rest))[i] = rest[i + 2]
<1>1. /\ rest[1] \in Tokens /\ Tail(rest) \in Seq(Tokens)
      /\ Len(rest) \in Nat /\ Len(rest) >= 1 /\ Len(Tail(rest)) = Len(rest) - 1
      /\ \A i \in 1..Len(rest) - 1 : Tail(rest)[i] = rest[i + 1]
  BY EmptySeq, HeadTailProperties, ElementOfSeq
<1>2. ASSUME Len(rest) >= 2
      PROVE  /\ rest[2] \in Tokens /\ Tail(Tail(rest)) \in Seq(Tokens)
             /\ Len(Tail(Tail(rest))) = Len(rest) - 2
             /\ \A i \in 1..Len(rest) - 2 : Tail(Tail(rest))[i] = rest[i + 2]
  <2> DEFINE t == Tail(rest)
  <2>1. t \in Seq(Tokens) /\ Len(t) = Len(rest) - 1 /\ \A i \in 1..Len(rest) - 1 : t[i] = rest[i + 1]
    BY <1>1
  <2> HIDE DEF t
  <2>2. t # <<>> /\ Len(t) >= 1 /\ Len(t) \in Nat
    BY <1>1, <1>2, <2>1
  <2>3. Tail(t) \in Seq(Tokens) /\ Len(Tail(t)) = Len(t) - 1 /\ \A i \in 1..Len(Tail(t)) : Tail(t)[i] = t[i + 1]
    BY <2>1, <2>2, HeadTailProperties
  <2>4. rest[2] \in Tokens
    BY <1>1, <1>2, ElementOfSeq
  <2>5. ASSUME NEW i \in 1..Len(rest) - 2 PROVE Tail(t)[i] = rest[i + 2]
    <3>1. Tail(t)[i] = t[i + 1]
      BY <1>1, <2>1, <2>3
    <3>2. PICK j \in 1..Len(rest) - 1 : j = i + 1
      BY <1>1
    <3>3. t[j] = rest[j + 1]
      BY <2>1
    <3>4. j + 1 = i + 2
      BY <3>2
    <3> QED BY <3>1, <3>2, <3>3, <3>4
  <2> QED BY <1>1, <2>1, <2>3, <2>4, <2>5 DEF t
<1> QED BY <1>1, <1>2

LEMMA BoundsOfStart == ASSUME BInv, SetIpv4 \/ Begin PROVE BInv'
<1>1. CASE SetIpv4
  <2>1. Ipv4Fits(parts) => <<Ipv4Value(parts)>> \in [{1} -> Nat]
    BY <1>1, OneNumber, ValueReads DEF SetIpv4, BInv, TypeOK
  <2> QED BY <1>1, <2>1 DEF SetIpv4, BInv, TypeOK, InText, InSwaps
<1>2. CASE Begin
  <2>1. swaps = 0 /\ parts = <<>> /\ verdict = "start" /\ rest = text /\ rest \in Seq(Tokens) /\ address = Zeros
    BY <1>2 DEF Begin, BInv, InText, InSwaps
  <2>2. CASE Reject
    BY <2>1, <2>2, BoundsOfReject
  <2>3. CASE verdict' = "parsing" /\ UNCHANGED <<text, parts, rest, address, current, compress, swaps, storage>>
    BY <2>1, <2>3, Constants DEF BInv, TypeOK, InText, InSwaps, Blank, Zeros, Indices
  <2>4. CASE /\ Len(rest) >= 2 /\ rest' = Tail(Tail(rest))
             /\ current' = 1 /\ compress' = 1 /\ verdict' = "parsing"
             /\ UNCHANGED <<text, parts, address, swaps, storage>>
    <3>1. rest' \in Seq(Tokens)
      BY <2>1, <2>4, RestOf
    <3> QED BY <2>1, <2>4, <3>1, Constants DEF BInv, TypeOK, InText, InSwaps, Blank, Zeros, Indices
  <2> QED BY <1>2, <2>2, <2>3, <2>4 DEF Begin
<1> QED BY <1>1, <1>2

\* The steps of the loop over the text.
LEMMA BoundsOfParsing ==
  ASSUME BInv, TooMany \/ Compress \/ Piece \/ Dotted \/ Strange
  PROVE  BInv'
<1>1. /\ verdict = "parsing" /\ swaps = 0 /\ parts = <<>>
      /\ rest \in Seq(Tokens) /\ rest # <<>> /\ current \in 0..Pieces
      /\ address \in Addresses /\ compress # None => compress \in 1..current
      /\ Blank(current, Pieces - 1)
  BY DEF TooMany, Compress, Piece, Dotted, Strange, Parsing, BInv, TypeOK, InText, InSwaps
<1>2. CASE Reject
  BY <1>1, <1>2, BoundsOfReject
<1>3. CASE Compress /\ ~Reject
  <2>1. /\ rest' = Tail(rest) /\ current < Pieces
        /\ address' = [address EXCEPT ![current] = 0]
        /\ current' = current + 1 /\ compress' = current + 1
        /\ UNCHANGED <<text, parts, swaps, verdict, storage>>
    BY <1>3 DEF Compress
  <2>2. rest' \in Seq(Tokens)
    BY <1>1, <2>1, RestOf
  <2> QED BY <1>1, <2>1, <2>2, Constants DEF BInv, TypeOK, InText, InSwaps, Blank, Addresses, Indices
<1>4. CASE Piece /\ ~Reject
  <2>1. /\ rest' = (IF Len(rest) = 1 THEN <<>> ELSE Tail(Tail(rest))) /\ current < Pieces
        /\ Len(rest) = 1 \/ Len(rest) > 2
        /\ address' = [address EXCEPT ![current] = rest[1][1]] /\ rest[1] \in Group
        /\ current' = current + 1
        /\ UNCHANGED <<text, parts, compress, swaps, verdict, storage>>
    BY <1>4 DEF Piece
  <2>2. rest' \in Seq(Tokens)
    BY <1>1, <2>1, RestOf
  <2>3. rest[1][1] \in Groups
    BY <1>1, <2>1, RestOf, TokenKinds
  <2> QED BY <1>1, <2>1, <2>2, <2>3, Constants DEF BInv, TypeOK, InText, InSwaps, Blank, Addresses, Indices
<1>5. CASE Dotted /\ ~Reject
  <2>1. /\ rest' = <<>> /\ current <= Pieces - 2 /\ rest[1] \in Quads
        /\ address' = [address EXCEPT ![current] = rest[1][1], ![current + 1] = rest[1][2]]
        /\ current' = current + 2
        /\ UNCHANGED <<text, parts, compress, swaps, verdict, storage>>
    BY <1>5 DEF Dotted
  <2>2. rest' \in Seq(Tokens)
    BY <2>1
  <2>3. rest[1][1] \in Groups /\ rest[1][2] \in Groups
    BY <1>1, <2>1, RestOf, TokenKinds
  <2> QED BY <1>1, <2>1, <2>2, <2>3, Constants DEF BInv, TypeOK, InText, InSwaps, Blank, Addresses, Indices
<1> QED BY <1>2, <1>3, <1>4, <1>5 DEF TooMany, Strange

\* The end of the text, and the moves.
LEMMA BoundsOfSwaps ==
  ASSUME BInv, EndOfText \/ Swap \/ EndSwaps \/ SetIpv6
  PROVE  BInv'
<1>1. CASE EndOfText
  <2>1. /\ verdict = "parsing" /\ swaps = 0 /\ parts = <<>> /\ current \in 0..Pieces
        /\ compress # None => compress \in 1..current
        /\ Blank(current, Pieces - 1)
    BY <1>1 DEF EndOfText, BInv, InText, InSwaps
  <2>2. CASE Reject
    BY <2>1, <2>2, BoundsOfReject
  <2>3. CASE verdict' = "accepted" /\ UNCHANGED <<text, parts, rest, address, current, compress, swaps, storage>>
    BY <2>1, <2>3 DEF BInv, TypeOK, InText, InSwaps
  <2>4. CASE /\ compress # None
             /\ swaps' = current - compress /\ current' = Pieces - 1
             /\ verdict' = "swapping"
             /\ UNCHANGED <<text, parts, rest, address, compress, storage>>
    BY <2>1, <2>4, Constants DEF BInv, TypeOK, InText, InSwaps, Blank
  <2> QED BY <1>1, <2>2, <2>3, <2>4 DEF EndOfText
<1>2. CASE Swap
  <2> DEFINE last == compress + swaps - 1
  <2>1. /\ verdict = "swapping" /\ swaps \in Nat /\ swaps > 0 /\ current \in 0..Pieces /\ current # 0
        /\ compress \in 1..Pieces /\ compress + swaps <= current + 1 /\ current < Pieces
        /\ Blank(compress + swaps, current) /\ address \in Addresses
    BY <1>2 DEF Swap, BInv, TypeOK, InSwaps
  <2>2. last \in 1..current /\ last \in Indices /\ current \in Indices
    BY <2>1, Constants DEF Indices
  <2>3. /\ address' = [address EXCEPT ![current] = address[last], ![last] = address[current]]
        /\ current' = current - 1 /\ swaps' = swaps - 1
        /\ UNCHANGED <<text, parts, rest, compress, verdict, storage>>
    BY <1>2 DEF Swap
  <2>4. address' \in Addresses
    BY <2>1, <2>2, <2>3 DEF Addresses
  <2>5. ASSUME NEW k \in compress' + swaps'..current'
        PROVE  address'[k] = 0
    <3>1. k \in last..current - 1
      BY <2>1, <2>3
    <3>2. address[current] = 0
      <4>1. current \in compress + swaps..current
        BY <2>1, <3>1
      <4> QED BY <2>1, <4>1 DEF Blank
    <3>3. k \in Indices
      BY <2>1, <2>2, <3>1, Constants DEF Indices
    <3>4. CASE k = last
      BY <2>1, <2>2, <2>3, <3>2, <3>4 DEF Addresses
    <3>5. CASE k # last
      <4>1. address[k] = 0
        BY <2>1, <2>2, <3>1, <3>5 DEF Blank
      <4> QED BY <2>1, <2>2, <2>3, <3>1, <3>3, <3>5, <4>1 DEF Addresses
    <3> QED BY <3>4, <3>5
  <2>6. InSwaps'
    <3>1. Blank(compress + swaps, current)'
      BY <2>5 DEF Blank
    <3>2. /\ compress' \in 1..Pieces /\ compress' + swaps' <= current' + 1 /\ current' < Pieces
          /\ verdict' = "swapping"
      BY <2>1, <2>3, Constants
    <3> QED BY <3>1, <3>2 DEF InSwaps
  <2>7. swaps' \in Nat /\ current' \in 0..Pieces
    BY <2>1, <2>3, Constants
  <2>8. verdict' = "swapping" /\ UNCHANGED <<text, parts, rest, compress, storage>>
    BY <2>1, <2>3
  <2>9. TypeOK'
    BY <2>4, <2>7, <2>8 DEF BInv, TypeOK
  <2>10. InText'
    BY <2>8 DEF InText
  <2> QED BY <2>1, <2>6, <2>7, <2>8, <2>9, <2>10 DEF BInv
<1>3. CASE EndSwaps
  <2>1. swaps = 0
    BY <1>3 DEF EndSwaps, BInv, TypeOK, InSwaps
  <2> QED BY <1>3, <2>1 DEF EndSwaps, BInv, TypeOK, InText, InSwaps
<1>4. CASE SetIpv6
  BY <1>4 DEF SetIpv6, BInv, TypeOK, InText, InSwaps
<1> QED BY <1>1, <1>2, <1>3, <1>4

LEMMA Bounds == ASSUME BInv, [Next]_vars PROVE BInv'
<1>1. CASE UNCHANGED vars
  BY <1>1 DEF vars, BInv, TypeOK, InText, InSwaps, Blank
<1> QED BY <1>1, BoundsOfStart, BoundsOfParsing, BoundsOfSwaps DEF Next

LEMMA BoundsInvariant == Spec => []BInv
BY BoundsStart, Bounds, PTL DEF Spec

\* TypeOK.  At every moment of the parsing each piece of the address is a group, and
\* the indices of the compression and of the swaps are numbers.
THEOREM EndPointTypes == Spec => []TypeOK
<1>1. BInv => TypeOK
  BY DEF BInv
<1> QED BY <1>1, BoundsInvariant, PTL

\* InBounds.  The pieces are read and written inside the address, in the loop over
\* the text and when they are moved to its end.
THEOREM PiecesInBounds == Spec => []InBounds
<1>1. BInv => InBounds
  <2> SUFFICES ASSUME BInv PROVE InBounds
    OBVIOUS
  <2>1. current \in 0..Pieces /\ (compress # None /\ verdict = "parsing" => compress <= current)
    BY DEF BInv, InText
  <2>2. ASSUME swaps > 0 PROVE current \in Indices /\ compress + swaps - 1 \in Indices
    BY <2>2, Constants DEF BInv, TypeOK, InSwaps, Indices
  <2> QED BY <2>1, <2>2 DEF InBounds
<1> QED BY <1>1, BoundsInvariant, PTL

\* Ipv4Exact.  A text with dots only is accepted exactly if it is a way to write a
\* value below Base^4, and then this value is stored.
THEOREM Ipv4IsExact == Spec => []Ipv4Exact
<1>1. Init => Ipv4Exact
  BY DEF Init, Ipv4Exact
<1>2. ASSUME BInv, Ipv4Exact, [Next]_vars PROVE Ipv4Exact'
  <2>1. SUFFICES ASSUME parts # <<>>, parts' = parts PROVE Ipv4Exact'
    <3>1. parts' = parts
      BY <1>2 DEF Next, SetIpv4, Begin, TooMany, Compress, Piece, Dotted, Strange, EndOfText, Swap, EndSwaps,
         SetIpv6, Reject, vars
    <3> QED BY <3>1 DEF Ipv4Exact
  <2>2. CASE UNCHANGED <<verdict, storage>>
    BY <1>2, <2>1, <2>2 DEF Ipv4Exact
  <2>3. CASE SetIpv4
    <3>1. parts \in Ipv4Texts
      BY <1>2, <2>1 DEF BInv, TypeOK
    <3>2. CASE Ipv4Fits(parts)
      <4>1. verdict' = "set" /\ storage'[1] = Ipv4Value(parts)
        BY <2>3, <3>2 DEF SetIpv4
      <4> HIDE DEF Power
      <4> QED BY <2>1, <3>1, <3>2, <4>1, ValueReads DEF Ipv4Exact
    <3>3. CASE ~Ipv4Fits(parts)
      <4>1. verdict' = "rejected"
        BY <2>3, <3>3 DEF SetIpv4
      <4>2. Power[4] \in Nat
        BY PowersOf
      <4>3. ASSUME NEW v \in 0..Power[4] - 1
            PROVE  ~(/\ v % Power[5 - Len(parts)] = parts[Len(parts)]
                     /\ \A i \in 1..Len(parts) - 1 : (v \div Power[4 - i]) % Base = parts[i])
        <5>1. v \in Nat
          BY <4>2
        <5> QED BY <3>1, <3>3, <5>1, ReadsFit
      <4> HIDE DEF Power
      <4> QED BY <2>1, <4>1, <4>3 DEF Ipv4Exact
    <3> QED BY <3>2, <3>3
  <2>4. ~(\/ Begin \/ TooMany \/ Compress \/ Piece \/ Dotted \/ Strange
          \/ EndOfText \/ Swap \/ EndSwaps \/ SetIpv6)
    BY <1>2, <2>1 DEF BInv, Begin, TooMany, Compress, Piece, Dotted, Strange, EndOfText, Swap, EndSwaps,
       SetIpv6, Parsing
  <2> QED BY <1>2, <2>2, <2>3, <2>4 DEF Next, vars
<1> QED BY <1>1, <1>2, BoundsInvariant, PTL DEF Spec


-----------------------------------------------------------------------------
(* The spellings of an address, token by token.                             *)

\* The number of tokens of h pieces and the "::" after them.
Start(h) == IF h = 0 THEN 2 ELSE 2 * h + 1

\* t begins with the pieces a[0], ..., a[h - 1] and a "::".
HeadOf(t, a, h) ==
  /\ Start(h) <= Len(t) /\ t[Start(h) - 1] = Colon /\ t[Start(h)] = Colon
  /\ \A k \in 0..h - 1 : t[2 * k + 1] = <<a[k]>> /\ t[2 * k + 2] = Colon

\* After o tokens come the pieces a[q], ..., a[e - 1], with colons between them.
ListOf(t, o, a, q, e) ==
  \A k \in q..e - 1 :
    /\ t[o + 2 * (k - q) + 1] = <<a[k]>>
    /\ o + 2 * (k - q) + 1 < Len(t) => t[o + 2 * (k - q) + 2] = Colon

\* And these are the last tokens, the last two pieces possibly as a quad.
ListEnds(t, o, a, q, e) ==
  Len(t) = o + (IF q < e THEN 2 * (e - q) - 1 ELSE 0) /\ ListOf(t, o, a, q, e)

QuadEnds(t, o, a, q, e) ==
  /\ e - q >= 2 /\ Len(t) = o + 2 * (e - q) - 3
  /\ ListOf(t, o, a, q, e - 2)
  /\ t[Len(t)] = <<a[e - 2], a[e - 1]>> /\ t[Len(t)] \in Quads

Ends(t, o, a, q, e) == ListEnds(t, o, a, q, e) \/ QuadEnds(t, o, a, q, e)

\* The pieces from h to q - 1 are left out.
SpeltShort(t, a, h, q) ==
  /\ h < q /\ (\A k \in h..q - 1 : a[k] = 0)
  /\ HeadOf(t, a, h) /\ Ends(t, Start(h), a, q, Pieces)

Spelt(t, a) == \/ Ends(t, 0, a, 0, Pieces)
               \/ \E h \in Indices, q \in 1..Pieces : SpeltShort(t, a, h, q)

\* A piece of a list, and its colon.
LEMMA ListAt ==
  ASSUME NEW t, NEW o \in Nat, NEW a, NEW q \in Nat, NEW e \in Nat, ListOf(t, o, a, q, e),
         NEW d \in Nat, q + d < e
  PROVE  /\ t[o + 2 * d + 1] = <<a[q + d]>>
         /\ o + 2 * d + 1 < Len(t) => t[o + 2 * d + 2] = Colon
<1>1. PICK k \in q..e - 1 : k = q + d
  OBVIOUS
<1>2. k - q = d
  BY <1>1
<1>3. /\ t[o + 2 * (k - q) + 1] = <<a[k]>>
      /\ o + 2 * (k - q) + 1 < Len(t) => t[o + 2 * (k - q) + 2] = Colon
  BY DEF ListOf
<1> QED BY <1>1, <1>2, <1>3

\* One piece more.
LEMMA ListGrows ==
  ASSUME NEW t, NEW o \in Nat, NEW a, NEW q \in Nat, NEW e \in Nat, q <= e,
         ListOf(t, o, a, q, e),
         t[o + 2 * (e - q) + 1] = <<a[e]>>,
         o + 2 * (e - q) + 1 < Len(t) => t[o + 2 * (e - q) + 2] = Colon
  PROVE  ListOf(t, o, a, q, e + 1)
<1>1. \A k \in q..(e + 1) - 1 : k \in q..e - 1 \/ k = e
  OBVIOUS
<1> QED BY <1>1 DEF ListOf

\* The same pieces at other places of an address.
LEMMA ListShifts ==
  ASSUME NEW t, NEW o \in Nat, NEW a, NEW b, NEW q \in Nat, NEW e \in Nat, NEW g \in Nat,
         \A k \in q..e - 1 : b[k + g] = a[k],
         ListOf(t, o, a, q, e)
  PROVE  ListOf(t, o, b, q + g, e + g)
<1> SUFFICES ASSUME NEW k \in q + g..(e + g) - 1
             PROVE  /\ t[o + 2 * (k - (q + g)) + 1] = <<b[k]>>
                    /\ o + 2 * (k - (q + g)) + 1 < Len(t) => t[o + 2 * (k - (q + g)) + 2] = Colon
  BY DEF ListOf
<1>1. PICK j \in q..e - 1 : k = j + g
  <2>1. k - g \in q..e - 1 /\ k = (k - g) + g
    OBVIOUS
  <2> QED BY <2>1
<1>2. b[k] = a[j] /\ k - (q + g) = j - q
  BY <1>1
<1>3. /\ t[o + 2 * (j - q) + 1] = <<a[j]>>
      /\ o + 2 * (j - q) + 1 < Len(t) => t[o + 2 * (j - q) + 2] = Colon
  BY DEF ListOf
<1> QED BY <1>2, <1>3

LEMMA EndsShift ==
  ASSUME NEW t, NEW o \in Nat, NEW a, NEW b, NEW q \in Nat, NEW e \in Nat, NEW g \in Nat,
         \A k \in q..e - 1 : b[k + g] = a[k],
         Ends(t, o, a, q, e)
  PROVE  Ends(t, o, b, q + g, e + g)
<1>1. CASE ListEnds(t, o, a, q, e)
  <2>1. ListOf(t, o, b, q + g, e + g)
    BY <1>1, ListShifts DEF ListEnds
  <2>2. (e + g) - (q + g) = e - q /\ (q + g < e + g <=> q < e)
    OBVIOUS
  <2> QED BY <1>1, <2>1, <2>2 DEF Ends, ListEnds
<1>2. CASE QuadEnds(t, o, a, q, e)
  <2>1. e - 2 \in Nat /\ e - q >= 2
    BY <1>2 DEF QuadEnds
  <2>2. ListOf(t, o, b, q + g, (e - 2) + g)
    <3>1. \A k \in q..(e - 2) - 1 : b[k + g] = a[k]
      BY <2>1
    <3> QED BY <1>2, <2>1, <3>1, ListShifts DEF QuadEnds
  <2>3. (e + g) - (q + g) = e - q /\ (e - 2) + g = (e + g) - 2
    BY <2>1
  <2>4. b[(e + g) - 2] = a[e - 2] /\ b[(e + g) - 1] = a[e - 1]
    <3>1. e - 2 \in q..e - 1 /\ e - 1 \in q..e - 1
      BY <2>1
    <3>2. (e - 2) + g = (e + g) - 2 /\ (e - 1) + g = (e + g) - 1
      BY <2>1
    <3>3. b[(e - 2) + g] = a[e - 2] /\ b[(e - 1) + g] = a[e - 1]
      BY <3>1
    <3> QED BY <3>2, <3>3
  <2> QED BY <1>2, <2>2, <2>3, <2>4 DEF Ends, QuadEnds
<1> QED BY <1>1, <1>2 DEF Ends


\* A piece is neither a colon nor a quad.
LEMMA SingleToken ==
  ASSUME NEW x
  PROVE  <<x>> \notin Quads /\ <<x>> # Colon /\ <<x>> # Junk
<1>1. Len(<<x>>) = 1 /\ Len(Colon) = 0 /\ Len(Junk) = 3
  BY DEF Colon, Junk
<1>2. ASSUME NEW q \in Quads PROVE Len(q) = 2
  <2>1. q \in Groups \X Groups
    BY Constants
  <2>2. PICK y \in Groups, z \in Groups : q = <<y, z>>
    BY <2>1
  <2> QED BY <2>2
<1>3. ASSUME <<x>> \in Quads PROVE FALSE
  <2>1. Len(<<x>>) = 2
    BY <1>2, <1>3, Zenon
  <2> QED BY <1>1, <2>1
<1>4. <<x>> # Colon /\ <<x>> # Junk
  BY <1>1
<1> QED BY <1>3, <1>4

LEMMA QuadToken ==
  ASSUME NEW x \in Quads
  PROVE  x # Colon /\ x = <<x[1], x[2]>>
<1>1. x \in Groups \X Groups
  BY Constants
<1>2. PICK y \in Groups, z \in Groups : x = <<y, z>>
  BY <1>1
<1>3. Len(x) = 2 /\ Len(Colon) = 0 /\ x[1] = y /\ x[2] = z
  BY <1>2 DEF Colon
<1> QED BY <1>2, <1>3

LEMMA SamePiece ==
  ASSUME NEW x, NEW y, <<x>> = <<y>>
  PROVE  x = y
OBVIOUS

\* The pieces a[q], ..., a[e - 1] and b[r], ..., b[f - 1] are the same.
SamePieces(a, q, e, b, r, f) == e - q = f - r /\ \A x \in 0..e - q - 1 : a[q + x] = b[r + x]

\* What ends a text tells the pieces in it.
LEMMA SameEnds ==
  ASSUME NEW t, Len(t) \in Nat, NEW o \in Nat, NEW a, NEW b,
         NEW q \in Nat, NEW e \in Nat, q <= e, NEW r \in Nat, NEW f \in Nat, r <= f,
         Ends(t, o, a, q, e), Ends(t, o, b, r, f)
  PROVE  SamePieces(a, q, e, b, r, f)
<1>1. ASSUME NEW u, NEW v, NEW i \in Nat, NEW m \in Nat, i <= m, NEW j \in Nat, NEW n \in Nat,
             ListEnds(t, o, u, i, m), QuadEnds(t, o, v, j, n)
      PROVE  FALSE
  <2>1. /\ Len(t) = o + (IF i < m THEN 2 * (m - i) - 1 ELSE 0)
        /\ n - j >= 2 /\ Len(t) = o + 2 * (n - j) - 3 /\ t[Len(t)] \in Quads
    BY <1>1 DEF ListEnds, QuadEnds
  <2>2. i < m /\ m - i = n - j - 1
    BY <1>1, <2>1
  <2>3. PICK d \in Nat : i + d < m /\ Len(t) = o + 2 * d + 1
    <3>1. m - i - 1 \in Nat /\ i + (m - i - 1) < m /\ Len(t) = o + 2 * (m - i - 1) + 1
      BY <2>1, <2>2
    <3> QED BY <3>1
  <2>4. ListOf(t, o, u, i, m) /\ i + d < m
    BY <1>1, <2>3 DEF ListEnds
  <2>5. t[o + 2 * d + 1] = <<u[i + d]>>
    <3>1. PICK k \in i..m - 1 : k = i + d /\ k - i = d
      BY <2>4
    <3> QED BY <2>4, <3>1 DEF ListOf
  <2>6. <<u[i + d]>> \in Quads
    BY <2>1, <2>3, <2>5
  <2> QED BY <2>6, SingleToken
<1>2. ASSUME NEW u, NEW v, NEW i \in Nat, NEW j \in Nat, i - q = j - r,
             ListOf(t, o, u, q, i), ListOf(t, o, v, r, j), NEW x \in 0..i - q - 1
      PROVE  u[q + x] = v[r + x]
  <2>1. x \in Nat /\ q + x < i /\ r + x < j
    BY <1>2
  <2>2. t[o + 2 * x + 1] = <<u[q + x]>>
    <3>1. PICK k \in q..i - 1 : k = q + x /\ k - q = x
      BY <2>1
    <3> QED BY <1>2, <3>1 DEF ListOf
  <2>3. t[o + 2 * x + 1] = <<v[r + x]>>
    <3>1. PICK k \in r..j - 1 : k = r + x /\ k - r = x
      BY <2>1
    <3> QED BY <1>2, <3>1 DEF ListOf
  <2> QED BY <2>2, <2>3, SamePiece
<1>3. CASE ListEnds(t, o, a, q, e) /\ ListEnds(t, o, b, r, f)
  <2>1. e - q = f - r /\ ListOf(t, o, a, q, e) /\ ListOf(t, o, b, r, f)
    BY <1>3 DEF ListEnds
  <2>2. \A x \in 0..e - q - 1 : a[q + x] = b[r + x]
    BY <1>2, <2>1, Zenon
  <2> QED BY <2>1, <2>2 DEF SamePieces
<1>4. CASE QuadEnds(t, o, a, q, e) /\ QuadEnds(t, o, b, r, f)
  <2>1. /\ ListOf(t, o, a, q, e - 2) /\ ListOf(t, o, b, r, f - 2)
        /\ t[Len(t)] = <<a[e - 2], a[e - 1]>> /\ t[Len(t)] = <<b[f - 2], b[f - 1]>>
    BY <1>4 DEF QuadEnds
  <2>2. e - q >= 2 /\ e - q = f - r
    <3>1. PICK n \in Nat : n = Len(t)
      OBVIOUS
    <3>2. e - q >= 2 /\ n = o + 2 * (e - q) - 3 /\ n = o + 2 * (f - r) - 3
      BY <1>4, <3>1 DEF QuadEnds
    <3> QED BY <3>2
  <2>3. PICK m \in Nat : q + m = e - 2 /\ r + m = f - 2
    <3>1. e - q - 2 \in Nat /\ q + (e - q - 2) = e - 2 /\ r + (e - q - 2) = f - 2
      BY <2>2
    <3> QED BY <3>1
  <2>4. \A x \in 0..(e - 2) - q - 1 : a[q + x] = b[r + x]
    <3>1. PICK i \in Nat, j \in Nat : i = e - 2 /\ j = f - 2
      <4>1. e - 2 \in Nat /\ f - 2 \in Nat
        BY <2>2
      <4> QED BY <4>1, Zenon
    <3>2. i - q = j - r
      BY <2>2, <3>1
    <3>3. ListOf(t, o, a, q, i) /\ ListOf(t, o, b, r, j)
      BY <2>1, <3>1
    <3>4. \A x \in 0..i - q - 1 : a[q + x] = b[r + x]
      BY <1>2, <3>2, <3>3, Zenon
    <3> QED BY <3>1, <3>4
  <2>5. a[q + m] = b[r + m] /\ a[q + (m + 1)] = b[r + (m + 1)]
    <3>1. a[e - 2] = b[f - 2] /\ a[e - 1] = b[f - 1]
      BY <2>1
    <3>2. e - 1 = q + (m + 1) /\ f - 1 = r + (m + 1)
      BY <2>3
    <3> QED BY <2>3, <3>1, <3>2
  <2>6. \A x \in 0..e - q - 1 : x \in 0..(e - 2) - q - 1 \/ x = m \/ x = m + 1
    BY <2>3
  <2> QED BY <2>4, <2>5, <2>6, <2>2 DEF SamePieces
<1> QED BY <1>1, <1>3, <1>4 DEF Ends

\* And the pieces before the "::", that there are as many.
LEMMA SameHead ==
  ASSUME NEW t, NEW a, NEW b, NEW h \in Nat, NEW g \in Nat, HeadOf(t, a, h), HeadOf(t, b, g)
  PROVE  h = g /\ \A k \in 0..h - 1 : a[k] = b[k]
<1>1. ASSUME NEW u, NEW v, NEW i \in Nat, NEW j \in Nat, HeadOf(t, u, i), HeadOf(t, v, j), i < j
      PROVE  FALSE
  <2>1. t[2 * i + 1] = Colon
    BY <1>1 DEF HeadOf, Start
  <2>2. t[2 * i + 1] = <<v[i]>>
    <3>1. i \in 0..j - 1
      BY <1>1
    <3> QED BY <1>1, <3>1 DEF HeadOf
  <2> QED BY <2>1, <2>2, SingleToken
<1>2. h = g
  BY <1>1
<1>3. ASSUME NEW k \in 0..h - 1 PROVE a[k] = b[k]
  <2>1. t[2 * k + 1] = <<a[k]>> /\ t[2 * k + 1] = <<b[k]>>
    BY <1>2 DEF HeadOf
  <2> QED BY <2>1, SamePiece
<1> QED BY <1>2, <1>3

\* A text with a "::" is not one of pieces and single colons.
LEMMA NotBoth ==
  ASSUME NEW t, Len(t) \in Nat, NEW a, NEW b, NEW e \in Nat, e >= 1, Ends(t, 0, a, 0, e),
         NEW h \in Nat, HeadOf(t, b, h)
  PROVE  FALSE
<1>1. t[2 * h + 1] = Colon /\ 2 * h + 1 <= Len(t)
  BY DEF HeadOf, Start
<1>2. ASSUME NEW m \in Nat, ListOf(t, 0, a, 0, m) PROVE ~(h < m)
  <2>1. SUFFICES ASSUME h < m PROVE FALSE
    OBVIOUS
  <2>2. h \in 0..m - 1 /\ 0 + 2 * (h - 0) + 1 = 2 * h + 1
    BY <2>1
  <2>3. t[2 * h + 1] = <<a[h]>>
    BY <1>2, <2>2 DEF ListOf
  <2> QED BY <1>1, <2>3, SingleToken
<1>3. CASE ListEnds(t, 0, a, 0, e)
  BY <1>1, <1>2, <1>3 DEF ListEnds
<1>4. CASE QuadEnds(t, 0, a, 0, e)
  <2>1. e - 2 \in Nat /\ Len(t) = 2 * e - 3 /\ ListOf(t, 0, a, 0, e - 2) /\ t[Len(t)] \in Quads
    BY <1>4 DEF QuadEnds
  <2>2. h = e - 2
    BY <1>1, <1>2, <2>1
  <2>3. Len(t) = 2 * h + 1
    BY <2>1, <2>2
  <2> QED BY <1>1, <2>1, <2>3, QuadToken
<1> QED BY <1>3, <1>4 DEF Ends

\* A text is the spelling of one address at most.
LEMMA OneSpelling ==
  ASSUME NEW t, Len(t) \in Nat, NEW a \in Addresses, NEW b \in Addresses, Spelt(t, a), Spelt(t, b)
  PROVE  a = b
<1>1. Pieces \in Nat /\ Pieces >= 2
  BY Constants
<1>2. SUFFICES \A k \in Indices : a[k] = b[k]
  BY DEF Addresses
<1>3. CASE Ends(t, 0, a, 0, Pieces) /\ Ends(t, 0, b, 0, Pieces)
  <2>1. PICK n \in Nat, z \in Nat : n = Pieces /\ z = 0
    BY <1>1
  <2>2. z <= n /\ Ends(t, z, a, z, n) /\ Ends(t, z, b, z, n)
    BY <1>3, <2>1
  <2>3. SamePieces(a, z, n, b, z, n)
    BY <2>2, SameEnds, Zenon
  <2> QED BY <2>1, <2>3 DEF Indices, SamePieces
<1>4. ASSUME NEW u, NEW v, Ends(t, 0, u, 0, Pieces),
             NEW h \in Indices, NEW q \in 1..Pieces, SpeltShort(t, v, h, q)
      PROVE  FALSE
  <2>1. h \in Nat /\ HeadOf(t, v, h)
    BY <1>4, <1>1 DEF SpeltShort, Indices
  <2> QED BY <1>1, <1>4, <2>1, NotBoth
<1>5. ASSUME NEW h \in Indices, NEW q \in 1..Pieces, SpeltShort(t, a, h, q),
             NEW g \in Indices, NEW r \in 1..Pieces, SpeltShort(t, b, g, r)
      PROVE  \A k \in Indices : a[k] = b[k]
  <2>1. h \in Nat /\ g \in Nat /\ q \in Nat /\ r \in Nat
    BY <1>1 DEF Indices
  <2>2. h = g /\ \A k \in 0..h - 1 : a[k] = b[k]
    BY <1>5, <2>1, SameHead DEF SpeltShort
  <2>3. Start(h) \in Nat
    BY <2>1 DEF Start
  <2>4. Ends(t, Start(h), a, q, Pieces) /\ Ends(t, Start(h), b, r, Pieces)
    BY <1>5, <2>2 DEF SpeltShort
  <2>5. Pieces - q = Pieces - r /\ \A x \in 0..Pieces - q - 1 : a[q + x] = b[r + x]
    <3>1. PICK n \in Nat, o \in Nat, i \in Nat, j \in Nat :
            n = Pieces /\ o = Start(h) /\ i = q /\ j = r
      BY <1>1, <2>1, <2>3, Zenon
    <3>2. i <= n /\ j <= n /\ Ends(t, o, a, i, n) /\ Ends(t, o, b, j, n)
      BY <1>1, <2>4, <3>1
    <3>3. SamePieces(a, i, n, b, j, n)
      BY <3>2, SameEnds, Zenon
    <3> QED BY <3>1, <3>3 DEF SamePieces
  <2>6. q = r
    BY <1>1, <2>1, <2>5
  <2>7. ASSUME NEW k \in q..Pieces - 1 PROVE a[k] = b[k]
    <3>1. PICK x \in 0..Pieces - q - 1 : k = q + x
      <4>1. k - q \in 0..Pieces - q - 1 /\ k = q + (k - q)
        BY <1>1, <2>1
      <4> QED BY <4>1
    <3> QED BY <2>5, <2>6, <3>1
  <2>8. \A k \in h..q - 1 : a[k] = b[k]
    BY <1>5, <2>2, <2>6 DEF SpeltShort
  <2>9. \A k \in Indices : k \in 0..h - 1 \/ k \in h..q - 1 \/ k \in q..Pieces - 1
    BY <1>1, <2>1 DEF Indices
  <2> QED BY <2>2, <2>7, <2>8, <2>9
<1> QED BY <1>3, <1>4, <1>5 DEF Spelt

-----------------------------------------------------------------------------
(* The loop over the text: what has been parsed is what the text begins with.*)

\* r is what is left of t.
Ahead(t, r) == Len(r) <= Len(t) /\ \A i \in 1..Len(r) : r[i] = t[Len(t) - Len(r) + i]

\* The first piece, and the last token, of what comes before the list being parsed.
First  == IF compress = None THEN 0 ELSE compress
Offset == IF compress = None THEN 0 ELSE Start(compress - 1)

HeadRead == IF compress = None THEN Len(text) >= 1 /\ text[1] # Colon
            ELSE address[compress - 1] = 0 /\ HeadOf(text, address, compress - 1)

\* A piece may follow, or it must be the end of the text.
OpenRead ==
  /\ Len(text) - Len(rest) = Offset + 2 * (current - First)
  /\ ListOf(text, Offset, address, First, current)
  /\ rest = <<>> => compress # None /\ current = First

ClosedRead == rest = <<>> /\ First < current /\ Ends(text, Offset, address, First, current)

ReadInv == verdict = "parsing" => Ahead(text, rest) /\ HeadRead /\ (OpenRead \/ ClosedRead)

LEMMA HeadKept ==
  ASSUME NEW t, NEW a, NEW b, NEW h \in Nat, HeadOf(t, a, h), \A k \in 0..h - 1 : b[k] = a[k]
  PROVE  HeadOf(t, b, h)
BY DEF HeadOf

LEMMA ListKept ==
  ASSUME NEW t, NEW o \in Nat, NEW a, NEW b, NEW q \in Nat, NEW e \in Nat,
         \A k \in q..e - 1 : b[k] = a[k], ListOf(t, o, a, q, e)
  PROVE  ListOf(t, o, b, q, e)
BY DEF ListOf

\* The next tokens, and what is left after them.
LEMMA NextTokens ==
  ASSUME NEW t \in Seq(Tokens), NEW r \in Seq(Tokens), Ahead(t, r), r # <<>>,
         NEW n \in Nat, Len(t) - Len(r) = n
  PROVE  /\ t[n + 1] = r[1] /\ n + 1 <= Len(t) /\ (n + 1 < Len(t) <=> Len(r) >= 2)
         /\ Len(r) >= 2 => t[n + 2] = r[2]
<1>1. PICK m \in Nat, l \in Nat : m = Len(t) /\ l = Len(r)
  BY LenProperties
<1>2. l >= 1
  BY <1>1, EmptySeq
<1>3. m = n + l
  BY <1>1
<1>4. \A i \in 1..l : r[i] = t[n + i]
  <2>1. SUFFICES ASSUME NEW i \in 1..l PROVE r[i] = t[n + i]
    OBVIOUS
  <2>2. r[i] = t[m - l + i]
    BY <1>1 DEF Ahead
  <2>3. m - l + i = n + i
    BY <1>3
  <2> QED BY <2>2, <2>3
<1>5. 1 \in 1..l /\ (l >= 2 => 2 \in 1..l)
  BY <1>2
<1> QED BY <1>1, <1>2, <1>3, <1>4, <1>5

LEMMA AheadOfTail ==
  ASSUME NEW t \in Seq(Tokens), NEW r \in Seq(Tokens), NEW s \in Seq(Tokens), NEW d \in Nat,
         Ahead(t, r), Len(s) = Len(r) - d, \A i \in 1..Len(s) : s[i] = r[i + d]
  PROVE  Ahead(t, s)
<1>1. PICK m \in Nat, l \in Nat, k \in Nat : m = Len(t) /\ l = Len(r) /\ k = Len(s)
  BY LenProperties
<1>2. k = l - d /\ l <= m
  BY <1>1 DEF Ahead
<1>3. ASSUME NEW i \in 1..k PROVE s[i] = t[m - k + i]
  <2>1. PICK j \in 1..l : j = i + d
    BY <1>2
  <2>2. s[i] = r[j]
    BY <1>1, <2>1
  <2>3. r[j] = t[m - l + j]
    BY <1>1 DEF Ahead
  <2>4. m - l + j = m - k + i
    BY <1>2, <2>1
  <2> QED BY <2>2, <2>3, <2>4
<1> QED BY <1>1, <1>2, <1>3 DEF Ahead

\* Where the loop is.
LEMMA Reading ==
  ASSUME BInv, verdict = "parsing"
  PROVE  /\ First \in Nat /\ Offset \in Nat /\ current \in Nat /\ First <= current
         /\ text \in Seq(Tokens) /\ rest \in Seq(Tokens) /\ Len(text) \in Nat /\ Len(rest) \in Nat
         /\ address \in Addresses /\ parts = <<>> /\ text \in Texts
         /\ compress # None => compress \in 1..current /\ compress - 1 \in Nat
<1>1. /\ current \in 0..Pieces /\ text \in Seq(Tokens) /\ rest \in Seq(Tokens)
      /\ address \in Addresses /\ parts = <<>> /\ text \in Texts
      /\ compress # None => compress \in 1..current
  BY DEF BInv, InText, TypeOK
<1>2. current \in Nat /\ (compress # None => compress - 1 \in Nat)
  BY <1>1, Constants
<1>3. First \in Nat /\ First <= current
  BY <1>1, <1>2 DEF First
<1>4. Offset \in Nat
  BY <1>2 DEF Offset, Start
<1> QED BY <1>1, <1>2, <1>3, <1>4, LenProperties

LEMMA ReadOfBegin == ASSUME BInv, Begin PROVE ReadInv'
<1>1. /\ text \in Texts /\ text \in Seq(Tokens) /\ rest = text /\ address = Zeros /\ current = 0 /\ compress = None
      /\ 0 \in Indices
  BY Constants DEF Begin, BInv, InText, Indices
<1>2. text # <<>> /\ Len(text) \in Nat /\ Len(text) >= 1
  <2>1. \E i \in DOMAIN text : text[i] = Colon
    BY <1>1, EndPointAssumption
  <2>2. text # <<>>
    BY <2>1
  <2> QED BY <1>1, <2>2, EmptySeq, LenProperties
<1>3. CASE verdict' = "parsing" /\ rest[1] # Colon
           /\ UNCHANGED <<text, parts, rest, address, current, compress, swaps, storage>>
  <2>1. Ahead(text, rest)'
    BY <1>1, <1>2, <1>3 DEF Ahead
  <2>2. HeadRead'
    BY <1>1, <1>2, <1>3 DEF HeadRead
  <2>3. First' = 0 /\ Offset' = 0 /\ current' = 0 /\ rest' # <<>> /\ text' = text /\ rest' = text
    BY <1>1, <1>2, <1>3 DEF First, Offset
  <2>4. OpenRead'
    BY <1>2, <2>3 DEF OpenRead, ListOf
  <2> QED BY <2>1, <2>2, <2>4 DEF ReadInv
<1>4. CASE /\ Len(rest) >= 2 /\ rest[1] = Colon /\ rest[2] = Colon /\ rest' = Tail(Tail(rest))
           /\ current' = 1 /\ compress' = 1 /\ verdict' = "parsing"
           /\ UNCHANGED <<text, parts, address, swaps, storage>>
  <2>1. /\ rest' \in Seq(Tokens) /\ Len(rest') = Len(text) - 2
        /\ \A i \in 1..Len(rest') : rest'[i] = text[i + 2]
    BY <1>1, <1>2, <1>4, RestOf
  <2>2. Ahead(text, text)
    BY <1>2 DEF Ahead
  <2>3. Ahead(text, rest')
    BY <1>1, <2>1, <2>2, AheadOfTail
  <2>4. compress' # None /\ First' = 1 /\ Offset' = 2 /\ current' = 1
    BY <1>4, Constants DEF First, Offset, Start
  <2>5. HeadOf(text, address, 0)
    BY <1>1, <1>4 DEF HeadOf, Start
  <2>6. HeadRead'
    <3>1. address[0] = 0
      BY <1>1 DEF Zeros
    <3> QED BY <1>4, <2>4, <2>5, <3>1 DEF HeadRead
  <2>7. OpenRead'
    BY <1>2, <1>4, <2>1, <2>4 DEF OpenRead, ListOf
  <2> QED BY <1>4, <2>3, <2>6, <2>7 DEF ReadInv
<1>5. CASE Reject
  BY <1>5 DEF Reject, ReadInv
<1> QED BY <1>1, <1>2, <1>3, <1>4, <1>5 DEF Begin

\* The second colon ends the head.
LEMMA HeadEnds ==
  ASSUME NEW t \in Seq(Tokens), NEW a, NEW c \in Nat, c >= 1, ListOf(t, 0, a, 0, c),
         t[2 * c + 1] = Colon, 2 * c + 1 <= Len(t)
  PROVE  HeadOf(t, a, c)
<1>1. ASSUME NEW k \in 0..c - 1 PROVE t[2 * k + 1] = <<a[k]>> /\ t[2 * k + 2] = Colon
  <2>1. /\ t[0 + 2 * (k - 0) + 1] = <<a[k]>>
        /\ 0 + 2 * (k - 0) + 1 < Len(t) => t[0 + 2 * (k - 0) + 2] = Colon
    BY DEF ListOf
  <2>2. 0 + 2 * (k - 0) + 1 = 2 * k + 1 /\ 0 + 2 * (k - 0) + 2 = 2 * k + 2 /\ 2 * k + 1 < 2 * c + 1
    OBVIOUS
  <2>3. 2 * k + 1 < Len(t)
    BY <2>2, LenProperties
  <2> QED BY <2>1, <2>2, <2>3
<1>2. t[2 * c] = Colon
  <2>1. PICK k \in 0..c - 1 : k = c - 1
    OBVIOUS
  <2>2. 2 * k + 2 = 2 * c
    BY <2>1
  <2> QED BY <1>1, <2>2
<1>3. Start(c) = 2 * c + 1 /\ Start(c) - 1 = 2 * c
  BY DEF Start
<1> QED BY <1>1, <1>2, <1>3 DEF HeadOf

LEMMA ReadOfCompress == ASSUME BInv, ReadInv, Compress PROVE ReadInv'
<1>1. CASE Reject
  BY <1>1 DEF Reject, ReadInv
<1>2. CASE ~Reject
  <2>1. /\ verdict = "parsing" /\ rest # <<>> /\ rest[1] = Colon /\ compress = None /\ current < Pieces
        /\ rest' = Tail(rest) /\ address' = [address EXCEPT ![current] = 0]
        /\ current' = current + 1 /\ compress' = current + 1
        /\ UNCHANGED <<text, parts, swaps, verdict, storage>>
    BY <1>2 DEF Compress, Parsing
  <2>2. /\ current \in Nat /\ text \in Seq(Tokens) /\ rest \in Seq(Tokens) /\ address \in Addresses
        /\ Len(text) \in Nat /\ Len(rest) \in Nat
    BY <2>1, Reading
  <2>3. /\ Ahead(text, rest) /\ Len(text) >= 1 /\ text[1] # Colon
        /\ Len(text) - Len(rest) = 2 * current /\ ListOf(text, 0, address, 0, current)
    BY <2>1, <2>2 DEF ReadInv, HeadRead, OpenRead, ClosedRead, First, Offset
  <2>4. text[2 * current + 1] = Colon /\ 2 * current + 1 <= Len(text)
    <3>1. PICK n \in Nat : n = 2 * current
      BY <2>2
    <3>2. text[n + 1] = rest[1] /\ n + 1 <= Len(text)
      BY <2>1, <2>2, <2>3, <3>1, NextTokens
    <3> QED BY <2>1, <3>1, <3>2
  <2>5. current >= 1
    BY <2>2, <2>3, <2>4
  <2>6. HeadOf(text, address, current)
    BY <2>2, <2>3, <2>4, <2>5, HeadEnds
  <2>7. current \in Indices /\ address'[current] = 0 /\ \A k \in 0..current - 1 : address'[k] = address[k]
    BY <2>1, <2>2, Constants DEF Indices, Addresses
  <2>8. HeadOf(text, address', current)
    BY <2>2, <2>6, <2>7, HeadKept
  <2>9. compress' # None /\ compress' - 1 = current /\ First' = current + 1 /\ Offset' = 2 * current + 1
    BY <2>1, <2>2, <2>5, Constants DEF First, Offset, Start
  <2>10. HeadRead'
    BY <2>1, <2>7, <2>8, <2>9 DEF HeadRead
  <2>11. /\ Tail(rest) \in Seq(Tokens) /\ Len(Tail(rest)) = Len(rest) - 1
         /\ \A i \in 1..Len(Tail(rest)) : Tail(rest)[i] = rest[i + 1]
    BY <2>1, <2>2, RestOf
  <2>12. Ahead(text, Tail(rest))
    BY <2>2, <2>3, <2>11, AheadOfTail
  <2>13. OpenRead'
    <3>1. Len(text) - Len(rest') = 2 * current + 1
      <4>1. PICK n \in Nat, l \in Nat, c \in Nat : n = Len(text) /\ l = Len(rest) /\ c = current
        BY <2>2, Zenon
      <4>2. n - l = 2 * c /\ Len(rest') = l - 1
        BY <2>1, <2>3, <2>11, <4>1
      <4>3. n - (l - 1) = 2 * c + 1
        BY <4>2
      <4> QED BY <4>1, <4>2, <4>3
    <3>2. ListOf(text, Offset', address', current + 1, current + 1)
      BY <2>2 DEF ListOf
    <3> QED BY <2>1, <2>2, <2>9, <3>1, <3>2 DEF OpenRead
  <2> QED BY <2>1, <2>10, <2>12, <2>13 DEF ReadInv
<1> QED BY <1>1, <1>2

\* Before a piece or a quad the list is open.
LEMMA BeforePiece ==
  ASSUME BInv, ReadInv, verdict = "parsing", rest # <<>>
  PROVE  /\ Ahead(text, rest) /\ Len(text) - Len(rest) = Offset + 2 * (current - First)
         /\ ListOf(text, Offset, address, First, current)
         /\ text[Offset + 2 * (current - First) + 1] = rest[1]
         /\ Offset + 2 * (current - First) + 1 <= Len(text)
         /\ Offset + 2 * (current - First) + 1 < Len(text) <=> Len(rest) >= 2
         /\ Len(rest) >= 2 => text[Offset + 2 * (current - First) + 2] = rest[2]
<1>1. /\ Ahead(text, rest) /\ Len(text) - Len(rest) = Offset + 2 * (current - First)
      /\ ListOf(text, Offset, address, First, current)
  BY DEF ReadInv, OpenRead, ClosedRead
<1>2. PICK n \in Nat : n = Offset + 2 * (current - First)
  <2>1. Offset + 2 * (current - First) \in Nat
    BY Reading
  <2> QED BY <2>1
<1>3. text \in Seq(Tokens) /\ rest \in Seq(Tokens) /\ Len(text) - Len(rest) = n
  BY <1>1, <1>2, Reading
<1>4. /\ text[n + 1] = rest[1] /\ n + 1 <= Len(text) /\ (n + 1 < Len(text) <=> Len(rest) >= 2)
      /\ Len(rest) >= 2 => text[n + 2] = rest[2]
  BY <1>1, <1>3, NextTokens
<1> QED BY <1>1, <1>2, <1>4

\* The head is not written again.
LEMMA HeadStays ==
  ASSUME BInv, ReadInv, verdict = "parsing", UNCHANGED <<text, compress>>,
         \A k \in 0..current - 1 : address'[k] = address[k]
  PROVE  HeadRead'
<1>1. CASE compress = None
  BY <1>1 DEF ReadInv, HeadRead
<1>2. CASE compress # None
  <2>1. HeadOf(text, address, compress - 1) /\ address[compress - 1] = 0
    BY <1>2 DEF ReadInv, HeadRead
  <2>2. PICK h \in Nat : h = compress - 1
    BY <1>2, Reading
  <2>3. h \in 0..current - 1 /\ \A k \in 0..h - 1 : k \in 0..current - 1
    BY <1>2, <2>2, Reading
  <2>4. HeadOf(text, address', h) /\ address'[h] = 0
    BY <2>1, <2>2, <2>3, HeadKept
  <2> QED BY <1>2, <2>2, <2>4 DEF HeadRead
<1> QED BY <1>1, <1>2

LEMMA ReadOfPiece == ASSUME BInv, ReadInv, Piece PROVE ReadInv'
<1>1. CASE Reject
  BY <1>1 DEF Reject, ReadInv
<1>2. CASE ~Reject
  <2>1. /\ verdict = "parsing" /\ rest # <<>> /\ rest[1] \in Group /\ current < Pieces
        /\ Len(rest) = 1 \/ (Len(rest) > 2 /\ rest[2] = Colon)
        /\ rest' = (IF Len(rest) = 1 THEN <<>> ELSE Tail(Tail(rest)))
        /\ address' = [address EXCEPT ![current] = rest[1][1]]
        /\ current' = current + 1
        /\ UNCHANGED <<text, parts, compress, swaps, verdict, storage>>
    BY <1>2 DEF Piece, Parsing
  <2>2. PICK o \in Nat, f \in Nat, c \in Nat : o = Offset /\ f = First /\ c = current
    BY <2>1, Reading, Zenon
  <2>3. /\ f <= c /\ text \in Seq(Tokens) /\ rest \in Seq(Tokens) /\ address \in Addresses
        /\ Len(text) \in Nat /\ Len(rest) \in Nat
    BY <2>1, <2>2, Reading
  <2>4. /\ Ahead(text, rest) /\ Len(text) - Len(rest) = o + 2 * (c - f)
        /\ ListOf(text, o, address, f, c) /\ text[o + 2 * (c - f) + 1] = rest[1]
        /\ o + 2 * (c - f) + 1 < Len(text) <=> Len(rest) >= 2
        /\ Len(rest) >= 2 => text[o + 2 * (c - f) + 2] = rest[2]
    BY <2>1, <2>2, BeforePiece
  <2>5. /\ \A k \in 0..c - 1 : address'[k] = address[k]
        /\ <<address'[c]>> = rest[1]
    <3>1. rest[1] = <<rest[1][1]>>
      BY <2>1 DEF Group
    <3>2. c \in Indices
      BY <2>1, <2>2, Constants DEF Indices
    <3>3. \A k \in 0..c - 1 : k \in Indices /\ k # c
      BY <3>2, Constants DEF Indices
    <3> QED BY <2>1, <2>2, <2>3, <3>1, <3>2, <3>3 DEF Addresses
  <2>6. HeadRead'
    BY <2>1, <2>2, <2>5, HeadStays
  <2>7. First' = f /\ Offset' = o /\ current' = c + 1
    BY <2>1, <2>2 DEF First, Offset
  <2>8. ListOf(text, o, address', f, c + 1)
    <3>1. ListOf(text, o, address', f, c)
      <4>1. \A k \in f..c - 1 : address'[k] = address[k]
        BY <2>5
      <4> QED BY <2>4, <4>1, ListKept
    <3>2. text[o + 2 * (c - f) + 1] = <<address'[c]>>
      BY <2>4, <2>5
    <3>3. o + 2 * (c - f) + 1 < Len(text) => text[o + 2 * (c - f) + 2] = Colon
      BY <2>1, <2>3, <2>4
    <3> QED BY <2>3, <3>1, <3>2, <3>3, ListGrows
  <2>9. CASE Len(rest) = 1
    <3>1. rest' = <<>> /\ Ahead(text, rest')
      BY <2>1, <2>3, <2>9 DEF Ahead
    <3>2. Len(text) = o + (2 * ((c + 1) - f) - 1) /\ f < c + 1
      BY <2>3, <2>4, <2>9
    <3>3. Ends(text, o, address', f, c + 1)
      BY <2>8, <3>2 DEF Ends, ListEnds
    <3>4. ClosedRead'
      BY <2>1, <2>7, <3>1, <3>2, <3>3 DEF ClosedRead
    <3> QED BY <2>1, <2>6, <3>1, <3>4 DEF ReadInv
  <2>10. CASE Len(rest) > 2
    <3>1. /\ rest' \in Seq(Tokens) /\ Len(rest') = Len(rest) - 2
          /\ \A i \in 1..Len(rest') : rest'[i] = rest[i + 2]
      BY <2>1, <2>3, <2>10, RestOf
    <3>2. Ahead(text, rest') /\ rest' # <<>>
      <4>1. rest' # <<>>
        BY <2>3, <2>10, <3>1
      <4>2. Ahead(text, rest')
        BY <2>3, <2>4, <3>1, AheadOfTail
      <4> QED BY <4>1, <4>2
    <3>3. Len(text) - Len(rest') = o + 2 * ((c + 1) - f)
      <4>1. PICK n \in Nat, l \in Nat : n = Len(text) /\ l = Len(rest)
        BY <2>3, Zenon
      <4>2. n - l = o + 2 * (c - f)
        BY <2>4, <4>1
      <4>3. n - (l - 2) = o + 2 * ((c + 1) - f)
        BY <4>2
      <4> QED BY <3>1, <4>1, <4>3
    <3>4. OpenRead'
      BY <2>1, <2>7, <2>8, <3>2, <3>3 DEF OpenRead
    <3> QED BY <2>1, <2>6, <3>2, <3>4 DEF ReadInv
  <2> QED BY <2>1, <2>9, <2>10
<1> QED BY <1>1, <1>2


LEMMA ReadOfDotted == ASSUME BInv, ReadInv, Dotted PROVE ReadInv'
<1>1. CASE Reject
  BY <1>1 DEF Reject, ReadInv
<1>2. CASE ~Reject
  <2>1. /\ verdict = "parsing" /\ rest # <<>> /\ rest[1] \in Quads /\ current <= Pieces - 2
        /\ Len(rest) = 1 /\ rest' = <<>>
        /\ address' = [address EXCEPT ![current] = rest[1][1], ![current + 1] = rest[1][2]]
        /\ current' = current + 2
        /\ UNCHANGED <<text, parts, compress, swaps, verdict, storage>>
    BY <1>2 DEF Dotted, Parsing
  <2>2. PICK o \in Nat, f \in Nat, c \in Nat : o = Offset /\ f = First /\ c = current
    BY <2>1, Reading, Zenon
  <2>3. /\ f <= c /\ text \in Seq(Tokens) /\ rest \in Seq(Tokens) /\ address \in Addresses
        /\ Len(text) \in Nat /\ Len(rest) \in Nat
    BY <2>1, <2>2, Reading
  <2>4. /\ Ahead(text, rest) /\ Len(text) - Len(rest) = o + 2 * (c - f)
        /\ ListOf(text, o, address, f, c) /\ text[o + 2 * (c - f) + 1] = rest[1]
    BY <2>1, <2>2, BeforePiece
  <2>5. /\ \A k \in 0..c - 1 : address'[k] = address[k]
        /\ <<address'[c], address'[c + 1]>> = rest[1]
    <3>1. rest[1] = <<rest[1][1], rest[1][2]>>
      BY <2>1, QuadToken
    <3>2. c \in Indices /\ c + 1 \in Indices /\ c # c + 1
      BY <2>1, <2>2, Constants DEF Indices
    <3>3. \A k \in 0..c - 1 : k \in Indices /\ k # c /\ k # c + 1
      BY <3>2, Constants DEF Indices
    <3>4. address'[c] = rest[1][1] /\ address'[c + 1] = rest[1][2]
      BY <2>1, <2>2, <2>3, <3>2 DEF Addresses
    <3> QED BY <2>1, <2>2, <2>3, <3>1, <3>3, <3>4 DEF Addresses
  <2>6. HeadRead'
    BY <2>1, <2>2, <2>5, HeadStays
  <2>7. First' = f /\ Offset' = o /\ current' = c + 2
    BY <2>1, <2>2 DEF First, Offset
  <2>8. ListOf(text, o, address', f, c)
    <3>1. \A k \in f..c - 1 : address'[k] = address[k]
      BY <2>5
    <3> QED BY <2>4, <3>1, ListKept
  <2>9. Len(text) = o + 2 * ((c + 2) - f) - 3 /\ Len(text) = o + 2 * (c - f) + 1
    <3>1. PICK n \in Nat : n = Len(text)
      BY <2>3
    <3>2. n - 1 = o + 2 * (c - f)
      BY <2>1, <2>4, <3>1
    <3>3. n = o + 2 * ((c + 2) - f) - 3 /\ n = o + 2 * (c - f) + 1
      BY <3>2
    <3> QED BY <3>1, <3>3
  <2>10. QuadEnds(text, o, address', f, c + 2)
    <3>1. (c + 2) - f >= 2 /\ (c + 2) - 2 = c /\ (c + 2) - 1 = c + 1
      BY <2>3
    <3>2. text[Len(text)] = rest[1]
      BY <2>4, <2>9
    <3> QED BY <2>1, <2>5, <2>8, <2>9, <3>1, <3>2 DEF QuadEnds
  <2>11. rest' = <<>> /\ Ahead(text, rest') /\ f < c + 2
    BY <2>1, <2>3 DEF Ahead
  <2>12. ClosedRead'
    BY <2>1, <2>7, <2>10, <2>11 DEF ClosedRead, Ends
  <2> QED BY <2>1, <2>6, <2>11, <2>12 DEF ReadInv
<1> QED BY <1>1, <1>2

LEMMA ReadStep == ASSUME BInv, ReadInv, [Next]_vars PROVE ReadInv'
<1>1. CASE UNCHANGED vars
  BY <1>1 DEF vars, ReadInv, HeadRead, OpenRead, ClosedRead, First, Offset
<1>2. CASE TooMany \/ Strange
  BY <1>2 DEF TooMany, Strange, Reject, ReadInv
<1>3. CASE SetIpv4 \/ EndOfText \/ Swap \/ EndSwaps \/ SetIpv6
  <2>1. verdict' # "parsing"
    BY <1>3 DEF SetIpv4, EndOfText, Swap, EndSwaps, SetIpv6, Reject
  <2> QED BY <2>1 DEF ReadInv
<1> QED BY <1>1, <1>2, <1>3, ReadOfBegin, ReadOfCompress, ReadOfPiece, ReadOfDotted DEF Next

-----------------------------------------------------------------------------
(* Accepted texts: moving the pieces gives the address that was spelt.       *)

\* The address that is there after s pieces have been moved from c to the places up
\* to last.
AddressOf(a, c, s, last) ==
  [k \in Indices |-> IF k < c \/ k > last THEN a[k]
                     ELSE IF k < last + 1 - s THEN 0 ELSE a[k - (last + 1 - c - s)]]

MoveInv == verdict = "swapping" => Spelt(text, AddressOf(address, compress, swaps, current))

AcceptInv == parts = <<>> /\ verdict \in {"accepted", "set"} => Spelt(text, address)

\* A text without "::" that has given all pieces.
LEMMA FullText ==
  ASSUME BInv, ReadInv, EndOfText, compress = None, current = Pieces
  PROVE  Spelt(text, address)
<1>1. verdict = "parsing" /\ First = 0 /\ Offset = 0
  BY DEF EndOfText, First, Offset
<1>2. Ends(text, 0, address, 0, Pieces)
  BY <1>1, Constants DEF EndOfText, ReadInv, OpenRead, ClosedRead
<1> QED BY <1>2 DEF Spelt

\* A text with "::", when the moves begin.
LEMMA MovesBegin ==
  ASSUME BInv, ReadInv, EndOfText, compress # None
  PROVE  MoveInv'
<1>1. /\ verdict = "parsing" /\ swaps' = current - compress /\ current' = Pieces - 1 /\ rest = <<>>
      /\ UNCHANGED <<text, parts, rest, address, compress, storage>>
  BY DEF EndOfText
<1>2. PICK c \in Nat, e \in Nat, n \in Nat, g \in Nat :
        c = compress /\ e = current /\ n = Pieces /\ g = Pieces - current
  <2>1. Pieces - current \in Nat /\ Pieces \in Nat
    BY Constants DEF BInv
  <2>2. compress \in Nat /\ current \in Nat
    BY <1>1, Reading
  <2> QED BY <2>1, <2>2, Zenon
<1>3. c >= 1 /\ c <= e /\ e <= n /\ g = n - e
  BY <1>1, <1>2, Reading DEF BInv
<1> DEFINE b == AddressOf(address, c, e - c, n - 1)
<1>4. b \in [Indices -> Groups] /\ \A k \in Indices :
        b[k] = IF k < c THEN address[k] ELSE IF k < c + g THEN 0 ELSE address[k - g]
  <2>1. \A k \in Indices : ~(k > n - 1) /\ (n - 1) + 1 - (e - c) = c + g /\ (n - 1) + 1 - c - (e - c) = g
    BY <1>2, <1>3 DEF Indices
  <2>2. \A k \in Indices : b[k] = IF k < c THEN address[k] ELSE IF k < c + g THEN 0 ELSE address[k - g]
    BY <2>1 DEF AddressOf
  <2>3. ASSUME NEW k \in Indices PROVE b[k] \in Groups
    <3>1. ~(k < c + g) => k - g \in Indices
      BY <1>2, <1>3 DEF Indices
    <3>2. address \in [Indices -> Groups] /\ 0 \in Groups
      BY <1>1, Reading, Constants DEF Addresses
    <3> QED BY <2>2, <3>1, <3>2
  <2> QED BY <2>2, <2>3 DEF AddressOf
<1>5. HeadOf(text, address, c - 1) /\ address[c - 1] = 0 /\ Offset = Start(c - 1) /\ First = c
  BY <1>1, <1>2 DEF ReadInv, HeadRead, Offset, First
<1>6. Ends(text, Start(c - 1), address, c, e)
  <2>1. CASE ClosedRead
    BY <1>2, <1>5, <2>1 DEF ClosedRead
  <2>2. CASE OpenRead
    <3>1. c = e /\ Len(text) - Len(rest) = Offset + 2 * (e - c) /\ ListOf(text, Offset, address, c, e)
      BY <1>1, <1>2, <1>5, <2>2 DEF OpenRead
    <3>2. Len(text) = Offset + 0
      BY <1>1, <3>1, Reading
    <3> QED BY <1>5, <3>1, <3>2 DEF Ends, ListEnds
  <2> QED BY <1>1, <2>1, <2>2 DEF ReadInv
<1> HIDE DEF b
<1>7. HeadOf(text, b, c - 1)
  <2>1. PICK h \in Nat : h = c - 1
    BY <1>3
  <2>2. \A k \in 0..h - 1 : k \in Indices /\ k < c
    BY <1>2, <1>3, <2>1 DEF Indices
  <2>3. \A k \in 0..h - 1 : b[k] = address[k]
    BY <1>4, <2>2
  <2> QED BY <1>5, <2>1, <2>3, HeadKept
<1>8. Ends(text, Start(c - 1), b, c + g, n)
  <2>1. PICK o \in Nat : o = Start(c - 1)
    BY <1>1, <1>5, Reading
  <2>2. ASSUME NEW k \in c..e - 1 PROVE b[k + g] = address[k]
    <3>1. k + g \in Indices /\ ~(k + g < c) /\ ~(k + g < c + g) /\ (k + g) - g = k
      BY <1>2, <1>3 DEF Indices
    <3> QED BY <1>4, <3>1
  <2>3. Ends(text, o, b, c + g, e + g)
    BY <1>6, <2>1, <2>2, EndsShift
  <2>4. e + g = n
    BY <1>3
  <2> QED BY <2>1, <2>3, <2>4
<1>9. \A k \in c - 1..(c + g) - 1 : b[k] = 0
  <2>1. ASSUME NEW k \in c - 1..(c + g) - 1 PROVE b[k] = 0
    <3>1. k \in Indices /\ (k < c => k = c - 1) /\ k < c + g
      BY <1>2, <1>3 DEF Indices
    <3> QED BY <1>4, <1>5, <3>1
  <2> QED BY <2>1
<1>10. SpeltShort(text, b, c - 1, c + g)
  BY <1>2, <1>3, <1>7, <1>8, <1>9 DEF SpeltShort
<1>11. c - 1 \in Indices /\ c + g \in 1..Pieces
  BY <1>2, <1>3 DEF Indices
<1>12. Spelt(text, b)
  BY <1>10, <1>11 DEF Spelt
<1> QED BY <1>1, <1>2, <1>12 DEF MoveInv, b


\* A move leaves the address that is meant alone.
LEMMA MovesGoOn ==
  ASSUME BInv, MoveInv, Swap
  PROVE  MoveInv'
<1>1. /\ verdict = "swapping" /\ swaps \in Nat /\ swaps > 0 /\ current \in 0..Pieces
      /\ compress \in 1..Pieces /\ compress + swaps <= current + 1 /\ current < Pieces
      /\ address \in Addresses
  BY DEF Swap, BInv, TypeOK, InSwaps
<1>2. PICK c \in Nat, s \in Nat, e \in Nat, n \in Nat, l \in Nat :
        c = compress /\ s = swaps /\ e = current /\ n = Pieces /\ l = compress + swaps - 1
  <2>1. /\ compress \in Nat /\ swaps \in Nat /\ current \in Nat /\ Pieces \in Nat
        /\ compress + swaps - 1 \in Nat
    BY <1>1, Constants
  <2> QED BY <2>1, Zenon
<1>3. c >= 1 /\ s >= 1 /\ c + s <= e + 1 /\ e < n /\ l = c + s - 1
  BY <1>1, <1>2
<1>4. /\ address' = [address EXCEPT ![e] = address[l], ![l] = address[e]]
      /\ current' = e - 1 /\ swaps' = s - 1 /\ text' = text /\ compress' = c
  BY <1>2 DEF Swap
<1>5. /\ \A k \in Indices : k # e /\ k # l => address'[k] = address[k]
      /\ address'[e] = address[l] /\ e \in Indices
  <2>1. e \in Indices /\ l \in Indices
    BY <1>2, <1>3 DEF Indices
  <2> QED BY <1>1, <1>4, <2>1 DEF Addresses
<1> DEFINE x == AddressOf(address, c, s, e)
           y == AddressOf(address', c, s - 1, e - 1)
<1>6. ASSUME NEW k \in Indices PROVE y[k] = x[k]
  <2>1. x[k] = IF k < c \/ k > e THEN address[k]
               ELSE IF k < e + 1 - s THEN 0 ELSE address[k - (e + 1 - c - s)]
    BY DEF AddressOf
  <2>2. y[k] = IF k < c \/ k > e - 1 THEN address'[k]
               ELSE IF k < (e - 1) + 1 - (s - 1) THEN 0
               ELSE address'[k - ((e - 1) + 1 - c - (s - 1))]
    BY DEF AddressOf
  <2> HIDE DEF x, y
  <2>3. /\ (e - 1) + 1 - (s - 1) = e + 1 - s /\ (e - 1) + 1 - c - (s - 1) = e + 1 - c - s
        /\ k \in 0..n - 1
    BY <1>2, <1>3 DEF Indices
  <2>4. CASE k < c \/ k > e
    <3>1. k # e /\ k # l /\ (k < c \/ k > e - 1)
      BY <1>3, <2>3, <2>4
    <3> QED BY <1>5, <2>1, <2>2, <2>4, <3>1
  <2>5. CASE k = e
    <3>1. k - (e + 1 - c - s) = l /\ k > e - 1 /\ ~(k < c \/ k > e) /\ ~(k < e + 1 - s)
      BY <1>3, <2>5
    <3> QED BY <1>5, <2>1, <2>2, <2>5, <3>1
  <2>6. CASE ~(k < c) /\ k < e /\ k < e + 1 - s
    <3>1. ~(k < c \/ k > e) /\ ~(k < c \/ k > e - 1)
      BY <1>3, <2>3, <2>6
    <3> QED BY <2>1, <2>2, <2>3, <2>6, <3>1
  <2>7. CASE ~(k < c) /\ k < e /\ ~(k < e + 1 - s)
    <3>1. ~(k < c \/ k > e) /\ ~(k < c \/ k > e - 1)
      BY <1>3, <2>3, <2>7
    <3>2. PICK j \in 0..n - 1 : j = k - (e + 1 - c - s) /\ j # e /\ j # l
      <4>1. k - (e + 1 - c - s) \in c..l - 1
        BY <1>3, <2>3, <2>7
      <4> QED BY <1>3, <4>1
    <3>3. address'[j] = address[j]
      BY <1>2, <1>5, <3>2 DEF Indices
    <3> QED BY <2>1, <2>2, <2>3, <2>7, <3>1, <3>2, <3>3
  <2> QED BY <1>3, <2>3, <2>4, <2>5, <2>6, <2>7
<1>7. y = x
  <2>1. x = [k \in Indices |-> x[k]] /\ y = [k \in Indices |-> y[k]]
    BY DEF AddressOf
  <2> HIDE DEF x, y
  <2> QED BY <1>6, <2>1
<1>8. Spelt(text, x)
  BY <1>1, <1>2 DEF MoveInv
<1> HIDE DEF x, y
<1>9. Spelt(text, y)
  BY <1>7, <1>8
<1> QED BY <1>4, <1>9 DEF MoveInv, y

\* When nothing is left to be moved, it is the address that is there.
LEMMA MovesEnd ==
  ASSUME BInv, MoveInv, EndSwaps
  PROVE  Spelt(text, address)
<1>1. /\ verdict = "swapping" /\ swaps = 0 /\ current \in 0..Pieces /\ compress \in 1..Pieces
      /\ Blank(compress, current) /\ address \in Addresses
  BY DEF EndSwaps, BInv, TypeOK, InSwaps
<1> DEFINE x == AddressOf(address, compress, swaps, current)
<1>2. ASSUME NEW k \in Indices PROVE x[k] = address[k]
  <2>1. x[k] = IF k < compress \/ k > current THEN address[k]
               ELSE IF k < current + 1 - 0 THEN 0 ELSE address[k - (current + 1 - compress - 0)]
    BY <1>1 DEF AddressOf
  <2>2. CASE k < compress \/ k > current
    BY <2>1, <2>2
  <2>3. CASE ~(k < compress \/ k > current)
    <3>1. k \in compress..current /\ k < current + 1 - 0
      BY <1>1, <2>3, Constants DEF Indices
    <3> QED BY <1>1, <2>1, <2>3, <3>1 DEF Blank
  <2> QED BY <2>2, <2>3
<1>3. x = address
  <2>1. x = [k \in Indices |-> x[k]] /\ address = [k \in Indices |-> address[k]]
    BY <1>1 DEF AddressOf, Addresses
  <2> HIDE DEF x
  <2> QED BY <1>2, <2>1
<1> QED BY <1>1, <1>3 DEF MoveInv

LEMMA MoveStep == ASSUME BInv, ReadInv, MoveInv, [Next]_vars PROVE MoveInv'
<1>1. CASE UNCHANGED vars
  BY <1>1 DEF vars, MoveInv
<1>2. CASE EndOfText /\ compress = None
  <2>1. verdict' # "swapping"
    BY <1>2 DEF EndOfText, Reject
  <2> QED BY <2>1 DEF MoveInv
<1>3. CASE SetIpv4 \/ Begin \/ TooMany \/ Compress \/ Piece \/ Dotted \/ Strange \/ EndSwaps \/ SetIpv6
  <2>1. verdict' # "swapping"
    BY <1>3 DEF SetIpv4, Begin, TooMany, Compress, Piece, Dotted, Strange, EndSwaps, SetIpv6, Parsing, Reject
  <2> QED BY <2>1 DEF MoveInv
<1> QED BY <1>1, <1>2, <1>3, MovesBegin, MovesGoOn DEF Next

LEMMA AcceptStep == ASSUME BInv, ReadInv, MoveInv, AcceptInv, [Next]_vars PROVE AcceptInv'
<1>1. CASE UNCHANGED vars
  BY <1>1 DEF vars, AcceptInv
<1>2. CASE EndOfText
  <2>1. CASE compress = None /\ current = Pieces
    <3>1. Spelt(text, address)
      BY <1>2, <2>1, FullText
    <3> QED BY <1>2, <2>1, <3>1 DEF EndOfText, AcceptInv
  <2>2. CASE ~(compress = None /\ current = Pieces)
    <3>1. verdict' \notin {"accepted", "set"}
      BY <1>2, <2>2 DEF EndOfText, Reject
    <3> QED BY <3>1 DEF AcceptInv
  <2> QED BY <2>1, <2>2
<1>3. CASE EndSwaps
  <2>1. Spelt(text, address)
    BY <1>3, MovesEnd
  <2> QED BY <1>3, <2>1 DEF EndSwaps, AcceptInv
<1>4. CASE SetIpv6
  BY <1>4 DEF SetIpv6, AcceptInv
<1>5. CASE SetIpv4
  BY <1>5 DEF SetIpv4, AcceptInv
<1>6. CASE Begin \/ TooMany \/ Compress \/ Piece \/ Dotted \/ Strange \/ Swap
  <2>1. verdict' \notin {"accepted", "set"}
    BY <1>6 DEF Begin, TooMany, Compress, Piece, Dotted, Strange, Swap, Parsing, Reject
  <2> QED BY <2>1 DEF AcceptInv
<1> QED BY <1>1, <1>2, <1>3, <1>4, <1>5, <1>6 DEF Next


-----------------------------------------------------------------------------
(* Rejected texts: what the loop stumbles over is in no spelling.            *)

RejectInv == parts = <<>> /\ verdict = "rejected" => \A a \in Addresses : ~Spelt(text, a)

\* After n tokens come a piece and a colon that is not the last token, or the last
\* token, and there is room for it.
GoesOn(t, n, room) ==
  \/ /\ t[n + 1] \in Group /\ room >= 1
     /\ n + 1 = Len(t) \/ (n + 2 < Len(t) /\ t[n + 2] = Colon)
  \/ t[n + 1] \in Quads /\ room >= 2 /\ n + 1 = Len(t)

\* So it is in a spelling, after every second token of what ends it.
LEMMA InEnds ==
  ASSUME NEW t \in Seq(Tokens), NEW o \in Nat, NEW a \in Addresses, NEW q \in Nat, NEW d \in Nat,
         Ends(t, o, a, q, Pieces), o + 2 * d < Len(t)
  PROVE  GoesOn(t, o + 2 * d, Pieces - q - d)
<1>1. PICK n \in Nat, l \in Nat : n = Pieces /\ l = Len(t)
  <2>1. Pieces \in Nat /\ Len(t) \in Nat
    BY Constants, LenProperties
  <2> QED BY <2>1, Zenon
<1>2. o + 2 * d < l
  BY <1>1
<1>3. ASSUME NEW e \in Nat, e <= n, ListOf(t, o, a, q, e), q + d < e
      PROVE  t[o + 2 * d + 1] \in Group /\ (o + 2 * d + 1 < l => t[o + 2 * d + 2] = Colon)
  <2>1. PICK k \in q..e - 1 : k = q + d /\ k - q = d
    BY <1>3
  <2>2. /\ t[o + 2 * d + 1] = <<a[k]>>
        /\ o + 2 * d + 1 < Len(t) => t[o + 2 * d + 2] = Colon
    BY <1>3, <2>1 DEF ListOf
  <2>3. a[k] \in Groups
    <3>1. k \in Indices
      BY <1>1, <1>3, <2>1 DEF Indices
    <3> QED BY <3>1 DEF Addresses
  <2> QED BY <1>1, <2>2, <2>3 DEF Group
<1>4. CASE ListEnds(t, o, a, q, Pieces)
  <2>1. ListOf(t, o, a, q, n) /\ l = o + (IF q < n THEN 2 * (n - q) - 1 ELSE 0)
    BY <1>1, <1>4 DEF ListEnds
  <2>2. /\ q + d < n /\ n - q - d >= 1
        /\ o + 2 * d + 1 = l \/ (o + 2 * d + 1 < l /\ o + 2 * d + 2 < l)
    BY <1>2, <2>1
  <2>3. t[o + 2 * d + 1] \in Group /\ (o + 2 * d + 1 < l => t[o + 2 * d + 2] = Colon)
    BY <1>3, <2>1, <2>2
  <2> QED BY <1>1, <2>2, <2>3 DEF GoesOn
<1>5. CASE QuadEnds(t, o, a, q, Pieces)
  <2>1. /\ n - q >= 2 /\ l = o + 2 * (n - q) - 3 /\ ListOf(t, o, a, q, n - 2)
        /\ t[l] \in Quads
    BY <1>1, <1>5 DEF QuadEnds
  <2>2. CASE d = n - q - 2
    <3>1. o + 2 * d + 1 = l /\ n - q - d >= 2
      BY <2>1, <2>2
    <3> QED BY <1>1, <2>1, <3>1 DEF GoesOn
  <2>3. CASE d # n - q - 2
    <3>1. /\ q + d < n - 2 /\ n - q - d >= 1 /\ n - 2 \in Nat /\ n - 2 <= n
          /\ o + 2 * d + 1 < l /\ o + 2 * d + 2 < l
      BY <1>2, <2>1, <2>3
    <3>2. t[o + 2 * d + 1] \in Group /\ (o + 2 * d + 1 < l => t[o + 2 * d + 2] = Colon)
      BY <1>3, <2>1, <3>1
    <3> QED BY <1>1, <3>1, <3>2 DEF GoesOn
  <2> QED BY <2>2, <2>3
<1> QED BY <1>4, <1>5 DEF Ends

\* A piece or a quad is not a colon.
LEMMA GoesOnWith ==
  ASSUME NEW t, NEW n, NEW room, GoesOn(t, n, room)
  PROVE  t[n + 1] # Colon
<1>1. CASE t[n + 1] \in Group
  BY <1>1, SingleToken DEF Group
<1>2. CASE t[n + 1] \in Quads
  BY <1>2, QuadToken
<1> QED BY <1>1, <1>2 DEF GoesOn

\* What the loop has to find where there is more text.
Expected ==
  /\ current < Pieces
  /\ \/ rest[1] \in Group /\ (Len(rest) = 1 \/ (Len(rest) > 2 /\ rest[2] = Colon))
     \/ rest[1] \in Quads /\ Len(rest) = 1 /\ current <= Pieces - 2
     \/ rest[1] = Colon /\ compress = None

LEMMA GoesOnHere ==
  ASSUME BInv, ReadInv, verdict = "parsing", rest # <<>>,
         NEW room \in Int, room <= Pieces - current,
         GoesOn(text, Offset + 2 * (current - First), room)
  PROVE  Expected
<1>1. PICK n \in Nat, l \in Nat, m \in Nat, c \in Nat, p \in Nat :
        /\ n = Offset + 2 * (current - First) /\ l = Len(text) /\ m = Len(rest)
        /\ c = current /\ p = Pieces
  <2>1. Offset + 2 * (current - First) \in Nat
    BY Reading
  <2>2. Len(text) \in Nat /\ Len(rest) \in Nat /\ current \in Nat /\ Pieces \in Nat
    BY Reading, Constants
  <2> QED BY <2>1, <2>2, Zenon
<1>2. /\ l - m = n /\ text[n + 1] = rest[1] /\ (n + 1 < l <=> m >= 2)
      /\ m >= 2 => text[n + 2] = rest[2]
  BY <1>1, BeforePiece
<1>3. GoesOn(text, n, room) /\ room <= p - c
  BY <1>1
<1>4. CASE /\ text[n + 1] \in Group /\ room >= 1
           /\ n + 1 = l \/ (n + 2 < l /\ text[n + 2] = Colon)
  <2>1. c < p
    BY <1>3, <1>4
  <2>2. m = 1 \/ (m > 2 /\ rest[2] = Colon)
    BY <1>2, <1>4
  <2> QED BY <1>1, <1>2, <1>4, <2>1, <2>2 DEF Expected
<1>5. CASE text[n + 1] \in Quads /\ room >= 2 /\ n + 1 = l
  <2>1. c < p /\ c <= p - 2 /\ m = 1
    BY <1>2, <1>3, <1>5
  <2> QED BY <1>1, <1>2, <1>5, <2>1 DEF Expected
<1> QED BY <1>1, <1>3, <1>4, <1>5 DEF GoesOn


\* A text without "::" so far.
LEMMA ExpectedBefore ==
  ASSUME BInv, ReadInv, verdict = "parsing", rest # <<>>, compress = None,
         NEW a \in Addresses, Spelt(text, a)
  PROVE  Expected
<1>1. /\ Offset = 0 /\ First = 0 /\ text[1] # Colon
  BY DEF Offset, First, ReadInv, HeadRead
<1>2. PICK n \in Nat, l \in Nat, m \in Nat, c \in Nat, p \in Nat :
        /\ n = 2 * current /\ l = Len(text) /\ m = Len(rest)
        /\ c = current /\ p = Pieces
  <2>1. 2 * current \in Nat
    BY Reading
  <2>2. Len(text) \in Nat /\ Len(rest) \in Nat /\ current \in Nat /\ Pieces \in Nat
    BY Reading, Constants
  <2> QED BY <2>1, <2>2, Zenon
<1>3. Offset + 2 * (current - First) = n /\ n = 2 * c
  BY <1>1, <1>2
<1>4. /\ l - m = n /\ ListOf(text, 0, address, 0, c) /\ text[n + 1] = rest[1] /\ n + 1 <= l
      /\ m >= 2 => text[n + 2] = rest[2]
  BY <1>1, <1>2, <1>3, BeforePiece
<1>5. text \in Seq(Tokens)
  BY Reading
<1>6. CASE Ends(text, 0, a, 0, Pieces)
  <2>1. 0 + 2 * c < Len(text) /\ 0 \in Nat
    BY <1>2, <1>3, <1>4
  <2>2. GoesOn(text, 0 + 2 * c, Pieces - 0 - c)
    BY <1>5, <1>6, <2>1, InEnds, Zenon
  <2>3. PICK room \in Int : room = Pieces - 0 - c
    BY <1>2
  <2>4. GoesOn(text, Offset + 2 * (current - First), room) /\ room <= Pieces - current
    BY <1>2, <1>3, <2>2, <2>3
  <2> QED BY <2>4, GoesOnHere
<1>7. CASE \E h \in Indices, q \in 1..Pieces : SpeltShort(text, a, h, q)
  <2>1. PICK h \in Indices, q \in 1..Pieces : SpeltShort(text, a, h, q)
    BY <1>7
  <2>2. h \in 0..p - 1 /\ q \in 1..p /\ h < q /\ HeadOf(text, a, h)
    BY <1>2, <2>1 DEF Indices, SpeltShort
  <2>3. h >= 1 /\ Start(h) = 2 * h + 1
    <3>1. Start(0) = 2
      BY DEF Start
    <3>2. h # 0
      BY <1>1, <2>2, <3>1 DEF HeadOf
    <3> QED BY <2>2, <3>2 DEF Start
  <2>4. /\ 2 * h + 1 <= l /\ text[2 * h + 1] = Colon
        /\ \A k \in 0..h - 1 : text[2 * k + 1] = <<a[k]>> /\ text[2 * k + 2] = Colon
    BY <1>2, <2>2, <2>3 DEF HeadOf
  <2>5. CASE h < c
    <3>1. h \in 0..c - 1 /\ 0 + 2 * (h - 0) + 1 = 2 * h + 1
      BY <2>2, <2>5
    <3>2. text[2 * h + 1] = <<address[h]>>
      BY <1>4, <3>1 DEF ListOf
    <3> QED BY <2>4, <3>2, SingleToken
  <2>6. CASE h = c
    <3>1. rest[1] = Colon
      BY <1>3, <1>4, <2>4, <2>6
    <3>2. c < p
      BY <2>2, <2>6
    <3> QED BY <1>2, <3>1, <3>2 DEF Expected
  <2>7. CASE c < h
    <3>1. c \in 0..h - 1 /\ c < p
      BY <2>2, <2>7
    <3>2. text[n + 1] = <<a[c]>> /\ text[n + 2] = Colon
      BY <1>3, <2>4, <3>1
    <3>3. m > 2
      BY <1>3, <1>4, <2>2, <2>4, <2>7
    <3>4. rest[1] \in Group /\ rest[2] = Colon
      <4>1. a[c] \in Groups
        BY <1>2, <3>1 DEF Addresses, Indices
      <4> QED BY <1>4, <3>2, <3>3, <4>1 DEF Group
    <3> QED BY <1>2, <3>1, <3>3, <3>4 DEF Expected
  <2> QED BY <2>2, <2>5, <2>6, <2>7
<1> QED BY <1>6, <1>7 DEF Spelt

\* A text with a "::" already.
LEMMA ExpectedAfter ==
  ASSUME BInv, ReadInv, verdict = "parsing", rest # <<>>, compress # None,
         NEW a \in Addresses, Spelt(text, a)
  PROVE  Expected
<1>1. PICK o \in Nat, f \in Nat, c \in Nat, p \in Nat, d \in Nat, g \in Nat :
        /\ o = Offset /\ f = First /\ c = current /\ p = Pieces
        /\ d = current - First /\ g = compress - 1
  <2>1. current - First \in Nat /\ compress - 1 \in Nat
    BY Reading
  <2>2. Offset \in Nat /\ First \in Nat /\ current \in Nat /\ Pieces \in Nat
    BY Reading, Constants
  <2> QED BY <2>1, <2>2, Zenon
<1>2. o = Start(g) /\ f = g + 1 /\ c = f + d /\ HeadOf(text, address, g)
  <2>1. o = Start(g) /\ f = compress /\ HeadOf(text, address, g)
    BY <1>1 DEF Offset, First, ReadInv, HeadRead
  <2> QED BY <1>1, <2>1, Reading
<1>3. text \in Seq(Tokens) /\ Len(text) \in Nat /\ p >= 1
  BY <1>1, Reading, Constants
<1>4. ~Ends(text, 0, a, 0, p)
  BY <1>2, <1>3, NotBoth
<1>5. PICK h \in Indices, q \in 1..Pieces : SpeltShort(text, a, h, q)
  BY <1>1, <1>4 DEF Spelt
<1>6. h \in Nat /\ q \in Nat /\ h < q /\ HeadOf(text, a, h) /\ Ends(text, Start(h), a, q, Pieces)
  BY <1>1, <1>5 DEF Indices, SpeltShort
<1>7. h = g
  BY <1>2, <1>6, SameHead
<1>8. o + 2 * d < Len(text)
  <2>1. o + 2 * d + 1 <= Len(text)
    BY <1>1, BeforePiece
  <2> QED BY <1>3, <2>1
<1>9. Ends(text, o, a, q, Pieces)
  BY <1>2, <1>6, <1>7
<1>10. GoesOn(text, o + 2 * d, Pieces - q - d)
  BY <1>3, <1>6, <1>8, <1>9, InEnds, Zenon
<1>11. PICK room \in Int : room = Pieces - q - d /\ room = p - q - d
  BY <1>1, <1>6
<1>12. room <= Pieces - current
  <2>1. q >= f
    BY <1>2, <1>6, <1>7
  <2>2. room <= p - c
    BY <1>2, <1>6, <1>11, <2>1
  <2> QED BY <1>1, <2>2
<1>13. GoesOn(text, Offset + 2 * (current - First), room)
  BY <1>1, <1>10, <1>11
<1> QED BY <1>12, <1>13, GoesOnHere

LEMMA RejectedInLoop ==
  ASSUME BInv, ReadInv, verdict = "parsing", rest # <<>>, ~Expected
  PROVE  \A a \in Addresses : ~Spelt(text, a)
BY ExpectedBefore, ExpectedAfter

\* A single colon at the beginning.
LEMMA RejectedAtStart ==
  ASSUME BInv, Begin, Reject, NEW a \in Addresses, Spelt(text, a)
  PROVE  FALSE
<1>1. /\ rest = text /\ text \in Seq(Tokens) /\ text # <<>> /\ text[1] = Colon
      /\ ~(Len(text) >= 2 /\ text[2] = Colon)
  BY DEF Begin, Reject, BInv, InText
<1>2. Len(text) \in Nat /\ Len(text) >= 1
  BY <1>1, LenProperties, EmptySeq
<1>3. CASE Ends(text, 0, a, 0, Pieces)
  <2>1. 0 + 2 * 0 < Len(text) /\ 0 \in Nat
    BY <1>2
  <2>2. GoesOn(text, 0 + 2 * 0, Pieces - 0 - 0)
    BY <1>1, <1>3, <2>1, InEnds, Zenon
  <2>3. text[0 + 2 * 0 + 1] # Colon
    BY <2>2, GoesOnWith, Zenon
  <2> QED BY <1>1, <2>3
<1>4. CASE \E h \in Indices, q \in 1..Pieces : SpeltShort(text, a, h, q)
  <2>1. PICK h \in Indices, q \in 1..Pieces : SpeltShort(text, a, h, q)
    BY <1>4
  <2>2. h \in Nat /\ HeadOf(text, a, h)
    BY <2>1, Constants DEF Indices, SpeltShort
  <2>3. CASE h = 0
    BY <1>1, <2>2, <2>3 DEF HeadOf, Start
  <2>4. CASE h # 0
    <3>1. 0 \in 0..h - 1 /\ 2 * 0 + 1 = 1
      BY <2>2, <2>4
    <3>2. text[1] = <<a[0]>>
      BY <2>2, <3>1 DEF HeadOf
    <3> QED BY <1>1, <3>2, SingleToken
  <2> QED BY <2>3, <2>4
<1> QED BY <1>3, <1>4 DEF Spelt

\* Too few pieces and no "::".
LEMMA RejectedAtEnd ==
  ASSUME BInv, ReadInv, EndOfText, Reject, NEW a \in Addresses, Spelt(text, a)
  PROVE  FALSE
<1>1. verdict = "parsing" /\ rest = <<>> /\ compress = None /\ current # Pieces
  BY DEF EndOfText, Reject
<1>2. PICK c \in Nat, p \in Nat, z \in Nat : c = current /\ p = Pieces /\ z = 0
  <2>1. current \in Nat /\ Pieces \in Nat /\ 0 \in Nat
    BY <1>1, Reading, Constants
  <2> QED BY <2>1, Zenon
<1>3. c # p /\ z < c /\ z <= p /\ Ends(text, z, address, z, c)
  BY <1>1, <1>2, Constants DEF ReadInv, OpenRead, ClosedRead, First, Offset
<1>4. Len(text) \in Nat
  BY <1>1, Reading
<1>5. CASE Ends(text, 0, a, 0, Pieces)
  <2>1. Ends(text, z, a, z, p) /\ z <= c
    BY <1>2, <1>3, <1>5
  <2>2. SamePieces(address, z, c, a, z, p)
    BY <1>3, <1>4, <2>1, SameEnds, Zenon
  <2> QED BY <1>2, <1>3, <2>2 DEF SamePieces
<1>6. CASE \E h \in Indices, q \in 1..Pieces : SpeltShort(text, a, h, q)
  <2>1. PICK h \in Indices, q \in 1..Pieces : SpeltShort(text, a, h, q)
    BY <1>6
  <2>2. h \in Nat /\ HeadOf(text, a, h)
    BY <2>1, Constants DEF Indices, SpeltShort
  <2>3. Ends(text, 0, address, 0, c) /\ c >= 1
    BY <1>2, <1>3
  <2> QED BY <1>4, <2>2, <2>3, NotBoth
<1> QED BY <1>5, <1>6 DEF Spelt

LEMMA RejectStep == ASSUME BInv, ReadInv, RejectInv, [Next]_vars PROVE RejectInv'
<1>1. CASE UNCHANGED vars
  BY <1>1 DEF vars, RejectInv
<1>2. CASE verdict' # "rejected"
  BY <1>2 DEF RejectInv
<1>3. CASE SetIpv4
  BY <1>3 DEF SetIpv4, RejectInv
<1>4. CASE Reject /\ Begin
  <2>1. \A a \in Addresses : ~Spelt(text, a)
    BY <1>4, RejectedAtStart
  <2> QED BY <1>4, <2>1 DEF Reject, RejectInv
<1>5. CASE Reject /\ EndOfText
  <2>1. \A a \in Addresses : ~Spelt(text, a)
    BY <1>5, RejectedAtEnd
  <2> QED BY <1>5, <2>1 DEF Reject, RejectInv
<1>6. CASE Reject /\ (TooMany \/ Compress \/ Piece \/ Dotted \/ Strange)
  <2>1. verdict = "parsing" /\ rest # <<>>
    BY <1>6 DEF TooMany, Compress, Piece, Dotted, Strange, Parsing
  <2>2. rest[1] \in Tokens /\ verdict' = "rejected"
    BY <1>6, <2>1, RestOf DEF BInv, Reject
  <2>3. ~Expected
    <3>1. CASE TooMany
      <4>1. current >= Pieces /\ current \in Nat /\ Pieces \in Nat
        BY <2>1, <3>1, Reading, Constants DEF TooMany, Parsing
      <4> QED BY <4>1 DEF Expected
    <3>2. CASE Compress
      <4>1. rest[1] = Colon /\ compress # None
        BY <2>1, <2>2, <3>2 DEF Compress
      <4> QED BY <2>2, <4>1, TokenKinds DEF Expected
    <3>3. CASE Piece
      <4>1. rest[1] \in Group /\ ~(Len(rest) = 1 \/ (Len(rest) > 2 /\ rest[2] = Colon))
        BY <2>1, <2>2, <3>3 DEF Piece, Reject, BInv
      <4> QED BY <2>2, <4>1, TokenKinds DEF Expected
    <3>4. CASE Dotted
      <4>1. rest[1] \in Quads /\ ~(current <= Pieces - 2 /\ Len(rest) = 1)
        BY <2>1, <2>2, <3>4 DEF Dotted
      <4> QED BY <2>2, <4>1, TokenKinds DEF Expected
    <3>5. CASE Strange
      BY <2>2, <3>5, TokenKinds DEF Strange, Expected
    <3> QED BY <1>6, <3>1, <3>2, <3>3, <3>4, <3>5
  <2>4. \A a \in Addresses : ~Spelt(text, a)
    BY <2>1, <2>3, RejectedInLoop
  <2> QED BY <1>6, <2>4 DEF Reject, RejectInv
<1>7. CASE ~Reject
  <2>1. CASE Begin \/ TooMany \/ Compress \/ Piece \/ Dotted \/ Strange \/ EndOfText
    <3>1. verdict' # "rejected"
      BY <1>7, <2>1 DEF Begin, TooMany, Compress, Piece, Dotted, Strange, EndOfText, Parsing
    <3> QED BY <1>2, <3>1
  <2>2. CASE Swap \/ EndSwaps \/ SetIpv6
    <3>1. verdict' # "rejected"
      BY <2>2 DEF Swap, EndSwaps, SetIpv6
    <3> QED BY <1>2, <3>1
  <2> QED BY <1>1, <1>3, <2>1, <2>2 DEF Next
<1>8. CASE Swap \/ EndSwaps \/ SetIpv6
  <2>1. verdict' # "rejected"
    BY <1>8 DEF Swap, EndSwaps, SetIpv6
  <2> QED BY <1>2, <2>1
<1> QED BY <1>1, <1>3, <1>4, <1>5, <1>6, <1>7, <1>8 DEF Next


-----------------------------------------------------------------------------
(* The spellings, token by token, are the ones of EndPoint.                  *)

LEMMA EvenOrOdd ==
  ASSUME NEW k \in Nat, k >= 1
  PROVE  \E x \in Nat : k = 2 * x + 1 \/ k = 2 * x + 2
<1>1. PICK x \in Nat : x = (k - 1) \div 2
  BY (k - 1) \div 2 \in Nat
<1>2. k - 1 = 2 * x \/ k - 1 = 2 * x + 1
  BY <1>1
<1> QED BY <1>2

LEMMA Parity ==
  ASSUME NEW x \in Nat
  PROVE  /\ (2 * x + 1) % 2 = 1 /\ ((2 * x + 1) - 1) \div 2 = x
         /\ (2 * x + 2) % 2 = 0
<1>1. (2 * x + 1) % 2 = 1
  BY 2 \in Nat, 1 \in 0..2 - 1, 2 * x + 1 = x * 2 + 1, Quotient
<1>2. ((2 * x + 1) - 1) \div 2 = x
  OBVIOUS
<1>3. (2 * x + 2) % 2 = 0
  OBVIOUS
<1> QED BY <1>1, <1>2, <1>3

\* The number of tokens of a list of pieces.
Width(i, j) == IF j > i THEN 2 * (j - i) - 1 ELSE 0

LEMMA JoinList ==
  ASSUME NEW a \in Addresses, NEW i \in Nat, NEW j \in Nat, j <= Pieces
  PROVE  /\ Join(a, i, j) \in Seq(Tokens) /\ Len(Join(a, i, j)) = Width(i, j)
         /\ ListOf(Join(a, i, j), 0, a, i, j)
<1>1. PICK n \in Nat : n = Width(i, j)
  BY DEF Width
<1>2. Join(a, i, j) = [k \in 1..n |-> IF k % 2 = 0 THEN Colon ELSE <<a[i + (k - 1) \div 2]>>]
  BY <1>1 DEF Join, Width
<1>3. ASSUME NEW x \in Nat, i + x < j
      PROVE  Join(a, i, j)[2 * x + 1] = <<a[i + x]>>
  <2>1. PICK k \in 1..n : k = 2 * x + 1
    BY <1>1, <1>3 DEF Width
  <2>2. Join(a, i, j)[k] = IF k % 2 = 0 THEN Colon ELSE <<a[i + (k - 1) \div 2]>>
    BY <1>2
  <2>3. k % 2 = 1 /\ (k - 1) \div 2 = x
    BY <2>1, Parity
  <2> QED BY <2>1, <2>2, <2>3
<1>4. ASSUME NEW x \in Nat, i + x + 1 < j
      PROVE  Join(a, i, j)[2 * x + 2] = Colon
  <2>1. PICK k \in 1..n : k = 2 * x + 2
    BY <1>1, <1>4 DEF Width
  <2>2. Join(a, i, j)[k] = IF k % 2 = 0 THEN Colon ELSE <<a[i + (k - 1) \div 2]>>
    BY <1>2
  <2>3. k % 2 = 0
    BY <2>1, Parity
  <2> QED BY <2>1, <2>2, <2>3
<1>5. ASSUME NEW k \in 1..n PROVE Join(a, i, j)[k] \in Tokens
  <2>1. k \in Nat /\ k >= 1
    OBVIOUS
  <2>2. PICK x \in Nat : k = 2 * x + 1 \/ k = 2 * x + 2
    BY <2>1, EvenOrOdd
  <2>3. CASE k = 2 * x + 1
    <3>1. i + x < j
      BY <1>1, <2>3 DEF Width
    <3>2. Join(a, i, j)[k] = <<a[i + x]>>
      BY <1>3, <2>3, <3>1
    <3>3. PICK y \in Indices : y = i + x
      BY <3>1, Constants DEF Indices
    <3>4. a[y] \in Groups
      BY DEF Addresses
    <3> QED BY <3>2, <3>3, <3>4 DEF Tokens, Group
  <2>4. CASE k = 2 * x + 2
    <3>1. i + x + 1 < j
      BY <1>1, <2>4 DEF Width
    <3>2. Join(a, i, j)[k] = Colon
      BY <1>4, <2>4, <3>1
    <3> QED BY <3>2 DEF Tokens
  <2> QED BY <2>2, <2>3, <2>4
<1>6. Join(a, i, j) \in [1..n -> Tokens]
  BY <1>2, <1>5
<1>7. Join(a, i, j) \in Seq(Tokens) /\ Len(Join(a, i, j)) = n
  BY <1>6, SeqDef
<1>8. ASSUME NEW k \in i..j - 1
      PROVE  /\ Join(a, i, j)[0 + 2 * (k - i) + 1] = <<a[k]>>
             /\ 0 + 2 * (k - i) + 1 < n => Join(a, i, j)[0 + 2 * (k - i) + 2] = Colon
  <2>1. PICK x \in Nat : x = k - i
    BY k - i \in Nat
  <2>2. i + x < j /\ i + x = k /\ 0 + 2 * (k - i) + 1 = 2 * x + 1 /\ 0 + 2 * (k - i) + 2 = 2 * x + 2
    BY <2>1
  <2>3. 2 * x + 1 < n => i + x + 1 < j
    BY <1>1 DEF Width
  <2>4. /\ i + x < j => Join(a, i, j)[2 * x + 1] = <<a[i + x]>>
        /\ i + x + 1 < j => Join(a, i, j)[2 * x + 2] = Colon
    BY <1>3, <1>4
  <2> QED BY <2>2, <2>3, <2>4
<1>9. ListOf(Join(a, i, j), 0, a, i, j)
  BY <1>7, <1>8 DEF ListOf
<1> QED BY <1>1, <1>7, <1>9

\* What ends a sequence ends it after a prefix, too.
LEMMA ListAfter ==
  ASSUME NEW p \in Seq(Tokens), NEW s \in Seq(Tokens), NEW a, NEW q \in Nat, NEW e \in Nat,
         ListOf(s, 0, a, q, e), Width(q, e) <= Len(s)
  PROVE  ListOf(p \o s, Len(p), a, q, e)
<1>1. PICK o \in Nat, m \in Nat : o = Len(p) /\ m = Len(s)
  BY LenProperties
<1>2. /\ Len(p \o s) = o + m
      /\ \A k \in 1..o + m : (p \o s)[k] = IF k <= o THEN p[k] ELSE s[k - o]
  BY <1>1, ConcatProperties
<1>3. ASSUME NEW k \in q..e - 1
      PROVE  /\ (p \o s)[o + 2 * (k - q) + 1] = <<a[k]>>
             /\ o + 2 * (k - q) + 1 < o + m => (p \o s)[o + 2 * (k - q) + 2] = Colon
  <2>1. PICK d \in Nat : d = 2 * (k - q)
    BY 2 * (k - q) \in Nat
  <2>2. /\ s[0 + 2 * (k - q) + 1] = <<a[k]>>
        /\ 0 + 2 * (k - q) + 1 < Len(s) => s[0 + 2 * (k - q) + 2] = Colon
    BY DEF ListOf
  <2>3. s[d + 1] = <<a[k]>> /\ (d + 1 < m => s[d + 2] = Colon) /\ d + 1 <= m
    BY <1>1, <2>1, <2>2 DEF Width
  <2>4. (p \o s)[o + d + 1] = s[d + 1]
    <3>1. o + d + 1 \in 1..o + m /\ ~(o + d + 1 <= o) /\ (o + d + 1) - o = d + 1
      BY <2>3
    <3> QED BY <1>2, <3>1
  <2>5. d + 1 < m => (p \o s)[o + d + 2] = s[d + 2]
    <3>1. SUFFICES ASSUME d + 1 < m PROVE (p \o s)[o + d + 2] = s[d + 2]
      OBVIOUS
    <3>2. PICK i \in 1..o + m : i = o + d + 2 /\ ~(i <= o) /\ i - o = d + 2
      BY <3>1
    <3>3. (p \o s)[i] = s[i - o]
      BY <1>2, <3>2
    <3> QED BY <3>2, <3>3
  <2>6. /\ o + 2 * (k - q) + 1 = o + d + 1 /\ o + 2 * (k - q) + 2 = o + d + 2
        /\ o + d + 1 < o + m => d + 1 < m
    BY <2>1
  <2> QED BY <2>3, <2>4, <2>5, <2>6
<1> QED BY <1>1, <1>2, <1>3 DEF ListOf

LEMMA EndsAfter ==
  ASSUME NEW p \in Seq(Tokens), NEW s \in Seq(Tokens), NEW a, NEW q \in Nat, NEW e \in Nat
  PROVE  /\ ListEnds(s, 0, a, q, e) => ListEnds(p \o s, Len(p), a, q, e)
         /\ QuadEnds(s, 0, a, q, e) => QuadEnds(p \o s, Len(p), a, q, e)
<1>1. PICK o \in Nat, m \in Nat : o = Len(p) /\ m = Len(s)
  BY LenProperties
<1>2. /\ Len(p \o s) = o + m
      /\ \A k \in 1..o + m : (p \o s)[k] = IF k <= o THEN p[k] ELSE s[k - o]
  BY <1>1, ConcatProperties
<1>3. ASSUME ListEnds(s, 0, a, q, e) PROVE ListEnds(p \o s, o, a, q, e)
  <2>1. m = 0 + (IF q < e THEN 2 * (e - q) - 1 ELSE 0) /\ ListOf(s, 0, a, q, e)
    BY <1>1, <1>3 DEF ListEnds
  <2>2. Width(q, e) <= Len(s)
    BY <1>1, <2>1 DEF Width
  <2>3. ListOf(p \o s, o, a, q, e)
    BY <1>1, <2>1, <2>2, ListAfter
  <2>4. o + m = o + (IF q < e THEN 2 * (e - q) - 1 ELSE 0)
    BY <2>1
  <2> QED BY <1>2, <2>3, <2>4 DEF ListEnds
<1>4. ASSUME QuadEnds(s, 0, a, q, e) PROVE QuadEnds(p \o s, o, a, q, e)
  <2>1. /\ e - q >= 2 /\ m = 0 + 2 * (e - q) - 3 /\ ListOf(s, 0, a, q, e - 2)
        /\ s[m] = <<a[e - 2], a[e - 1]>> /\ s[m] \in Quads
    BY <1>1, <1>4 DEF QuadEnds
  <2>2. e - 2 \in Nat /\ Width(q, e - 2) <= Len(s)
    BY <1>1, <2>1 DEF Width
  <2>3. ListOf(p \o s, o, a, q, e - 2)
    BY <1>1, <2>1, <2>2, ListAfter
  <2>4. (p \o s)[o + m] = s[m]
    <3>1. o + m \in 1..o + m /\ ~(o + m <= o) /\ (o + m) - o = m
      BY <2>1
    <3> QED BY <1>2, <3>1
  <2>5. o + m = o + 2 * (e - q) - 3
    BY <2>1
  <2> QED BY <1>2, <2>1, <2>3, <2>4, <2>5 DEF QuadEnds
<1> QED BY <1>1, <1>3, <1>4


\* The list of pieces whose last two are a quad.
QuadTail(a, i, j) ==
  Join(a, i, j - 2) \o (IF j - i > 2 THEN <<Colon>> ELSE <<>>) \o <<<<a[j - 2], a[j - 1]>>>>

LEMMA QuadTailEnds ==
  ASSUME NEW a \in Addresses, NEW i \in Nat, NEW j \in Nat, j <= Pieces, j - i >= 2,
         <<a[j - 2], a[j - 1]>> \in Quads
  PROVE  QuadTail(a, i, j) \in Seq(Tokens) /\ QuadEnds(QuadTail(a, i, j), 0, a, i, j)
<1>1. PICK d \in Nat, e \in Nat : d = j - 2 - i /\ e = j - 2
  BY j - 2 - i \in Nat, j - 2 \in Nat
<1> DEFINE p == Join(a, i, e)
           c == IF d > 0 THEN <<Colon>> ELSE <<>>
           x == <<a[j - 2], a[j - 1]>>
           l == p \o c
           y == <<x>>
           w == l \o y
<1>2. p \in Seq(Tokens) /\ Len(p) = Width(i, e) /\ ListOf(p, 0, a, i, e)
  <2>1. e <= Pieces
    BY <1>1, Constants
  <2> QED BY <2>1, JoinList
<1>3. c \in Seq(Tokens) /\ Len(c) = (IF d > 0 THEN 1 ELSE 0) /\ (d > 0 => c[1] = Colon)
  BY DEF Tokens
<1>4. y \in Seq(Tokens) /\ Len(y) = 1 /\ y[1] = x
  BY DEF Tokens
<1> HIDE DEF p, c, x, y
<1>5. /\ l \in Seq(Tokens) /\ Len(l) = 2 * d
      /\ \A k \in 1..2 * d - 1 : l[k] = p[k]
      /\ d > 0 => l[2 * d] = Colon
  <2>1. /\ l \in Seq(Tokens) /\ Len(l) = Len(p) + Len(c)
        /\ \A k \in 1..Len(p) + Len(c) : l[k] = IF k <= Len(p) THEN p[k] ELSE c[k - Len(p)]
    BY <1>2, <1>3, ConcatProperties
  <2>2. Len(p) = (IF d > 0 THEN 2 * d - 1 ELSE 0)
    BY <1>1, <1>2 DEF Width
  <2> HIDE DEF l
  <2>3. Len(p) + Len(c) = 2 * d
    BY <1>3, <2>2
  <2>4. ASSUME d > 0 PROVE l[2 * d] = Colon
    <3>1. PICK k \in 1..2 * d : k = 2 * d /\ ~(k <= Len(p)) /\ k - Len(p) = 1
      BY <2>2, <2>4
    <3>2. l[k] = c[k - Len(p)]
      BY <2>1, <2>3, <3>1
    <3> QED BY <1>3, <2>4, <3>1, <3>2
  <2>5. ASSUME NEW k \in 1..2 * d - 1 PROVE l[k] = p[k]
    <3>1. k \in 1..2 * d /\ k <= Len(p)
      BY <2>2
    <3> QED BY <2>1, <2>3, <3>1
  <2> QED BY <2>1, <2>3, <2>4, <2>5
<1> HIDE DEF l
<1>6. /\ w \in Seq(Tokens) /\ Len(w) = 2 * d + 1
      /\ \A k \in 1..2 * d : w[k] = l[k]
      /\ w[2 * d + 1] = x
  <2>1. /\ w \in Seq(Tokens) /\ Len(w) = Len(l) + Len(y)
        /\ \A k \in 1..Len(l) + Len(y) : w[k] = IF k <= Len(l) THEN l[k] ELSE y[k - Len(l)]
    BY <1>4, <1>5, ConcatProperties
  <2>2. \A k \in 1..2 * d : k \in 1..2 * d + 1 /\ k <= 2 * d
    OBVIOUS
  <2>3. PICK k \in 1..2 * d + 1 : k = 2 * d + 1 /\ ~(k <= 2 * d) /\ k - 2 * d = 1
    OBVIOUS
  <2> HIDE DEF w
  <2>4. w[k] = y[k - 2 * d]
    BY <1>4, <1>5, <2>1, <2>3
  <2>5. w[k] = x
    BY <1>4, <2>3, <2>4
  <2> QED BY <1>4, <1>5, <2>1, <2>2, <2>3, <2>5
<1> HIDE DEF w
<1>7. ASSUME NEW k \in i..e - 1
      PROVE  w[0 + 2 * (k - i) + 1] = <<a[k]>> /\ w[0 + 2 * (k - i) + 2] = Colon
  <2>1. PICK m \in Nat : m = k - i
    BY k - i \in Nat
  <2>2. m < d
    BY <1>1, <2>1
  <2>3. Len(p) = 2 * d - 1
    BY <1>1, <1>2, <2>2 DEF Width
  <2>4. p[2 * m + 1] = <<a[k]>> /\ (2 * m + 1 < 2 * d - 1 => p[2 * m + 2] = Colon)
    <3>1. /\ p[0 + 2 * (k - i) + 1] = <<a[k]>>
          /\ 0 + 2 * (k - i) + 1 < Len(p) => p[0 + 2 * (k - i) + 2] = Colon
      BY <1>2 DEF ListOf
    <3>2. 0 + 2 * (k - i) + 1 = 2 * m + 1 /\ 0 + 2 * (k - i) + 2 = 2 * m + 2
      BY <2>1
    <3> QED BY <2>3, <3>1, <3>2
  <2>5. w[2 * m + 1] = <<a[k]>>
    <3>1. 2 * m + 1 \in 1..2 * d /\ 2 * m + 1 \in 1..2 * d - 1
      BY <2>2
    <3>2. w[2 * m + 1] = l[2 * m + 1] /\ l[2 * m + 1] = p[2 * m + 1]
      BY <1>5, <1>6, <3>1
    <3> QED BY <2>4, <3>2
  <2>6. w[2 * m + 2] = Colon
    <3>1. 2 * m + 2 \in 1..2 * d
      BY <2>2
    <3>2. w[2 * m + 2] = l[2 * m + 2]
      BY <1>6, <3>1
    <3>3. CASE m = d - 1
      <4>1. 2 * m + 2 = 2 * d /\ d > 0
        BY <2>2, <3>3
      <4> QED BY <1>5, <3>2, <4>1
    <3>4. CASE m < d - 1
      <4>1. 2 * m + 2 \in 1..2 * d - 1 /\ 2 * m + 1 < 2 * d - 1
        BY <2>2, <3>4
      <4>2. l[2 * m + 2] = p[2 * m + 2]
        BY <1>5, <4>1
      <4> QED BY <2>4, <3>2, <4>1, <4>2
    <3> QED BY <2>2, <3>3, <3>4
  <2>7. 0 + 2 * (k - i) + 1 = 2 * m + 1 /\ 0 + 2 * (k - i) + 2 = 2 * m + 2
    BY <2>1
  <2> QED BY <2>5, <2>6, <2>7
<1>8. QuadEnds(w, 0, a, i, j)
  <2>1. ListOf(w, 0, a, i, j - 2)
    BY <1>1, <1>7 DEF ListOf
  <2>2. 0 + 2 * (j - i) - 3 = 2 * d + 1
    BY <1>1
  <2> QED BY <1>6, <2>1, <2>2 DEF QuadEnds, x
<1>9. w = QuadTail(a, i, j)
  <2>1. d > 0 <=> j - i > 2
    BY <1>1
  <2> QED BY <1>1, <2>1 DEF QuadTail, w, l, p, c, x, y
<1> QED BY <1>6, <1>8, <1>9

\* The head of a text with a "::".
HeadText(a, h) == Join(a, 0, h) \o <<Colon, Colon>>

LEMMA HeadTextIs ==
  ASSUME NEW a \in Addresses, NEW h \in Indices
  PROVE  /\ HeadText(a, h) \in Seq(Tokens) /\ Len(HeadText(a, h)) = Start(h)
         /\ HeadOf(HeadText(a, h), a, h)
<1>1. PICK n \in Nat : n = h
  BY Constants DEF Indices
<1> DEFINE p == Join(a, 0, n)
           c == <<Colon, Colon>>
           l == p \o c
<1>2. p \in Seq(Tokens) /\ Len(p) = Width(0, n) /\ ListOf(p, 0, a, 0, n)
  <2>1. n <= Pieces /\ 0 \in Nat
    BY <1>1, Constants DEF Indices
  <2> QED BY <2>1, JoinList
<1>3. c \in Seq(Tokens) /\ Len(c) = 2 /\ c[1] = Colon /\ c[2] = Colon
  BY DEF Tokens
<1> HIDE DEF p, c
<1>4. PICK m \in Nat : m = Len(p) /\ m = (IF n > 0 THEN 2 * n - 1 ELSE 0)
  BY <1>2 DEF Width
<1>5. /\ l \in Seq(Tokens) /\ Len(l) = m + 2
      /\ \A k \in 1..m + 2 : l[k] = IF k <= m THEN p[k] ELSE c[k - m]
  <2>1. /\ l \in Seq(Tokens) /\ Len(l) = Len(p) + Len(c)
        /\ \A k \in 1..Len(p) + Len(c) : l[k] = IF k <= Len(p) THEN p[k] ELSE c[k - Len(p)]
    BY <1>2, <1>3, ConcatProperties
  <2> HIDE DEF l
  <2> QED BY <1>3, <1>4, <2>1
<1> HIDE DEF l
<1>6. Start(n) = m + 2
  BY <1>4 DEF Start
<1>7. l[m + 1] = Colon /\ l[m + 2] = Colon
  <2>1. PICK x \in 1..m + 2, y \in 1..m + 2 : /\ x = m + 1 /\ ~(x <= m) /\ x - m = 1
                                              /\ y = m + 2 /\ ~(y <= m) /\ y - m = 2
    BY m + 1 \in 1..m + 2, m + 2 \in 1..m + 2
  <2> QED BY <1>3, <1>5, <2>1
<1>8. ASSUME NEW k \in 0..n - 1 PROVE l[2 * k + 1] = <<a[k]>> /\ l[2 * k + 2] = Colon
  <2>1. p[2 * k + 1] = <<a[k]>> /\ (2 * k + 1 < m => p[2 * k + 2] = Colon)
    <3>1. /\ p[0 + 2 * (k - 0) + 1] = <<a[k]>>
          /\ 0 + 2 * (k - 0) + 1 < Len(p) => p[0 + 2 * (k - 0) + 2] = Colon
      BY <1>2 DEF ListOf
    <3> QED BY <1>4, <3>1
  <2>2. PICK x \in 1..m + 2, y \in 1..m + 2 : x = 2 * k + 1 /\ x <= m /\ y = 2 * k + 2 /\ y <= m + 1
    <3>1. 2 * k + 1 \in 1..m + 2 /\ 2 * k + 1 <= m /\ 2 * k + 2 \in 1..m + 2 /\ 2 * k + 2 <= m + 1
      BY <1>4
    <3> QED BY <3>1
  <2>3. l[x] = <<a[k]>>
    BY <1>5, <2>1, <2>2
  <2>4. l[y] = Colon
    <3>1. CASE y <= m
      <4>1. 2 * k + 1 < m
        BY <2>2, <3>1
      <4> QED BY <1>5, <2>1, <2>2, <3>1, <4>1
    <3>2. CASE y = m + 1
      BY <1>7, <3>2
    <3> QED BY <2>2, <3>1, <3>2
  <2> QED BY <2>2, <2>3, <2>4
<1>9. HeadOf(l, a, n)
  <2>1. Start(n) - 1 = m + 1 /\ Start(n) <= Len(l)
    BY <1>5, <1>6
  <2>2. l[Start(n) - 1] = Colon /\ l[Start(n)] = Colon
    BY <1>6, <1>7, <2>1
  <2> QED BY <1>8, <2>1, <2>2 DEF HeadOf
<1> QED BY <1>1, <1>5, <1>6, <1>9 DEF HeadText, l, p, c

LEMMA HeadBefore ==
  ASSUME NEW p \in Seq(Tokens), NEW s \in Seq(Tokens), NEW a, NEW h \in Nat,
         Len(p) = Start(h), HeadOf(p, a, h)
  PROVE  HeadOf(p \o s, a, h)
<1>1. PICK o \in Nat, m \in Nat : o = Len(p) /\ m = Len(s)
  BY LenProperties
<1>2. Len(p \o s) = o + m /\ \A k \in 1..o : (p \o s)[k] = p[k]
  <2>1. /\ Len(p \o s) = o + m
        /\ \A k \in 1..o + m : (p \o s)[k] = IF k <= o THEN p[k] ELSE s[k - o]
    BY <1>1, ConcatProperties
  <2>2. \A k \in 1..o : k \in 1..o + m /\ k <= o
    OBVIOUS
  <2> QED BY <2>1, <2>2
<1>3. o = Start(h) /\ o >= 2 /\ \A k \in 0..h - 1 : 2 * k + 1 \in 1..o /\ 2 * k + 2 \in 1..o
  BY <1>1 DEF Start
<1>4. o - 1 \in 1..o /\ o \in 1..o /\ o <= o + m
  BY <1>3
<1> QED BY <1>2, <1>3, <1>4 DEF HeadOf


LEMMA WrittenEnds ==
  ASSUME NEW a \in Addresses, NEW i \in 0..Pieces, NEW s \in Written(a, i, Pieces)
  PROVE  s \in Seq(Tokens) /\ Ends(s, 0, a, i, Pieces)
<1>1. PICK n \in Nat, q \in Nat : n = Pieces /\ q = i
  BY Constants
<1>2. CASE s = Join(a, q, n)
  <2>1. s \in Seq(Tokens) /\ Len(s) = Width(q, n) /\ ListOf(s, 0, a, q, n)
    <3>1. n <= Pieces
      BY <1>1
    <3> QED BY <1>2, <3>1, JoinList
  <2>2. Width(q, n) = 0 + (IF q < n THEN 2 * (n - q) - 1 ELSE 0)
    BY DEF Width
  <2> QED BY <1>1, <2>1, <2>2 DEF Ends, ListEnds
<1>3. CASE n - q >= 2 /\ <<a[n - 2], a[n - 1]>> \in Quads /\ s = QuadTail(a, q, n)
  <2>1. n <= Pieces
    BY <1>1
  <2>2. s \in Seq(Tokens) /\ QuadEnds(s, 0, a, q, n)
    BY <1>3, <2>1, QuadTailEnds
  <2> QED BY <1>1, <2>2 DEF Ends
<1> QED BY <1>1, <1>2, <1>3 DEF Written, QuadTail

\* The pairs of indices that "::" may stand for.
Gaps(a) == {r \in Indices \X (1..Pieces) : r[1] < r[2] /\ \A k \in r[1]..r[2] - 1 : a[k] = 0}

LEMMA SpellingsTwoWays ==
  ASSUME NEW a, NEW t
  PROVE  t \in Spellings(a) <=>
           \/ t \in Written(a, 0, Pieces)
           \/ \E r \in Gaps(a) : \E s \in Written(a, r[2], Pieces) : t = HeadText(a, r[1]) \o s
<1>1. Spellings(a) = Written(a, 0, Pieces) \cup
                     UNION {{HeadText(a, r[1]) \o s : s \in Written(a, r[2], Pieces)} : r \in Gaps(a)}
  BY Zenon DEF Spellings, Gaps, HeadText
<1>2. t \in UNION {{HeadText(a, r[1]) \o s : s \in Written(a, r[2], Pieces)} : r \in Gaps(a)}
        <=> \E r \in Gaps(a) : \E s \in Written(a, r[2], Pieces) : t = HeadText(a, r[1]) \o s
  OBVIOUS
<1> QED BY <1>1, <1>2

LEMMA SpellingsAreSpelt ==
  ASSUME NEW a \in Addresses, NEW t \in Spellings(a)
  PROVE  t \in Seq(Tokens) /\ Spelt(t, a)
<1>1. CASE t \in Written(a, 0, Pieces)
  <2>1. 0 \in 0..Pieces
    BY Constants
  <2>2. t \in Seq(Tokens) /\ Ends(t, 0, a, 0, Pieces)
    BY <1>1, <2>1, WrittenEnds
  <2> QED BY <2>2 DEF Spelt
<1>2. CASE \E r \in Gaps(a) : \E s \in Written(a, r[2], Pieces) : t = HeadText(a, r[1]) \o s
  <2>1. PICK r \in Gaps(a) : \E s \in Written(a, r[2], Pieces) : t = HeadText(a, r[1]) \o s
    BY <1>2
  <2>2. PICK s \in Written(a, r[2], Pieces) : t = HeadText(a, r[1]) \o s
    BY <2>1
  <2>3. PICK h \in Indices, q \in 1..Pieces : h = r[1] /\ q = r[2]
    BY <2>1 DEF Gaps
  <2>4. h < q /\ \A k \in h..q - 1 : a[k] = 0
    BY <2>1, <2>3 DEF Gaps
  <2>5. h \in Nat /\ q \in Nat /\ q \in 0..Pieces
    BY Constants DEF Indices
  <2> DEFINE p == HeadText(a, h)
  <2>6. p \in Seq(Tokens) /\ Len(p) = Start(h) /\ HeadOf(p, a, h)
    BY HeadTextIs
  <2> HIDE DEF p
  <2>7. s \in Seq(Tokens) /\ Ends(s, 0, a, q, Pieces)
    BY <2>2, <2>3, <2>5, WrittenEnds
  <2>8. HeadOf(p \o s, a, h)
    BY <2>5, <2>6, <2>7, HeadBefore
  <2>9. Ends(p \o s, Len(p), a, q, Pieces)
    <3>1. Pieces \in Nat
      BY Constants
    <3> QED BY <2>5, <2>6, <2>7, <3>1, EndsAfter DEF Ends
  <2>10. t = p \o s
    BY <2>2, <2>3 DEF p
  <2>11. SpeltShort(t, a, h, q)
    BY <2>4, <2>6, <2>8, <2>9, <2>10 DEF SpeltShort
  <2>12. t \in Seq(Tokens)
    BY <2>6, <2>7, <2>10, ConcatProperties
  <2> QED BY <2>11, <2>12 DEF Spelt
<1> QED BY <1>1, <1>2, SpellingsTwoWays

\* The tokens of a list, of a head, and of a text with both are determined.
LEMMA ListTokens ==
  ASSUME NEW t, NEW u, NEW n \in Nat, Len(t) = n, Len(u) = n, NEW o \in Nat, NEW a,
         NEW q \in Nat, NEW e \in Nat, ListOf(t, o, a, q, e), ListOf(u, o, a, q, e),
         NEW k \in o + 1..n, k <= o + 2 * (e - q)
  PROVE  t[k] = u[k]
<1>1. PICK m \in Nat : m = k - o
  BY k - o \in Nat
<1>2. m >= 1 /\ k = o + m
  BY <1>1
<1>3. PICK x \in Nat : m = 2 * x + 1 \/ m = 2 * x + 2
  BY <1>2, EvenOrOdd
<1>4. PICK y \in q..e - 1 : y - q = x
  <2>1. q + x \in q..e - 1 /\ (q + x) - q = x
    BY <1>2, <1>3
  <2> QED BY <2>1
<1>5. /\ t[o + 2 * (y - q) + 1] = <<a[y]>> /\ u[o + 2 * (y - q) + 1] = <<a[y]>>
      /\ o + 2 * (y - q) + 1 < n => t[o + 2 * (y - q) + 2] = Colon /\ u[o + 2 * (y - q) + 2] = Colon
  BY DEF ListOf
<1>6. CASE m = 2 * x + 1
  <2>1. k = o + 2 * (y - q) + 1
    BY <1>2, <1>4, <1>6
  <2> QED BY <1>5, <2>1
<1>7. CASE m = 2 * x + 2
  <2>1. k = o + 2 * (y - q) + 2 /\ o + 2 * (y - q) + 1 < n
    BY <1>2, <1>4, <1>7
  <2> QED BY <1>5, <2>1
<1> QED BY <1>3, <1>6, <1>7

LEMMA HeadTokens ==
  ASSUME NEW t, NEW u, NEW a, NEW h \in Nat, HeadOf(t, a, h), HeadOf(u, a, h), NEW k \in 1..Start(h)
  PROVE  t[k] = u[k]
<1>1. Start(h) \in Nat /\ k \in Nat /\ k >= 1
  BY DEF Start
<1>2. CASE k = Start(h) \/ k = Start(h) - 1
  BY <1>2 DEF HeadOf
<1>3. CASE ~(k = Start(h) \/ k = Start(h) - 1)
  <2>1. PICK x \in Nat : k = 2 * x + 1 \/ k = 2 * x + 2
    BY <1>1, EvenOrOdd
  <2>2. x \in 0..h - 1
    BY <1>3, <2>1 DEF Start
  <2> QED BY <2>1, <2>2 DEF HeadOf
<1> QED BY <1>2, <1>3

LEMMA SameText ==
  ASSUME NEW t \in Seq(Tokens), NEW u \in Seq(Tokens), NEW o \in Nat, NEW a,
         NEW q \in Nat, NEW e \in Nat, \A k \in 1..o : t[k] = u[k],
         \/ ListEnds(t, o, a, q, e) /\ ListEnds(u, o, a, q, e)
         \/ QuadEnds(t, o, a, q, e) /\ QuadEnds(u, o, a, q, e)
  PROVE  t = u
<1>1. PICK n \in Nat : n = Len(t)
  BY LenProperties
<1>2. ASSUME ListEnds(t, o, a, q, e), ListEnds(u, o, a, q, e)
      PROVE  Len(u) = n /\ \A k \in o + 1..n : t[k] = u[k]
  <2>1. /\ Len(t) = n /\ Len(u) = n /\ n = o + (IF q < e THEN 2 * (e - q) - 1 ELSE 0)
        /\ ListOf(t, o, a, q, e) /\ ListOf(u, o, a, q, e)
    BY <1>1, <1>2 DEF ListEnds
  <2>2. \A k \in o + 1..n : k <= o + 2 * (e - q)
    BY <2>1
  <2> QED BY <2>1, <2>2, ListTokens
<1>3. ASSUME QuadEnds(t, o, a, q, e), QuadEnds(u, o, a, q, e)
      PROVE  Len(u) = n /\ \A k \in o + 1..n : t[k] = u[k]
  <2>1. PICK f \in Nat : f = e - 2
    BY <1>3, e - 2 \in Nat DEF QuadEnds
  <2>2. /\ Len(t) = n /\ Len(u) = n /\ n = o + 2 * (f - q) + 1
        /\ ListOf(t, o, a, q, f) /\ ListOf(u, o, a, q, f) /\ t[n] = u[n]
    BY <1>1, <1>3, <2>1 DEF QuadEnds
  <2>3. \A k \in o + 1..n : k = n \/ k <= o + 2 * (f - q)
    BY <2>2
  <2> QED BY <2>2, <2>3, ListTokens
<1>4. Len(u) = n /\ \A k \in o + 1..n : t[k] = u[k]
  BY <1>2, <1>3
<1>5. \A k \in 1..n : t[k] = u[k]
  <2>1. \A k \in 1..n : k \in 1..o \/ k \in o + 1..n
    OBVIOUS
  <2> QED BY <1>4, <2>1
<1> QED BY <1>1, <1>4, <1>5, SeqEqual


\* Every spelling, token by token, is one of EndPoint.
LEMMA SpeltInFull ==
  ASSUME NEW a \in Addresses, NEW t \in Seq(Tokens), NEW p \in Seq(Tokens), NEW q \in 0..Pieces,
         Ends(t, Len(p), a, q, Pieces), \A k \in 1..Len(p) : t[k] = p[k]
  PROVE  \E s \in Written(a, q, Pieces) : t = p \o s
<1>1. PICK n \in Nat, i \in Nat, o \in Nat : n = Pieces /\ i = q /\ o = Len(p)
  <2>1. Pieces \in Nat /\ q \in Nat /\ Len(p) \in Nat
    BY Constants, LenProperties
  <2> QED BY <2>1, Zenon
<1>2. n <= Pieces
  BY <1>1
<1>3. ASSUME NEW s \in Seq(Tokens) PROVE p \o s \in Seq(Tokens) /\ \A k \in 1..o : t[k] = (p \o s)[k]
  <2>1. /\ p \o s \in Seq(Tokens)
        /\ \A k \in 1..Len(p) + Len(s) : (p \o s)[k] = IF k <= Len(p) THEN p[k] ELSE s[k - Len(p)]
    BY ConcatProperties
  <2>2. PICK m \in Nat : m = Len(s)
    BY LenProperties
  <2>3. \A k \in 1..o : k \in 1..o + m /\ k <= o
    OBVIOUS
  <2> QED BY <1>1, <2>1, <2>2, <2>3
<1>4. CASE ListEnds(t, o, a, i, n)
  <2> DEFINE s == Join(a, i, n)
  <2>1. s \in Seq(Tokens) /\ Len(s) = Width(i, n) /\ ListOf(s, 0, a, i, n)
    BY <1>2, JoinList
  <2>2. s \in Written(a, q, Pieces)
    BY <1>1 DEF Written
  <2> HIDE DEF s
  <2>3. ListEnds(s, 0, a, i, n)
    <3>1. Width(i, n) = 0 + (IF i < n THEN 2 * (n - i) - 1 ELSE 0)
      BY DEF Width
    <3> QED BY <2>1, <3>1 DEF ListEnds
  <2>4. ListEnds(p \o s, o, a, i, n)
    BY <1>1, <2>1, <2>3, EndsAfter
  <2>5. p \o s \in Seq(Tokens) /\ \A k \in 1..o : t[k] = (p \o s)[k]
    BY <1>3, <2>1
  <2>6. t = p \o s
    BY <1>4, <2>4, <2>5, SameText, Zenon
  <2> QED BY <2>2, <2>6
<1>5. CASE QuadEnds(t, o, a, i, n)
  <2>1. n - i >= 2 /\ <<a[n - 2], a[n - 1]>> \in Quads
    BY <1>5 DEF QuadEnds
  <2> DEFINE s == QuadTail(a, i, n)
  <2>2. s \in Seq(Tokens) /\ QuadEnds(s, 0, a, i, n)
    BY <1>2, <2>1, QuadTailEnds
  <2>3. s \in Written(a, q, Pieces)
    BY <1>1, <2>1 DEF Written, QuadTail
  <2> HIDE DEF s
  <2>4. QuadEnds(p \o s, o, a, i, n)
    BY <1>1, <2>2, EndsAfter
  <2>5. p \o s \in Seq(Tokens) /\ \A k \in 1..o : t[k] = (p \o s)[k]
    BY <1>3, <2>2
  <2>6. t = p \o s
    BY <1>5, <2>4, <2>5, SameText, Zenon
  <2> QED BY <2>3, <2>6
<1> QED BY <1>1, <1>4, <1>5 DEF Ends

LEMMA SpeltAreSpellings ==
  ASSUME NEW a \in Addresses, NEW t \in Seq(Tokens), Spelt(t, a)
  PROVE  t \in Spellings(a)
<1>1. CASE Ends(t, 0, a, 0, Pieces)
  <2>1. <<>> \in Seq(Tokens) /\ Len(<<>>) = 0 /\ 0 \in 0..Pieces /\ \A k \in 1..Len(<<>>) : t[k] = <<>>[k]
    BY Constants
  <2>2. PICK s \in Written(a, 0, Pieces) : t = <<>> \o s
    BY <1>1, <2>1, SpeltInFull
  <2>3. s \in Seq(Tokens)
    BY <2>1, WrittenEnds
  <2>4. <<>> \o s = s
    BY <2>3, ConcatEmptySeq
  <2> QED BY <2>2, <2>4, SpellingsTwoWays
<1>2. CASE \E h \in Indices, q \in 1..Pieces : SpeltShort(t, a, h, q)
  <2>1. PICK h \in Indices, q \in 1..Pieces : SpeltShort(t, a, h, q)
    BY <1>2
  <2>2. /\ h < q /\ (\A k \in h..q - 1 : a[k] = 0)
        /\ HeadOf(t, a, h) /\ Ends(t, Start(h), a, q, Pieces)
    BY <2>1 DEF SpeltShort
  <2>3. h \in Nat /\ q \in 0..Pieces
    BY Constants DEF Indices
  <2> DEFINE p == HeadText(a, h)
  <2>4. p \in Seq(Tokens) /\ Len(p) = Start(h) /\ HeadOf(p, a, h)
    BY HeadTextIs
  <2> HIDE DEF p
  <2>5. \A k \in 1..Len(p) : t[k] = p[k]
    BY <2>2, <2>3, <2>4, HeadTokens
  <2>6. PICK s \in Written(a, q, Pieces) : t = p \o s
    <3>1. Ends(t, Len(p), a, q, Pieces)
      BY <2>2, <2>4
    <3> QED BY <2>3, <2>4, <2>5, <3>1, SpeltInFull, Zenon
  <2>7. PICK r \in Gaps(a) : r[1] = h /\ r[2] = q
    <3>1. <<h, q>> \in Gaps(a)
      BY <2>2 DEF Gaps
    <3> QED BY <3>1
  <2>8. \E x \in Written(a, r[2], Pieces) : t = HeadText(a, r[1]) \o x
    BY <2>6, <2>7 DEF p
  <2> QED BY <2>8, SpellingsTwoWays
<1> QED BY <1>1, <1>2 DEF Spelt

\* The four invariants together.
LEMMA ParseInvariant == Spec => [](BInv /\ ReadInv /\ MoveInv /\ AcceptInv /\ RejectInv)
<1>1. Init => ReadInv /\ MoveInv /\ AcceptInv /\ RejectInv
  BY DEF Init, ReadInv, MoveInv, AcceptInv, RejectInv
<1>2. BInv /\ ReadInv /\ MoveInv /\ AcceptInv /\ RejectInv /\ [Next]_vars
      => (ReadInv /\ MoveInv /\ AcceptInv /\ RejectInv)'
  BY ReadStep, MoveStep, AcceptStep, RejectStep
<1> QED BY <1>1, <1>2, BoundsInvariant, PTL DEF Spec

\* ParsesExactly.  An accepted text is a way to write the address that comes out, and
\* nothing that is a way to write any address is rejected.
THEOREM ParsesWhatIsWritten == Spec => []ParsesExactly
<1>1. BInv /\ AcceptInv /\ RejectInv => ParsesExactly
  <2> SUFFICES ASSUME BInv, AcceptInv, RejectInv, parts = <<>> PROVE ParsesExactly
    BY DEF ParsesExactly
  <2>1. text \in Seq(Tokens) /\ address \in Addresses
    BY DEF BInv, TypeOK
  <2>2. verdict = "accepted" => text \in Spellings(address)
    BY <2>1, SpeltAreSpellings DEF AcceptInv
  <2>3. ASSUME verdict = "rejected" PROVE text \notin AllSpellings
    <3>1. SUFFICES ASSUME NEW a \in Addresses, text \in Spellings(a) PROVE FALSE
      BY DEF AllSpellings
    <3>2. Spelt(text, a)
      BY <3>1, SpellingsAreSpelt
    <3> QED BY <2>3, <3>2 DEF RejectInv
  <2> QED BY <2>2, <2>3 DEF ParsesExactly
<1> QED BY <1>1, ParseInvariant, PTL


-----------------------------------------------------------------------------
(* What GetAddress writes between its brackets is a spelling, so it is read back; *)
(* and no spelling begins with a bracket.                                   *)

LEMMA Least ==
  ASSUME NEW T \in SUBSET Nat, T # {}
  PROVE  \E x \in T : \A y \in T : x <= y
<1> DEFINE Less == {ss \in Nat \X Nat : ss[1] < ss[2]}
<1>1. IsWellFoundedOn(Less, Nat)
  BY NatLessThanWellFounded DEF OpToRel, Less
<1> HIDE DEF Less
<1>2. PICK x \in T : \A y \in T : ~(<<y, x>> \in Less)
  BY <1>1, WFMin, Zenon
<1>3. ASSUME NEW y \in T PROVE x <= y
  <2>1. <<y, x>> \in Nat \X Nat /\ ~(<<y, x>> \in Less)
    BY <1>2
  <2> QED BY <2>1 DEF Less
<1> QED BY <1>3

\* Of several zero runs one is the first of the longest ones.
LEMMA LongestRun ==
  ASSUME NEW a, ZeroRuns(a) # {}
  PROVE  \E r \in ZeroRuns(a) : IsCompressed(a, r)
<1>1. PICK n \in Nat : n = Pieces
  BY Constants
<1>2. \A r \in ZeroRuns(a) : r[1] \in 0..n - 1 /\ r[2] \in 1..n /\ r[2] - r[1] >= 2
  BY <1>1 DEF ZeroRuns, Indices
<1> DEFINE Lengths == {n - (r[2] - r[1]) : r \in ZeroRuns(a)}
<1>3. PICK l \in Lengths : \A k \in Lengths : l <= k
  <2>1. Lengths \in SUBSET Nat
    BY <1>2
  <2>2. Lengths # {}
    OBVIOUS
  <2> HIDE DEF Lengths
  <2> QED BY <2>1, <2>2, Least
<1>4. PICK m \in Nat : /\ \A r \in ZeroRuns(a) : r[2] - r[1] <= m
                       /\ \E r \in ZeroRuns(a) : r[2] - r[1] = m
  <2>1. PICK r \in ZeroRuns(a) : l = n - (r[2] - r[1])
    OBVIOUS
  <2>2. r[2] - r[1] \in Nat
    BY <1>2
  <2>3. ASSUME NEW s \in ZeroRuns(a) PROVE s[2] - s[1] <= r[2] - r[1]
    <3>1. n - (s[2] - s[1]) \in Lengths
      OBVIOUS
    <3>2. n - (r[2] - r[1]) <= n - (s[2] - s[1])
      BY <1>3, <2>1, <3>1
    <3>3. /\ r[1] \in Int /\ r[2] \in Int /\ s[1] \in Int /\ s[2] \in Int
      BY <1>2
    <3> HIDE DEF Lengths
    <3> QED BY <3>2, <3>3
  <2> QED BY <2>2, <2>3
<1> DEFINE Firsts == {r[1] : r \in {r \in ZeroRuns(a) : r[2] - r[1] = m}}
<1> HIDE DEF Lengths
<1>5. PICK f \in Firsts : \A k \in Firsts : f <= k
  <2>1. Firsts \in SUBSET Nat
    BY <1>2
  <2>2. Firsts # {}
    BY <1>4
  <2> HIDE DEF Firsts
  <2> QED BY <2>1, <2>2, Least
<1>6. PICK r \in ZeroRuns(a) : r[2] - r[1] = m /\ f = r[1]
  OBVIOUS
<1>7. ASSUME NEW s \in ZeroRuns(a)
      PROVE  s[2] - s[1] < r[2] - r[1] \/ (s[2] - s[1] = r[2] - r[1] /\ s[1] >= r[1])
  <2>1. s[2] - s[1] <= m /\ s[1] \in Int /\ s[2] \in Int /\ r[1] \in Int
    BY <1>2, <1>4
  <2>2. CASE s[2] - s[1] = m
    <3>1. s[1] \in Firsts
      BY <2>2
    <3>2. r[1] <= s[1]
      BY <1>5, <1>6, <3>1
    <3> QED BY <1>6, <2>1, <2>2, <3>2
  <2>3. CASE s[2] - s[1] # m
    BY <1>6, <2>1, <2>3
  <2> QED BY <2>2, <2>3
<1> QED BY <1>7 DEF IsCompressed

LEMMA PiecesSpell ==
  ASSUME NEW a \in Addresses
  PROVE  PiecesOf(a) \in Spellings(a)
<1>1. CASE ZeroRuns(a) = {}
  BY <1>1 DEF PiecesOf, Spellings, Written
<1>2. CASE ZeroRuns(a) # {}
  <2> DEFINE r == CHOOSE r \in ZeroRuns(a) : IsCompressed(a, r)
  <2>1. r \in ZeroRuns(a)
    BY <1>2, LongestRun
  <2>2. PiecesOf(a) = HeadText(a, r[1]) \o Join(a, r[2], Pieces)
    BY <1>2 DEF PiecesOf, HeadText
  <2> HIDE DEF r
  <2>3. r \in Gaps(a)
    <3>1. /\ r \in Indices \X (1..Pieces) /\ r[2] - r[1] >= 2
          /\ \A k \in r[1]..r[2] - 1 : a[k] = 0
      BY <2>1 DEF ZeroRuns
    <3>2. r[1] \in Int /\ r[2] \in Int
      BY <3>1, Constants DEF Indices
    <3> QED BY <3>1, <3>2 DEF Gaps
  <2>4. Join(a, r[2], Pieces) \in Written(a, r[2], Pieces)
    BY DEF Written
  <2> QED BY <2>2, <2>3, <2>4, SpellingsTwoWays
<1> QED BY <1>1, <1>2

\* A spelling begins with a piece, a quad or a colon.
LEMMA SpellingsStart ==
  ASSUME NEW a \in Addresses, NEW t \in Seq(Tokens), Spelt(t, a)
  PROVE  t[1] # Junk
<1>1. (\A x : <<x>> # Junk) /\ (\A x \in Quads : x # Junk) /\ Colon # Junk
  <2>1. \A x \in Quads \cup {Colon} : x \in Tokens
    BY DEF Tokens
  <2>2. \A x \in Quads : x # Junk
    BY <2>1, TokenKinds
  <2>3. Colon # Junk
    BY <2>1, TokenKinds
  <2> QED BY <2>2, <2>3, SingleToken
<1>2. ASSUME NEW e \in Nat, e >= 1, ListOf(t, 0, a, 0, e) PROVE t[1] # Junk
  <2>1. 0 \in 0..e - 1
    BY <1>2
  <2>2. t[0 + 2 * (0 - 0) + 1] = <<a[0]>>
    BY <1>2, <2>1 DEF ListOf
  <2>3. 0 + 2 * (0 - 0) + 1 = 1
    OBVIOUS
  <2> QED BY <2>2, <2>3, <1>1
<1>3. Pieces \in Nat /\ Pieces >= 2 /\ Pieces - 2 \in Nat
  BY Constants
<1>4. CASE ListEnds(t, 0, a, 0, Pieces)
  BY <1>2, <1>3, <1>4 DEF ListEnds
<1>5. CASE QuadEnds(t, 0, a, 0, Pieces)
  <2>1. Len(t) = 0 + 2 * (Pieces - 0) - 3 /\ t[Len(t)] \in Quads /\ ListOf(t, 0, a, 0, Pieces - 2)
    BY <1>5 DEF QuadEnds
  <2>2. CASE Pieces = 2
    <3>1. Len(t) = 1
      BY <2>1, <2>2
    <3> QED BY <3>1, <2>1, <1>1
  <2>3. CASE Pieces # 2
    <3>1. Pieces - 2 >= 1
      BY <2>3, <1>3
    <3> QED BY <3>1, <2>1, <1>2, <1>3
  <2> QED BY <2>2, <2>3
<1>6. CASE \E h \in Indices, q \in 1..Pieces : SpeltShort(t, a, h, q)
  <2>1. PICK h \in Indices : HeadOf(t, a, h)
    BY <1>6 DEF SpeltShort
  <2>2. h \in Nat
    BY Constants DEF Indices
  <2>3. CASE h = 0
    <3>1. Start(h) - 1 = 1
      BY <2>3 DEF Start
    <3>2. t[Start(h) - 1] = Colon
      BY <2>1 DEF HeadOf
    <3> QED BY <3>1, <3>2, <1>1
  <2>4. CASE h # 0
    <3>1. 0 \in 0..h - 1
      BY <2>2, <2>4
    <3>2. t[2 * 0 + 1] = <<a[0]>>
      BY <2>1, <3>1 DEF HeadOf
    <3>3. 2 * 0 + 1 = 1
      OBVIOUS
    <3> QED BY <3>2, <3>3, <1>1
  <2> QED BY <2>3, <2>4
<1> QED BY <1>4, <1>5, <1>6 DEF Spelt, Ends

\* A text between two tokens.
LEMMA BetweenTokens ==
  ASSUME NEW b \in Tokens, NEW s \in Seq(Tokens)
  PROVE  LET t == <<b>> \o s \o <<b>>
         IN t[1] = b /\ SubSeq(t, 2, Len(t) - 1) = s
<1>1. PICK p : p = <<b>>
  OBVIOUS
<1>2. p \in Seq(Tokens) /\ Len(p) = 1 /\ p[1] = b
  BY <1>1
<1>3. PICK n \in Nat : n = Len(s)
  BY LenProperties
<1>4. PICK u : u = p \o s
  OBVIOUS
<1>5. /\ u \in Seq(Tokens) /\ Len(u) = 1 + n
      /\ \A i \in 1..1 + n : u[i] = IF i <= 1 THEN p[i] ELSE s[i - 1]
  <2>1. /\ p \o s \in Seq(Tokens) /\ Len(p \o s) = Len(p) + Len(s)
        /\ \A i \in 1..Len(p) + Len(s) :
             (p \o s)[i] = IF i <= Len(p) THEN p[i] ELSE s[i - Len(p)]
    BY <1>2, ConcatProperties
  <2> QED BY <2>1, <1>2, <1>3, <1>4
<1>6. PICK t : t = u \o p
  OBVIOUS
<1>7. /\ t \in Seq(Tokens) /\ Len(t) = 1 + n + 1
      /\ \A i \in 1..1 + n + 1 : t[i] = IF i <= 1 + n THEN u[i] ELSE p[i - (1 + n)]
  <2>1. /\ u \o p \in Seq(Tokens) /\ Len(u \o p) = Len(u) + Len(p)
        /\ \A i \in 1..Len(u) + Len(p) :
             (u \o p)[i] = IF i <= Len(u) THEN u[i] ELSE p[i - Len(u)]
    BY <1>2, <1>5, ConcatProperties
  <2> QED BY <2>1, <1>2, <1>5, <1>6
<1>8. t[1] = b
  <2>1. 1 \in 1..1 + n + 1 /\ 1 \in 1..1 + n /\ 1 <= 1 + n
    OBVIOUS
  <2>2. t[1] = u[1] /\ u[1] = p[1]
    BY <2>1, <1>5, <1>7
  <2> QED BY <2>2, <1>2
<1>9. \A i \in 1..n : t[i + 1] = s[i]
  <2> SUFFICES ASSUME NEW i \in 1..n PROVE t[i + 1] = s[i]
    OBVIOUS
  <2>1. /\ i + 1 \in 1..1 + n + 1 /\ i + 1 \in 1..1 + n
        /\ i + 1 <= 1 + n /\ ~(i + 1 <= 1) /\ i + 1 - 1 = i
    OBVIOUS
  <2>2. t[i + 1] = u[i + 1]
    BY <2>1, <1>7
  <2>3. u[i + 1] = s[i + 1 - 1]
    BY <2>1, <1>5
  <2> QED BY <2>1, <2>2, <2>3
<1>10. PICK v : v = SubSeq(t, 2, n + 1)
  OBVIOUS
<1>11. v \in Seq(Tokens) /\ Len(v) = n /\ \A i \in 1..n : v[i] = t[i + 1]
  BY <1>7, <1>10
<1>12. v = s
  <2>1. \A i \in 1..n : v[i] = s[i]
    BY <1>9, <1>11
  <2> QED BY <2>1, <1>3, <1>11, SeqEqual
<1>13. Len(t) - 1 = n + 1
  BY <1>7
<1>14. t = <<b>> \o s \o <<b>>
  BY <1>1, <1>4, <1>6
<1> QED BY <1>8, <1>10, <1>12, <1>13, <1>14

\* ReadsBackInside.  No text GetAddress writes is accepted; what it writes between the
\* brackets is, and what has been parsed at the end is the address.
THEOREM WhatIsInsideIsReadBack == Spec => []ReadsBackInside
<1>1. BInv /\ AcceptInv /\ RejectInv => ReadsBackInside
  <2> SUFFICES ASSUME BInv, AcceptInv, RejectInv, parts = <<>>, NEW a \in Addresses
               PROVE  /\ text = GetAddress(a) => verdict \notin {"accepted", "set"}
                      /\ text = SubSeq(GetAddress(a), 2, Len(GetAddress(a)) - 1) =>
                           verdict # "rejected" /\ (verdict \in {"accepted", "set"} => address = a)
    BY DEF ReadsBackInside
  <2>1. text \in Seq(Tokens) /\ Len(text) \in Nat /\ address \in Addresses
    BY LenProperties DEF BInv, TypeOK
  <2>2. PiecesOf(a) \in Spellings(a)
    BY PiecesSpell
  <2>3. PiecesOf(a) \in Seq(Tokens) /\ Spelt(PiecesOf(a), a)
    BY <2>2, SpellingsAreSpelt
  <2>4. /\ GetAddress(a)[1] = Junk
        /\ SubSeq(GetAddress(a), 2, Len(GetAddress(a)) - 1) = PiecesOf(a)
    <3>1. Junk \in Tokens
      BY DEF Tokens
    <3> QED BY <2>3, <3>1, BetweenTokens DEF GetAddress, Bracket
  <2>5. ASSUME text = GetAddress(a), verdict \in {"accepted", "set"} PROVE FALSE
    <3>1. Spelt(text, address)
      BY <2>5 DEF AcceptInv
    <3>2. text[1] = Junk
      BY <2>4, <2>5
    <3> QED BY <2>1, <3>1, <3>2, SpellingsStart
  <2>6. ASSUME text = PiecesOf(a) PROVE verdict # "rejected"
    BY <2>3, <2>6 DEF RejectInv
  <2>7. ASSUME text = PiecesOf(a), verdict \in {"accepted", "set"} PROVE address = a
    <3>1. Spelt(text, a) /\ Spelt(text, address)
      BY <2>3, <2>7 DEF AcceptInv
    <3> QED BY <2>1, <3>1, OneSpelling
  <2> QED BY <2>4, <2>5, <2>6, <2>7
<1> QED BY <1>1, ParseInvariant, PTL
=============================================================================
