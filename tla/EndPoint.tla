------------------------------- MODULE EndPoint -------------------------------
(***************************************************************************)
(* EndPoint::SetAddress: the text is tried as an IPv4 address and, if it is*)
(* none, parsed as an IPv6 address, piece by piece.                        *)
(*                                                                         *)
(* A text is a sequence of tokens, and a token the sequence of the pieces  *)
(* it stands for: one for a group of hexadecimal digits, two for a dotted  *)
(* quad of decimal numbers, none for a colon.  The 8 pieces of an IPv6     *)
(* address and the base 256 of an IPv4 address are parameters.             *)
(***************************************************************************)
EXTENDS Integers, Sequences

CONSTANTS Pieces,  \* of an IPv6 address, address.max_size() in the code
          Groups,  \* the values of pieces in use
          Quads,   \* dotted quads, as pairs of pieces
          Base,    \* of an IPv4 address
          Numbers, \* the numbers in texts with dots only
          Texts,   \* the other texts
          None     \* 0xFFFFFFFF as the value of compress

Colon == <<>>
Group == {<<g>> : g \in Groups}
Junk  == <<0, 0, 0>>  \* anything that belongs to no address

ASSUME EndPointAssumption ==
  /\ Pieces \in Nat /\ Pieces >= 2 /\ Base \in Nat /\ Base >= 2
  /\ 0 \in Groups /\ Groups \subseteq Nat /\ Numbers \subseteq Nat
  /\ Quads \subseteq Groups \X Groups
  /\ Texts \subseteq Seq(Group \cup Quads \cup {Colon, Junk})
  /\ \A t \in Texts : \E i \in DOMAIN t : t[i] = Colon
  /\ None \notin Nat

VARIABLES
  text,     \* the argument, <<>> if it is an IPv4 address
  parts,    \* its numbers in that case
  rest,     \* what is left of it, from start to end in the code
  address,  \* the pieces parsed so far
  current,  \* the index of the next one
  compress, \* the index after the compressed zeros
  swaps,    \* pieces still to be moved to the end
  verdict,  \* "start", "parsing", "swapping", then "accepted" or "rejected"
  storage   \* what the EndPoint holds, an IPv4 address as a single number

vars == <<text, parts, rest, address, current, compress, swaps, verdict, storage>>

Indices == 0..Pieces - 1
Zeros   == [i \in Indices |-> 0]
Addresses == [Indices -> Groups]

-----------------------------------------------------------------------------
(* IPv4.  The numbers have been read as decimal, octal or hexadecimal.  (A  *)
(* name with an underscore is a faulty variant of the definition after it.) *)

\* The powers of Base in use.
Power == <<Base, Base * Base, Base * Base * Base, Base * Base * Base * Base>>

\* A bound on the last number that is one too large.
Overflows_ByOne(p) == p[Len(p)] > Power[5 - Len(p)]

\* The last number fills all the places the other ones leave.
Overflows(p) == p[Len(p)] >= Power[5 - Len(p)]

TooBig(p) == {i \in DOMAIN p : p[i] > Base - 1}

\* ParseIpv4, which throws for numbers that do not fit.
Ipv4Fits(p) ==
  /\ \A i, j \in TooBig(p) : i = j
  /\ TooBig(p) # {} => p[Len(p)] > Base - 1
  /\ ~Overflows(p)

\* The place value of the i-th of these numbers.
Weighed(p, i) ==
  IF i > Len(p) THEN 0
  ELSE IF i = Len(p) THEN p[i] ELSE p[i] * Power[4 - i]

Ipv4Value(p) == Weighed(p, 1) + Weighed(p, 2) + Weighed(p, 3) + Weighed(p, 4)

-----------------------------------------------------------------------------
(* GetAddress.                                                              *)

\* The pieces a[i], ..., a[j - 1] separated by colons.
Join(a, i, j) ==
  [k \in 1..IF j > i THEN 2 * (j - i) - 1 ELSE 0 |->
     IF k % 2 = 0 THEN Colon ELSE <<a[i + (k - 1) \div 2]>>]

\* The runs of at least two zero pieces, as pairs of first and last index + 1.
ZeroRuns(a) == {r \in Indices \X (1..Pieces) :
                  /\ r[2] - r[1] >= 2
                  /\ \A k \in r[1]..r[2] - 1 : a[k] = 0}

\* The longest, and of several the first.
IsCompressed(a, r) ==
  /\ r \in ZeroRuns(a)
  /\ \A s \in ZeroRuns(a) : \/ s[2] - s[1] < r[2] - r[1]
                            \/ s[2] - s[1] = r[2] - r[1] /\ s[1] >= r[1]

\* The loop of EndPoint::GetAddress over the pieces of an IPv6 address.
PiecesOf(a) ==
  IF ZeroRuns(a) = {} THEN Join(a, 0, Pieces)
  ELSE LET r == CHOOSE r \in ZeroRuns(a) : IsCompressed(a, r)
       IN Join(a, 0, r[1]) \o <<Colon, Colon>> \o Join(a, r[2], Pieces)

\* The '[' and the ']' it puts around them.  The parser knows neither.
Bracket == Junk

\* EndPoint::GetAddress of an IPv6 address.
GetAddress(a) == <<Bracket>> \o PiecesOf(a) \o <<Bracket>>

-----------------------------------------------------------------------------
(* ParseIpv6.                                                               *)

Ipv4Texts == UNION {[1..n -> Numbers] : n \in 1..4}

Init ==
  /\ \/ text \in Texts /\ parts = <<>>
     \/ text = <<>> /\ parts \in Ipv4Texts
  /\ rest = text /\ address = Zeros /\ current = 0 /\ compress = None
  /\ swaps = 0 /\ verdict = "start"
  /\ storage = <<0>>

\* ParseIpv4 and SetAddressIpv4.
SetIpv4 ==
  /\ verdict = "start" /\ parts # <<>>
  /\ IF Ipv4Fits(parts)
     THEN verdict' = "set" /\ storage' = <<Ipv4Value(parts)>>
     ELSE verdict' = "rejected" /\ UNCHANGED storage
  /\ UNCHANGED <<text, parts, rest, address, current, compress, swaps>>

Reject ==
  /\ verdict' = "rejected"
  /\ UNCHANGED <<text, parts, rest, address, current, compress, swaps, storage>>

Begin ==
  /\ verdict = "start" /\ parts = <<>>
  /\ IF rest = <<>> \/ rest[1] # Colon
     THEN verdict' = "parsing" /\ UNCHANGED <<text, parts, rest, address, current, compress, swaps, storage>>
     ELSE IF Len(rest) >= 2 /\ rest[2] = Colon
     THEN /\ rest' = Tail(Tail(rest))
          /\ current' = 1 /\ compress' = 1 /\ verdict' = "parsing"
          /\ UNCHANGED <<text, parts, address, swaps, storage>>
     ELSE Reject

Parsing == verdict = "parsing" /\ rest # <<>>

TooMany == Parsing /\ current >= Pieces /\ Reject

\* The two colons of "fe80::1" without the check for an earlier "::".
Compress_Again ==
  /\ Parsing /\ current < Pieces /\ rest[1] = Colon
  /\ rest' = Tail(rest)
  /\ address' = [address EXCEPT ![current] = 0]
  /\ current' = current + 1 /\ compress' = current + 1
  /\ UNCHANGED <<text, parts, swaps, verdict, storage>>

\* The second colon of "fe80::1".
Compress ==
  /\ Parsing /\ current < Pieces /\ rest[1] = Colon
  /\ IF compress # None THEN Reject
     ELSE /\ rest' = Tail(rest)
          /\ address' = [address EXCEPT ![current] = 0]
          /\ current' = current + 1 /\ compress' = current + 1
          /\ UNCHANGED <<text, parts, swaps, verdict, storage>>

\* A piece and the colon after it, which must not be the last of the text.
Piece ==
  /\ Parsing /\ current < Pieces /\ rest[1] \in Group
  /\ IF Len(rest) = 1 \/ (Len(rest) > 2 /\ rest[2] = Colon)
     THEN /\ rest' = IF Len(rest) = 1 THEN <<>> ELSE Tail(Tail(rest))
          /\ address' = [address EXCEPT ![current] = rest[1][1]]
          /\ current' = current + 1
          /\ UNCHANGED <<text, parts, compress, swaps, verdict, storage>>
     ELSE Reject

\* An embedded IPv4 address that does not ask for room for two pieces.
Dotted_OnePiece ==
  /\ Parsing /\ current < Pieces /\ rest[1] \in Quads
  /\ IF Len(rest) = 1
     THEN /\ rest' = <<>>
          /\ address' = [address EXCEPT ![current] = rest[1][1], ![current + 1] = rest[1][2]]
          /\ current' = current + 2
          /\ UNCHANGED <<text, parts, compress, swaps, verdict, storage>>
     ELSE Reject

\* An embedded IPv4 address: two pieces, at the end of the text.
Dotted ==
  /\ Parsing /\ current < Pieces /\ rest[1] \in Quads
  /\ IF current <= Pieces - 2 /\ Len(rest) = 1
     THEN /\ rest' = <<>>
          /\ address' = [address EXCEPT ![current] = rest[1][1], ![current + 1] = rest[1][2]]
          /\ current' = current + 2
          /\ UNCHANGED <<text, parts, compress, swaps, verdict, storage>>
     ELSE Reject

Strange == Parsing /\ current < Pieces /\ rest[1] = Junk /\ Reject

\* The end of the text: the pieces after the compressed zeros have to be moved to
\* the end of the address, and without such there must be all of them.
EndOfText ==
  /\ verdict = "parsing" /\ rest = <<>>
  /\ IF compress # None
     THEN /\ swaps' = current - compress /\ current' = Pieces - 1
          /\ verdict' = "swapping"
          /\ UNCHANGED <<text, parts, rest, address, compress, storage>>
     ELSE IF current = Pieces
     THEN verdict' = "accepted" /\ UNCHANGED <<text, parts, rest, address, current, compress, swaps, storage>>
     ELSE Reject

\* A swap loop that moves the pieces in the wrong order.
Swap_FromTheFront ==
  /\ verdict = "swapping" /\ current # 0 /\ swaps > 0
  /\ address' = [address EXCEPT ![current] = address[compress],
                                ![compress] = address[current]]
  /\ current' = current - 1 /\ swaps' = swaps - 1
  /\ UNCHANGED <<text, parts, rest, compress, verdict, storage>>

Swap ==
  /\ verdict = "swapping" /\ current # 0 /\ swaps > 0
  /\ address' = [address EXCEPT ![current] = address[compress + swaps - 1],
                                ![compress + swaps - 1] = address[current]]
  /\ current' = current - 1 /\ swaps' = swaps - 1
  /\ UNCHANGED <<text, parts, rest, compress, verdict, storage>>

EndSwaps ==
  /\ verdict = "swapping" /\ (current = 0 \/ swaps = 0)
  /\ verdict' = "accepted"
  /\ UNCHANGED <<text, parts, rest, address, current, compress, swaps, storage>>

\* SetAddressIpv6 fills a sockaddr_in6 of its own and leaves Storage alone.
SetIpv6 ==
  /\ verdict = "accepted"
  /\ verdict' = "set"
  /\ UNCHANGED <<text, parts, rest, address, current, compress, swaps, storage>>

Next ==
  \/ SetIpv4 \/ Begin \/ TooMany \/ Compress \/ Piece \/ Dotted \/ Strange
  \/ EndOfText \/ Swap \/ EndSwaps \/ SetIpv6

Spec == Init /\ [][Next]_vars
-----------------------------------------------------------------------------
TypeOK ==
  /\ text \in Texts \cup {<<>>} /\ parts \in Ipv4Texts \cup {<<>>}
  /\ address \in Addresses
  /\ compress \in Nat \cup {None} /\ swaps \in Nat
  /\ verdict \in {"start", "parsing", "swapping", "accepted", "rejected", "set"}
  /\ storage \in [{1} -> Nat] \cup Addresses

\* No piece is written or read outside the address: not by an embedded IPv4
\* address at its end, and not when pieces are moved, whose number and places are
\* differences of unsigned values.
InBounds ==
  /\ current \in 0..Pieces
  /\ compress # None /\ verdict = "parsing" => compress <= current
  /\ swaps > 0 => current \in Indices /\ compress + swaps - 1 \in Indices

\* The ways to write an address: in full, or with a run of zero pieces left out;
\* and either way the last two pieces may be written as a dotted quad.
Written(a, i, j) ==
  {Join(a, i, j)} \cup
  IF j = Pieces /\ j - i >= 2 /\ <<a[j - 2], a[j - 1]>> \in Quads
  THEN {Join(a, i, j - 2) \o (IF j - i > 2 THEN <<Colon>> ELSE <<>>) \o <<<<a[j - 2], a[j - 1]>>>>}
  ELSE {}

Spellings(a) ==
  Written(a, 0, Pieces) \cup
  UNION {{Join(a, 0, r[1]) \o <<Colon, Colon>> \o tail : tail \in Written(a, r[2], Pieces)} :
           r \in {r \in Indices \X (1..Pieces) :
                    r[1] < r[2] /\ \A k \in r[1]..r[2] - 1 : a[k] = 0}}

AllSpellings == UNION {Spellings(a) : a \in Addresses}

\* What is accepted as an IPv6 address is a way to write the address that comes
\* out, and nothing that is one is rejected.
ParsesExactly ==
  parts = <<>> =>
    /\ verdict = "accepted" => text \in Spellings(address)
    /\ verdict = "rejected" => text \notin AllSpellings

\* An IPv4 text is accepted if it can be read as a value below Base^4: the last
\* number holds the places after those of the other ones.
Ipv4Exact ==
  parts # <<>> =>
    LET n == Len(parts)
        Reading(v) == /\ v % Power[5 - n] = parts[n]
                      /\ \A i \in 1..n - 1 : (v \div Power[4 - i]) % Base = parts[i]
    IN /\ verdict = "set" => storage[1] < Power[4] /\ Reading(storage[1])
       /\ verdict = "rejected" => ~\E v \in 0..Power[4] - 1 : Reading(v)

\* SetAddress refuses every text that GetAddress writes of an IPv6 address, for the
\* brackets; what stands between them it reads back as the same address, whichever
\* run of zero pieces GetAddress left out.
ReadsBackInside ==
  parts = <<>> =>
    \A a \in Addresses :
      /\ text = GetAddress(a) => verdict \notin {"accepted", "set"}
      /\ text = SubSeq(GetAddress(a), 2, Len(GetAddress(a)) - 1) =>
           verdict # "rejected" /\ (verdict \in {"accepted", "set"} => address = a)
=============================================================================
