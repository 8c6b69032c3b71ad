------------------------------ MODULE MCEndPoint ------------------------------
EXTENDS EndPoint, TLC

MCPieces == 4
MCGroups == {0, 1}
MCQuads == {<<0, 1>>}
MCNumbers == {0, 1, 3, 4, 15, 16, 63, 64, 255, 256}

\* Every sequence of tokens with a colon, up to the length of an address in full,
\* addresses with a piece too many or in brackets, and a text that is no address.
MCTexts ==
  {<<<<1>>, Colon, Junk>>} \cup
  {GetAddress(a) : a \in Addresses} \cup
  {Join(a, 0, MCPieces) \o <<Colon, <<1>>>> : a \in Addresses} \cup
  {t \in UNION {[1..n -> Group \cup MCQuads \cup {Colon}] : n \in 1..2 * MCPieces - 1} :
     \E i \in DOMAIN t : t[i] = Colon}
=============================================================================
