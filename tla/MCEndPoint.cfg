CONSTANTS
  Pieces <- MCPieces
  Groups <- MCGroups
  Quads <- MCQuads
  Base = 4
  Numbers <- MCNumbers
  Texts <- MCTexts
  None = None
SPECIFICATION Spec
INVARIANTS InBounds ParsesExactly Ipv4Exact ReadsBackInside
CHECK_DEADLOCK FALSE
