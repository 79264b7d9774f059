SPECIFICATION MaskingSpec
CONSTANTS
  Pieces <- MCPieces
  MaxPieces = 5
INVARIANTS
  SameMask
  FullShowsLess
