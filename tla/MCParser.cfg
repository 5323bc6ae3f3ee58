\* Every keymap file of MCSource, parsed to the end.
CONSTANTS
  KeyRollOver = 2
  Base = Base
  Fn = Fn
  LayerIds <- MCLayerIds
  KeyNames <- MCKeyNames
  LayerOf <- MCLayerOf
  TypedText <- MCTypedText
  MaxNumber = 500
  Source <- MCSource
  Letters <- MCLetters
  HexLetters <- MCHexLetters
  Lower <- MCLower
  ValueOf <- MCValueOf
SPECIFICATION Spec
INVARIANTS TypeOK TokensCoverTheText TokensSayTheText LineNumbersRight
         LayerSaysTheText RowsInOrder AcceptsKeymaps HaltsForAReason
