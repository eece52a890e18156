SPECIFICATION Spec
CONSTANTS
  ByteBits = 4
  StackBits = 8
  DoublingLimit = 16
  UintBytes = 2
  Letters = 5
  FrequencyTable <- MCFrequencies
  Fields <- MCFields
  Sources <- MCSources
  PadTo = {5}
  MaxWrites = 3
INVARIANTS
  TypeOK
  ReadsWhatWasWritten
  PositionsAgree
  TailIsZero
CHECK_DEADLOCK FALSE
