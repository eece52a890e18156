SPECIFICATION Spec
CONSTANTS
  ByteBits = 8
  StackBits = 64
  DoublingLimit = 1048576
  UintBytes = 4
  Letters = 9
  FrequencyTable <- MCFrequencies
  Fields <- MiniFields
  Sources = {}
  PadTo = {}
  MaxWrites = 1
INVARIANTS
  ReadsWhatWasWritten
CHECK_DEADLOCK FALSE
