CONSTANTS
  Parts = {"tokenizer", "sampler", "stream"}
  WordLetters = {39, 115, 32, 10, 49, 33}
  MaxText = 4
  Letters = {97, 98, 100, 101, 108, 109, 114, 115, 116, 118, 233}
  Numbers = {49}
  Spaces = {10, 32}
  Texts <- MCTexts
  Tables <- MCTables
  Bos <- a
  Eos <- b
  Tokens <- MCTokens
  Limit = 4
  Logits = 4
  Levels = {0, 1, 2, 3}
  PlusInf = PlusInf
  MinusInf = MinusInf
  PlusNaN = PlusNaN
  MinusNaN = MinusNaN
  Exps <- MCExps
  Bits = 4
  One = 32
  TopKs = {0, 3}
  TopPs = {0, 24, 32}
  MaxBytes = 8
SPECIFICATION TextSpec
INVARIANTS NothingLost SpecialsAreWhole FallbackWithoutSoftmax DrawnIsInNucleus DrawnByShare ScreenIsDecode NoCharacterWaits
PROPERTIES WordsFollowPattern MergesFollowRounds EncodeReturns
CHECK_DEADLOCK FALSE
