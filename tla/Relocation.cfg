SPECIFICATION Spec
CONSTANTS
  stock = stock
  plain = plain
  odd = odd
  own = own
  Missing = Missing
  Refused = Refused
  Texts = {stock, plain, odd, own}
  Files <- MCFiles
  Order <- MCOrder
  Transform <- MCTransform
INVARIANTS OldOrNew RefusedKitIsUntouched SuccessMeansRelocated RepeatIsAccepted
