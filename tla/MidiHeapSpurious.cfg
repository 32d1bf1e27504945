SPECIFICATION SpuriousSpec
CONSTANTS
  Message <- MCMessage
  Blank <- MCBlank
  mSize = 5
  FreshTop = {0}
INVARIANT WokenFindsItsCondition
