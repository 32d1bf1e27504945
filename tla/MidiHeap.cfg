SPECIFICATION FairSpec
CONSTANTS
  Message <- MCMessage
  Blank <- MCBlank
  mSize = 5
  FreshTop = {0}
INVARIANTS TypeOK HeapOrder NoLostWakeup WokenFindsItsCondition IInv
PROPERTIES ImplementsMidiQueue InsertReturns
