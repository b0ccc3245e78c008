SPECIFICATION Spec
CONSTANTS
  Sizes = {1, 4}
  MaxBytes = 9
  CallSize = 1
  MaxMessages = 6
  MaxCalls = 2
  NoCall = NoCall
INVARIANT EveryCallAnswered
