CONSTANTS
  a = a
  b = b
  c = c
  v1 = v1
  v2 = v2
  None = None
  Threads <- MCThreads
  Values = {v1, v2}
  Size = 2
  MaxTokens = 2
  Calls <- MCAllCalls
SPECIFICATION Spec
PROPERTIES
  ImplementsBoundedDeque
