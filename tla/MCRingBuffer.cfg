CONSTANTS
  Items = {a, b, c}
  RingCapacity = 4
  Undefined = Undefined
SPECIFICATION RingSpec
INVARIANT QueriesAgree
PROPERTY ImplementsEvictingQueue
