SPECIFICATION FairSpec
CONSTANTS
  w1 = w1
  w2 = w2
  r1 = r1
  Writes <- MCWrites
  Remote <- MCRemote
  DocOf <- MCDocOf
  SchemaOf <- MCSchemaOf
  MaxFailures = 1
  MaxRestarts = 1
  MaxListens = 1
PROPERTIES WritesReturn UpdatesAreHeard BlocksAreIndexed ImplementsAtomicStore
CHECK_DEADLOCK FALSE
