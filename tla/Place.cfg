SPECIFICATION Spec
CONSTANTS
  NoTask = NoTask
  NTask = 4
  NProc = 3
  Affs = {{1}, {1, 2}, {2, 3}, {1, 2, 3}}
INVARIANTS
  GreedyExact
  NoNeedlessMigration
PROPERTIES
  ImplementsContract
