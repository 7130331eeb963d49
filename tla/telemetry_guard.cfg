SPECIFICATION Spec
CONSTANT MaxSetups = 3
INVARIANTS
  TypeOK
  NothingOrphaned
