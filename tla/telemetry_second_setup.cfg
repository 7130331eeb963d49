SPECIFICATION Spec
CONSTANT MaxSetups = 2
INVARIANT SetupRevives
