CONSTANT MaxRecordings = 3
SPECIFICATION Spec
INVARIANTS
  TypeOK
  NothingIsLeftOn
PROPERTIES
  OnlyFinishedIsHandedOver
