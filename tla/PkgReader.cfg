CONSTANTS
  Capacity = 7
  PkgLen = 3
  ReadLen = 4
  MaxBytes = 25
SPECIFICATION Spec
INVARIANTS
  TypeOK
  ReadFits
  Window
PROPERTY
  StreamSpec
