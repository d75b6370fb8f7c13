SPECIFICATION Spec
CONSTANTS
  Transactions = {t1, t2, t3, t4}
  Dates = {1, 2, 3}
  PageSize = 2
  DefaultLimit = 2
  MaxLimit = 3
  Half = 8
  Parameters <- SomeParameters
SYMMETRY Same
INVARIANTS
  TypeOK
  NoneMissed
PROPERTIES
  PageIsExact
