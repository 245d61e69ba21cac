\* Every event type and order type, nine statements, two broken fields.
CONSTANTS
  Statements <- MCStatements
  MaxBroken = 2
SPECIFICATION Spec
INVARIANTS
  TypeOK
  TypeIsUnique
  BooksMoney
  InvestedIsCost
  MissingNeverAborts
  NothingInvented
CHECK_DEADLOCK FALSE
