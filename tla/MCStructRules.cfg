SPECIFICATION Spec
CONSTANTS
  Units <- MCUnits
  Needed <- NeededBy
  FunctionUses <- UsesIn
  RuleReports <- ReportsOf
INVARIANTS
  EveryValueHasOneOwner
  VerdictIgnoresOrder
  FieldsAreDestroyedTogether
\* The functions return.
CHECK_DEADLOCK FALSE
