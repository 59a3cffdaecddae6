SPECIFICATION Spec
CONSTANTS
  Function = {"f", "g", "caller"}
  Variable = {"p", "q"}
  Caller = "caller"
  Spelling = {"typedef", "struct"}
  Fields <- MCFields
  Units <- MCUnits
INVARIANTS
  QuietCodeKeepsItsTags
  CodeThatAgreesIsQuiet
CHECK_DEADLOCK FALSE
