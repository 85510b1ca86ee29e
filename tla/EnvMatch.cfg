SPECIFICATION EnvSpec
CONSTANTS
  VarNames <- OneLetterNames
  VarValues = {1}
  NoValue = 0
  MaxVars = 1
INVARIANT FoundByName
