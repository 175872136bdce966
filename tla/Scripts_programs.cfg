CONSTANTS
  Variables <- MCVariables
  Globals <- MCGlobals
  Worlds <- MCWorlds
  Programs <- MCPrograms
  MaxLevel = 6
SPECIFICATION Spec
CHECK_DEADLOCK FALSE
INVARIANTS ResultCorrect ContextRestored DependenciesCover JoinsBalanced
