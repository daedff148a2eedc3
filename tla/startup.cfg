SPECIFICATION MainSpec
CONSTANTS
  Arguments <- MCArguments
  Lines <- MCLines
  NumberOf <- MCNumberOf
  HomePath <- MCHomePath
  Environments <- MCEnvironments
  KMaxPasses = 100
  Gfx1201 = {1, 2}
  MaxArguments = 3
  MaxLines = 1
INVARIANTS OptionsAsGiven EngineServesOptions
