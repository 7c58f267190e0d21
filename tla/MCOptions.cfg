SPECIFICATION OptionsSpec
CONSTANTS
  IntMax = 1000
  MaxArgs = 4
  MaxRows = 2
  MaxPools = 2
  Themes <- MCThemes
INVARIANTS
  EachFlagWins
  CredentialsAreUsedOrNoted
