SPECIFICATION ValidateSpec
CONSTANTS
  Names = {"name", "NAME", "top"}
  Lower <- MCLower
  Values = {"short", "long"}
  Length <- MCLength
  Patterns = {"any", "letters", "broken"}
  Broken = {"broken"}
  Matches <- MCMatches
  MaxLengths = {0, 1}
  OptionLists <- MCOptionLists
  MaxRules = 2
  MaxProperties = 2
INVARIANTS FlagsAreWhatIsBroken ThrowsOnOptionalOptions
CHECK_DEADLOCK FALSE
