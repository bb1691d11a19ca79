SPECIFICATION FairSpec
CONSTANTS
  Letters = {"a", "b"}
  MaxLength = 5
INVARIANTS TypeOK SafeWithoutPlus PrefixAgrees PlainFilterExact HashFilterCorrect NoMissedMatch
PROPERTIES Returns
CHECK_DEADLOCK FALSE
