SPECIFICATION Spec
CONSTANTS
  Profiles = {"security", "declarative", "browser", "full"}
  MaxTrouble = 2
INVARIANTS
  HonestServerNotBlamed
  DefectsAreFound
  AccusedIsGuilty
CHECK_DEADLOCK FALSE
