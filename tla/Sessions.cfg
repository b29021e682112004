SPECIFICATION Spec
CONSTANTS
  ProfileFlags = {"core", "reliability", "security", "load", "forums", "declarative", "transport", "efficiency", "browser", "full"}
  Policies = {"same", "keep", "rotate"}
  MaxFailures = 2
INVARIANTS
  SessionsMatchIdentities
  NothingRefused
  ScenariosLeaveSessionsOpen
CHECK_DEADLOCK FALSE
