SPECIFICATION Spec
CONSTANTS
  EmptySelectors = {{}, {"ServerVisible"}, {"CommentVisible", "GroupName", "Presence"}, {"RoleResult", "GroupCreate", "IdentityToken"}, {"ServerVisible", "DMVisible"}, {"ServerVisible", "PostContent"}}
  Worlds = {"honest", "late", "optimistic", "pretending", "strict", "leftover"}
  Pretences = {{}, {"DMSend"}, {"RoleSave"}}
  Troubles = {"close", "driver", "agent"}
INVARIANTS
  HonestPageNotBlamed
  PassedWasDone
  LeftOpenIsReported
PROPERTIES
  Terminates
CHECK_DEADLOCK FALSE
