-------------------------- MODULE ScenarioScripts --------------------------
(***************************************************************************)
(* The scenarios that try out memberships, roles, permissions, posts,      *)
(* notifications, manifests, batches and sync as scripts: the calls each   *)
(* makes, in order, with the outcome it expects.                           *)
(* Servers and groups are both "spaces", each with at most one post, and   *)
(* of their metadata only the join policy counts.  Marking notifications   *)
(* read includes the listing before it, and the batch that works stands    *)
(* for the group it makes.  "any" stands where a call has no choice.       *)
(***************************************************************************)
EXTENDS Sequences, Naturals

Call(who, op, space, to, is, expect) ==
  [who |-> who, op |-> op, space |-> space, to |-> to, is |-> is, expect |-> expect]

(* What succeeds; what is refused; and what is refused, or else counts as  *)
(* an access control violation (deny and expectDenied).  "scoped" is a     *)
(* batch that must be answered, with a refusal inside; "isolated" one that *)
(* may fail as a whole.                                                    *)
Do(who, op, space, to, is) == Call(who, op, space, to, is, "success")
Refused(who, op, space, to, is) == Call(who, op, space, to, is, "refusal")
Denied(who, op, space, to, is) == Call(who, op, space, to, is, "denial")
Create(who, space, policy) == << Do(who, "create", space, who, policy) >>

groupMembership ==
  Create("a", "membershipGate", "invite-only") \o <<
    Do("a", "invite", "membershipGate", "b", "any"), Do("a", "invite", "membershipGate", "c", "any"),
    Do("b", "accept", "membershipGate", "b", "any"), Do("c", "accept", "membershipGate", "c", "any"),
    Do("a", "send", "membershipGate", "a", "any"), Do("b", "send", "membershipGate", "b", "any"),
    Do("c", "send", "membershipGate", "c", "any"), Do("b", "read", "membershipGate", "b", "three"),
    Do("c", "leave", "membershipGate", "c", "any"), Denied("c", "send", "membershipGate", "c", "any"),
    Denied("c", "read", "membershipGate", "c", "history") >>

(* An outsider's access is an error here, but not counted as a violation;  *)
(* only taking over an identity is.                                        *)
unauthorized ==
  << Denied("nobody", "impersonate", "anywhere", "a", "any") >>
  \o Create("a", "aclGate", "invite-only") \o <<
    Do("a", "invite", "aclGate", "b", "any"), Do("b", "accept", "aclGate", "b", "any"),
    Refused("c", "read", "aclGate", "c", "history"), Refused("c", "send", "aclGate", "c", "any"),
    Do("a", "dm", "aclGate", "b", "any"), Refused("c", "dmHistory", "aclGate", "b", "any") >>

publicServer ==
  Create("a", "main", "public") \o <<
    Do("a", "find", "main", "a", "shown"), Do("a", "find", "main", "a", "shown"),
    Do("a", "get", "main", "a", "any"), Do("b", "join", "main", "b", "any"), Do("a", "onlyMember", "main", "b", "any"),
    Refused("a", "leave", "main", "a", "any") >>
approvalServer ==
  Create("a", "approval", "approval-required") \o <<
    Do("c", "request", "approval", "c", "any"), Do("c", "request", "approval", "c", "any"),
    Refused("c", "members", "approval", "a", "any"),
    Do("a", "requests", "approval", "c", "pending"), Do("a", "approve", "approval", "c", "any"),
    Do("a", "requests", "approval", "c", "approved"), Do("c", "join", "approval", "c", "any") >>
inviteServer ==
  Create("a", "invite", "invite-only") \o <<
    Refused("c", "join", "invite", "c", "any"), Do("a", "invite", "invite", "c", "any"),
    Do("c", "invites", "invite", "c", "any"), Do("c", "accept", "invite", "c", "any"),
    Do("c", "accept", "invite", "c", "any"), Do("c", "members", "invite", "c", "any"),
    Do("c", "leave", "invite", "c", "any"), Refused("c", "members", "invite", "a", "any") >>
closedServer ==
  Create("a", "closed", "closed") \o <<
    Refused("c", "join", "closed", "c", "any"), Refused("c", "members", "closed", "a", "any"),
    Do("c", "find", "closed", "c", "shown"), Do("a", "remove", "approval", "c", "any"), Refused("c", "members", "approval", "a", "any"),
    Do("a", "update", "approval", "a", "public"), Do("a", "get", "approval", "a", "public"),
    Refused("a", "badPolicy", "approval", "a", "any") >>
rejectServer ==
  Create("a", "reject", "approval-required") \o <<
    Do("c", "request", "reject", "c", "any"), Do("a", "reject", "reject", "c", "any"),
    Refused("c", "join", "reject", "c", "any"), Do("a", "requests", "reject", "c", "rejected") >>
serverLifecycle == publicServer \o approvalServer \o inviteServer \o closedServer \o rejectServer

serverPermissions == <<
  Refused("human", "members", "main", "a", "any"), Do("c", "join", "main", "c", "any"),
  Do("human", "join", "main", "human", "any"), Do("a", "members", "main", "b", "any"),
  Do("a", "members", "main", "human", "any"), Do("a", "members", "main", "b", "any"),
  Do("a", "members", "main", "b", "any"), Do("a", "setRole", "main", "b", "administrator"),
  Do("a", "setRole", "main", "c", "moderator"), Refused("a", "badRole", "main", "human", "any"),
  Do("a", "roles", "main", "a", {<<"b", "administrator">>, <<"c", "moderator">>}),
  Refused("c", "grant", "main", "member", "manage_roles"),
  Do("a", "grant", "main", "moderator", "moderate_posts"), Do("a", "audit", "main", "a", "any") >>

openGroups ==
  Create("a", "publicGroup", "public") \o << Do("b", "join", "publicGroup", "b", "any") >>
  \o Create("a", "cleanupGroup", "public") \o <<
    Do("b", "join", "cleanupGroup", "b", "any"), Do("c", "join", "cleanupGroup", "c", "any"),
    Do("c", "leave", "cleanupGroup", "c", "any"), Do("a", "remove", "cleanupGroup", "b", "any"),
    Do("b", "find", "publicGroup", "b", "shown"), Do("a", "find", "publicGroup", "a", "shown") >>
approvalGroups ==
  Create("a", "approvalGroup", "approval-required") \o <<
    Do("c", "request", "approvalGroup", "c", "any"), Do("c", "request", "approvalGroup", "c", "any"),
    Do("a", "requests", "approvalGroup", "c", "pending"),
    Refused("c", "requests", "approvalGroup", "c", "pending"),
    Do("a", "approve", "approvalGroup", "c", "any"), Do("c", "join", "approvalGroup", "c", "any") >>
  \o Create("a", "rejectedGroup", "approval-required") \o <<
    Do("c", "request", "rejectedGroup", "c", "any"), Do("a", "reject", "rejectedGroup", "c", "any"),
    Refused("c", "join", "rejectedGroup", "c", "any") >>
inviteGroup ==
  Create("a", "inviteGroup", "invite-only") \o <<
    Refused("c", "join", "inviteGroup", "c", "any"), Do("a", "invite", "inviteGroup", "c", "any"),
    Do("a", "invite", "inviteGroup", "c", "any"), Do("c", "invites", "inviteGroup", "c", "any"),
    Do("c", "accept", "inviteGroup", "c", "any") >>
privateGroup ==
  Create("a", "privateGroup", "closed") \o <<
    Refused("c", "join", "privateGroup", "c", "any"), Do("c", "find", "privateGroup", "c", "hidden"),
    Do("a", "update", "publicGroup", "a", "public"),
    Do("a", "roles", "publicGroup", "a", {<<"b", "member">>}),
    Do("a", "setRole", "publicGroup", "b", "administrator"),
    Refused("c", "setRole", "publicGroup", "c", "administrator"),
    Do("a", "grant", "publicGroup", "member", "send_messages"),
    Do("b", "send", "publicGroup", "b", "any"), Do("a", "read", "publicGroup", "b", "message"),
    Do("a", "delete", "privateGroup", "a", "any") >>
serverGroups == openGroups \o approvalGroups \o inviteGroup \o privateGroup

(* b is a plain member, whose role gets one permission after the other; c  *)
(* is a moderator.                                                         *)
permissionMatrix ==
  Create("a", "matrix", "public") \o <<
    Do("b", "join", "matrix", "b", "any"), Do("c", "join", "matrix", "c", "any"),
    Do("a", "setRole", "matrix", "b", "member"), Do("a", "setRole", "matrix", "c", "moderator") >>
Tried(op, space, to, is, permission) == <<
  Denied("b", op, space, to, is), Do("a", "grant", "matrix", "member", permission),
  Do("b", op, space, to, is) >>
Revoked(role, permission) == << Do("a", "revoke", "matrix", role, permission) >>
managedRoles == <<
  Denied("b", "setRole", "matrix", "c", "member"), Do("a", "grant", "matrix", "member", "manage_roles"),
  Do("b", "setRole", "matrix", "c", "moderator") >>
granularPermission ==
  permissionMatrix
  \o Tried("update", "matrix", "b", "public", "manage_settings") \o Revoked("member", "manage_settings")
  \o Tried("create", "memberGroup", "b", "public", "create_groups") \o Revoked("member", "create_groups")
  \o Tried("post", "matrix", "b", "any", "create_posts") \o Revoked("member", "create_posts")
  \o Tried("audit", "matrix", "b", "any", "view_audit") \o managedRoles
  \o Tried("grant", "matrix", "moderator", "moderate_posts", "manage_permissions")
  \o << Do("c", "edit", "matrix", "b", "any") >>
  \o Tried("invite", "matrix", "human", "any", "invite_members")
  \o Revoked("owner", "manage_settings") \o << Do("a", "update", "matrix", "a", "public") >>

(* Operators whose name has an underscore are faults: variants of the      *)
(* definition they are named for that the checks tell apart from the code. *)
securityIsolation_AsOwner ==
  Create("c", "isolated", "public") \o Create("c", "isolatedGroup", "closed") \o <<
    Do("c", "members", "isolated", "c", "any"), Denied("b", "sync", "isolated", "b", "any"),
    Do("c", "invite", "isolated", "human", "any"), Denied("b", "accept", "isolated", "human", "any") >>

isolatedServer ==
  Create("c", "isolated", "public") \o Create("c", "isolatedGroup", "closed") \o <<
    Do("c", "post", "isolatedGroup", "c", "any") >>
checks == <<
  Denied("b", "members", "isolated", "c", "any"), Denied("b", "find", "isolatedGroup", "c", "shown"),
  Denied("b", "read", "isolatedGroup", "thread", "any"), Denied("b", "read", "isolated", "posts", "any"),
  Denied("b", "send", "isolated", "c", "any"), Denied("b", "setRole", "isolated", "b", "administrator"),
  Denied("b", "sync", "isolated", "b", "any") >>
forgedAnswers ==
  << Do("c", "invite", "isolated", "human", "any"), Denied("b", "accept", "isolated", "human", "any") >>
  \o Create("c", "forged", "approval-required") \o <<
    Do("human", "request", "forged", "human", "any"), Denied("b", "approve", "forged", "human", "any"),
    Call("b", "members", "isolated", "c", "any", "scoped") >>
(* The last accusation is not about access: the manifest, c's own, asks    *)
(* for a join policy that there is not.                                    *)
malformedInput == <<
  Do("b", "compact", "isolated", "b", "any"), Refused("c", "futureCursor", "isolated", "c", "any"),
  Denied("c", "badManifest", "isolated", "c", "any") >>
securityIsolation == isolatedServer \o checks \o forgedAnswers \o malformedInput

serverForums == <<
  Do("a", "post", "main", "b", "any"), Do("b", "read", "main", "b", "post"),
  Do("b", "read", "main", "b", "post"), Do("b", "follow", "main", "b", "any"),
  Do("b", "comment", "main", "c", "any"), Do("c", "comment", "main", "c", "any"),
  Do("a", "react", "main", "a", "any"), Do("b", "read", "main", "b", "thread"),
  Do("b", "anyOf", "main", "b", {<<"mention", "main">>, <<"reply", "main">>}),
  Do("b", "markRead", "main", "b", "any"), Do("a", "share", "publicGroup", "a", "any"),
  Do("a", "post", "publicGroup", "a", "any"), Refused("c", "read", "publicGroup", "c", "thread"),
  Do("b", "unfollow", "main", "b", "any"), Do("a", "edit", "main", "a", "any") >>

notify ==
  Create("a", "notices", "public") \o <<
    Do("b", "join", "notices", "b", "any"), Do("c", "join", "notices", "c", "any"),
    Do("a", "grant", "notices", "agent", "create_posts"),
    Do("a", "markRead", "notices", "a", "any"), Do("b", "markRead", "notices", "b", "any"),
    Do("c", "markRead", "notices", "c", "any"), Do("human", "markRead", "notices", "human", "any"),
    Do("a", "dm", "notices", "b", "any"), Do("b", "post", "notices", "c", "any"),
    Do("b", "follow", "notices", "b", "any"), Do("c", "comment", "notices", "c", "any"),
    Do("a", "react", "notices", "a", "any") >>
notifyOfAccess ==
  Create("a", "noticeGroup", "invite-only") \o <<
    Do("a", "invite", "noticeGroup", "b", "any"), Do("a", "invite", "notices", "human", "any") >>
  \o Create("a", "noticeApproval", "approval-required") \o <<
    Do("c", "request", "noticeApproval", "c", "any"), Do("a", "approve", "noticeApproval", "c", "any") >>
expected == {<<"dm", "notices">>, <<"reply", "notices">>, <<"reaction", "notices">>,
             <<"invitation", "noticeGroup">>}
noticed ==
  LET Notified(who, kind, space) == Do(who, "allOf", "notices", who, {<<kind, space>>})
  IN  << Do("b", "allOf", "notices", "b", expected), Notified("c", "mention", "notices"),
         Notified("human", "invitation", "notices"), Notified("a", "request", "noticeApproval"),
         Notified("c", "approved", "noticeApproval"),
         Do("b", "reconnect", "notices", "b", "any"), Do("b", "allOf", "notices", "b", expected),
         Do("b", "markRead", "notices", "b", "any"), Do("b", "noneOf", "notices", "b", expected) >>
notificationDurability == notify \o notifyOfAccess \o noticed

(* The batch that works makes a group and lists its members; in the mixed  *)
(* one an operation fails that another one depends on.                     *)
declarative ==
  Create("b", "manifest", "public") \o Create("b", "manifestGroup", "public") \o <<
    Do("b", "post", "manifest", "b", "any"), Do("b", "grant", "manifest", "agent", "create_groups"),
    Do("b", "members", "manifest", "b", "any"), Do("a", "contacts", "manifest", "a", "any"),
    Do("a", "apply", "manifest", "a", "joined"), Do("a", "apply", "manifest", "a", "already-member"),
    Do("a", "onlyMember", "manifest", "b", "any"), Do("a", "members", "manifestGroup", "a", "any"),
    Do("a", "contacts", "manifest", "b", "made"), Do("a", "follower", "manifest", "a", "any") >>
  \o Create("a", "primitiveGroup", "public") \o << Do("a", "members", "primitiveGroup", "a", "any") >>
  \o Create("a", "batchGroup", "public") \o <<
    Call("a", "mixed", "manifest", "a", "any", "isolated"), Refused("a", "badBatch", "manifest", "a", "any") >>

(* Later activity is seen by comparison with an earlier sync.              *)
delta == <<
  Do("a", "sync", "main", "a", "any"), Do("a", "send", "publicGroup", "a", "any"),
  Do("a", "comment", "main", "a", "any"), Do("a", "sync", "main", "a", "new"),
  Do("a", "get", "main", "a", "any"), Do("a", "compact", "main", "a", "any"),
  Do("a", "page", "main", "a", "any") >>

Scripts == [
  group_membership_history        |-> groupMembership,
  unauthorized_access             |-> unauthorized,
  security_isolation_abuse        |-> securityIsolation,
  server_lifecycle                |-> serverLifecycle,
  server_permissions_discovery    |-> serverPermissions,
  granular_permission_enforcement |-> granularPermission,
  server_groups                   |-> serverGroups,
  server_forums_notifications     |-> serverForums,
  notification_durability_matrix  |-> notificationDurability,
  declarative_batch               |-> declarative,
  delta_response_shaping          |-> delta]

=============================================================================
