---------------------------- MODULE Conformance ----------------------------
(***************************************************************************)
(* The scenarios of ScenarioScripts played against a server, in the order  *)
(* in which the profiles select them.  The server is external: it follows  *)
(* the policies of contract/v2.go but for some defects, and calls and      *)
(* their answers may be lost.                                              *)
(***************************************************************************)
EXTENDS Integers, FiniteSets, Catalogue, ScenarioScripts

CONSTANTS
  Profiles,     \* the profiles that are run
  MaxTrouble    \* bound on the server's defects and the answers lost, together

VARIABLES
  profile, defects,
  scenario,     \* index in the table of scenarios
  step,         \* index in the scenario's script
  failed,       \* names of the scenarios that returned an error
  violations,   \* Reliability.AccessControlViolations
  spaces,       \* the servers and groups there are
  inbox,        \* the unread notifications of each person
  lost,         \* number of answers lost
  breached,     \* whether the server did or showed what its policy refuses, or kept a leaver
  bypassed      \* whether it took a manifest that asks to bypass the join policy

vars == <<profile, defects, scenario, step, failed, violations, spaces, inbox, lost, breached, bypassed>>

(* The scenarios of a profile that have a script, and the first of them    *)
(* that come after others in the table.                                    *)
Scheduled == [p \in Profiles |->
  {i \in DOMAIN Scenarios : Allows(p, Scenarios[i].category) /\ Scenarios[i].name \in DOMAIN Scripts}]
Following == [p \in Profiles |-> [i \in 0..Len(Scenarios) |->
  Min({j \in Scheduled[p] : j > i} \cup {Len(Scenarios) + 1})]]

-----------------------------------------------------------------------------
(* The server.                                                             *)

People == {"a", "b", "c", "human"}
Kinds == {"mention", "reply", "reaction", "invitation", "request", "approved", "dm"}
Groups == {"publicGroup", "cleanupGroup", "approvalGroup", "rejectedGroup", "inviteGroup",
           "privateGroup", "memberGroup", "isolatedGroup", "noticeGroup", "manifestGroup",
           "primitiveGroup", "batchGroup"}
Within(group) ==
  CASE group = "memberGroup" -> "matrix"
    [] group = "isolatedGroup" -> "isolated"
    [] group = "noticeGroup" -> "notices"
    [] group \in {"manifestGroup", "primitiveGroup", "batchGroup"} -> "manifest"
    [] OTHER -> "main"

(* Input that nobody may send.                                             *)
Malformed == {"badPolicy", "badRole", "badManifest", "badBatch", "futureCursor"}

(* What a call needs a permission for.                                     *)
Permission == [
  create |-> "create_groups", update |-> "manage_settings", invite |-> "invite_members",
  setRole |-> "manage_roles",
  grant |-> "manage_permissions", revoke |-> "manage_permissions", approve |-> "approve_members",
  reject |-> "approve_members", requests |-> "approve_members", remove |-> "remove_members",
  post |-> "create_posts", edit |-> "moderate_posts", audit |-> "view_audit", delete |-> "manage_groups"]

Space(owner, policy) ==
  [owner |-> owner, policy |-> policy, members |-> {owner},
   role |-> [p \in People |-> IF p = owner THEN "owner" ELSE "none"],
   granted |-> {}, revoked |-> {},
   request |-> [p \in People |-> "none"], invited |-> {},
   messages |-> 0, author |-> "nobody", comments |-> 0, followers |-> {}]

(* Who joins a server is an agent or a human, and a member of a group.     *)
Joined(s, who, name) ==
  [s EXCEPT !.members = @ \cup {who},
            !.role[who] = IF name \in Groups \/ who = "human" THEN "member" ELSE "agent"]
Left(s, who) == [s EXCEPT !.members = @ \ {who}, !.role[who] = "none", !.request[who] = "none"]

(* The owner may do everything, whatever the permissions of its role.      *)
Has(s, who, permission) ==
  \/ s.owner = who /\ <<"demoted", "owner">> \notin defects
  \/ /\ who \in s.members
     /\ \/ <<s.role[who], permission>> \in s.granted
        \/ s.role[who] \in {"owner", "administrator"} /\ <<s.role[who], permission>> \notin s.revoked

There(call) ==
  /\ call.op \notin {"create", "impersonate"} => call.space \in DOMAIN spaces
  /\ call.space \in Groups => Within(call.space) \in DOMAIN spaces
Target(call) ==
  IF call.op \in {"create", "impersonate"} THEN Space(call.who, call.is) ELSE spaces[call.space]

Permitted(call, s) ==
  CASE call.op = "create" ->
         call.space \in Groups => Has(spaces[Within(call.space)], call.who, Permission.create)
    [] call.op = "join" ->
         /\ call.space \in Groups => call.who \in spaces[Within(call.space)].members
         /\ \/ call.who \in s.members \/ s.policy = "public"
            \/ s.policy = "approval-required" /\ s.request[call.who] = "approved"
    [] call.op = "request" -> s.policy = "approval-required"
    [] call.op = "accept" -> call.who = call.to /\ call.who \in s.invited
    [] call.op = "invites" -> call.who \in s.invited
    [] call.op = "leave" -> call.who \in s.members /\ call.who # s.owner
    [] call.op \in {"comment", "react", "follow", "unfollow", "share", "follower"} ->
         call.who \in s.members /\ (call.op = "share" \/ s.author # "nobody")
    [] call.op \in {"members", "onlyMember", "roles", "read", "send", "sync", "page"} ->
         call.who \in s.members
    [] call.op = "find" -> call.space \in Groups => call.who \in spaces[Within(call.space)].members
    [] call.op = "apply" -> call.who \in s.members \/ s.policy = "public"
    [] call.op \in {"anyOf", "allOf", "noneOf", "markRead", "dm", "reconnect", "mixed",
                    "get", "compact", "contacts"} -> TRUE
    [] call.op \in Malformed \cup {"impersonate", "dmHistory"} -> FALSE
    [] OTHER -> Has(s, call.who, Permission[call.op])

(* Discovery finds every server of the scripts, and what groups are not    *)
(* private.                                                                *)
Shown(call, s) ==
  /\ <<"void", "find">> \notin defects
  /\ \/ call.space \notin Groups \/ s.policy # "closed" \/ call.who \in s.members
     \/ <<"open", "find">> \in defects

(* Whether an answer is what the scenario looks for.                       *)
Fits(call, s) ==
  CASE call.op = "members" -> call.to \in s.members
    [] call.op = "onlyMember" -> s.members = {call.who, call.to}
    [] call.op = "requests" -> s.request[call.to] = call.is
    [] call.op = "roles" -> \A pair \in call.is : s.role[pair[1]] = pair[2]
    [] call.op = "find" -> call.is = IF Shown(call, s) THEN "shown" ELSE "hidden"
    [] call.op = "get" -> call.is \in {"any", s.policy}
    [] call.op = "page" -> <<"void", "page">> \notin defects \/ Cardinality(s.members) <= 1
    [] call.op = "contacts" -> call.is = "any" \/ <<"omits", "contacts">> \notin defects
    [] call.op = "read" /\ call.is = "post" -> s.author # "nobody"
    [] call.op = "read" /\ call.is = "message" -> s.messages > 0
    [] call.op = "read" /\ call.is = "three" -> s.messages = 3
    [] call.op = "read" /\ call.is = "thread" -> s.comments >= 2
    [] call.op = "anyOf" -> call.is \cap inbox[call.who] # {}
    [] call.op = "allOf" -> call.is \subseteq inbox[call.who]
    [] call.op = "noneOf" -> call.is \cap inbox[call.who] = {}
    [] call.op = "apply" -> call.is = IF call.who \in s.members THEN "already-member" ELSE "joined"
    [] call.op = "follower" -> call.to \in s.followers
    [] call.op = "sync" /\ call.is = "new" -> <<"void", "sync">> \notin defects
    [] call.op \in {"mixed", "audit", "compact"} -> <<"void", call.op>> \notin defects
    [] OTHER -> TRUE

Effect(call, s) ==
  CASE call.op = "create" -> Space(call.who, call.is)
    [] call.op = "join" /\ call.who \notin s.members -> Joined(s, call.who, call.space)
    [] call.op = "request" /\ s.request[call.who] = "none" -> [s EXCEPT !.request[call.who] = "pending"]
    [] call.op = "approve" -> Joined([s EXCEPT !.request[call.to] = "approved"], call.to, call.space)
    [] call.op = "reject" -> [s EXCEPT !.request[call.to] = "rejected"]
    [] call.op = "invite" -> [s EXCEPT !.invited = @ \cup {call.to}]
    [] call.op = "accept" /\ call.who \notin s.members -> Joined(s, call.who, call.space)
    [] call.op = "leave" -> Left(s, call.who)
    [] call.op = "remove" -> Left(s, call.to)
    [] call.op = "setRole" -> [s EXCEPT !.role[call.to] = call.is]
    [] call.op = "update" -> [s EXCEPT !.policy = call.is]
    [] call.op = "post" -> [s EXCEPT !.author = call.who, !.comments = 0, !.followers = {}]
    [] call.op = "send" -> [s EXCEPT !.messages = @ + 1]
    [] call.op = "comment" -> [s EXCEPT !.comments = @ + 1]
    [] call.op = "follow" -> [s EXCEPT !.followers = @ \cup {call.who}]
    [] call.op = "unfollow" -> [s EXCEPT !.followers = @ \ {call.who}]
    [] call.op = "grant" ->
         [s EXCEPT !.granted = @ \cup {<<call.to, call.is>>}, !.revoked = @ \ {<<call.to, call.is>>}]
    [] call.op = "revoke" ->
         [s EXCEPT !.granted = @ \ {<<call.to, call.is>>}, !.revoked = @ \cup {<<call.to, call.is>>}]
    [] OTHER -> s

(* What applying the manifest does: its server is joined with the public   *)
(* groups in it, and its post is followed.                                 *)
Applied(who, server) ==
  LET Kept(part) == <<"omits", part>> \notin defects
      Entered(name) ==
        /\ who \notin spaces[name].members
        /\ \/ name = server /\ Kept("join")
           \/ /\ name \in Groups /\ Within(name) = server /\ spaces[name].policy = "public"
              /\ Kept("groups")
      Visited(name) == IF Entered(name) THEN Joined(spaces[name], who, name) ELSE spaces[name]
  IN  [name \in DOMAIN spaces |->
        IF name = server /\ Kept("follows")
        THEN [Visited(name) EXCEPT !.followers = @ \cup {who}] ELSE Visited(name)]

Spaces(call) ==
  IF call.op = "apply" THEN Applied(call.who, call.space)
  ELSE IF call.op = "impersonate" THEN spaces
  ELSE [name \in DOMAIN spaces \cup {call.space} |->
         IF name = call.space THEN Effect(call, Target(call)) ELSE spaces[name]]

(* Whom a call notifies of what: the notifications the scenarios wait for. *)
Notices(call, s) ==
  LET Tell(people, kind) == {<<p, kind>> : p \in people \ {call.who}}
  IN  CASE call.op = "post" -> Tell({call.to}, "mention")
        [] call.op = "comment" -> Tell({call.to}, "mention") \cup Tell(s.followers, "reply")
        [] call.op = "react" -> Tell({s.author}, "reaction")
        [] call.op = "invite" -> Tell({call.to}, "invitation")
        [] call.op = "request" -> Tell({s.owner}, "request")
        [] call.op = "approve" -> Tell({call.to}, "approved")
        [] call.op = "dm" -> Tell({call.to}, "dm")
        [] OTHER -> {}

Inbox(call, s) == [p \in People |->
  IF /\ p = call.who
     /\ call.op = "markRead" \/ (call.op = "reconnect" /\ <<"forgets", "inbox">> \in defects)
  THEN {}
  ELSE inbox[p] \cup {<<kind, call.space>> : kind \in
         {k \in Kinds : <<p, k>> \in Notices(call, s) /\ <<"silent", k>> \notin defects}}]

(* What asking once more would do is done already.                         *)
Repeated(call, s) ==
  CASE call.op = "request" -> s.request[call.who] # "none"
    [] call.op = "invite" -> call.to \in s.invited
    [] call.op \in {"accept", "apply"} -> call.who \in s.members
    [] OTHER -> FALSE

-----------------------------------------------------------------------------
(* Defects: a guard that is missing ("open"), a call that is acknowledged  *)
(* and has no effect or no result ("void"), one that is wrong when it is   *)
(* repeated ("again"), a notification that is not sent ("silent"), unread  *)
(* ones that a reconnect loses, a part of a manifest that is not applied   *)
(* ("omits"), an owner who depends on the permissions of its role.         *)
Guarded == DOMAIN Permission \cup
  Malformed \cup {"join", "members", "read", "send", "accept", "leave", "sync", "find", "impersonate",
                 "dmHistory"}
Effective == {"join", "request", "approve", "reject", "invite", "accept", "leave", "remove",
              "setRole", "update", "grant", "revoke", "send", "post", "comment", "react", "markRead",
              "sync", "mixed", "find", "compact", "page", "audit"}
Defects ==
  ({"open"} \X Guarded) \cup ({"void"} \X Effective)
  \cup ({"again"} \X {"request", "invite", "accept", "apply"})
  \cup ({"silent"} \X Kinds) \cup ({"omits"} \X {"join", "groups", "contacts", "follows"})
  \cup {<<"forgets", "inbox">>, <<"demoted", "owner">>}

Running == scenario \in DOMAIN Scenarios
Name == Scenarios[scenario].name
Current == Scripts[Name][step]

Init ==
  /\ profile \in Profiles
  /\ \E n \in 0..MaxTrouble : defects \in {Range(f) : f \in [1..n -> Defects]}
  /\ scenario = Following[profile][0] /\ step = 1 /\ failed = {} /\ violations = 0
  /\ spaces = << >> /\ inbox = [p \in People |-> {}] /\ lost = 0 /\ breached = FALSE
  /\ bypassed = FALSE

Admits(call) ==
  /\ There(call)
  /\ Permitted(call, Target(call)) \/ <<"open", call.op>> \in defects
  /\ Repeated(call, Target(call)) => <<"again", call.op>> \notin defects

AsExpected_LossIsAdmission(expect, answer) ==
  CASE expect = "success" -> answer = "success"
    [] expect = "isolated" -> answer # "wrong"
    [] OTHER -> answer = "refusal"

(* Any error will do for a refusal, but not in a batch; any answer without *)
(* an error, whatever is in it, is no refusal.                             *)
AsExpected(expect, answer) ==
  CASE expect = "success" -> answer = "success"
    [] expect = "scoped" -> answer = "refusal"
    [] expect = "isolated" -> answer # "wrong"
    [] OTHER -> answer \in {"refusal", "lost"}

Answer(call) ==
  IF ~Admits(call) THEN "refusal" ELSE IF Fits(call, Target(call)) THEN "success" ELSE "wrong"

Over(answer) == ~AsExpected(Current.expect, answer) \/ step = Len(Scripts[Name])

(* A scenario's own servers and groups are out of reach when it ends; what *)
(* it leaves to later ones is what serverID and groupIDV2 name.            *)
InReach(all, answer) ==
  IF Over(answer) THEN [name \in DOMAIN all \cap {"main", "publicGroup"} |-> all[name]] ELSE all

Handle(call, answer) ==
  /\ IF Admits(call) /\ <<"void", call.op>> \notin defects
     THEN spaces' = InReach(Spaces(call), answer) /\ inbox' = Inbox(call, Target(call))
     ELSE spaces' = InReach(spaces, answer) /\ UNCHANGED inbox
  /\ breached' = \/ breached
                 \/ /\ Admits(call) /\ call.op \notin Malformed
                    /\ ~Permitted(call, Target(call)) \/ (call.op = "leave" /\ <<"void", "leave">> \in defects)
  /\ bypassed' = (bypassed \/ (Admits(call) /\ call.op = "badManifest"))

(* The scenario goes on, or ends with an error; then the next one begins.  *)
Judge(answer) ==
  LET good == AsExpected(Current.expect, answer)
  IN  /\ step' = IF Over(answer) THEN 1 ELSE step + 1
      /\ scenario' = IF Over(answer) THEN Following[profile][scenario] ELSE scenario
      /\ failed' = IF good THEN failed ELSE failed \cup {Name}
      /\ violations' = violations + (IF ~good /\ Current.expect = "denial" THEN 1 ELSE 0)

Answered ==
  /\ Running
  /\ Handle(Current, Answer(Current))
  /\ Judge(Answer(Current))
  /\ UNCHANGED <<profile, defects, lost>>

(* The call or its answer is lost.  What was made by a lost call is out of *)
(* the scenarios' reach: they never learn its ID.  A reconnect that fails  *)
(* is the subject of Sessions.                                             *)
Lost ==
  /\ Running /\ lost + Cardinality(defects) < MaxTrouble
  /\ lost' = lost + 1
  /\ Current.op # "reconnect"
  /\ \/ Current.op \notin {"create", "post"} /\ Handle(Current, "lost")
     \/ spaces' = InReach(spaces, "lost") /\ UNCHANGED <<inbox, breached, bypassed>>
  /\ Judge("lost")
  /\ UNCHANGED <<profile, defects>>

Next == Answered \/ Lost
Spec == Init /\ [][Next]_vars

-----------------------------------------------------------------------------
(* Correctness.                                                            *)

(* A server without a defect passes every scenario of every profile: their *)
(* scripts agree with the policy and with what the scenarios before them   *)
(* left behind.  Only a lost answer fails one, and perhaps later ones.     *)
HonestServerNotBlamed == failed # {} => defects # {} \/ lost > 0

(* What a scenario is there to find: sets of defects it notices.           *)
Each(kind, ops) == {{<<kind, op>>} : op \in ops}
Sought == [
  group_membership_history |->
    Each("open", {"send", "read"}) \cup Each("void", {"send", "accept", "leave"}),
  unauthorized_access |-> Each("open", {"impersonate", "read", "send", "dmHistory"}),
  security_isolation_abuse |->
    Each("open", {"members", "find", "read", "send", "setRole", "sync", "accept", "approve",
                  "futureCursor", "badManifest"})
    \cup Each("void", {"compact"}),
  server_lifecycle |->
    Each("open", {"join", "members", "leave", "badPolicy"}) \cup Each("again", {"request", "accept"})
    \cup Each("void", {"find", "join", "request", "approve", "reject", "invite", "accept", "leave",
                       "remove", "update"}),
  server_permissions_discovery |->
    Each("open", {"members", "grant", "badRole"}) \cup Each("void", {"join", "setRole", "audit"}),
  granular_permission_enforcement |->
    Each("open", {"update", "create", "post", "audit", "setRole", "grant", "invite"})
    \cup Each("void", {"setRole", "grant", "audit"}) \cup {{<<"demoted", "owner">>}},
  server_groups |->
    Each("open", {"join", "requests", "setRole", "find"}) \cup Each("again", {"request", "invite"})
    \cup Each("void", {"approve", "invite", "find", "send"}),
  server_forums_notifications |->
    Each("open", {"read"}) \cup Each("void", {"post", "comment"}) \cup {{"silent"} \X {"mention", "reply"}},
  notification_durability_matrix |->
    Each("silent", Kinds) \cup Each("forgets", {"inbox"})
    \cup Each("void", {"markRead", "react", "comment", "request", "approve", "invite", "post"}),
  declarative_batch |->
    Each("omits", {"join", "groups", "contacts", "follows"}) \cup Each("again", {"apply"})
    \cup Each("open", {"badBatch"}) \cup Each("void", {"mixed"}),
  delta_response_shaping |-> Each("void", {"sync", "compact", "page"})]

Passed == {Scenarios[i].name : i \in {j \in Scheduled[profile] : j < scenario}} \ failed

(* Whose permissions cannot be taken away is not found to depend on them,  *)
(* and where nobody could join there is no page to be too long.            *)
Hidden ==
  (IF <<"void", "revoke">> \in defects THEN {<<"demoted", "owner">>} ELSE {})
  \cup (IF <<"void", "join">> \in defects THEN {<<"void", "page">>} ELSE {})

(* A scenario passes no server with a defect it is there to find, whatever *)
(* other defect the server has, but for one that hides it, and whatever    *)
(* the scenarios before it left behind, if every call was answered: that   *)
(* can only change where a scenario ends, and the next begins.             *)
DefectsAreFound ==
  lost = 0 /\ step = 1 =>
    \A name \in Passed : \A found \in Sought[name] : ~(found \subseteq defects \ Hidden)

(* No server is accused of an access control violation that has not        *)
(* committed one or taken a manifest that asks to bypass the join policy,  *)
(* the one accusation that is not about access, whatever was lost; and who *)
(* is accused fails.                                                       *)
AccusedIsGuilty == violations > 0 => (breached \/ bypassed) /\ failed # {}

=============================================================================
