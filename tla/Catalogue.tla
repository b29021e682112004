----------------------------- MODULE Catalogue -----------------------------
(***************************************************************************)
(* The scenarios the harness knows and the profiles that select among them: *)
(* profileDefinitions and profileAllows of profile.go and the table in     *)
(* Harness.Run.  Each entry also says what its function asks of the client *)
(* and which fields of the Harness ("fixtures") it reads and writes, which *)
(* is how scenarios depend on the ones before them.                        *)
(***************************************************************************)
EXTENDS Sequences, SequencesExt

V2 == {"V2Client"}

Entry(name, category, requires, reads, writes) ==
  [name |-> name, category |-> category, hard |-> name # "transport_interoperability",
   requires |-> requires, reads |-> reads, writes |-> writes]

(* The table of Harness.Run, in order; the browser gate is run last.       *)
Scenarios == <<
  Entry("identity_lifecycle", "core", {}, {}, {}),
  Entry("discovery_bootstrap_events", "core", {}, {}, {}),
  Entry("dm_round_trip_resume", "core", {}, {}, {}),
  Entry("group_membership_history", "core", {}, {}, {"groupID"}),
  Entry("post_nested_thread", "core", {}, {}, {"postID"}),
  Entry("concurrent_mixed_writers", "load", {}, {}, {}),
  Entry("human_agent_parity", "core", {}, {}, {"groupID", "postID"}),
  Entry("disconnect_reconnect_load", "reliability", {}, {}, {}),
  Entry("unauthorized_access", "security", {}, {}, {}),
  Entry("growing_history", "load", {}, {}, {}),
  Entry("presence_notifications", "core", {}, {}, {}),
  Entry("security_isolation_abuse", "security", V2, {}, {}),
  Entry("server_lifecycle", "server", V2, {}, {"serverID"}),
  Entry("server_permissions_discovery", "permissions", V2, {"serverID"}, {}),
  Entry("granular_permission_enforcement", "permissions", V2, {}, {}),
  Entry("server_groups", "groups", V2, {"serverID"}, {"groupIDV2"}),
  Entry("server_forums_notifications", "forums", V2, {"serverID", "groupIDV2"}, {"postIDV2"}),
  Entry("notification_durability_matrix", "forums", V2, {}, {}),
  Entry("declarative_batch", "declarative", V2, {}, {}),
  Entry("delta_response_shaping", "declarative", V2, {"serverID", "groupIDV2", "postIDV2"}, {}),
  Entry("protocol_discovery_schemas", "transport", {"DiscoveryClient"}, {"serverID"}, {}),
  Entry("transport_interoperability", "transport",
        V2 \cup {"DiscoveryClient", "TransportFactory"}, {"serverID"}, {}),
  Entry("agent_efficiency_jobs", "efficiency", V2 \cup {"DiscoveryClient"}, {"serverID"}, {}),
  Entry("v2_scale_load", "load", V2, {}, {}),
  Entry("browser_human_ui", "browser", V2, {"serverID", "groupID", "postID"}, {}) >>

(* The profile "agent-efficiency" is called efficiency here.              *)
Profile == [
  core        |-> [categories |-> {"core"}, requiresV2 |-> FALSE],
  security    |-> [categories |-> {"security"}, requiresV2 |-> TRUE],
  server      |-> [categories |-> {"server"}, requiresV2 |-> TRUE],
  permissions |-> [categories |-> {"server", "permissions"}, requiresV2 |-> TRUE],
  groups      |-> [categories |-> {"server", "permissions", "groups"}, requiresV2 |-> TRUE],
  forums      |-> [categories |-> {"server", "permissions", "groups", "forums"}, requiresV2 |-> TRUE],
  efficiency  |-> [categories |-> {"server", "permissions", "efficiency"}, requiresV2 |-> TRUE],
  declarative |-> [categories |-> {"server", "permissions", "groups", "forums", "declarative"},
                   requiresV2 |-> TRUE],
  transport   |-> [categories |-> {"server", "transport"}, requiresV2 |-> TRUE],
  browser     |-> [categories |-> {"core", "server", "permissions", "groups", "forums", "browser"},
                   requiresV2 |-> TRUE],
  reliability |-> [categories |-> {"reliability"}, requiresV2 |-> FALSE],
  load        |-> [categories |-> {"load"}, requiresV2 |-> FALSE],
  full        |-> [categories |-> {"core", "security", "server", "permissions", "groups", "forums",
                                   "efficiency", "declarative", "transport", "browser",
                                   "reliability", "load"},
                   requiresV2 |-> TRUE]]

(* The reliability counters a scenario adds to, always just before it      *)
(* returns an error.                                                       *)
Raises(name) ==
  CASE name \in {"disconnect_reconnect_load", "dm_round_trip_resume"} ->
         {"messageLoss", "failedResumes", "orderingViolations"}
    [] name = "identity_lifecycle" -> {"failedResumes"}
    [] name = "post_nested_thread" -> {"failedResumes", "orderingViolations"}
    [] name = "concurrent_mixed_writers" -> {"messageLoss", "orderingViolations"}
    [] name = "growing_history" -> {"orderingViolations"}
    [] name = "group_membership_history" -> {"accessControlViolations", "orderingViolations"}
    [] name \in {"unauthorized_access", "security_isolation_abuse",
                 "granular_permission_enforcement"} -> {"accessControlViolations"}
    [] OTHER -> {}

Categories == UNION {Profile[p].categories : p \in DOMAIN Profile}
Names == {Scenarios[i].name : i \in DOMAIN Scenarios}
Fixtures == {"groupID", "postID", "serverID", "groupIDV2", "postIDV2"}
Capabilities == {"V2Client", "DiscoveryClient", "TransportFactory"}

(* A fault: a profile without the categories it builds on.                 *)
Allows_OwnCategory(profile, category) ==
  profile \in DOMAIN Profile /\ category = profile

Allows(profile, category) ==
  profile \in DOMAIN Profile /\ category \in Profile[profile].categories

(* The scenarios a run of the profile goes through.                        *)
Plan(profile) == SelectSeq(Scenarios, LAMBDA s : Allows(profile, s.category))

=============================================================================
