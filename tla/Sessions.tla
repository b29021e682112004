------------------------------ MODULE Sessions ------------------------------
(***************************************************************************)
(* The sessions the harness keeps: setup, reconnect and Close of           *)
(* benchmark.go, the clients main's factory makes and the credentials they *)
(* carry, over the scenarios of a profile.                                 *)
(*                                                                         *)
(* The server is external: an identity loaded with a valid credential is   *)
(* returned with a credential, which is the same one, a further one, or    *)
(* one that replaces it; a call with a valid credential on a client that   *)
(* is not closed is accepted.  Of the scenarios only the order is kept in  *)
(* which they use, close and reconnect sessions.                           *)
(***************************************************************************)
EXTENDS Integers, Sequences, FiniteSets, Catalogue

CONSTANTS
  ProfileFlags,  \* profiles run
  Policies,      \* what the server returns as credential: "same", "keep" or "rotate"
  MaxFailures    \* bound on failing steps

VARIABLES
  config,        \* the profile and the server's policy
  clients,       \* every client made: its agent, its token, and whether it is closed
  sessions,      \* h.sessions: from agents to clients, 0 while there is none
  identities,    \* h.identities: the token of each agent, 0 while there is none
  captured,      \* the sessions a scenario read into its local variables
  valid,         \* tokens the server accepts
  issued,        \* tokens issued so far
  position,      \* index of the scenario in the table, 0 during setup
  step,          \* index in the scenario's script
  failures,      \* steps that failed
  refused        \* whether the server refused a call

vars == <<config, clients, sessions, identities, captured, valid, issued, position, step,
          failures, refused>>

a == "agent-a"
b == "agent-b"
c == "agent-c"
hu == "human"
SetupOrder == <<a, b, c, hu>>
Agents == ToSet(SetupOrder)

-----------------------------------------------------------------------------
(* What each scenario does to the sessions.  "use" calls through the local *)
(* variable set at the start, "fresh" through h.sessions.                  *)

Use(agents) == [k \in DOMAIN agents |-> [op |-> "use", agent |-> agents[k]]]
Do(op, agent) == << [op |-> op, agent |-> agent] >>
(* Operators whose name has an underscore are faults: variants of the       *)
(* definition they are named for that the checks tell apart from the code.  *)
Restart_WithoutReconnect(agent) == Do("close", agent)

Restart(agent) == Do("close", agent) \o Do("reconnect", agent)

(* The agent is closed while another one acts; then it comes back.         *)
Absence(agent) ==
  Do("close", agent) \o Do("offline", agent) \o Use(<<a>>) \o Do("reconnect", agent)

Script(name) ==
  CASE name = "identity_lifecycle" -> Restart(a) \o Do("fresh", a)
    [] name = "dm_round_trip_resume" ->
         Use(<<a, b>>) \o Restart(a) \o Do("reconnect", b) \o Do("fresh", b)
    [] name = "post_nested_thread" -> Use(<<a, b, c>>) \o Restart(b) \o Do("fresh", b)
    [] name = "human_agent_parity" -> Use(<<a, b, hu>>)
    [] name = "disconnect_reconnect_load" -> Use(<<a, b>>) \o Absence(b) \o Do("fresh", b)
    [] name = "presence_notifications" -> Use(<<a>>) \o Absence(b) \o Use(<<a>>)
    [] name = "notification_durability_matrix" ->
         Use(<<a, b, c>>) \o Do("reconnect", b) \o Do("fresh", b)
    [] name = "security_isolation_abuse" -> Use(<<c, b, hu>>)
    [] name \in {"growing_history", "declarative_batch"} -> Use(<<a, b>>)
    [] name \in {"server_permissions_discovery", "granular_permission_enforcement"} ->
         Use(<<a, b, c, hu>>)
    [] name \in {"delta_response_shaping", "protocol_discovery_schemas", "v2_scale_load"} -> Use(<<a>>)
    [] name = "transport_interoperability" -> Use(<<a>>) \o Do("second", b)
    [] name = "agent_efficiency_jobs" -> Do("fresh", b)
    [] name = "browser_human_ui" -> Use(<<a, hu>>) \o Do("close", hu) \o Use(<<hu, a>>)
    [] OTHER -> Use(<<a, b, c>>)

(* The loop skips the scenarios whose category the profile does not allow. *)
Finished == position > Len(Scenarios)
Current ==
  IF Allows(config.profile, Scenarios[position].category)
  THEN Script(Scenarios[position].name) ELSE << >>
Pending(op) == position \in DOMAIN Scenarios /\ step \in DOMAIN Current /\ Current[step].op = op
Agent == Current[step].agent

-----------------------------------------------------------------------------
NoneYet == [x \in Agents |-> 0]

Init ==
  /\ config \in [profile : ProfileFlags, policy : Policies]
  /\ clients = << >> /\ sessions = NoneYet /\ identities = NoneYet /\ captured = NoneYet
  /\ valid = {} /\ issued = 0 /\ position = 0 /\ step = 1
  /\ failures = 0 /\ refused = FALSE

Client(agent, token) == [agent |-> agent, token |-> token, closed |-> FALSE]

(* The token an identity is loaded with, and what the server then accepts. *)
Returned(presented) == IF presented # 0 /\ config.policy = "same" THEN presented ELSE issued + 1
Accepts(presented) ==
  (IF config.policy = "rotate" THEN valid \ {presented} ELSE valid) \cup {Returned(presented)}
Serve(presented) ==
  /\ valid' = Accepts(presented)
  /\ issued' = IF Returned(presented) > issued THEN issued + 1 ELSE issued

(* setup for one agent: a client without credential, whose identity is     *)
(* created; it keeps the token it is given.                                *)
SetUpAgent ==
  /\ position = 0 /\ step \in DOMAIN SetupOrder
  /\ LET x == SetupOrder[step]
     IN  /\ clients' = Append(clients, Client(x, Returned(0)))
         /\ sessions' = [sessions EXCEPT ![x] = Len(clients) + 1]
         /\ identities' = [identities EXCEPT ![x] = Returned(0)]
  /\ Serve(0) /\ step' = step + 1
  /\ UNCHANGED <<config, captured, position, failures, refused>>

(* The next scenario reads the sessions into local variables.              *)
NextScenario ==
  /\ ~Finished
  /\ step > (IF position = 0 THEN Len(SetupOrder) ELSE Len(Current))
  /\ position' = position + 1 /\ step' = 1 /\ captured' = sessions
  /\ UNCHANGED <<config, clients, sessions, identities, valid, issued, failures, refused>>

Accepted(i) == clients[i].token \in valid /\ ~clients[i].closed

(* A call through client i: when it is not accepted the scenario returns   *)
(* the error.                                                              *)
CallThrough(i) ==
  /\ refused' = (refused \/ ~Accepted(i))
  /\ step' = IF Accepted(i) THEN step + 1 ELSE Len(Current) + 1
  /\ UNCHANGED <<config, clients, sessions, identities, captured, valid, issued, position, failures>>

Call ==
  \/ Pending("use") /\ CallThrough(captured[Agent])
  \/ Pending("fresh") /\ CallThrough(sessions[Agent])

(* Client.Close: Disconnect.                                               *)
CloseSession ==
  /\ Pending("close")
  /\ clients' = [clients EXCEPT ![captured[Agent]].closed = TRUE]
  /\ step' = step + 1
  /\ UNCHANGED <<config, sessions, identities, captured, valid, issued, position, failures, refused>>

(* The part of a scenario that needs the agent to be away.                 *)
WhileOffline ==
  /\ Pending("offline") /\ step' = step + 1
  /\ UNCHANGED <<config, clients, sessions, identities, captured, valid, issued, position, failures,
                 refused>>

(* The end of reconnect: the client just made becomes the agent's session, *)
(* and the token its identity's.                                           *)
Adopt_SessionOnly(agent, token) ==
  sessions' = [sessions EXCEPT ![agent] = Len(clients) + 1] /\ UNCHANGED identities
Adopt_IdentityOnly(agent, token) ==
  identities' = [identities EXCEPT ![agent] = token] /\ UNCHANGED sessions

Adopt(agent, token) ==
  /\ sessions' = [sessions EXCEPT ![agent] = Len(clients) + 1]
  /\ identities' = [identities EXCEPT ![agent] = token]

(* reconnect: a new client with the token of the last identity; the client *)
(* keeps the token it gets back, and session and identity are replaced     *)
(* together.  The old client is not touched.                               *)
Reconnect ==
  /\ Pending("reconnect")
  /\ LET presented == identities[Agent]
     IN  IF presented \in valid
         THEN /\ clients' = Append(clients, Client(Agent, Returned(presented)))
              /\ Adopt(Agent, Returned(presented))
              /\ Serve(presented) /\ step' = step + 1 /\ UNCHANGED refused
         ELSE /\ clients' = Append(clients, Client(Agent, presented))
              /\ refused' = TRUE /\ step' = Len(Current) + 1
              /\ UNCHANGED <<sessions, identities, valid, issued>>
  /\ UNCHANGED <<config, captured, position, failures>>

(* transportScenario's client on a second transport, which presents the    *)
(* token without loading the identity.                                     *)
SecondTransport ==
  /\ Pending("second")
  /\ clients' = Append(clients, Client(Agent, identities[Agent]))
  /\ refused' = (refused \/ identities[Agent] \notin valid) /\ step' = step + 1
  /\ UNCHANGED <<config, sessions, identities, captured, valid, issued, position, failures>>

-----------------------------------------------------------------------------
(* Failures: the scenario returns the error and its script is over; a      *)
(* failure of setup ends the run.                                          *)

GiveUp ==
  /\ failures < MaxFailures /\ failures' = failures + 1
  /\ IF position = 0
     THEN position' = Len(Scenarios) + 1 /\ step' = 1
     ELSE step \in DOMAIN Current /\ step' = Len(Current) + 1 /\ UNCHANGED position
  /\ UNCHANGED <<config, captured, refused>>

StepFails ==
  /\ ~Finished /\ GiveUp
  /\ UNCHANGED <<clients, sessions, identities, valid, issued>>

(* Disconnect took effect and its answer was lost.                         *)
CloseAnswerLost ==
  /\ Pending("close") /\ GiveUp
  /\ clients' = [clients EXCEPT ![captured[Agent]].closed = TRUE]
  /\ UNCHANGED <<sessions, identities, valid, issued>>

(* The server loaded the identity, but the answer was lost or had another  *)
(* ID: the new client is dropped, open, and the harness keeps what it had. *)
LoadAnswerLost ==
  /\ Pending("reconnect") /\ identities[Agent] \in valid /\ GiveUp
  /\ clients' = Append(clients, Client(Agent, identities[Agent]))
  /\ Serve(identities[Agent])
  /\ UNCHANGED <<sessions, identities>>

Next ==
  \/ SetUpAgent \/ NextScenario \/ Call \/ CloseSession \/ WhileOffline \/ Reconnect
  \/ SecondTransport \/ StepFails \/ CloseAnswerLost \/ LoadAnswerLost

Spec == Init /\ [][Next]_vars

-----------------------------------------------------------------------------
(* Correctness. *)

Clients == [agent : Agents, token : Nat, closed : BOOLEAN]

(* A session, the identity recorded for its agent and the client's own     *)
(* token always belong together, whichever step of reconnect failed.       *)
SessionsMatchIdentities ==
  \A x \in Agents : sessions[x] # 0 =>
     clients[sessions[x]].agent = x /\ clients[sessions[x]].token = identities[x]

(* A server that accepts every valid credential refuses nothing until a    *)
(* step has failed for another reason: no scenario calls through a session *)
(* it has closed, or one whose credential a reconnect replaced.  Only the  *)
(* browser gate, the last of the table, reads through a session it closed. *)
NothingRefused == refused => failures > 0 \/ position >= Len(Scenarios)

(* As long as nothing failed, every scenario starts with all sessions open *)
(* and valid, so that it can be run alone or after any other.              *)
ScenariosLeaveSessionsOpen ==
  position \in DOMAIN Scenarios /\ step = 1 /\ failures = 0 =>
     \A x \in Agents : Accepted(sessions[x])

=============================================================================
