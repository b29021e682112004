--------------------------- MODULE SessionsProofs ---------------------------
(***************************************************************************)
(* Sessions, identities and clients belong together, and what no step made *)
(* fail is not refused: for every list of profiles, every policy of the    *)
(* server and any number of failing steps.                                 *)
(***************************************************************************)
EXTENDS Sessions, SequenceTheorems, TLAPS

(* The clients are a list of records, and sessions point into it.          *)
Recorded == \E A, T : clients \in Seq([agent : A, token : T, closed : BOOLEAN])
Pointing ==
  /\ sessions \in [Agents -> 0 .. Len(clients)]
  /\ DOMAIN identities = Agents
Inv == Recorded /\ Pointing /\ SessionsMatchIdentities

(* What a list holds after a client was added to it.                       *)
LEMMA Added ==
  ASSUME Recorded, NEW x, NEW t, clients' = Append(clients, Client(x, t))
  PROVE  /\ Recorded'
         /\ Len(clients') = Len(clients) + 1 /\ Len(clients) \in Nat
         /\ \A i \in 1 .. Len(clients) : clients'[i] = clients[i]
         /\ clients'[Len(clients) + 1] = Client(x, t)
<1>1. PICK A, T : clients \in Seq([agent : A, token : T, closed : BOOLEAN]) BY DEF Recorded
<1> DEFINE S == [agent : A, token : T, closed : BOOLEAN]
           B == A \cup {x}
           U == T \cup {t}
           R == [agent : B, token : U, closed : BOOLEAN]
<1>2. S \subseteq R OBVIOUS
<1> HIDE DEF R, S
<1>a. Len(clients) \in Nat /\ clients \in [1 .. Len(clients) -> S] BY <1>1, LenProperties DEF S
<1>3. clients \in Seq(R)
  <2>1. clients \in [1 .. Len(clients) -> R] BY <1>a, <1>2
  <2> QED BY <1>a, <2>1, SeqDef
<1>4. Client(x, t) \in R BY DEF Client, R
<1>5. /\ Append(clients, Client(x, t)) \in Seq(R)
      /\ Len(Append(clients, Client(x, t))) = Len(clients) + 1
      /\ \A i \in 1 .. Len(clients) : Append(clients, Client(x, t))[i] = clients[i]
      /\ Append(clients, Client(x, t))[Len(clients) + 1] = Client(x, t)
      /\ Len(clients) \in Nat
  BY <1>3, <1>4, AppendProperties, LenProperties
<1>6. Recorded' BY <1>5 DEF Recorded, R
<1> QED BY <1>5, <1>6

(* Closing a client changes neither whose it is nor its token.             *)
LEMMA Closing ==
  ASSUME Recorded, NEW k, clients' = [clients EXCEPT ![k].closed = TRUE]
  PROVE  /\ Recorded' /\ Len(clients') = Len(clients) /\ Len(clients) \in Nat
         /\ \A i \in 1 .. Len(clients) : /\ clients'[i].agent = clients[i].agent
                                         /\ clients'[i].token = clients[i].token
                                         /\ i # k => clients'[i] = clients[i]
<1>1. PICK A, T : clients \in Seq([agent : A, token : T, closed : BOOLEAN]) BY DEF Recorded
<1> DEFINE S == [agent : A, token : T, closed : BOOLEAN]
           n == Len(clients)
<1>2. n \in Nat /\ clients \in [1 .. n -> S] BY <1>1, LenProperties
<1>3. ASSUME NEW i \in 1 .. n
      PROVE  /\ clients'[i] \in S
             /\ clients'[i].agent = clients[i].agent /\ clients'[i].token = clients[i].token
             /\ i # k => clients'[i] = clients[i]
  <2>1. clients[i] \in S BY <1>2, <1>3
  <2>2. CASE i = k BY <2>1, <2>2, <1>2, <1>3
  <2>3. CASE i # k BY <2>1, <2>3, <1>2, <1>3
  <2> QED BY <2>2, <2>3
<1>4. clients' \in [1 .. n -> S] BY <1>2, <1>3
<1> HIDE DEF S
<1>5. clients' \in Seq(S) /\ Len(clients') = n BY <1>2, <1>4, SeqDef, LenProperties
<1>6. Recorded' BY <1>5 DEF Recorded, S
<1> QED BY <1>2, <1>3, <1>5, <1>6

LEMMA Kept ==
  ASSUME Inv, Recorded', Len(clients') >= Len(clients), Len(clients) \in Nat, Len(clients') \in Nat,
         \A i \in 1 .. Len(clients) : clients'[i].agent = clients[i].agent
                                      /\ clients'[i].token = clients[i].token,
         UNCHANGED <<sessions, identities>>
  PROVE  Inv'
<1>1. Pointing' BY DEF Inv, Pointing
<1>2. \A x \in Agents : sessions[x] # 0 => sessions[x] \in 1 .. Len(clients) BY DEF Inv, Pointing
<1>3. SessionsMatchIdentities' BY <1>2 DEF Inv, SessionsMatchIdentities
<1> QED BY <1>1, <1>3 DEF Inv

(* The client just added becomes the agent's session, and its token the    *)
(* identity's.                                                             *)
LEMMA Adopted ==
  ASSUME Inv, NEW x, NEW t, clients' = Append(clients, Client(x, t)), Adopt(x, t)
  PROVE  Inv'
<1>1. /\ Recorded' /\ Len(clients') = Len(clients) + 1 /\ Len(clients) \in Nat
      /\ \A i \in 1 .. Len(clients) : clients'[i] = clients[i]
      /\ clients'[Len(clients) + 1] = Client(x, t)
  BY Added DEF Inv
<1>2. /\ sessions \in [Agents -> 0 .. Len(clients)] /\ DOMAIN identities = Agents
      /\ \A y \in Agents : sessions[y] # 0 => clients[sessions[y]].agent = y
                                              /\ clients[sessions[y]].token = identities[y]
  BY DEF Inv, Pointing, SessionsMatchIdentities
<1>3. /\ sessions' = [sessions EXCEPT ![x] = Len(clients) + 1]
      /\ identities' = [identities EXCEPT ![x] = t]
  BY DEF Adopt
<1>4. \A y \in Agents : sessions'[y] = (IF y = x THEN Len(clients) + 1 ELSE sessions[y])
                        /\ identities'[y] = (IF y = x THEN t ELSE identities[y])
  BY <1>2, <1>3
<1>5. Pointing'
  <2>1. DOMAIN sessions' = Agents /\ DOMAIN identities' = Agents BY <1>2, <1>3
  <2>2. ASSUME NEW y \in Agents PROVE sessions'[y] \in 0 .. Len(clients')
    <3>1. sessions[y] \in 0 .. Len(clients) BY <1>2
    <3>2. 0 .. Len(clients) \subseteq 0 .. Len(clients') /\ Len(clients) + 1 \in 0 .. Len(clients')
      BY <1>1
    <3> QED BY <1>4, <3>1, <3>2
  <2>3. sessions' = [y \in Agents |-> sessions'[y]] BY <1>2, <1>3
  <2> QED BY <2>1, <2>2, <2>3 DEF Pointing
<1>6. ASSUME NEW y \in Agents, sessions'[y] # 0
      PROVE  clients'[sessions'[y]].agent = y /\ clients'[sessions'[y]].token = identities'[y]
  <2>1. CASE y = x BY <2>1, <1>1, <1>4 DEF Client
  <2>2. CASE y # x
    <3>1. sessions'[y] = sessions[y] /\ identities'[y] = identities[y] BY <2>2, <1>4
    <3>2. sessions[y] \in 1 .. Len(clients) BY <3>1, <1>1, <1>2, <1>6
    <3> QED BY <3>1, <3>2, <1>1, <1>2, <1>6
  <2> QED BY <2>1, <2>2
<1>7. SessionsMatchIdentities' BY <1>6 DEF SessionsMatchIdentities
<1> QED BY <1>1, <1>5, <1>7 DEF Inv

LEMMA InvHolds == Spec => []Inv
<1>1. Init => Inv
  <2> SUFFICES ASSUME Init PROVE Inv OBVIOUS
  <2>1. clients = << >> /\ sessions = NoneYet /\ identities = NoneYet BY DEF Init
  <2>2. Recorded BY <2>1 DEF Recorded
  <2>3. Pointing BY <2>1 DEF Pointing, NoneYet
  <2>4. SessionsMatchIdentities BY <2>1 DEF SessionsMatchIdentities, NoneYet
  <2> QED BY <2>2, <2>3, <2>4 DEF Inv
<1>2. Inv /\ [Next]_vars => Inv'
  <2> SUFFICES ASSUME Inv, [Next]_vars PROVE Inv' OBVIOUS
  <2>a. UNCHANGED <<clients, sessions, identities>> => Inv'
    BY DEF Inv, Recorded, Pointing, SessionsMatchIdentities
  <2>b. ASSUME NEW x, NEW t, clients' = Append(clients, Client(x, t)), UNCHANGED <<sessions, identities>>
        PROVE  Inv'
    <3>1. /\ Recorded' /\ Len(clients') = Len(clients) + 1 /\ Len(clients) \in Nat
          /\ \A i \in 1 .. Len(clients) : clients'[i] = clients[i]
      BY <2>b, Added DEF Inv
    <3> QED BY <2>b, <3>1, Kept
  <2>c. ASSUME NEW k, clients' = [clients EXCEPT ![k].closed = TRUE], UNCHANGED <<sessions, identities>>
        PROVE  Inv'
    <3>1. /\ Recorded' /\ Len(clients') = Len(clients) /\ Len(clients) \in Nat
          /\ \A i \in 1 .. Len(clients) : clients'[i].agent = clients[i].agent
                                          /\ clients'[i].token = clients[i].token
      BY <2>c, Closing DEF Inv
    <3> QED BY <2>c, <3>1, Kept
  <2>1. CASE SetUpAgent
    <3>1. PICK x : /\ clients' = Append(clients, Client(x, Returned(0)))
                   /\ Adopt(x, Returned(0))
      BY <2>1 DEF SetUpAgent, Adopt
    <3> QED BY <3>1, Adopted
  <2>2. CASE NextScenario BY <2>2, <2>a DEF NextScenario
  <2>3. CASE Call BY <2>3, <2>a DEF Call, CallThrough
  <2>4. CASE CloseSession BY <2>4, <2>c DEF CloseSession
  <2>5. CASE WhileOffline BY <2>5, <2>a DEF WhileOffline
  <2>6. CASE Reconnect
    <3> DEFINE p == identities[Agent]
    <3>1. \/ clients' = Append(clients, Client(Agent, Returned(p))) /\ Adopt(Agent, Returned(p))
          \/ clients' = Append(clients, Client(Agent, p)) /\ UNCHANGED <<sessions, identities>>
      BY <2>6 DEF Reconnect
    <3> QED BY <3>1, <2>b, Adopted
  <2>7. CASE SecondTransport BY <2>7, <2>b DEF SecondTransport
  <2>8. CASE StepFails BY <2>8, <2>a DEF StepFails
  <2>9. CASE CloseAnswerLost BY <2>9, <2>c DEF CloseAnswerLost
  <2>10. CASE LoadAnswerLost BY <2>10, <2>b DEF LoadAnswerLost
  <2>11. CASE UNCHANGED vars BY <2>11, <2>a DEF vars
  <2> QED BY <2>1, <2>2, <2>3, <2>4, <2>5, <2>6, <2>7, <2>8, <2>9, <2>10, <2>11 DEF Next
<1> QED BY <1>1, <1>2, PTL DEF Spec

(* Setup, the scenarios and every way in which one of their steps fails    *)
(* keep session, identity and client together: a reconnect that fails      *)
(* half way, or whose answer is lost, leaves all three as they were        *)
(* (benchmark.go:258-276).                                                 *)
THEOREM SessionsAgree == Spec => []SessionsMatchIdentities
<1>1. Inv => SessionsMatchIdentities BY DEF Inv
<1> QED BY <1>1, InvHolds, PTL

-----------------------------------------------------------------------------
(* The scripts.                                                            *)

LEMMA TableDomain == DOMAIN Scenarios = 1 .. 25 /\ Len(Scenarios) = 25
BY DEF Scenarios

LEMMA BrowserIsLast == \A k \in 1 .. 24 : Scenarios[k].name # "browser_human_ui"
BY DEF Scenarios, Entry

LEMMA AgentNames == Agents = {a, b, c, hu} /\ SetupOrder \in Seq(Agents) /\ DOMAIN SetupOrder = 1 .. 4
                    /\ SetupOrder[1] = a /\ SetupOrder[2] = b /\ SetupOrder[3] = c /\ SetupOrder[4] = hu
<1>1. DOMAIN SetupOrder = 1 .. 4 /\ SetupOrder[1] = a /\ SetupOrder[2] = b /\ SetupOrder[3] = c
      /\ SetupOrder[4] = hu /\ Len(SetupOrder) = 4
  BY DEF SetupOrder
<1>2. Agents = {SetupOrder[i] : i \in DOMAIN SetupOrder}
  BY DEF Agents, ToSet
<1>3. Agents = {a, b, c, hu}
  BY <1>1, <1>2
<1> QED
  BY <1>1, <1>3 DEF SetupOrder

Is(e, op, x) == e.op = op /\ e.agent = x
Gone(e, x) == Is(e, "close", x) \/ Is(e, "reconnect", x)

(* A script calls through no session it has closed or replaced, and none   *)
(* that it closed before it reconnects; and it reconnects all it closed.   *)
Disciplined(s) ==
  /\ Len(s) \in Nat /\ DOMAIN s = 1 .. Len(s)
  /\ \A i \in DOMAIN s : s[i].agent \in Agents
  /\ \A i, k \in DOMAIN s : s[i].op = "use" /\ k < i => ~Gone(s[k], s[i].agent)
  /\ \A i, k \in DOMAIN s : s[i].op = "fresh" /\ k < i /\ Is(s[k], "close", s[i].agent) =>
       \E j \in DOMAIN s : k < j /\ j < i /\ Is(s[j], "reconnect", s[i].agent)
  /\ \A k \in DOMAIN s : s[k].op = "close" =>
       \E j \in DOMAIN s : k < j /\ Is(s[j], "reconnect", s[k].agent)

LEMMA ScriptsDisciplined ==
  ASSUME NEW name, name # "browser_human_ui"
  PROVE  Disciplined(Script(name))
<1> USE AgentNames
<1>1. CASE name = "identity_lifecycle"
  BY <1>1 DEF Disciplined, Is, Gone, Script, Restart, Absence, Do, Use, a, b, c, hu
<1>2. CASE name = "dm_round_trip_resume"
  <2> DEFINE s == Script(name)
  <2>1. Len(s) = 6 /\ DOMAIN s = 1 .. 6
    BY <1>2 DEF Script, Restart, Absence, Do, Use
  <2>2. /\ s[1].op = "use" /\ s[1].agent = a
        /\ s[2].op = "use" /\ s[2].agent = b
        /\ s[3].op = "close" /\ s[3].agent = a
        /\ s[4].op = "reconnect" /\ s[4].agent = a
        /\ s[5].op = "reconnect" /\ s[5].agent = b
        /\ s[6].op = "fresh" /\ s[6].agent = b
    BY <1>2 DEF Script, Restart, Absence, Do, Use
  <2> HIDE DEF s
  <2>3. Disciplined(s)
    BY <2>1, <2>2 DEF Disciplined, Is, Gone, a, b, c, hu
  <2> QED
    BY <2>3 DEF s
<1>3. CASE name = "post_nested_thread"
  <2> DEFINE s == Script(name)
  <2>1. Len(s) = 6 /\ DOMAIN s = 1 .. 6
    BY <1>3 DEF Script, Restart, Absence, Do, Use
  <2>2. /\ s[1].op = "use" /\ s[1].agent = a
        /\ s[2].op = "use" /\ s[2].agent = b
        /\ s[3].op = "use" /\ s[3].agent = c
        /\ s[4].op = "close" /\ s[4].agent = b
        /\ s[5].op = "reconnect" /\ s[5].agent = b
        /\ s[6].op = "fresh" /\ s[6].agent = b
    BY <1>3 DEF Script, Restart, Absence, Do, Use
  <2> HIDE DEF s
  <2>3. Disciplined(s)
    BY <2>1, <2>2 DEF Disciplined, Is, Gone, a, b, c, hu
  <2> QED
    BY <2>3 DEF s
<1>4. CASE name = "human_agent_parity"
  BY <1>4 DEF Disciplined, Is, Gone, Script, Restart, Absence, Do, Use, a, b, c, hu
<1>5. CASE name = "disconnect_reconnect_load"
  <2> DEFINE s == Script(name)
  <2>1. Len(s) = 7 /\ DOMAIN s = 1 .. 7
    BY <1>5 DEF Script, Restart, Absence, Do, Use
  <2>2. /\ s[1].op = "use" /\ s[1].agent = a
        /\ s[2].op = "use" /\ s[2].agent = b
        /\ s[3].op = "close" /\ s[3].agent = b
        /\ s[4].op = "offline" /\ s[4].agent = b
        /\ s[5].op = "use" /\ s[5].agent = a
        /\ s[6].op = "reconnect" /\ s[6].agent = b
        /\ s[7].op = "fresh" /\ s[7].agent = b
    BY <1>5 DEF Script, Restart, Absence, Do, Use
  <2> HIDE DEF s
  <2>3. Disciplined(s)
    BY <2>1, <2>2 DEF Disciplined, Is, Gone, a, b, c, hu
  <2> QED
    BY <2>3 DEF s
<1>6. CASE name = "presence_notifications"
  <2> DEFINE s == Script(name)
  <2>1. Len(s) = 6 /\ DOMAIN s = 1 .. 6
    BY <1>6 DEF Script, Restart, Absence, Do, Use
  <2>2. /\ s[1].op = "use" /\ s[1].agent = a
        /\ s[2].op = "close" /\ s[2].agent = b
        /\ s[3].op = "offline" /\ s[3].agent = b
        /\ s[4].op = "use" /\ s[4].agent = a
        /\ s[5].op = "reconnect" /\ s[5].agent = b
        /\ s[6].op = "use" /\ s[6].agent = a
    BY <1>6 DEF Script, Restart, Absence, Do, Use
  <2> HIDE DEF s
  <2>3. Disciplined(s)
    BY <2>1, <2>2 DEF Disciplined, Is, Gone, a, b, c, hu
  <2> QED
    BY <2>3 DEF s
<1>7. CASE name = "notification_durability_matrix"
  BY <1>7 DEF Disciplined, Is, Gone, Script, Restart, Absence, Do, Use, a, b, c, hu
<1>8. CASE name = "transport_interoperability"
  BY <1>8 DEF Disciplined, Is, Gone, Script, Restart, Absence, Do, Use, a, b, c, hu
<1>9. CASE name = "agent_efficiency_jobs"
  BY <1>9 DEF Disciplined, Is, Gone, Script, Restart, Absence, Do, Use, a, b, c, hu
<1>10. ASSUME NEW s, \E agents \in {<<a, b>>, <<a, b, c>>, <<a>>, <<c, b, hu>>, <<a, b, c, hu>>} : s = Use(agents)
       PROVE  Disciplined(s)
  <2>1. PICK agents \in {<<a, b>>, <<a, b, c>>, <<a>>, <<c, b, hu>>, <<a, b, c, hu>>} : s = Use(agents)
    BY <1>10
  <2>2. Len(agents) \in Nat /\ DOMAIN agents = 1 .. Len(agents) /\ \A i \in DOMAIN agents : agents[i] \in Agents
    OBVIOUS
  <2>3. DOMAIN s = 1 .. Len(agents) /\ Len(s) = Len(agents)
    BY <2>1, <2>2, LenProperties DEF Use
  <2>4. \A i \in DOMAIN s : s[i].op = "use" /\ s[i].agent = agents[i]
    BY <2>1, <2>2, <2>3 DEF Use
  <2> QED
    BY <2>2, <2>3, <2>4 DEF Disciplined, Is, Gone
<1> QED
  BY <1>1, <1>2, <1>3, <1>4, <1>5, <1>6, <1>7, <1>8, <1>9, <1>10 DEF Script

-----------------------------------------------------------------------------
(* Where a scenario is in its script.                                      *)

LEMMA CurrentDisciplined ==
  ASSUME position \in 1 .. 24
  PROVE  Disciplined(Current)
<1>1. Disciplined(<< >>)
  BY DEF Disciplined
<1> QED
  BY <1>1, BrowserIsLast, ScriptsDisciplined DEF Current

(* The scenario in progress has left the agent away; it has replaced or    *)
(* closed the session it read at its start.                                *)
Away(x) ==
  \E k \in DOMAIN Current : /\ k < step /\ Is(Current[k], "close", x)
                            /\ \A j \in DOMAIN Current : k < j /\ j < step => ~Is(Current[j], "reconnect", x)
Changed(x) == \E k \in DOMAIN Current : k < step /\ Gone(Current[k], x)

(* One step further in the script.                                         *)
LEMMA Onwards ==
  ASSUME position \in 1 .. 24, step \in DOMAIN Current, step' = step + 1,
         UNCHANGED <<config, position>>, NEW x
  PROVE  /\ Current' = Current
         /\ ~Away(x)' => ~Is(Current[step], "close", x) /\ (~Away(x) \/ Is(Current[step], "reconnect", x))
         /\ ~Changed(x)' => ~Gone(Current[step], x) /\ ~Changed(x)
<1>1. Current' = Current
  BY DEF Current
<1>2. step \in Nat /\ DOMAIN Current \subseteq Nat
  BY CurrentDisciplined DEF Disciplined
<1>3. \A k \in DOMAIN Current : k < step' <=> k < step \/ k = step
  BY <1>2
<1>4. ~Changed(x)' => ~Gone(Current[step], x) /\ ~Changed(x)
  BY <1>1, <1>3 DEF Changed
<1>5. Is(Current[step], "close", x) => Away(x)'
  <2>1. \A j \in DOMAIN Current : ~ (step < j /\ j < step')
    BY <1>2
  <2> QED
    BY <1>1, <1>3, <2>1 DEF Away
<1>6. Away(x) /\ ~Is(Current[step], "reconnect", x) => Away(x)'
  BY <1>1, <1>3 DEF Away
<1> QED
  BY <1>1, <1>4, <1>5, <1>6

LEMMA FromTheStart ==
  ASSUME NEW x, step = 1, position \in 1 .. 25
  PROVE  position # 25 => ~Away(x) /\ ~Changed(x)
<1>1. position # 25 => DOMAIN Current \subseteq Nat /\ \A k \in DOMAIN Current : ~ (k < 1)
  BY CurrentDisciplined DEF Disciplined
<1> QED
  BY <1>1 DEF Away, Changed

LEMMA ToTheEnd ==
  ASSUME NEW x, position \in 1 .. 24, step > Len(Current), step \in Nat
  PROVE  ~Away(x)
<1>1. Disciplined(Current)
  BY CurrentDisciplined
<1>2. \A j \in DOMAIN Current : j < step
  BY <1>1 DEF Disciplined
<1> QED
  BY <1>1, <1>2 DEF Away, Disciplined, Is

LEMMA UsedInTime ==
  ASSUME position \in 1 .. 24, step \in DOMAIN Current
  PROVE  /\ Current[step].op = "use" => ~Changed(Agent) /\ ~Away(Agent)
         /\ Current[step].op = "fresh" => ~Away(Agent)
         /\ Agent \in Agents
<1>1. Disciplined(Current)
  BY CurrentDisciplined
<1> QED
  BY <1>1 DEF Disciplined, Changed, Away, Agent, Gone, Is

-----------------------------------------------------------------------------
(* Every agent has a token of its own, valid as long as nothing failed.    *)
Tokens ==
  /\ issued \in Nat /\ failures \in Nat
  /\ \A x \in Agents : identities[x] \in 0 .. issued /\ (sessions[x] # 0 <=> identities[x] # 0)
  /\ \A x, y \in Agents : identities[x] = identities[y] /\ identities[x] # 0 => x = y
  /\ failures = 0 => \A x \in Agents : identities[x] # 0 => identities[x] \in valid

(* An agent adopts the token it is given.                                  *)
LEMMA TokensAdopted ==
  ASSUME Inv, Tokens, NEW x \in Agents, NEW presented \in Nat,
         presented \in {0, identities[x]},
         Serve(presented), Adopt(x, Returned(presented)), UNCHANGED failures
  PROVE  Tokens'
<1>1. /\ DOMAIN identities = Agents /\ DOMAIN sessions = Agents /\ Len(clients) \in Nat
      /\ identities' = [identities EXCEPT ![x] = Returned(presented)]
      /\ sessions' = [sessions EXCEPT ![x] = Len(clients) + 1]
  <2>1. Len(clients) \in Nat
    BY LenProperties DEF Inv, Recorded
  <2> QED
    BY <2>1 DEF Inv, Pointing, Adopt
<1>2. /\ \A y \in Agents : y # x => identities'[y] = identities[y] /\ sessions'[y] = sessions[y]
      /\ identities'[x] = Returned(presented) /\ sessions'[x] = Len(clients) + 1
  BY <1>1
<1>3. /\ Returned(presented) \in 1 .. issued' /\ issued' \in Nat /\ issued <= issued'
      /\ \A y \in Agents : y # x => identities[y] # Returned(presented)
  <2>1. issued \in Nat /\ \A y \in Agents : identities[y] \in 0 .. issued
    BY DEF Tokens
  <2>2. CASE presented # 0 /\ config.policy = "same"
    <3>1. Returned(presented) = presented /\ presented = identities[x] /\ presented <= issued
      BY <2>1, <2>2 DEF Returned
    <3>2. issued' = issued
      BY <2>1, <3>1 DEF Serve
    <3> QED
      BY <2>1, <2>2, <3>1, <3>2 DEF Tokens
  <2>3. CASE ~(presented # 0 /\ config.policy = "same")
    <3>1. Returned(presented) = issued + 1
      BY <2>3 DEF Returned
    <3>2. issued' = issued + 1
      BY <2>1, <3>1 DEF Serve
    <3> QED
      BY <2>1, <3>1, <3>2
  <2> QED
    BY <2>2, <2>3
<1>4. failures = 0 => \A y \in Agents : identities'[y] # 0 => identities'[y] \in valid'
  <2>1. /\ Returned(presented) \in valid'
        /\ \A t \in valid : t # presented => t \in valid'
    BY DEF Serve, Accepts
  <2>2. ASSUME failures = 0, NEW y \in Agents, y # x, identities[y] # 0 PROVE identities[y] \in valid'
    <3>1. identities[y] \in valid /\ identities[y] # presented
      BY <2>2 DEF Tokens
    <3> QED
      BY <2>1, <3>1
  <2> QED
    BY <1>2, <2>1, <2>2
<1>5. \A y \in Agents : identities'[y] \in 0 .. issued' /\ (sessions'[y] # 0 <=> identities'[y] # 0)
  <2>1. \A y \in Agents : y # x => identities[y] \in 0 .. issued'
    BY <1>3 DEF Tokens
  <2>2. Len(clients) + 1 # 0 /\ Returned(presented) # 0
    BY <1>1, <1>3
  <2> QED
    BY <1>2, <1>3, <2>1, <2>2 DEF Tokens
<1>6. \A y, z \in Agents : identities'[y] = identities'[z] /\ identities'[y] # 0 => y = z
  BY <1>2, <1>3 DEF Tokens
<1> QED
  BY <1>3, <1>4, <1>5, <1>6 DEF Tokens

-----------------------------------------------------------------------------
(* The sessions a scenario finds.                                          *)

(* What the scenario in progress may rely on about an agent's sessions.    *)
InOrder(x) ==
  /\ captured[x] \in 1 .. Len(clients) /\ clients[captured[x]].agent = x
  /\ ~Changed(x) => captured[x] = sessions[x]
  /\ ~Away(x) => ~clients[sessions[x]].closed

(* Up to the browser gate, the last scenario, and at its start.            *)
Opened == \A x \in Agents : sessions[x] # 0 => ~clients[sessions[x]].closed
Orderly == position \in 1 .. 24 /\ failures = 0
Ready ==
  /\ position \in Nat
  /\ position = 0 => /\ step \in Nat /\ Opened
                     /\ \A k \in DOMAIN SetupOrder : k < step => sessions[SetupOrder[k]] # 0
  /\ position # 0 /\ failures = 0 => \A x \in Agents : sessions[x] # 0
  /\ Orderly => step \in Nat \ {0} /\ \A x \in Agents : InOrder(x)
  /\ position = 25 /\ step = 1 /\ failures = 0 => Opened
  /\ refused => failures > 0 \/ position >= 25

LEMMA SessionsKnown ==
  ASSUME Inv
  PROVE  /\ Len(clients) \in Nat
         /\ \A x \in Agents : sessions[x] # 0 => /\ sessions[x] \in 1 .. Len(clients)
                                                 /\ clients[sessions[x]].agent = x
                                                 /\ clients[sessions[x]].token = identities[x]
<1>1. Len(clients) \in Nat
  BY LenProperties DEF Inv, Recorded
<1> QED
  BY <1>1 DEF Inv, Pointing, SessionsMatchIdentities

(* A step of a scenario that does not reconnect.                           *)
LEMMA GoesOn ==
  ASSUME Inv, Ready, Orderly, step \in DOMAIN Current, step' = step + 1,
         UNCHANGED <<config, position, captured, sessions>>,
         Current[step].op # "reconnect",
         Len(clients) <= Len(clients'), Len(clients') \in Nat,
         \A i \in 1 .. Len(clients) :
           /\ clients'[i].agent = clients[i].agent
           /\ (Current[step].op = "close" /\ i = captured[Agent]) \/ clients'[i].closed = clients[i].closed,
         NEW x \in Agents
  PROVE  InOrder(x)'
<1>1. /\ Len(clients) \in Nat /\ sessions[x] \in 1 .. Len(clients) /\ clients[sessions[x]].agent = x
  BY SessionsKnown DEF Ready, Orderly
<1>2. InOrder(x) /\ Agent \in Agents /\ InOrder(Agent)
  BY UsedInTime DEF Ready, Orderly
<1>3. /\ ~Away(x)' => ~Is(Current[step], "close", x) /\ ~Away(x)
      /\ ~Changed(x)' => ~Changed(x)
  BY Onwards DEF Orderly, Is
<1>4. ~Away(x)' => ~clients'[sessions[x]].closed
  <2> SUFFICES ASSUME ~Away(x)' PROVE ~clients'[sessions[x]].closed
    OBVIOUS
  <2>1. ~clients[sessions[x]].closed
    BY <1>2, <1>3 DEF InOrder
  <2>2. CASE Current[step].op = "close"
    <3>1. Agent # x
      BY <1>3, <2>2 DEF Is, Agent
    <3>2. sessions[x] # captured[Agent]
      BY <1>1, <1>2, <3>1 DEF InOrder
    <3> QED
      BY <1>1, <2>1, <3>2
  <2>3. CASE Current[step].op # "close"
    BY <1>1, <2>1, <2>3
  <2> QED
    BY <2>2, <2>3
<1>5. captured[x] \in 1 .. Len(clients') /\ clients'[captured[x]].agent = x
  BY <1>1, <1>2 DEF InOrder
<1> QED
  BY <1>2, <1>3, <1>4, <1>5 DEF InOrder

(* A step that reconnects an agent.                                        *)
LEMMA ComesBack ==
  ASSUME Inv, Ready, Orderly, step \in DOMAIN Current, step' = step + 1,
         UNCHANGED <<config, position, captured>>, Current[step].op = "reconnect",
         NEW t, clients' = Append(clients, Client(Agent, t)), Adopt(Agent, t),
         NEW x \in Agents
  PROVE  InOrder(x)'
<1>1. /\ Len(clients) \in Nat /\ sessions[x] \in 1 .. Len(clients)
  BY SessionsKnown DEF Ready, Orderly
<1>2. InOrder(x) /\ Agent \in Agents
  BY UsedInTime DEF Ready, Orderly
<1>3. /\ Len(clients') = Len(clients) + 1
      /\ \A i \in 1 .. Len(clients) : clients'[i] = clients[i]
      /\ clients'[Len(clients) + 1] = Client(Agent, t)
  BY Added DEF Inv
<1>4. /\ ~Away(x)' => ~Away(x) \/ Is(Current[step], "reconnect", x)
      /\ ~Changed(x)' => ~Gone(Current[step], x) /\ ~Changed(x)
  BY Onwards DEF Orderly
<1>5. sessions'[x] = IF x = Agent THEN Len(clients) + 1 ELSE sessions[x]
  BY DEF Adopt, Inv, Pointing
<1>6. captured'[x] \in 1 .. Len(clients') /\ clients'[captured'[x]].agent = x
  BY <1>1, <1>2, <1>3 DEF InOrder
<1>7. CASE x = Agent
  <2>1. ~clients'[sessions'[x]].closed
    BY <1>3, <1>5, <1>7 DEF Client
  <2>2. Gone(Current[step], x)
    BY <1>7 DEF Gone, Is, Agent
  <2> QED
    BY <1>4, <1>6, <2>1, <2>2 DEF InOrder
<1>8. CASE x # Agent
  <2>1. sessions'[x] = sessions[x] /\ clients'[sessions[x]] = clients[sessions[x]]
    BY <1>1, <1>3, <1>5, <1>8
  <2>2. ~Is(Current[step], "reconnect", x)
    BY <1>8 DEF Is, Agent
  <2> QED
    BY <1>2, <1>4, <1>6, <2>1, <2>2 DEF InOrder
<1> QED
  BY <1>7, <1>8

(* The next scenario finds all sessions open.                              *)
LEMMA HandedOn ==
  ASSUME Inv, Ready, NextScenario
  PROVE  Ready'
<1>1. /\ position \in Nat /\ position' = position + 1 /\ step' = 1 /\ captured' = sessions
      /\ position <= 25
      /\ UNCHANGED <<clients, sessions, failures, refused, config>>
  BY TableDomain DEF NextScenario, Ready, Finished
<1>2. failures = 0 => \A x \in Agents : sessions[x] # 0
  <2>1. CASE position = 0
    <3>1. \A k \in 1 .. 4 : k < step
      <4>1. step \in Nat /\ step > Len(SetupOrder) /\ Len(SetupOrder) = 4
        BY <2>1 DEF NextScenario, Ready, SetupOrder
      <4> QED
        BY <4>1
    <3> QED
      BY <2>1, <3>1, AgentNames DEF Ready
  <2> QED
    BY <1>1, <2>1 DEF Ready
<1>3. failures = 0 /\ position <= 24 => Opened
  <2>1. CASE position = 0
    BY <2>1 DEF Ready
  <2>2. CASE position \in 1 .. 24 /\ failures = 0
    <3>1. step > Len(Current) /\ step \in Nat
      <4>1. position # 0
        BY <2>2
      <4>2. step > Len(Current)
        BY <4>1 DEF NextScenario
      <4> QED
        BY <2>2, <4>2 DEF Ready, Orderly
    <3> QED
      BY <2>2, <3>1, ToTheEnd DEF Ready, Orderly, InOrder, Opened
  <2> QED
    BY <1>1, <2>1, <2>2
<1>4. Opened' <=> Opened
  BY <1>1 DEF Opened
<1>5. Orderly' => \A x \in Agents : InOrder(x)'
  <2> SUFFICES ASSUME Orderly', NEW x \in Agents PROVE InOrder(x)'
    OBVIOUS
  <2>1. failures = 0 /\ position <= 24
    BY <1>1 DEF Orderly
  <2>2. sessions[x] \in 1 .. Len(clients) /\ clients[sessions[x]].agent = x /\ ~clients[sessions[x]].closed
    BY <1>2, <1>3, <2>1, SessionsKnown DEF Opened
  <2> QED
    BY <1>1, <2>2 DEF InOrder
<1>6. position' # 0
  BY <1>1
<1>7. refused' => failures' > 0 \/ position' >= 25
  BY <1>1 DEF Ready
<1>8. position' = 25 /\ failures' = 0 => Opened'
  BY <1>1, <1>3, <1>4
<1>9. position' \in Nat /\ step' \in Nat \ {0}
  BY <1>1
<1> QED
  BY <1>1, <1>2, <1>5, <1>6, <1>7, <1>8, <1>9 DEF Ready

(* The browser gate's script.                                              *)
LEMMA GateScript ==
  ASSUME position = 25, step \in DOMAIN Current
  PROVE  step + 1 # 1 /\ Len(Current) + 1 # 1 /\ Agent \in Agents
<1> DEFINE s == Script("browser_human_ui")
<1>1. DOMAIN s = 1 .. 5 /\ Len(s) = 5 /\ \A i \in 1 .. 5 : s[i].agent \in {a, hu}
  BY DEF Script, Use, Do
<1>2. Scenarios[25].name = "browser_human_ui"
  BY DEF Scenarios, Entry
<1> HIDE DEF s
<1>3. Current = s \/ Current = << >>
  BY <1>2 DEF Current, s
<1> QED
  BY <1>1, <1>3, AgentNames DEF Agent

LEMMA AgentKnown ==
  ASSUME NEW op, Pending(op)
  PROVE  /\ Agent \in Agents /\ position \in DOMAIN Scenarios /\ position \in 1 .. 25
         /\ step \in DOMAIN Current /\ Current[step].op = op
<1>1. position \in 1 .. 25
  BY TableDomain DEF Pending
<1>2. CASE position \in 1 .. 24
  BY <1>2, UsedInTime DEF Pending
<1>3. CASE position = 25
  BY <1>3, GateScript DEF Pending
<1> QED
  BY <1>1, <1>2, <1>3 DEF Pending

LEMMA SetUpReady ==
  ASSUME Inv, Tokens, Ready, SetUpAgent
  PROVE  Tokens' /\ Ready'
<1> DEFINE x == SetupOrder[step]
<1>1. /\ position = 0 /\ step \in 1 .. 4 /\ x \in Agents
      /\ clients' = Append(clients, Client(x, Returned(0))) /\ Adopt(x, Returned(0))
      /\ Serve(0) /\ step' = step + 1 /\ UNCHANGED <<position, failures, refused>>
  BY AgentNames DEF SetUpAgent, Adopt
<1>2. /\ Len(clients) \in Nat
      /\ \A i \in 1 .. Len(clients) : clients'[i] = clients[i]
      /\ clients'[Len(clients) + 1] = Client(x, Returned(0))
  BY <1>1, Added DEF Inv
<1>3. \A y \in Agents : sessions'[y] = IF y = x THEN Len(clients) + 1 ELSE sessions[y]
  BY <1>1 DEF Adopt, Inv, Pointing
<1>4. Tokens'
  <2>1. 0 \in Nat
    OBVIOUS
  <2> QED
    BY <1>1, <2>1, TokensAdopted
<1>5. Opened'
  <2>1. ASSUME NEW y \in Agents, sessions'[y] # 0 PROVE ~clients'[sessions'[y]].closed
    <3>1. CASE y = x
      BY <1>2, <1>3, <3>1 DEF Client
    <3>2. CASE y # x
      <4>1. sessions'[y] = sessions[y] /\ sessions[y] # 0
        BY <1>3, <2>1, <3>2
      <4>2. sessions[y] \in 1 .. Len(clients) /\ ~clients[sessions[y]].closed
        BY <1>1, <4>1, SessionsKnown DEF Ready, Opened
      <4> QED
        BY <1>2, <4>1, <4>2
    <3> QED
      BY <3>1, <3>2
  <2> QED
    BY <2>1 DEF Opened
<1>6. \A k \in DOMAIN SetupOrder : k < step' => sessions'[SetupOrder[k]] # 0
  <2> SUFFICES ASSUME NEW k \in 1 .. 4, k < step' PROVE sessions'[SetupOrder[k]] # 0
    BY AgentNames
  <2>1. SetupOrder[k] \in Agents /\ (k < step \/ k = step)
    BY <1>1, AgentNames
  <2>2. k < step => sessions[SetupOrder[k]] # 0
    BY <1>1, AgentNames DEF Ready
  <2> QED
    BY <1>2, <1>3, <2>1, <2>2
<1>7. position' = 0 /\ step' \in Nat /\ ~(position' \in 1 .. 24) /\ position' # 25
  BY <1>1
<1>8. refused' => failures' > 0 \/ position' >= 25
  BY <1>1 DEF Ready
<1> QED
  BY <1>4, <1>5, <1>6, <1>7, <1>8 DEF Ready, Orderly

(* Nothing is claimed once a step has failed, or in the browser gate.      *)
LEMMA NoClaim ==
  ASSUME Ready, position \in DOMAIN Scenarios, step \in DOMAIN Current, ~Orderly,
         step' \in {step + 1, Len(Current) + 1},
         UNCHANGED <<position, failures>>, failures \in Nat,
         \A x \in Agents : sessions[x] # 0 => sessions'[x] # 0
  PROVE  Ready'
<1>1. position \in 1 .. 25
  BY TableDomain
<1>2. failures > 0 \/ position = 25
  BY <1>1 DEF Orderly
<1>3. position = 25 => step' # 1
  BY GateScript
<1>4. failures' = 0 => \A x \in Agents : sessions'[x] # 0
  BY <1>1 DEF Ready
<1>5. position' \in Nat /\ position' # 0 /\ ~Orderly' /\ (failures' > 0 \/ position' >= 25)
  BY <1>1, <1>2 DEF Orderly
<1>6. ~(position' = 25 /\ step' = 1 /\ failures' = 0)
  BY <1>3
<1> QED
  BY <1>4, <1>5, <1>6 DEF Ready

(* A step of a scenario before the browser gate that is not refused.       *)
LEMMA StillReady ==
  ASSUME Ready, Orderly, step \in DOMAIN Current, step' = step + 1,
         UNCHANGED <<position, failures>>, refused' => refused,
         \A x \in Agents : InOrder(x)',
         \A x \in Agents : sessions[x] # 0 => sessions'[x] # 0
  PROVE  Ready'
<1>1. position' \in Nat /\ position' # 0 /\ position' # 25 /\ step' \in Nat \ {0}
  BY DEF Orderly, Ready
<1>2. \A x \in Agents : sessions'[x] # 0
  BY <1>1 DEF Ready, Orderly
<1>3. refused' => failures' > 0 \/ position' >= 25
  BY DEF Ready
<1> QED
  BY <1>1, <1>2, <1>3 DEF Ready

(* A failing step.                                                         *)
LEMMA FailedReady ==
  ASSUME Tokens, Ready, GiveUp
  PROVE  Ready'
<1>1. failures' > 0 /\ failures' # 0
  BY DEF GiveUp, Tokens
<1>2. position' \in Nat /\ position' # 0
  <2>1. CASE position = 0
    BY <2>1, TableDomain DEF GiveUp
  <2>2. CASE position # 0
    BY <2>2 DEF GiveUp, Ready
  <2> QED
    BY <2>1, <2>2
<1> QED
  BY <1>1, <1>2 DEF Ready, Orderly

(* In a scenario before the browser gate every call is accepted.           *)
LEMMA CallsAccepted ==
  ASSUME Inv, Tokens, Ready, Orderly, step \in DOMAIN Current
  PROVE  /\ Current[step].op = "use" => Accepted(captured[Agent])
         /\ Current[step].op = "fresh" => Accepted(sessions[Agent])
         /\ identities[Agent] \in valid /\ identities[Agent] # 0 /\ Agent \in Agents
<1>1. Agent \in Agents
  BY UsedInTime DEF Orderly
<1>2. sessions[Agent] # 0 /\ clients[sessions[Agent]].token = identities[Agent]
  BY <1>1, SessionsKnown DEF Ready, Orderly
<1>3. identities[Agent] \in valid /\ identities[Agent] # 0
  BY <1>1, <1>2 DEF Tokens, Orderly
<1>4. InOrder(Agent)
  BY <1>1 DEF Ready
<1>5. Current[step].op = "use" \/ Current[step].op = "fresh" => Accepted(sessions[Agent])
  BY <1>2, <1>3, <1>4, UsedInTime DEF Accepted, InOrder, Orderly
<1>6. Current[step].op = "use" => captured[Agent] = sessions[Agent]
  BY <1>4, UsedInTime DEF InOrder, Orderly
<1> QED
  BY <1>1, <1>3, <1>5, <1>6

LEMMA TokensStay ==
  ASSUME Tokens, UNCHANGED <<sessions, identities>>, issued' \in Nat, issued <= issued', failures' \in Nat,
         failures' # 0 \/ UNCHANGED <<valid, failures>>
  PROVE  Tokens'
BY DEF Tokens

(* The client k is closed, or none is, or one is added.                    *)
LEMMA StepReady ==
  ASSUME Inv, Ready, NEW op, Pending(op), op # "reconnect",
         UNCHANGED <<config, position, captured, sessions, failures>>, failures \in Nat,
         step' \in {step + 1, Len(Current) + 1},
         Orderly => step' = step + 1 /\ (refused' => refused),
         \/ UNCHANGED clients
         \/ op = "close" /\ clients' = [clients EXCEPT ![captured[Agent]].closed = TRUE]
         \/ \E x, t : clients' = Append(clients, Client(x, t))
  PROVE  Ready'
<1>1. Agent \in Agents /\ position \in DOMAIN Scenarios /\ step \in DOMAIN Current /\ Current[step].op = op
  BY AgentKnown
<1>2. CASE ~Orderly
  BY <1>1, <1>2, NoClaim
<1>3. CASE Orderly
  <2>1. /\ Len(clients) <= Len(clients') /\ Len(clients') \in Nat
        /\ \A i \in 1 .. Len(clients) :
             /\ clients'[i].agent = clients[i].agent
             /\ (Current[step].op = "close" /\ i = captured[Agent]) \/ clients'[i].closed = clients[i].closed
    <3>1. Recorded /\ Len(clients) \in Nat
      BY SessionsKnown DEF Inv
    <3>2. CASE UNCHANGED clients
      BY <3>1, <3>2
    <3>3. CASE op = "close" /\ clients' = [clients EXCEPT ![captured[Agent]].closed = TRUE]
      <4>1. /\ Len(clients') = Len(clients)
            /\ \A i \in 1 .. Len(clients) : /\ clients'[i].agent = clients[i].agent
                                            /\ i # captured[Agent] => clients'[i] = clients[i]
        BY <3>1, <3>3, Closing
      <4>2. Current[step].op = "close"
        BY <1>1, <3>3
      <4>3. Len(clients) <= Len(clients') /\ Len(clients') \in Nat
        BY <3>1, <4>1
      <4>4. ASSUME NEW i \in 1 .. Len(clients), i # captured[Agent]
            PROVE  clients'[i].closed = clients[i].closed
        BY <4>1, <4>4
      <4> QED
        BY <4>1, <4>2, <4>3, <4>4
    <3>4. CASE \E x, t : clients' = Append(clients, Client(x, t))
      <4>1. PICK x, t : clients' = Append(clients, Client(x, t))
        BY <3>4
      <4>2. Len(clients') = Len(clients) + 1 /\ \A i \in 1 .. Len(clients) : clients'[i] = clients[i]
        BY <3>1, <4>1, Added
      <4> QED
        BY <3>1, <4>2
    <3> QED
      BY <3>2, <3>3, <3>4
  <2>2. \A x \in Agents : InOrder(x)'
    BY <1>1, <1>3, <2>1, GoesOn
  <2> QED
    BY <1>1, <1>3, <2>2, StillReady
<1> QED
  BY <1>2, <1>3

LEMMA CallReady ==
  ASSUME Inv, Tokens, Ready, Call
  PROVE  Ready'
<1>1. PICK op \in {"use", "fresh"} :
        Pending(op) /\ CallThrough(IF op = "use" THEN captured[Agent] ELSE sessions[Agent])
  <2>1. Pending("use") => Pending("use") /\ "use" \in {"use", "fresh"}
    OBVIOUS
  <2> QED
    BY DEF Call
<1>2. step \in DOMAIN Current /\ Current[step].op = op
  BY <1>1, AgentKnown
<1>3. Orderly => step' = step + 1 /\ (refused' => refused)
  BY <1>1, <1>2, CallsAccepted DEF CallThrough
<1>4. failures \in Nat /\ op # "reconnect" /\ step' \in {step + 1, Len(Current) + 1}
      /\ UNCHANGED <<config, position, captured, sessions, failures, clients>>
  BY <1>1 DEF CallThrough, Tokens
<1> QED
  BY <1>1, <1>3, <1>4, StepReady

LEMMA ReconnectReady ==
  ASSUME Inv, Tokens, Ready, Reconnect
  PROVE  Tokens' /\ Ready'
<1> DEFINE presented == identities[Agent]
<1>1. /\ Agent \in Agents /\ position \in DOMAIN Scenarios /\ step \in DOMAIN Current
      /\ Current[step].op = "reconnect"
  BY AgentKnown DEF Reconnect
<1>2. UNCHANGED <<config, captured, position, failures>> /\ failures \in Nat /\ issued \in Nat
      /\ presented \in Nat
  BY <1>1 DEF Reconnect, Tokens
<1>3. CASE presented \in valid
  <2>1. /\ clients' = Append(clients, Client(Agent, Returned(presented)))
        /\ Adopt(Agent, Returned(presented)) /\ Serve(presented) /\ step' = step + 1 /\ UNCHANGED refused
    BY <1>3 DEF Reconnect
  <2>2. Tokens'
    BY <1>1, <1>2, <2>1, TokensAdopted
  <2>3. \A x \in Agents : sessions[x] # 0 => sessions'[x] # 0
    <3>1. Len(clients) + 1 # 0
      BY SessionsKnown
    <3> QED
      BY <2>1, <3>1 DEF Adopt, Inv, Pointing
  <2>4. CASE Orderly
    <3>1. \A x \in Agents : InOrder(x)'
      BY <1>1, <1>2, <2>1, <2>4, ComesBack
    <3> QED
      BY <1>1, <1>2, <2>1, <2>2, <2>3, <2>4, <3>1, StillReady
  <2>5. CASE ~Orderly
    BY <1>1, <1>2, <2>1, <2>2, <2>3, <2>5, NoClaim
  <2> QED
    BY <2>4, <2>5
<1>4. CASE presented \notin valid
  <2>1. UNCHANGED <<sessions, identities, valid, issued>> /\ step' = Len(Current) + 1
    BY <1>4 DEF Reconnect
  <2>2. ~Orderly
    BY <1>1, <1>4, CallsAccepted
  <2>3. Tokens'
    BY <1>2, <2>1, TokensStay
  <2> QED
    BY <1>1, <1>2, <2>1, <2>2, <2>3, NoClaim
<1> QED
  BY <1>3, <1>4

LEMMA FailuresReady ==
  ASSUME Tokens, Ready, StepFails \/ CloseAnswerLost \/ LoadAnswerLost
  PROVE  Tokens' /\ Ready'
<1>1. GiveUp /\ UNCHANGED <<sessions, identities>>
  BY DEF StepFails, CloseAnswerLost, LoadAnswerLost
<1>2. failures' \in Nat /\ failures' # 0
  BY <1>1 DEF GiveUp, Tokens
<1>3. issued' \in Nat /\ issued <= issued'
  <2>1. issued \in Nat
    BY DEF Tokens
  <2> QED
    BY <2>1 DEF StepFails, CloseAnswerLost, LoadAnswerLost, Serve
<1> QED
  BY <1>1, <1>2, <1>3, TokensStay, FailedReady

LEMMA ReadyHolds == Spec => [](Inv /\ Tokens /\ Ready)
<1>1. Init => Tokens /\ Ready
  <2> SUFFICES ASSUME Init PROVE Tokens /\ Ready
    OBVIOUS
  <2>1. /\ position = 0 /\ step = 1 /\ failures = 0 /\ refused = FALSE /\ issued = 0
        /\ \A x \in Agents : sessions[x] = 0 /\ identities[x] = 0
    BY DEF Init, NoneYet
  <2>2. \A k \in DOMAIN SetupOrder : ~ (k < 1)
    BY AgentNames
  <2> QED
    BY <2>1, <2>2 DEF Tokens, Ready, Opened, Orderly
<1>2. Inv /\ Tokens /\ Ready /\ [Next]_vars => Tokens' /\ Ready'
  <2> SUFFICES ASSUME Inv, Tokens, Ready, [Next]_vars PROVE Tokens' /\ Ready'
    OBVIOUS
  <2>0. failures \in Nat /\ issued \in Nat
    BY DEF Tokens
  <2>1. CASE SetUpAgent
    BY <2>1, SetUpReady
  <2>2. CASE NextScenario
    <3>1. UNCHANGED <<sessions, identities, valid, issued, failures>>
      BY <2>2 DEF NextScenario
    <3> QED
      BY <2>0, <2>2, <3>1, TokensStay, HandedOn
  <2>3. CASE Call
    <3>1. UNCHANGED <<sessions, identities, valid, issued, failures>>
      BY <2>3 DEF Call, CallThrough
    <3> QED
      BY <2>0, <2>3, <3>1, TokensStay, CallReady
  <2>4. CASE CloseSession \/ WhileOffline \/ SecondTransport
    <3>1. /\ UNCHANGED <<config, position, captured, sessions, identities, valid, issued, failures>>
          /\ step' = step + 1
      BY <2>4 DEF CloseSession, WhileOffline, SecondTransport
    <3>2. PICK op \in {"close", "offline", "second"} :
            /\ Pending(op)
            /\ \/ UNCHANGED clients
               \/ op = "close" /\ clients' = [clients EXCEPT ![captured[Agent]].closed = TRUE]
               \/ \E x, t : clients' = Append(clients, Client(x, t))
            /\ refused' => refused \/ identities[Agent] \notin valid
      <4>1. CASE CloseSession
        BY <4>1 DEF CloseSession
      <4>2. CASE WhileOffline
        BY <4>2 DEF WhileOffline
      <4>3. CASE SecondTransport
        <5>1. /\ Pending("second") /\ \E x, t : clients' = Append(clients, Client(x, t))
              /\ refused' => refused \/ identities[Agent] \notin valid
          BY <4>3 DEF SecondTransport
        <5> QED
          BY <5>1
      <4> QED
        BY <2>4, <4>1, <4>2, <4>3
    <3>3. step \in DOMAIN Current
      BY <3>2, AgentKnown
    <3>4. Orderly => (refused' => refused)
      BY <3>2, <3>3, CallsAccepted
    <3>5. op # "reconnect"
      BY <3>2
    <3>6. Ready'
      BY <2>0, <3>1, <3>2, <3>4, <3>5, StepReady
    <3> QED
      BY <2>0, <3>1, <3>6, TokensStay
  <2>5. CASE Reconnect
    BY <2>5, ReconnectReady
  <2>6. CASE StepFails \/ CloseAnswerLost \/ LoadAnswerLost
    BY <2>6, FailuresReady
  <2>7. CASE UNCHANGED vars
    <3>1. UNCHANGED <<sessions, identities, valid, issued, failures>>
      BY <2>7 DEF vars
    <3>2. Tokens'
      BY <2>0, <3>1, TokensStay
    <3>3. Ready'
      BY <2>7 DEF vars, Ready, Orderly, Opened, InOrder, Changed, Away, Current
    <3> QED
      BY <3>2, <3>3
  <2> QED
    BY <2>1, <2>2, <2>3, <2>4, <2>5, <2>6, <2>7 DEF Next
<1> QED
  BY <1>1, <1>2, InvHolds, PTL DEF Spec

(* As long as no step failed, no call is refused before the browser gate:  *)
(* no scenario of any profile calls through a session it has closed or     *)
(* whose credential a reconnect has replaced.                              *)
THEOREM NoSessionRefused == Spec => []NothingRefused
<1>1. Ready => NothingRefused
  BY TableDomain DEF Ready, NothingRefused
<1> QED
  BY <1>1, ReadyHolds, PTL

(* As long as no step failed, every scenario finds all sessions open and   *)
(* their credentials valid, in every profile and for every policy.         *)
THEOREM SessionsHandedOn == Spec => []ScenariosLeaveSessionsOpen
<1>1. Inv /\ Tokens /\ Ready => ScenariosLeaveSessionsOpen
  <2> SUFFICES ASSUME Inv, Tokens, Ready, position \in 1 .. 25, step = 1, failures = 0, NEW x \in Agents
               PROVE  Accepted(sessions[x])
    BY TableDomain DEF ScenariosLeaveSessionsOpen
  <2>1. sessions[x] # 0
    BY DEF Ready
  <2>2. clients[sessions[x]].token \in valid
    BY <2>1, SessionsKnown DEF Tokens
  <2>3. CASE position = 25
    BY <2>1, <2>2, <2>3 DEF Ready, Opened, Accepted
  <2>4. CASE position \in 1 .. 24
    <3>1. ~Away(x) /\ InOrder(x)
      BY <2>4, FromTheStart DEF Ready, Orderly
    <3> QED
      BY <2>2, <3>1 DEF InOrder, Accepted
  <2> QED
    BY <2>3, <2>4
<1> QED
  BY <1>1, ReadyHolds, PTL

=============================================================================
