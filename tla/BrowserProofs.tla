--------------------------- MODULE BrowserProofs ---------------------------
(***************************************************************************)
(* A gate that passed did what it read back, and leaves no browser behind  *)
(* without telling the collector: whichever selectors are empty, whatever  *)
(* the page and the server do, and whichever calls fail.  An honest page   *)
(* passes, unless its landmarks come late or the selectors leave out what  *)
(* the flows go by.                                                        *)
(***************************************************************************)
EXTENDS Browser, SequenceTheorems, WellFoundedInduction, TLAPS

-----------------------------------------------------------------------------
(* The script.                                                             *)

Calls == {"grant", "ask", "viewport", "open", "landmarks", "route", "identity", "fill", "press",
          "click", "choose", "await", "snapshot", "close", "read", "readOwn"}
Selectors == Form \cup Roles \cup
  {"IdentityToken", "IdentityVisible", "ServerVisible", "Presence", "NavInbox", "NavGroups",
   "NavForums", "NavAdmin", "GroupName", "GroupCreate", "OrderVisible", "CommentVisible",
   "ThreadVisible", "ThreadStructure", "Notification", "ServerID", "MemberVisible",
   "RequestVisible", "GroupAdmin", "Moderation", "AuditVisible", "ApproveRequest", "RoleResult"}
Places == Selectors \cup
  {"page", "session", "browser", "/", "desktop", "mobile", "server", "dm", "group", "post", "notifications", "settings",
   "content", "connected", "panels", "NavServers", "NavMembers", "DMRecipient", "DMContent",
   "DMSend", "GroupID", "GroupMessage", "GroupSend", "PostTitle", "PostContent", "PostCreate",
   "ThreadID", "CommentContent", "CommentSend", "Follow", "React", "DMVisible", "GroupVisible",
   "PostVisible"}
AnyStep == [op : Calls, at : Places, by : Places, needs : SUBSET Selectors]

(* What a flow opens it closes, unless its selectors leave both out.       *)
ClosedLater(s) ==
  \A i \in DOMAIN s : s[i].op = "open" =>
    \E j \in DOMAIN s : i < j /\ s[j].op = "close" /\ s[j].needs \subseteq s[i].needs

(* Where the form may be skipped it is all that is skipped.                *)
FormFollows(s) ==
  \A i \in DOMAIN s : s[i].op = "identity" =>
    /\ i + 3 <= Len(s)
    /\ \A j \in DOMAIN s : i < j /\ j <= i + 3 => s[j].op \notin {"close", "read", "readOwn"}

WellFormed(s) == s \in Seq(AnyStep) /\ FormFollows(s)

LEMMA Joined ==
  ASSUME NEW s \in Seq(AnyStep), NEW t \in Seq(AnyStep)
  PROVE  /\ s \o t \in Seq(AnyStep) /\ Len(s \o t) = Len(s) + Len(t)
         /\ Len(s) \in Nat /\ Len(t) \in Nat
         /\ DOMAIN s = 1 .. Len(s) /\ DOMAIN t = 1 .. Len(t) /\ DOMAIN (s \o t) = 1 .. Len(s) + Len(t)
         /\ \A i \in 1 .. Len(s) : (s \o t)[i] = s[i]
         /\ \A i \in 1 .. Len(t) : (s \o t)[Len(s) + i] = t[i]
         /\ \A i \in 1 .. Len(s) + Len(t) : i \in 1 .. Len(s) \/ \E k \in 1 .. Len(t) : i = Len(s) + k
<1>1. /\ s \o t \in Seq(AnyStep) /\ Len(s \o t) = Len(s) + Len(t)
      /\ Len(s) \in Nat /\ Len(t) \in Nat
      /\ DOMAIN s = 1 .. Len(s) /\ DOMAIN t = 1 .. Len(t) /\ DOMAIN (s \o t) = 1 .. Len(s \o t)
      /\ \A i \in 1 .. Len(s) + Len(t) : (s \o t)[i] = IF i <= Len(s) THEN s[i] ELSE t[i - Len(s)]
  BY ConcatProperties, LenProperties
<1>2. \A i \in 1 .. Len(s) + Len(t) : i \notin 1 .. Len(s) => (i - Len(s)) \in 1 .. Len(t) /\ i = Len(s) + (i - Len(s))
  BY <1>1
<1>3. \A i \in 1 .. Len(t) : Len(s) + i \in 1 .. Len(s) + Len(t) /\ ~ (Len(s) + i <= Len(s))
                             /\ (Len(s) + i) - Len(s) = i
  BY <1>1
<1>4. \A i \in 1 .. Len(s) : i \in 1 .. Len(s) + Len(t) /\ i <= Len(s)
  BY <1>1
<1> QED
  BY <1>1, <1>2, <1>3, <1>4

LEMMA JoinedClosed ==
  ASSUME NEW s \in Seq(AnyStep), NEW t \in Seq(AnyStep), ClosedLater(s), ClosedLater(t)
  PROVE  ClosedLater(s \o t)
<1> SUFFICES ASSUME NEW i \in DOMAIN (s \o t), (s \o t)[i].op = "open"
             PROVE  \E j \in DOMAIN (s \o t) : /\ i < j /\ (s \o t)[j].op = "close"
                                               /\ (s \o t)[j].needs \subseteq (s \o t)[i].needs
  BY DEF ClosedLater
<1> DEFINE st == s \o t
<1>1. /\ Len(s) \in Nat /\ Len(t) \in Nat /\ DOMAIN st = 1 .. Len(s) + Len(t)
      /\ DOMAIN s = 1 .. Len(s) /\ DOMAIN t = 1 .. Len(t)
      /\ \A k \in 1 .. Len(s) : st[k] = s[k]
      /\ \A k \in 1 .. Len(t) : st[Len(s) + k] = t[k]
      /\ i \in 1 .. Len(s) \/ \E k \in 1 .. Len(t) : i = Len(s) + k
  BY Joined
<1> HIDE DEF st
<1>2. st[i].op = "open"
  BY DEF st
<1>3. CASE i \in 1 .. Len(s)
  <2>1. PICK j \in 1 .. Len(s) : i < j /\ s[j].op = "close" /\ s[j].needs \subseteq s[i].needs
    BY <1>1, <1>2, <1>3 DEF ClosedLater
  <2>2. j \in 1 .. Len(s) + Len(t)
    BY <1>1
  <2> QED
    BY <1>1, <1>3, <2>1, <2>2 DEF st
<1>4. CASE \E k \in 1 .. Len(t) : i = Len(s) + k
  <2>1. PICK k \in 1 .. Len(t) : i = Len(s) + k
    BY <1>4
  <2>2. PICK j \in 1 .. Len(t) : k < j /\ t[j].op = "close" /\ t[j].needs \subseteq t[k].needs
    BY <1>1, <1>2, <2>1 DEF ClosedLater
  <2>3. Len(s) + j \in 1 .. Len(s) + Len(t) /\ i < Len(s) + j
    BY <1>1, <2>1, <2>2
  <2> QED
    BY <1>1, <2>1, <2>2, <2>3 DEF st
<1> QED
  BY <1>1, <1>3, <1>4

LEMMA JoinedWellFormed ==
  ASSUME NEW s, NEW t, WellFormed(s), WellFormed(t)
  PROVE  WellFormed(s \o t)
<1> DEFINE st == s \o t
<1>1. /\ st \in Seq(AnyStep) /\ Len(st) = Len(s) + Len(t)
      /\ Len(s) \in Nat /\ Len(t) \in Nat /\ DOMAIN st = 1 .. Len(s) + Len(t)
      /\ DOMAIN s = 1 .. Len(s) /\ DOMAIN t = 1 .. Len(t)
      /\ \A k \in 1 .. Len(s) : st[k] = s[k]
      /\ \A k \in 1 .. Len(t) : st[Len(s) + k] = t[k]
      /\ \A i \in 1 .. Len(s) + Len(t) : i \in 1 .. Len(s) \/ \E k \in 1 .. Len(t) : i = Len(s) + k
  BY Joined DEF WellFormed
<1> HIDE DEF st
<1>2. ASSUME NEW i \in 1 .. Len(s) + Len(t), st[i].op = "identity"
      PROVE  /\ i + 3 <= Len(st)
             /\ \A j \in 1 .. Len(s) + Len(t) : i < j /\ j <= i + 3 => st[j].op \notin {"close", "read", "readOwn"}
  <2>1. CASE i \in 1 .. Len(s)
    <3>1. /\ i + 3 <= Len(s)
          /\ \A j \in 1 .. Len(s) : i < j /\ j <= i + 3 => s[j].op \notin {"close", "read", "readOwn"}
      BY <1>1, <1>2, <2>1 DEF WellFormed, FormFollows
    <3>2. i + 3 <= Len(st) /\ \A j \in 1 .. Len(s) + Len(t) : j <= i + 3 => j \in 1 .. Len(s)
      BY <1>1, <2>1, <3>1
    <3> QED
      BY <1>1, <3>1, <3>2
  <2>2. CASE \E k \in 1 .. Len(t) : i = Len(s) + k
    <3>1. PICK k \in 1 .. Len(t) : i = Len(s) + k
      BY <2>2
    <3>2. /\ k + 3 <= Len(t)
          /\ \A j \in 1 .. Len(t) : k < j /\ j <= k + 3 => t[j].op \notin {"close", "read", "readOwn"}
      BY <1>1, <1>2, <3>1 DEF WellFormed, FormFollows
    <3>3. ASSUME NEW j \in 1 .. Len(s) + Len(t), i < j, j <= i + 3
          PROVE  st[j].op \notin {"close", "read", "readOwn"}
      <4>0. Len(s) \in Nat /\ Len(t) \in Nat
            /\ (j \in 1 .. Len(s) \/ \E l \in 1 .. Len(t) : j = Len(s) + l)
        BY <1>1, <3>3
      <4>1. PICK l \in 1 .. Len(t) : j = Len(s) + l
        BY <4>0, <3>1, <3>3
      <4>2. k < l /\ l <= k + 3
        BY <1>1, <3>1, <3>3, <4>1
      <4> QED
        BY <1>1, <3>2, <4>1, <4>2
    <3>4. i + 3 <= Len(st)
      BY <1>1, <3>1, <3>2
    <3> QED
      BY <3>3, <3>4
  <2> QED
    BY <1>1, <2>1, <2>2
<1> QED
  BY <1>1, <1>2 DEF WellFormed, FormFollows, st

(* The call that closes a flow is there with whatever opened it.           *)
LEMMA ClosingCloses ==
  /\ WellFormed(Closing)
  /\ \A s \in Seq(AnyStep) : ClosedLater(s \o Closing)
<1>1. WellFormed(Closing) /\ Closing[1] = Do("close", "browser") /\ Len(Closing) = 1
  BY DEF Closing, Do, Step, WellFormed, FormFollows, AnyStep, Calls, Places
<1>2. ASSUME NEW s \in Seq(AnyStep) PROVE ClosedLater(s \o Closing)
  <2> DEFINE sc == s \o Closing
  <2>1. /\ Len(s) \in Nat /\ DOMAIN sc = 1 .. Len(s) + 1
        /\ sc \in Seq(AnyStep) /\ sc[Len(s) + 1] = Closing[1]
    <3>1. Closing \in Seq(AnyStep)
      BY <1>1 DEF WellFormed
    <3>2. /\ Len(s) \in Nat /\ DOMAIN sc = 1 .. Len(s) + Len(Closing) /\ sc \in Seq(AnyStep)
          /\ \A i \in 1 .. Len(Closing) : sc[Len(s) + i] = Closing[i]
      BY <3>1, Joined
    <3>3. Len(Closing) = 1
      BY <1>1
    <3> QED
      BY <3>2, <3>3
  <2>2. sc[Len(s) + 1].op = "close" /\ sc[Len(s) + 1].needs = {}
    BY <1>1, <2>1 DEF Do, Step
  <2> HIDE DEF sc
  <2>3. \A i \in 1 .. Len(s) + 1 : sc[i].op = "open" => i < Len(s) + 1
    BY <2>1, <2>2
  <2>4. Len(s) + 1 \in DOMAIN sc
    BY <2>1
  <2>5. ClosedLater(sc)
    BY <2>1, <2>2, <2>3, <2>4 DEF ClosedLater
  <2> QED
    BY <2>5 DEF sc
<1> QED
  BY <1>1, <1>2

LEMMA WithSelector ==
  ASSUME NEW selector \in Selectors, NEW s, WellFormed(s)
  PROVE  /\ WellFormed(OnlyWith(selector, s))
         /\ ClosedLater(s) => ClosedLater(OnlyWith(selector, s))
         /\ DOMAIN OnlyWith(selector, s) = DOMAIN s
         /\ \A i \in DOMAIN s : /\ OnlyWith(selector, s)[i].op = s[i].op
                                /\ OnlyWith(selector, s)[i].at = s[i].at
                                /\ OnlyWith(selector, s)[i].by = s[i].by
                                /\ OnlyWith(selector, s)[i].needs = s[i].needs \cup {selector}
<1> DEFINE w == OnlyWith(selector, s)
<1>1. Len(s) \in Nat /\ DOMAIN s = 1 .. Len(s) /\ \A i \in DOMAIN s : s[i] \in AnyStep
  <2>1. s \in Seq(AnyStep)
    BY DEF WellFormed
  <2> QED
    BY <2>1, LenProperties
<1>2. DOMAIN w = DOMAIN s /\ \A i \in DOMAIN s : w[i] = [s[i] EXCEPT !.needs = @ \cup {selector}]
  BY DEF OnlyWith
<1>3. \A i \in DOMAIN s : /\ w[i].op = s[i].op /\ w[i].at = s[i].at /\ w[i].by = s[i].by
                          /\ w[i].needs = s[i].needs \cup {selector} /\ w[i] \in AnyStep
  BY <1>1, <1>2 DEF AnyStep
<1>4. w = [i \in 1 .. Len(s) |-> w[i]]
  BY <1>1, <1>2 DEF OnlyWith
<1> HIDE DEF w
<1>5. w \in Seq(AnyStep) /\ Len(w) = Len(s)
  <2>1. w \in [1 .. Len(s) -> AnyStep]
    BY <1>1, <1>3, <1>4
  <2>2. w \in Seq(AnyStep)
    BY <1>1, <2>1, SeqDef
  <2> QED
    BY <1>1, <1>2, <2>2, LenProperties
<1>6. FormFollows(w)
  BY <1>1, <1>2, <1>3, <1>5 DEF WellFormed, FormFollows
<1>7. ClosedLater(s) => ClosedLater(w)
  <2> SUFFICES ASSUME ClosedLater(s), NEW i \in DOMAIN s, w[i].op = "open"
               PROVE  \E j \in DOMAIN s : i < j /\ w[j].op = "close" /\ w[j].needs \subseteq w[i].needs
    BY <1>2 DEF ClosedLater
  <2>1. PICK j \in DOMAIN s : i < j /\ s[j].op = "close" /\ s[j].needs \subseteq s[i].needs
    BY <1>3 DEF ClosedLater
  <2> QED
    BY <1>3, <2>1
<1> QED
  BY <1>2, <1>3, <1>5, <1>6, <1>7 DEF WellFormed, w

LEMMA NoForm ==
  ASSUME NEW s \in Seq(AnyStep), \A i \in DOMAIN s : s[i].op # "identity"
  PROVE  WellFormed(s)
BY DEF WellFormed, FormFollows

LEMMA LoginWellFormed == WellFormed(Login)
<1>1. Login \in Seq(AnyStep)
  BY DEF Login, Form, Step, Await, AwaitIf, AnyStep, Calls, Places, Selectors
<1>2. DOMAIN Login = 1 .. 5 /\ Len(Login) = 5
  BY DEF Login
<1>3. /\ Login[2].op \notin {"identity", "close", "read", "readOwn"}
      /\ Login[3].op \notin {"identity", "close", "read", "readOwn"}
      /\ Login[4].op \notin {"identity", "close", "read", "readOwn"}
      /\ Login[5].op # "identity"
  BY DEF Login, Step, Await, AwaitIf
<1>4. \A i \in 1 .. 5 : Login[i].op = "identity" => i = 1
  BY <1>3
<1>5. \A j \in 1 .. 5 : 1 < j /\ j <= 4 => Login[j].op \notin {"close", "read", "readOwn"}
  BY <1>3
<1> QED
  BY <1>1, <1>2, <1>4, <1>5 DEF WellFormed, FormFollows

LEMMA Pieces ==
  /\ WellFormed(Prepare) /\ WellFormed(Start) /\ WellFormed(ApplicationIA) /\ WellFormed(ServerPage)
  /\ WellFormed(CreateGroup) /\ WellFormed(SendDM) /\ WellFormed(SendGroupMessage) /\ WellFormed(CreatePost)
  /\ WellFormed(Comment) /\ WellFormed(Notifications) /\ WellFormed(Administration) /\ WellFormed(AdminReads)
  /\ WellFormed(Reads)
<1>1. WellFormed(Prepare)
  <2>1. Prepare \in Seq(AnyStep)
    BY DEF Prepare, Form, Roles, Routes, Panels, Do, Step, Await, AwaitIf, AnyStep, Calls, Places,
         Selectors
  <2>2. \A i \in DOMAIN Prepare : Prepare[i].op # "identity"
    BY DEF Prepare, Do, Step, Await, AwaitIf, Form, Roles, Routes, Panels
  <2> QED
    BY <2>1, <2>2, NoForm
<1>2. WellFormed(Start)
  <2>1. Start \in Seq(AnyStep)
    BY DEF Start, Form, Roles, Routes, Panels, Do, Step, Await, AwaitIf, AnyStep, Calls, Places,
         Selectors
  <2>2. \A i \in DOMAIN Start : Start[i].op # "identity"
    BY DEF Start, Do, Step, Await, AwaitIf, Form, Roles, Routes, Panels
  <2> QED
    BY <2>1, <2>2, NoForm
<1>3. WellFormed(ApplicationIA)
  <2>1. ApplicationIA \in Seq(AnyStep)
    BY DEF ApplicationIA, Form, Roles, Routes, Panels, Do, Step, Await, AwaitIf, AnyStep, Calls,
         Places, Selectors
  <2>2. \A i \in DOMAIN ApplicationIA : ApplicationIA[i].op # "identity"
    BY DEF ApplicationIA, Do, Step, Await, AwaitIf, Form, Roles, Routes, Panels
  <2> QED
    BY <2>1, <2>2, NoForm
<1>4. WellFormed(ServerPage)
  <2>1. ServerPage \in Seq(AnyStep)
    BY DEF ServerPage, Form, Roles, Routes, Panels, Do, Step, Await, AwaitIf, AnyStep, Calls,
         Places, Selectors
  <2>2. \A i \in DOMAIN ServerPage : ServerPage[i].op # "identity"
    BY DEF ServerPage, Do, Step, Await, AwaitIf, Form, Roles, Routes, Panels
  <2> QED
    BY <2>1, <2>2, NoForm
<1>5. WellFormed(CreateGroup)
  <2>1. CreateGroup \in Seq(AnyStep)
    BY DEF CreateGroup, Form, Roles, Routes, Panels, Do, Step, Await, AwaitIf, AnyStep, Calls,
         Places, Selectors
  <2>2. \A i \in DOMAIN CreateGroup : CreateGroup[i].op # "identity"
    BY DEF CreateGroup, Do, Step, Await, AwaitIf, Form, Roles, Routes, Panels
  <2> QED
    BY <2>1, <2>2, NoForm
<1>6. WellFormed(SendDM)
  <2>1. SendDM \in Seq(AnyStep)
    BY DEF SendDM, Form, Roles, Routes, Panels, Do, Step, Await, AwaitIf, AnyStep, Calls, Places,
         Selectors
  <2>2. \A i \in DOMAIN SendDM : SendDM[i].op # "identity"
    BY DEF SendDM, Do, Step, Await, AwaitIf, Form, Roles, Routes, Panels
  <2> QED
    BY <2>1, <2>2, NoForm
<1>7. WellFormed(SendGroupMessage)
  <2>1. SendGroupMessage \in Seq(AnyStep)
    BY DEF SendGroupMessage, Form, Roles, Routes, Panels, Do, Step, Await, AwaitIf, AnyStep, Calls,
         Places, Selectors
  <2>2. \A i \in DOMAIN SendGroupMessage : SendGroupMessage[i].op # "identity"
    BY DEF SendGroupMessage, Do, Step, Await, AwaitIf, Form, Roles, Routes, Panels
  <2> QED
    BY <2>1, <2>2, NoForm
<1>8. WellFormed(CreatePost)
  <2>1. CreatePost \in Seq(AnyStep)
    BY DEF CreatePost, Form, Roles, Routes, Panels, Do, Step, Await, AwaitIf, AnyStep, Calls,
         Places, Selectors
  <2>2. \A i \in DOMAIN CreatePost : CreatePost[i].op # "identity"
    BY DEF CreatePost, Do, Step, Await, AwaitIf, Form, Roles, Routes, Panels
  <2> QED
    BY <2>1, <2>2, NoForm
<1>9. WellFormed(Comment)
  <2>1. Comment \in Seq(AnyStep)
    BY DEF Comment, Form, Roles, Routes, Panels, Do, Step, Await, AwaitIf, AnyStep, Calls, Places,
         Selectors
  <2>2. \A i \in DOMAIN Comment : Comment[i].op # "identity"
    BY DEF Comment, Do, Step, Await, AwaitIf, Form, Roles, Routes, Panels
  <2> QED
    BY <2>1, <2>2, NoForm
<1>10. WellFormed(Notifications)
  <2>1. Notifications \in Seq(AnyStep)
    BY DEF Notifications, Form, Roles, Routes, Panels, Do, Step, Await, AwaitIf, AnyStep, Calls,
         Places, Selectors
  <2>2. \A i \in DOMAIN Notifications : Notifications[i].op # "identity"
    BY DEF Notifications, Do, Step, Await, AwaitIf, Form, Roles, Routes, Panels
  <2> QED
    BY <2>1, <2>2, NoForm
<1>11. WellFormed(Administration)
  <2>1. Administration \in Seq(AnyStep)
    BY DEF Administration, Form, Roles, Routes, Panels, Do, Step, Await, AwaitIf, AnyStep, Calls,
         Places, Selectors
  <2>2. \A i \in DOMAIN Administration : Administration[i].op # "identity"
    BY DEF Administration, Do, Step, Await, AwaitIf, Form, Roles, Routes, Panels
  <2> QED
    BY <2>1, <2>2, NoForm
<1>12. WellFormed(AdminReads)
  <2>1. AdminReads \in Seq(AnyStep)
    BY DEF AdminReads, Form, Roles, Routes, Panels, Do, Step, Await, AwaitIf, AnyStep, Calls,
         Places, Selectors
  <2>2. \A i \in DOMAIN AdminReads : AdminReads[i].op # "identity"
    BY DEF AdminReads, Do, Step, Await, AwaitIf, Form, Roles, Routes, Panels
  <2> QED
    BY <2>1, <2>2, NoForm
<1>13. WellFormed(Reads)
  <2>1. Reads \in Seq(AnyStep)
    BY DEF Reads, Form, Roles, Routes, Panels, Do, Step, Await, AwaitIf, AnyStep, Calls, Places,
         Selectors
  <2>2. \A i \in DOMAIN Reads : Reads[i].op # "identity"
    BY DEF Reads, Do, Step, Await, AwaitIf, Form, Roles, Routes, Panels
  <2> QED
    BY <2>1, <2>2, NoForm
<1> QED
  BY <1>1, <1>2, <1>3, <1>4, <1>5, <1>6, <1>7, <1>8, <1>9, <1>10, <1>11, <1>12, <1>13

LEMMA NothingOpened == ClosedLater(Prepare) /\ ClosedLater(AdminReads) /\ ClosedLater(Reads)
<1>1. \A i \in DOMAIN Prepare : Prepare[i].op # "open"
  BY DEF Prepare, Do, Step
<1>2. \A i \in DOMAIN AdminReads : AdminReads[i].op # "open"
  BY DEF AdminReads, Do, Step
<1>3. \A i \in DOMAIN Reads : Reads[i].op # "open"
  BY DEF Reads, Do, Step
<1> QED
  BY <1>1, <1>2, <1>3 DEF ClosedLater

LEMMA FlowsWellFormed == WellFormed(HumanFlow) /\ WellFormed(AdminFlow)
<1>1. WellFormed(Start \o ApplicationIA \o Login \o ServerPage \o CreateGroup)
  BY Pieces, LoginWellFormed, JoinedWellFormed
<1>2. WellFormed(Start \o ApplicationIA \o Login \o ServerPage \o CreateGroup \o SendDM
                 \o SendGroupMessage \o CreatePost)
  BY <1>1, Pieces, JoinedWellFormed
<1>3. WellFormed(HumanFlow)
  BY <1>2, Pieces, JoinedWellFormed DEF HumanFlow
<1>4. WellFormed(AdminFlow)
  BY Pieces, LoginWellFormed, JoinedWellFormed DEF AdminFlow
<1> QED
  BY <1>3, <1>4

(* The steps of the administration, and the whole script.                  *)
Administering == AdminFlow \o Closing \o AdminReads
Before == Prepare \o HumanFlow \o Closing

LEMMA ScriptWellFormed ==
  /\ WellFormed(Before) /\ ClosedLater(Before)
  /\ WellFormed(Administering) /\ ClosedLater(Administering)
  /\ WellFormed(OnlyWith("ServerVisible", Administering))
  /\ WellFormed(Script) /\ ClosedLater(Script)
<1>1. WellFormed(Before) /\ WellFormed(Administering)
  BY Pieces, FlowsWellFormed, ClosingCloses, JoinedWellFormed DEF Before, Administering
<1>2. ClosedLater(Before)
  <2>1. Prepare \o HumanFlow \in Seq(AnyStep)
    BY Pieces, FlowsWellFormed, JoinedWellFormed DEF WellFormed
  <2> QED
    BY <2>1, ClosingCloses DEF Before
<1>3. ClosedLater(Administering)
  <2>1. /\ AdminFlow \in Seq(AnyStep) /\ AdminFlow \o Closing \in Seq(AnyStep)
        /\ AdminReads \in Seq(AnyStep)
    BY Pieces, FlowsWellFormed, ClosingCloses, JoinedWellFormed DEF WellFormed
  <2>2. ClosedLater(AdminFlow \o Closing)
    BY <2>1, ClosingCloses
  <2> QED
    BY <2>1, <2>2, NothingOpened, JoinedClosed DEF Administering
<1> DEFINE W == OnlyWith("ServerVisible", Administering)
<1>4. WellFormed(W) /\ ClosedLater(W)
  <2>1. "ServerVisible" \in Selectors
    BY DEF Selectors
  <2> QED
    BY <1>1, <1>3, <2>1, WithSelector
<1>5. Script = Before \o W \o Reads
  BY DEF Script, Before, Administering
<1> HIDE DEF W
<1>6. WellFormed(Before \o W) /\ WellFormed(Before \o W \o Reads)
  BY <1>1, <1>4, Pieces, JoinedWellFormed
<1>7. ClosedLater(Before \o W)
  BY <1>1, <1>2, <1>4, JoinedClosed DEF WellFormed
<1>8. ClosedLater(Before \o W \o Reads)
  BY <1>6, <1>7, Pieces, NothingOpened, JoinedClosed DEF WellFormed
<1> QED
  BY <1>1, <1>2, <1>3, <1>4, <1>5, <1>6, <1>8 DEF W

(* What the scenario looks for afterwards.                                 *)
Holds(s, e) == \E i \in DOMAIN s : s[i] = e

LEMMA ScriptReads ==
  /\ \A at \in {"DMSend", "GroupSend", "CommentSend"} : Holds(Script, Do("read", at))
  /\ \A at \in {"RoleSave", "ApproveRequest"} : Holds(Script, Step("readOwn", at, {"ServerVisible"}))
  /\ 1 \in DOMAIN Script /\ Script[1].needs = {}
<1> DEFINE W == OnlyWith("ServerVisible", Administering)
<1>1. /\ Before \in Seq(AnyStep) /\ W \in Seq(AnyStep) /\ Reads \in Seq(AnyStep)
      /\ Administering \in Seq(AnyStep) /\ AdminFlow \o Closing \in Seq(AnyStep)
      /\ AdminReads \in Seq(AnyStep) /\ Script = Before \o W \o Reads
      /\ Prepare \in Seq(AnyStep) /\ HumanFlow \in Seq(AnyStep) /\ Closing \in Seq(AnyStep)
  BY ScriptWellFormed, Pieces, FlowsWellFormed, ClosingCloses, JoinedWellFormed
     DEF WellFormed, Script, Before, Administering
<1>2. \A s \in Seq(AnyStep), t \in Seq(AnyStep) : \A e :
        /\ s \o t \in Seq(AnyStep)
        /\ Holds(s, e) => Holds(s \o t, e)
        /\ Holds(t, e) => Holds(s \o t, e)
  <2> TAKE s \in Seq(AnyStep), t \in Seq(AnyStep)
  <2> TAKE e
  <2>1. /\ Len(s) \in Nat /\ Len(t) \in Nat /\ DOMAIN (s \o t) = 1 .. Len(s) + Len(t)
        /\ DOMAIN s = 1 .. Len(s) /\ DOMAIN t = 1 .. Len(t)
        /\ \A k \in 1 .. Len(s) : (s \o t)[k] = s[k]
        /\ \A k \in 1 .. Len(t) : (s \o t)[Len(s) + k] = t[k]
        /\ s \o t \in Seq(AnyStep)
    BY Joined
  <2>2. /\ \A k \in 1 .. Len(s) : k \in 1 .. Len(s) + Len(t)
        /\ \A k \in 1 .. Len(t) : Len(s) + k \in 1 .. Len(s) + Len(t)
    BY <2>1
  <2> QED
    BY <2>1, <2>2 DEF Holds
<1>3. \A at \in {"DMSend", "GroupSend", "CommentSend"} : Holds(Reads, Do("read", at))
  <2>1. /\ DOMAIN Reads = 1 .. 3
        /\ Reads[1] = Do("read", "DMSend") /\ Reads[2] = Do("read", "GroupSend")
        /\ Reads[3] = Do("read", "CommentSend")
    BY DEF Reads
  <2>2. 1 \in 1 .. 3 /\ 2 \in 1 .. 3 /\ 3 \in 1 .. 3
    OBVIOUS
  <2> QED
    BY <2>1, <2>2 DEF Holds
<1>4. \A at \in {"DMSend", "GroupSend", "CommentSend"} : Holds(Script, Do("read", at))
  BY <1>1, <1>2, <1>3
<1>5. \A at \in {"RoleSave", "ApproveRequest"} : Holds(AdminReads, Do("readOwn", at))
  <2>1. /\ DOMAIN AdminReads = 1 .. 2
        /\ AdminReads[1] = Do("readOwn", "RoleSave") /\ AdminReads[2] = Do("readOwn", "ApproveRequest")
    BY DEF AdminReads
  <2>2. 1 \in 1 .. 2 /\ 2 \in 1 .. 2
    OBVIOUS
  <2> QED
    BY <2>1, <2>2 DEF Holds
<1>6. \A at \in {"RoleSave", "ApproveRequest"} : Holds(Administering, Do("readOwn", at))
  BY <1>1, <1>2, <1>5 DEF Administering
<1>7. \A at \in {"RoleSave", "ApproveRequest"} : Holds(W, Step("readOwn", at, {"ServerVisible"}))
  <2> TAKE at \in {"RoleSave", "ApproveRequest"}
  <2>1. PICK i \in DOMAIN Administering : Administering[i] = Do("readOwn", at)
    BY <1>6 DEF Holds
  <2>2. W[i] = [Do("readOwn", at) EXCEPT !.needs = @ \cup {"ServerVisible"}] /\ i \in DOMAIN W
    BY <2>1 DEF OnlyWith
  <2>3. [Do("readOwn", at) EXCEPT !.needs = @ \cup {"ServerVisible"}] = Step("readOwn", at, {"ServerVisible"})
    BY DEF Do, Step
  <2> QED
    BY <2>2, <2>3 DEF Holds
<1>8. \A at \in {"RoleSave", "ApproveRequest"} : Holds(Script, Step("readOwn", at, {"ServerVisible"}))
  <2> HIDE DEF W
  <2> QED
    BY <1>1, <1>2, <1>7
<1>9. ASSUME NEW s \in Seq(AnyStep), NEW t \in Seq(AnyStep), Len(s) >= 1
      PROVE  /\ Len(s \o t) >= 1 /\ s \o t \in Seq(AnyStep) /\ 1 \in DOMAIN (s \o t)
             /\ (s \o t)[1] = s[1]
  <2> DEFINE st == s \o t
  <2>1. /\ Len(s) \in Nat /\ Len(t) \in Nat /\ DOMAIN st = 1 .. Len(s) + Len(t)
        /\ Len(st) = Len(s) + Len(t) /\ st \in Seq(AnyStep)
        /\ \A k \in 1 .. Len(s) : st[k] = s[k]
    BY Joined
  <2> HIDE DEF st
  <2>2. Len(st) >= 1 /\ st \in Seq(AnyStep) /\ 1 \in DOMAIN st /\ st[1] = s[1]
    BY <1>9, <2>1
  <2> QED
    BY <2>2 DEF st
<1>10. 1 \in DOMAIN Script /\ Script[1] = Do("grant", "session")
  <2>1. Prepare[1] = Do("grant", "session")
    BY DEF Prepare
  <2>a. Len(Prepare) >= 1
    BY DEF Prepare
  <2> HIDE DEF W
  <2> DEFINE P1 == Prepare \o HumanFlow
  <2>2. Len(P1) >= 1 /\ P1[1] = Prepare[1] /\ P1 \in Seq(AnyStep)
    BY <1>1, <1>9, <2>a
  <2>3. Len(Before) >= 1 /\ Before[1] = P1[1]
    <3> HIDE DEF P1
    <3>1. Before = P1 \o Closing
      BY DEF P1, Before
    <3> QED
      BY <1>1, <1>9, <2>2, <3>1
  <2> DEFINE P2 == Before \o W
  <2>4. Len(P2) >= 1 /\ P2[1] = Before[1] /\ P2 \in Seq(AnyStep)
    BY <1>1, <1>9, <2>3
  <2>5. 1 \in DOMAIN Script /\ Script[1] = P2[1]
    <3> HIDE DEF P2
    <3>1. Script = P2 \o Reads
      BY <1>1 DEF P2
    <3> QED
      BY <1>1, <1>9, <2>4, <3>1
  <2> QED
    BY <2>1, <2>2, <2>3, <2>4, <2>5
<1> QED
  BY <1>4, <1>8, <1>10 DEF Do, Step

-----------------------------------------------------------------------------
(* The steps that are there.                                               *)

Present(i) == Script[i].needs \cap config.empty = {}
End == Len(Script) + 1

LEMMA ScriptTyped ==
  /\ Len(Script) \in Nat /\ DOMAIN Script = 1 .. Len(Script)
  /\ \A i \in DOMAIN Script : Script[i] \in AnyStep
<1>1. Script \in Seq(AnyStep)
  BY ScriptWellFormed DEF WellFormed
<1> QED
  BY <1>1, LenProperties

(* After is the next step that is there, and there is none in between.     *)
LEMMA AfterNext ==
  ASSUME NEW k \in DOMAIN Script
  PROVE  /\ After(k) \in Nat /\ k < After(k) /\ After(k) <= End
         /\ After(k) \in DOMAIN Script => Present(After(k))
         /\ \A i \in DOMAIN Script : k < i /\ i < After(k) => ~ Present(i)
<1> DEFINE T == {i \in DOMAIN Script : i > k /\ Present(i)} \cup {End}
<1>1. After(k) = CHOOSE n \in T : \A m \in T : n <= m
  BY DEF After, Min, Present, End
<1>2. T \in SUBSET Nat /\ End \in T /\ k \in Nat /\ k < End
  BY ScriptTyped DEF End
<1>3. \E n \in T : \A m \in T : n <= m
  <2> HIDE DEF T
  <2>1. PICK n \in T : \A m \in T : ~ (<<m, n>> \in OpToRel(<, Nat))
    BY <1>2, NatLessThanWellFounded, WFMin
  <2>2. \A m \in T : ~ (m < n)
    BY <1>2, <2>1 DEF OpToRel
  <2> QED
    BY <1>2, <2>2
<1>4. After(k) \in T /\ \A m \in T : After(k) <= m
  <2> HIDE DEF T
  <2> QED
    BY <1>1, <1>3
<1>5. \A i \in DOMAIN Script : k < i /\ Present(i) => i \in T
  BY <1>2, ScriptTyped
<1>6. After(k) # End => After(k) > k /\ Present(After(k))
  BY <1>4
<1>7. After(k) \in Nat /\ After(k) <= End
  BY <1>2, <1>4
<1>8. k < After(k)
  BY <1>2, <1>6, <1>7
<1>9. End \notin DOMAIN Script
  BY ScriptTyped DEF End
<1>10. \A i \in DOMAIN Script : k < i /\ i < After(k) => ~ Present(i)
  <2> HIDE DEF T
  <2> QED
    BY <1>2, <1>4, <1>5, <1>7, ScriptTyped
<1> QED
  BY <1>6, <1>7, <1>8, <1>9, <1>10

-----------------------------------------------------------------------------
(* The invariant.                                                          *)

Browsers ==
  [runs : BOOLEAN, viewport : Places, real : BOOLEAN, login : {"none", "human", "other"}]

Typed ==
  /\ step \in Nat /\ step <= End /\ (step \in DOMAIN Script => Present(step))
  /\ browser \in Browsers /\ deferred \in BOOLEAN /\ outcome \in {"running", "passed", "failed"}

(* While a flow's Close is due, the scenario has yet to come to it.        *)
Due ==
  outcome = "running" /\ deferred =>
    \E j \in DOMAIN Script : step <= j /\ Script[j].op = "close" /\ Present(j)

(* A browser that runs will be closed, or is known of.                     *)
Tracked ==
  config.world # "leftover" /\ browser.runs =>
    deferred \/ "open" \in reported \/ "Close" \in reported

(* What was to be read by now was done.                                    *)
ReadBack ==
  \A j \in DOMAIN Script :
    j < step /\ Present(j) /\ Script[j].op \in {"read", "readOwn"} => Script[j].at \in done

PassedAtEnd == outcome = "passed" => step = End /\ ~ deferred

Inv == Typed /\ Due /\ Tracked /\ ReadBack /\ PassedAtEnd

LEMMA InitHolds == Init => Inv
<1> SUFFICES ASSUME Init PROVE Inv
  OBVIOUS
<1>1. step = 1 /\ outcome = "running" /\ deferred = FALSE
  BY DEF Init
<1>2. browser \in Browsers
  BY DEF Init, Browsers, Places
<1>3. config.world # "leftover" => ~ browser.runs
  BY DEF Init
<1>4. step \in Nat /\ step <= End /\ \A j \in DOMAIN Script : ~ (j < step)
  BY <1>1, ScriptTyped DEF End
<1>5. Present(step)
  BY <1>1, ScriptReads DEF Present
<1>6. outcome # "passed"
  BY <1>1
<1> QED
  BY <1>1, <1>2, <1>3, <1>4, <1>5, <1>6 DEF Inv, Typed, Due, Tracked, ReadBack, PassedAtEnd

(* What every step keeps.                                                  *)
Keeps ==
  /\ config' = config /\ done \subseteq done' /\ reported \subseteq reported'
  /\ browser' \in Browsers /\ deferred' \in BOOLEAN
  /\ browser'.runs => browser.runs \/ deferred' \/ "open" \in reported'
  /\ deferred => deferred' \/ ~ browser'.runs \/ "Close" \in reported'

(* The scenario stays at its step, where it may fail, pass or close.       *)
Stays ==
  /\ step' = step /\ (deferred' => deferred)
  /\ outcome' \in {outcome, "failed"} \/ (outcome' = "passed" /\ outcome = "running" /\ step > Len(Script))

(* The scenario goes on from its step, or from the end of a form.          *)
Goes ==
  /\ outcome = "running" /\ outcome' = outcome /\ step \in DOMAIN Script
  /\ \E k \in DOMAIN Script :
       /\ step' = After(k)
       /\ k = step \/ (Script[step].op = "identity" /\ k = step + FormSteps)
  /\ Script[step].op \in {"read", "readOwn"} => Script[step].at \in done
  /\ Script[step].op = "close" => ~ deferred'
  /\ deferred' => deferred \/ Script[step].op = "open"

LEMMA StepsKeep ==
  ASSUME Typed, Next
  PROVE  Keeps /\ (Stays \/ Goes)
<1>. USE DEF Typed
<1>s. step \in DOMAIN Script => Script[step] \in AnyStep
  BY ScriptTyped
<1>1. CASE Ask
  <2>1. Keeps
    BY <1>1 DEF Ask, Proceed, Keeps
  <2>2. Goes
    BY <1>1 DEF Ask, At, Current, Proceed, Goes
  <2> QED
    BY <2>1, <2>2
<1>2. CASE Read
  <2>1. Keeps
    BY <1>2 DEF Read, Proceed, Fail, Keeps, server
  <2>2. CASE Current.at \in done /\ ~ (Current.op = "readOwn" /\ config.world = "strict")
    <3> Goes
      BY <1>2, <2>2 DEF Read, At, Current, Proceed, Goes
    <3> QED
      BY <2>1
  <2>3. CASE ~ (Current.at \in done /\ ~ (Current.op = "readOwn" /\ config.world = "strict"))
    <3> Stays
      BY <1>2, <2>3 DEF Read, Fail, Stays
    <3> QED
      BY <2>1
  <2> QED
    BY <2>2, <2>3
<1>3. CASE SetViewport
  <2>1. Keeps
    BY <1>3, <1>s DEF SetViewport, At, Current, Proceed, Keeps, server, Browsers, AnyStep
  <2>2. Goes
    BY <1>3 DEF SetViewport, At, Current, Proceed, Goes
  <2> QED
    BY <2>1, <2>2
<1>4. CASE Open
  <2>1. Keeps
    BY <1>4 DEF Open, Opened, Leave, Keeps, Browsers
  <2>2. Goes
    BY <1>4 DEF Open, At, Current, Goes
  <2> QED
    BY <2>1, <2>2
<1>5. CASE Snapshot
  <2>1. Keeps
    BY <1>5 DEF Snapshot, Proceed, Fail, Keeps, server
  <2> DEFINE there == Current.op = "landmarks" => browser.real /\ (config.world = "late" => page.shown)
  <2>2. CASE there
    <3> Goes
      BY <1>5, <2>2 DEF Snapshot, At, Current, Proceed, Goes
    <3> QED
      BY <2>1
  <2>3. CASE ~ there
    <3> Stays
      BY <1>5, <2>3 DEF Snapshot, Fail, Stays
    <3> QED
      BY <2>1
  <2> QED
    BY <2>2, <2>3
<1>6. CASE Navigate
  <2>1. CASE Visible /\ Current.by \notin config.empty
    <3>1. Keeps
      BY <1>6, <2>1 DEF Navigate, Use, Proceed, Keeps, server
    <3>2. Goes
      BY <1>6, <2>1 DEF Navigate, Use, At, Current, Proceed, Goes
    <3> QED
      BY <3>1, <3>2
  <2>2. CASE ~ (Visible /\ Current.by \notin config.empty)
    <3>1. Keeps
      BY <1>6, <2>2 DEF Navigate, Use, Fail, Report, Keeps, server
    <3>2. Stays
      BY <1>6, <2>2 DEF Navigate, Use, Fail, Report, Stays
    <3> QED
      BY <3>1, <3>2
  <2> QED
    BY <2>1, <2>2
<1>7. CASE Fill
  <2> DEFINE there == /\ Visible /\ page.shown /\ Current.by \notin config.empty
                      /\ Current.op = "choose" => "ApproveRequest" \in done \cup echoed
  <2>1. CASE there
    <3>1. Keeps
      BY <1>7, <2>1 DEF Fill, Use, Proceed, Keeps, server
    <3>2. Goes
      BY <1>7, <2>1 DEF Fill, Use, At, Current, Proceed, Goes
    <3> QED
      BY <3>1, <3>2
  <2>2. CASE ~ there
    <3>1. Keeps
      BY <1>7, <2>2 DEF Fill, Use, Fail, Report, Keeps, server
    <3>2. Stays
      BY <1>7, <2>2 DEF Fill, Use, Fail, Report, Stays
    <3> QED
      BY <3>1, <3>2
  <2> QED
    BY <2>1, <2>2
<1>8. CASE Click
  <2>1. CASE Visible /\ page.shown /\ Current.by \notin config.empty
    <3>1. Keeps
      BY <1>8, <2>1 DEF Click, Use, Submit, Proceed, Keeps
    <3>2. Goes
      BY <1>8, <2>1 DEF Click, Use, At, Current, Proceed, Goes
    <3> QED
      BY <3>1, <3>2
  <2>2. CASE ~ (Visible /\ page.shown /\ Current.by \notin config.empty)
    <3>1. Keeps
      BY <1>8, <2>2 DEF Click, Use, Fail, Report, Keeps, server
    <3>2. Stays
      BY <1>8, <2>2 DEF Click, Use, Fail, Report, Stays
    <3> QED
      BY <3>1, <3>2
  <2> QED
    BY <2>1, <2>2
<1>9. ASSUME NEW connected \in BOOLEAN, IdentityReady(connected)
      PROVE  Keeps /\ Goes
  <2>1. Keeps
    BY <1>9 DEF IdentityReady, Keeps, server
  <2>2. /\ step \in DOMAIN Script /\ Script[step].op = "identity"
        /\ outcome = "running" /\ outcome' = outcome /\ deferred' = deferred
        /\ step' = After(IF connected THEN step + FormSteps ELSE step)
    BY <1>9 DEF IdentityReady, At, Current
  <2>3. step + FormSteps \in DOMAIN Script
    <3>1. step + 3 <= Len(Script)
      BY <2>2, ScriptWellFormed DEF WellFormed, FormFollows
    <3> QED
      BY <3>1, ScriptTyped DEF FormSteps
  <2>4. Script[step].op \notin {"read", "readOwn", "close", "open"}
    BY <2>2
  <2> QED
    BY <2>1, <2>2, <2>3, <2>4 DEF Goes
<1>10. CASE Seen
  <2>1. Keeps
    BY <1>10 DEF Seen, Proceed, Keeps, server
  <2>2. Goes
    BY <1>10 DEF Seen, At, Current, Proceed, Goes
  <2> QED
    BY <2>1, <2>2
<1>11. CASE Late
  BY <1>11 DEF Late, Fail, Keeps, Stays, server
<1>12. CASE Close
  <2> DEFINE Shut == \E login \in {browser.login, "none"} :
                       browser' = [runs |-> FALSE, viewport |-> browser.viewport, real |-> FALSE, login |-> login]
             Left == Report("Close") /\ UNCHANGED <<browser, page, server>>
  <2>a. /\ config' = config /\ deferred' = FALSE
        /\ (Shut /\ done' = done /\ reported' = reported) \/ Left
    BY <1>12 DEF Close, Leave
  <2>b. config' = config /\ deferred' \in BOOLEAN /\ ~ deferred'
    BY <2>a
  <2>c. ASSUME Shut, done' = done, reported' = reported PROVE Keeps
    <3>1. browser' \in Browsers /\ ~ browser'.runs
      BY <2>c DEF Browsers
    <3> QED
      BY <2>b, <2>c, <3>1 DEF Keeps
  <2>d. ASSUME Left PROVE Keeps
    <3>1. browser' = browser /\ done' = done /\ reported' = reported \cup {"Close"}
      BY <2>d DEF Report, server
    <3>2. browser' \in Browsers
      BY <3>1
    <3>3. reported \subseteq reported' /\ "Close" \in reported'
      BY <3>1
    <3> QED
      BY <2>b, <3>1, <3>2, <3>3 DEF Keeps
  <2>1. Keeps
    BY <2>a, <2>c, <2>d
  <2>2. CASE outcome = "failed"
    <3> Stays
      BY <1>12, <2>2 DEF Close, Stays
    <3> QED
      BY <2>1
  <2>3. CASE outcome # "failed"
    <3> Goes
      BY <1>12, <2>3 DEF Close, Closed, At, Current, Goes
    <3> QED
      BY <2>1
  <2> QED
    BY <2>2, <2>3
<1>13. CASE SessionFails
  BY <1>13 DEF SessionFails, Keeps, Stays, server
<1>14. CASE DriverFails
  <2>1. Keeps
    BY <1>14 DEF DriverFails, Report, Keeps, server, Browsers
  <2>2. Stays
    BY <1>14 DEF DriverFails, Stays
  <2> QED
    BY <2>1, <2>2
<1>15. CASE Pass
  BY <1>15 DEF Pass, Keeps, Stays, server
<1>16. CASE World
  <2>1. CASE Load
    BY <2>1 DEF Load, Keeps, Stays, server, flow
  <2>2. CASE Connect
    BY <2>2 DEF Connect, Keeps, Stays, server, flow
  <2>3. ASSUME NEW button \in pending, Deliver(button) PROVE Keeps /\ Stays
    BY <2>3 DEF Deliver, Keeps, Stays, flow, Browsers
  <2> QED
    BY <1>16, <2>1, <2>2, <2>3 DEF World
<1> QED
  BY <1>1, <1>2, <1>3, <1>4, <1>5, <1>6, <1>7, <1>8, <1>9, <1>10, <1>11, <1>12, <1>13, <1>14,
     <1>15, <1>16 DEF Next, Harness

LEMMA GoesOn ==
  ASSUME Inv, Keeps, Goes
  PROVE  Inv'
<1>. USE DEF Inv
<1>1. PICK k \in DOMAIN Script :
        step' = After(k) /\ (k = step \/ (Script[step].op = "identity" /\ k = step + FormSteps))
  BY DEF Goes
<1>2. /\ step' \in Nat /\ k < step' /\ step' <= End
      /\ step' \in DOMAIN Script => Present(step')
      /\ \A i \in DOMAIN Script : k < i /\ i < step' => ~ Present(i)
  BY <1>1, AfterNext
<1>3. step \in Nat /\ k \in Nat /\ step <= k /\ (step \in DOMAIN Script)
  BY <1>1, ScriptTyped DEF Goes, FormSteps, Typed
<1>4. config' = config /\ outcome' = "running" /\ outcome = "running"
  BY DEF Keeps, Goes
<1>5. \A i : Present(i)' <=> Present(i)
  BY <1>4 DEF Present
<1>6. Typed'
  BY <1>2, <1>4, <1>5 DEF Typed, Keeps
<1>7. \A i \in DOMAIN Script :
        step < i /\ i < step' /\ Present(i) => Script[i].op \notin {"close", "read", "readOwn"}
  <2> SUFFICES ASSUME NEW i \in DOMAIN Script, step < i, i < step', Present(i)
               PROVE  Script[i].op \notin {"close", "read", "readOwn"}
    OBVIOUS
  <2>1. i \in Nat /\ i <= k
    BY <1>2, ScriptTyped
  <2>2. Script[step].op = "identity" /\ k = step + 3
    BY <1>1, <1>3, <2>1 DEF FormSteps
  <2> QED
    BY <1>3, <2>1, <2>2, ScriptWellFormed DEF WellFormed, FormFollows
<1>8. Due'
  <2> SUFFICES ASSUME deferred'
               PROVE  \E j \in DOMAIN Script : step' <= j /\ Script[j].op = "close" /\ Present(j)
    BY <1>5 DEF Due
  <2>1. Script[step].op # "close" /\ (deferred \/ Script[step].op = "open")
    BY DEF Goes
  <2>2. Present(step)
    BY <1>3 DEF Typed
  <2>3. \E j \in DOMAIN Script : step <= j /\ Script[j].op = "close" /\ Present(j)
    <3>1. CASE Script[step].op = "open"
      <4>1. PICK j \in DOMAIN Script :
              step < j /\ Script[j].op = "close" /\ Script[j].needs \subseteq Script[step].needs
        BY <1>3, <3>1, ScriptWellFormed DEF ClosedLater
      <4>2. Present(j)
        BY <2>2, <4>1 DEF Present
      <4>3. step <= j
        BY <1>3, <4>1, ScriptTyped
      <4> QED
        BY <4>1, <4>2, <4>3
    <3>2. CASE deferred
      BY <1>4, <3>2 DEF Due
    <3> QED
      BY <2>1, <3>1, <3>2
  <2>4. PICK j \in DOMAIN Script : step <= j /\ Script[j].op = "close" /\ Present(j)
    BY <2>3
  <2>5. j # step
    BY <2>1, <2>4
  <2>6. ~ (step < j /\ j < step')
    BY <1>7, <2>4
  <2>7. step' <= j
    BY <1>2, <1>3, <2>4, <2>5, <2>6, ScriptTyped
  <2> QED
    BY <2>4, <2>7
<1>9. Tracked'
  BY <1>4 DEF Tracked, Keeps
<1>10. ReadBack'
  <2> SUFFICES ASSUME NEW j \in DOMAIN Script, j < step', Present(j), Script[j].op \in {"read", "readOwn"}
               PROVE  Script[j].at \in done'
    BY <1>5 DEF ReadBack
  <2>1. j < step \/ j = step
    <3>1. ~ (step < j /\ j < step')
      BY <1>7
    <3> QED
      BY <1>2, <1>3, <3>1, ScriptTyped
  <2> QED
    BY <2>1 DEF ReadBack, Goes, Keeps
<1>11. PassedAtEnd'
  BY <1>4 DEF PassedAtEnd
<1> QED
  BY <1>6, <1>8, <1>9, <1>10, <1>11

LEMMA StaysPut ==
  ASSUME Inv, Keeps, Stays
  PROVE  Inv'
<1>. USE DEF Inv
<1>1. config' = config /\ step' = step /\ (deferred' => deferred)
  BY DEF Keeps, Stays
<1>2. \A i : Present(i)' <=> Present(i)
  BY <1>1 DEF Present
<1>3. Typed'
  BY <1>1, <1>2 DEF Typed, Keeps, Stays
<1>4. Due'
  <2>1. outcome' = "running" => outcome = "running"
    BY DEF Stays
  <2> QED
    BY <1>1, <1>2, <2>1 DEF Due
<1>5. Tracked'
  BY <1>1 DEF Tracked, Keeps
<1>6. ReadBack'
  BY <1>1, <1>2 DEF ReadBack, Keeps
<1>7. PassedAtEnd'
  <2> SUFFICES ASSUME outcome' = "passed" PROVE step = End /\ ~ deferred
    BY <1>1 DEF PassedAtEnd
  <2>1. CASE outcome = "passed"
    BY <2>1 DEF PassedAtEnd
  <2>2. CASE outcome = "running" /\ step > Len(Script)
    <3>1. step = End /\ \A j \in DOMAIN Script : ~ (step <= j)
      BY <2>2, ScriptTyped DEF Typed, End
    <3> QED
      BY <2>2, <3>1 DEF Due
  <2> QED
    BY <2>1, <2>2 DEF Stays
<1> QED
  BY <1>3, <1>4, <1>5, <1>6, <1>7

LEMMA InvHolds == Spec => []Inv
<1>1. Inv /\ Next => Inv'
  <2>1. Inv => Typed
    BY DEF Inv
  <2> QED
    BY <2>1, StepsKeep, GoesOn, StaysPut
<1>2. Inv /\ UNCHANGED vars => Inv'
  BY DEF vars, flow, server, Inv, Typed, Due, Tracked, ReadBack, PassedAtEnd, Present
<1> QED
  BY InitHolds, <1>1, <1>2, PTL DEF Spec

-----------------------------------------------------------------------------
(* The theorems.                                                           *)

(* A gate that passed did what a human was to do, for every set of empty   *)
(* selectors: the scenario comes to the end only past what it reads back.  *)
THEOREM PassedGateActed == Spec => []PassedWasDone
<1>1. Inv => PassedWasDone
  <2> SUFFICES ASSUME Inv, outcome = "passed"
               PROVE  /\ {"DMSend", "GroupSend", "CommentSend"} \subseteq done
                      /\ Administers => {"ApproveRequest", "RoleSave"} \subseteq done
    BY DEF PassedWasDone
  <2>1. \A j \in DOMAIN Script : j < step
    BY ScriptTyped DEF Inv, PassedAtEnd, End
  <2>2. \A j \in DOMAIN Script :
          Present(j) /\ Script[j].op \in {"read", "readOwn"} => Script[j].at \in done
    BY <2>1 DEF Inv, ReadBack
  <2>3. ASSUME NEW at \in {"DMSend", "GroupSend", "CommentSend"} PROVE at \in done
    <3>1. PICK j \in DOMAIN Script : Script[j] = Do("read", at)
      BY ScriptReads DEF Holds
    <3>2. Present(j) /\ Script[j].op = "read" /\ Script[j].at = at
      BY <3>1 DEF Present, Do, Step
    <3> QED
      BY <2>2, <3>2
  <2>4. ASSUME Administers, NEW at \in {"ApproveRequest", "RoleSave"} PROVE at \in done
    <3>1. PICK j \in DOMAIN Script : Script[j] = Step("readOwn", at, {"ServerVisible"})
      BY ScriptReads DEF Holds
    <3>2. Present(j) /\ Script[j].op = "readOwn" /\ Script[j].at = at
      BY <2>4, <3>1 DEF Present, Step, Administers
    <3> QED
      BY <2>2, <3>2
  <2> QED
    BY <2>3, <2>4
<1> QED
  BY InvHolds, <1>1, PTL

(* What a flow opened it closes, on any way out of it, or the collector    *)
(* was told that opening or closing failed: the deferred Close of          *)
(* browser.go, whatever fails, and whichever selectors are empty.          *)
THEOREM BrowserNotForgotten == Spec => []LeftOpenIsReported
<1>1. Inv => LeftOpenIsReported
  <2> SUFFICES ASSUME Inv, Over, browser.runs, config.world # "leftover"
               PROVE  reported \cap {"open", "Close"} # {}
    BY DEF LeftOpenIsReported
  <2>1. ~ deferred
    <3>1. CASE outcome = "failed"
      BY <3>1 DEF Over, Closed
    <3>2. CASE outcome = "passed"
      BY <3>2 DEF Inv, PassedAtEnd
    <3> QED
      BY <3>1, <3>2 DEF Over, Inv, Typed
  <2> QED
    BY <2>1 DEF Inv, Tracked
<1> QED
  BY InvHolds, <1>1, PTL

-----------------------------------------------------------------------------
(* What a gate knows as it goes along: of the browser and the page, of the *)
(* fields filled in, of what was sent, and of what the server has.         *)

Know(flags, typed, sent, there) == [flags |-> flags, typed |-> typed, sent |-> sent, there |-> there]
Weaker(K, L) ==
  K.flags \subseteq L.flags /\ K.typed \subseteq L.typed /\ K.sent \subseteq L.sent /\ K.there \subseteq L.there

(* What a step relies on.                                                  *)
Looking == {"route", "fill", "press", "choose", "click", "identity", "await"}
Using == {"fill", "press", "choose", "click"}
Goals == {"content", "connected", "panels"}
Requires(s, K, empty) ==
  /\ s.op \in Looking \cup {"landmarks"} => "real" \in K.flags
  /\ s.op \in Looking => "desktop" \in K.flags
  /\ s.op \in Using => "shown" \in K.flags
  /\ s.op \in Looking => s.by \notin empty
  /\ s.op = "choose" => "ApproveRequest" \in K.there
  /\ s.op = "click" /\ s.at # "IdentityLoad" => "human" \in K.flags /\ "grant" \in K.there
  /\ s.op = "await" /\ s.at = "connected" => "human" \in K.flags \/ "IdentityLoad" \in K.sent
  /\ s.op = "await" /\ s.at = "panels" => "Enter" \in K.typed
  /\ s.op = "await" /\ s.at \notin Goals => s.at \in (K.sent \ {"IdentityLoad"}) \cup K.there
  /\ s.op \in {"read", "readOwn"} => s.at \in K.there
  /\ s.op = "readOwn" => "ServerVisible" \notin empty

(* What is known after it.                                                 *)
Lost(s) ==
  CASE s.op = "viewport" -> {"desktop"}
    [] s.op \in {"open", "route"} -> {"shown"}
    [] s.op = "close" -> {"real", "shown", "human"}
    [] OTHER -> {}
Gained(s) ==
  CASE s.op = "viewport" -> {s.at} \cap {"desktop"}
    [] s.op = "open" -> {"real"}
    [] s.op = "await" /\ s.at = "connected" -> {"shown", "human"}
    [] s.op = "await" /\ s.at # "connected" -> {"shown"}
    [] s.op = "identity" -> {"shown"}
    [] OTHER -> {}
Typing(s) ==
  CASE s.op \in {"fill", "choose"} -> {s.at}
    [] s.op = "press" -> {"Enter"}
    [] OTHER -> {}
Sending(s, typed) ==
  IF s.op = "click" /\ s.at \in DOMAIN Fields /\ Fields[s.at] \subseteq typed THEN {s.at} ELSE {}
Seeing(s) ==
  CASE s.op = "grant" -> {"grant"}
    [] s.op = "await" /\ s.at \notin Goals -> {s.at}
    [] OTHER -> {}
Effect(s, K) ==
  Know((K.flags \ Lost(s)) \cup Gained(s),
       IF s.op \in {"open", "route", "close"} THEN {} ELSE K.typed \cup Typing(s),
       IF s.op \in {"open", "close"} THEN {} ELSE K.sent \cup Sending(s, K.typed),
       K.there \cup Seeing(s))

Follows(s, K, L, empty) ==
  IF s.needs \cap empty = {} THEN Requires(s, K, empty) /\ Weaker(L, Effect(s, K)) ELSE Weaker(L, K)

(* What is known of a page that has connected by itself.                   *)
Connected(K) == Know(K.flags \cup {"shown", "human"}, K.typed, K.sent \cup {"IdentityLoad"}, K.there)

(* An outline of a script says for each place what is known there.         *)
Outline(s, kn, empty) ==
  /\ \A k \in DOMAIN s : Follows(s[k], kn[k], kn[k + 1], empty)
  /\ \A k \in DOMAIN s : s[k].op = "identity" => Weaker(kn[k + 4], Connected(kn[k]))

Leads(P, s, Q, empty) == \E kn : kn[1] = P /\ kn[Len(s) + 1] = Q /\ Outline(s, kn, empty)

LEMMA LeadsOn ==
  ASSUME NEW empty, NEW s, NEW t, WellFormed(s), WellFormed(t), NEW P, NEW Q, NEW R,
         Leads(P, s, Q, empty), Leads(Q, t, R, empty)
  PROVE  Leads(P, s \o t, R, empty)
<1> DEFINE st == s \o t
<1>1. /\ st \in Seq(AnyStep) /\ Len(st) = Len(s) + Len(t)
      /\ Len(s) \in Nat /\ Len(t) \in Nat /\ DOMAIN st = 1 .. Len(s) + Len(t)
      /\ DOMAIN s = 1 .. Len(s) /\ DOMAIN t = 1 .. Len(t)
      /\ \A k \in 1 .. Len(s) : st[k] = s[k]
      /\ \A k \in 1 .. Len(t) : st[Len(s) + k] = t[k]
      /\ \A i \in 1 .. Len(s) + Len(t) : i \in 1 .. Len(s) \/ \E k \in 1 .. Len(t) : i = Len(s) + k
  BY Joined DEF WellFormed
<1> HIDE DEF st
<1>2. PICK ks : ks[1] = P /\ ks[Len(s) + 1] = Q /\ Outline(s, ks, empty)
  BY DEF Leads
<1>3. PICK kt : kt[1] = Q /\ kt[Len(t) + 1] = R /\ Outline(t, kt, empty)
  BY DEF Leads
<1> DEFINE n == Len(s)
           kn == [i \in 1 .. Len(s) + Len(t) + 1 |-> IF i <= n THEN ks[i] ELSE kt[i - n]]
<1>4. \A i \in 1 .. n : kn[i] = ks[i]
  BY <1>1
<1>5. \A i \in 1 .. Len(t) + 1 : kn[n + i] = kt[i]
  <2> TAKE i \in 1 .. Len(t) + 1
  <2>1. n + i \in 1 .. Len(s) + Len(t) + 1 /\ ~ (n + i <= n) /\ (n + i) - n = i
    BY <1>1
  <2> QED
    BY <2>1
<1>6. kn[n + 1] = ks[n + 1]
  BY <1>1, <1>2, <1>3, <1>5
<1>7. kn[1] = P
  <2>1. CASE n = 0
    BY <1>1, <1>2, <1>6, <2>1
  <2>2. CASE n > 0
    BY <1>1, <1>2, <1>4, <2>2
  <2> QED
    BY <1>1, <2>1, <2>2
<1>8. kn[Len(st) + 1] = R
  <2>1. Len(t) + 1 \in 1 .. Len(t) + 1 /\ Len(st) + 1 = n + (Len(t) + 1)
    BY <1>1
  <2> QED
    BY <1>3, <1>5, <2>1
<1> HIDE DEF kn
<1>9. ASSUME NEW k \in 1 .. Len(s) + Len(t)
      PROVE  /\ Follows(st[k], kn[k], kn[k + 1], empty)
             /\ st[k].op = "identity" => Weaker(kn[k + 4], Connected(kn[k]))
  <2>1. CASE k \in 1 .. Len(s)
    <3>1. st[k] = s[k] /\ kn[k] = ks[k]
      BY <1>1, <1>4, <2>1
    <3>2. \A i \in 1 .. n + 1 : kn[i] = ks[i]
      BY <1>1, <1>4, <1>6
    <3>3. kn[k + 1] = ks[k + 1]
      BY <1>1, <2>1, <3>2
    <3>4. s[k].op = "identity" => kn[k + 4] = ks[k + 4]
      <4>1. s[k].op = "identity" => k + 3 <= Len(s)
        BY <1>1, <2>1 DEF WellFormed, FormFollows
      <4> QED
        BY <1>1, <2>1, <3>2, <4>1
    <3> QED
      BY <1>1, <1>2, <2>1, <3>1, <3>3, <3>4 DEF Outline
  <2>2. CASE \E i \in 1 .. Len(t) : k = n + i
    <3>1. PICK i \in 1 .. Len(t) : k = n + i
      BY <2>2
    <3>2. st[k] = t[i] /\ kn[k] = kt[i]
      <4>1. i \in 1 .. Len(t) + 1
        BY <1>1, <3>1
      <4> QED
        BY <1>1, <1>5, <3>1, <4>1
    <3>3. i + 1 \in 1 .. Len(t) + 1 /\ k + 1 = n + (i + 1)
      BY <1>1, <3>1
    <3>4. kn[k + 1] = kt[i + 1]
      BY <1>5, <3>3
    <3>5. t[i].op = "identity" => kn[k + 4] = kt[i + 4]
      <4>1. t[i].op = "identity" => i + 3 <= Len(t)
        BY <1>1, <3>1 DEF WellFormed, FormFollows
      <4>2. t[i].op = "identity" => i + 4 \in 1 .. Len(t) + 1 /\ k + 4 = n + (i + 4)
        BY <1>1, <3>1, <4>1
      <4> QED
        BY <1>5, <4>2
    <3> QED
      BY <1>1, <1>3, <3>1, <3>2, <3>4, <3>5 DEF Outline
  <2> QED
    BY <1>1, <2>1, <2>2
<1>10. Outline(st, kn, empty)
  BY <1>1, <1>9 DEF Outline
<1> QED
  BY <1>7, <1>8, <1>10 DEF Leads, st

(* Steps after which as much is known as before.                           *)
LEMMA Steady ==
  ASSUME NEW empty, NEW s, WellFormed(s), NEW K,
         \A k \in DOMAIN s : Follows(s[k], K, K, empty)
  PROVE  Leads(K, s, K, empty)
<1> DEFINE kn == [k \in 1 .. Len(s) + 1 |-> K]
<1>1. /\ Len(s) \in Nat /\ DOMAIN s = 1 .. Len(s)
      /\ \A k \in 1 .. Len(s) : s[k].op = "identity" => k + 3 <= Len(s)
  <2>1. s \in Seq(AnyStep)
    BY DEF WellFormed
  <2>2. Len(s) \in Nat /\ DOMAIN s = 1 .. Len(s)
    BY <2>1, LenProperties
  <2> QED
    BY <2>2 DEF WellFormed, FormFollows
<1>2. /\ kn[1] = K /\ kn[Len(s) + 1] = K /\ \A k \in 1 .. Len(s) : kn[k] = K /\ kn[k + 1] = K
      /\ \A k \in 1 .. Len(s) : k + 3 <= Len(s) => kn[k + 4] = K
  BY <1>1
<1> HIDE DEF kn
<1>3. Weaker(K, Connected(K))
  BY DEF Weaker, Connected, Know
<1>4. Outline(s, kn, empty)
  BY <1>1, <1>2, <1>3 DEF Outline
<1> QED
  BY <1>2, <1>4 DEF Leads

(* What is known between two parts of the human's flow, and on a page.     *)
Base(there) == Know({"desktop", "real", "human"}, {}, {}, there)
Page(typed, sent, there) == Know({"desktop", "real", "human", "shown"}, typed, sent, there)

LEMMA PrepareLeads ==
  ASSUME NEW empty, NEW T
  PROVE  Leads(Know({}, {}, {}, {}), Prepare, Know({}, {}, {}, {"grant"}), empty)
<1> DEFINE kn == << Know({}, {}, {}, {}), Know({}, {}, {}, {"grant"}), Know({}, {}, {}, {"grant"}),
                    Know({}, {}, {}, {"grant"}), Know({}, {}, {}, {"grant"}) >>
<1>1. Len(Prepare) = 4 /\ DOMAIN Prepare = 1 .. 4
  BY DEF Prepare
<1>2. Follows(Prepare[1], kn[1], kn[2], empty)
  BY DEF Prepare, Follows, Requires, Looking, Using, Goals, Effect, Lost, Gained, Typing, Sending,
       Seeing, Fields, Weaker, Know, Base, Page, Do, Await, AwaitIf, Step
<1>3. Follows(Prepare[2], kn[2], kn[3], empty)
  BY DEF Prepare, Follows, Requires, Looking, Using, Goals, Effect, Lost, Gained, Typing, Sending,
       Seeing, Fields, Weaker, Know, Base, Page, Do, Await, AwaitIf, Step
<1>4. Follows(Prepare[3], kn[3], kn[4], empty)
  BY DEF Prepare, Follows, Requires, Looking, Using, Goals, Effect, Lost, Gained, Typing, Sending,
       Seeing, Fields, Weaker, Know, Base, Page, Do, Await, AwaitIf, Step
<1>5. Follows(Prepare[4], kn[4], kn[5], empty)
  BY DEF Prepare, Follows, Requires, Looking, Using, Goals, Effect, Lost, Gained, Typing, Sending,
       Seeing, Fields, Weaker, Know, Base, Page, Do, Await, AwaitIf, Step
<1>6. kn[1] = Know({}, {}, {}, {}) /\ kn[5] = Know({}, {}, {}, {"grant"})
  OBVIOUS
<1> HIDE DEF kn
<1>7. \A k \in 1 .. 4 : Prepare[k].op # "identity" /\ Follows(Prepare[k], kn[k], kn[k + 1], empty)
  <2>1. \A k \in 1 .. 4 : Prepare[k].op # "identity"
    BY DEF Prepare, Do, Await, AwaitIf, Step
  <2> QED
    BY <1>2, <1>3, <1>4, <1>5, <2>1
<1>8. Outline(Prepare, kn, empty)
  BY <1>1, <1>7 DEF Outline
<1> QED
  BY <1>1, <1>6, <1>8 DEF Leads

LEMMA StartLeads ==
  ASSUME NEW empty, NEW T
  PROVE  Leads(Know({}, {}, {}, T), Start, Know({"desktop", "real"}, {}, {}, T), empty)
<1> DEFINE kn == << Know({}, {}, {}, T), Know({"desktop"}, {}, {}, T), Know({"desktop", "real"}, {}, {}, T) >>
<1>1. Len(Start) = 2 /\ DOMAIN Start = 1 .. 2
  BY DEF Start
<1>2. Follows(Start[1], kn[1], kn[2], empty)
  BY DEF Start, Follows, Requires, Looking, Using, Goals, Effect, Lost, Gained, Typing, Sending,
       Seeing, Fields, Weaker, Know, Base, Page, Do, Await, AwaitIf, Step
<1>3. Follows(Start[2], kn[2], kn[3], empty)
  BY DEF Start, Follows, Requires, Looking, Using, Goals, Effect, Lost, Gained, Typing, Sending,
       Seeing, Fields, Weaker, Know, Base, Page, Do, Await, AwaitIf, Step
<1>4. kn[1] = Know({}, {}, {}, T) /\ kn[3] = Know({"desktop", "real"}, {}, {}, T)
  OBVIOUS
<1> HIDE DEF kn
<1>5. \A k \in 1 .. 2 : Start[k].op # "identity" /\ Follows(Start[k], kn[k], kn[k + 1], empty)
  <2>1. \A k \in 1 .. 2 : Start[k].op # "identity"
    BY DEF Start, Do, Await, AwaitIf, Step
  <2> QED
    BY <1>2, <1>3, <2>1
<1>6. Outline(Start, kn, empty)
  BY <1>1, <1>5 DEF Outline
<1> QED
  BY <1>1, <1>4, <1>6 DEF Leads

LEMMA CreateGroupLeads ==
  ASSUME NEW empty, NEW T, empty \cap Needed = {}, "grant" \in T
  PROVE  Leads(Base(T), CreateGroup, Base(T), empty)
<1> DEFINE C == IF "GroupName" \in empty THEN Base(T) ELSE Page({}, {}, T)
           kn == << Base(T), Base(T), C, C, Base(T) >>
<1>1. Len(CreateGroup) = 4 /\ DOMAIN CreateGroup = 1 .. 4
  BY DEF CreateGroup
<1>2. Follows(CreateGroup[1], kn[1], kn[2], empty)
  BY DEF CreateGroup, Needed, Routes, Follows, Requires, Looking, Using, Goals, Effect, Lost,
       Gained, Typing, Sending, Seeing, Fields, Weaker, Know, Base, Page, Do, Await, AwaitIf, Step
<1>3. Follows(CreateGroup[2], kn[2], kn[3], empty)
  BY DEF CreateGroup, Needed, Routes, Follows, Requires, Looking, Using, Goals, Effect, Lost,
       Gained, Typing, Sending, Seeing, Fields, Weaker, Know, Base, Page, Do, Await, AwaitIf, Step
<1>4. Follows(CreateGroup[3], kn[3], kn[4], empty)
  BY DEF CreateGroup, Needed, Routes, Follows, Requires, Looking, Using, Goals, Effect, Lost,
       Gained, Typing, Sending, Seeing, Fields, Weaker, Know, Base, Page, Do, Await, AwaitIf, Step
<1>5. Follows(CreateGroup[4], kn[4], kn[5], empty)
  BY DEF CreateGroup, Needed, Routes, Follows, Requires, Looking, Using, Goals, Effect, Lost,
       Gained, Typing, Sending, Seeing, Fields, Weaker, Know, Base, Page, Do, Await, AwaitIf, Step
<1>6. kn[1] = Base(T) /\ kn[5] = Base(T)
  OBVIOUS
<1> HIDE DEF kn
<1>7. \A k \in 1 .. 4 : CreateGroup[k].op # "identity" /\ Follows(CreateGroup[k], kn[k], kn[k + 1], empty)
  <2>1. \A k \in 1 .. 4 : CreateGroup[k].op # "identity"
    BY DEF CreateGroup, Do, Await, AwaitIf, Step
  <2> QED
    BY <1>2, <1>3, <1>4, <1>5, <2>1
<1>8. Outline(CreateGroup, kn, empty)
  BY <1>1, <1>7 DEF Outline
<1> QED
  BY <1>1, <1>6, <1>8 DEF Leads

LEMMA SendDMLeads ==
  ASSUME NEW empty, NEW T, empty \cap Needed = {}, "grant" \in T
  PROVE  Leads(Base(T), SendDM, Base(T \cup {"DMSend"}), empty)
<1> DEFINE kn == << Base(T), Base(T), Page({}, {}, T), Page({"DMRecipient"}, {}, T),
                    Page({"DMRecipient", "DMContent"}, {}, T), Page({}, {"DMSend"}, T),
                    Base(T \cup {"DMSend"}) >>
<1>1. Len(SendDM) = 6 /\ DOMAIN SendDM = 1 .. 6
  BY DEF SendDM
<1>2. Follows(SendDM[1], kn[1], kn[2], empty)
  BY DEF SendDM, Needed, Mandatory, Follows, Requires, Looking, Using, Goals, Effect, Lost, Gained,
       Typing, Sending, Seeing, Fields, Weaker, Know, Base, Page, Do, Await, AwaitIf, Step
<1>3. Follows(SendDM[2], kn[2], kn[3], empty)
  BY DEF SendDM, Needed, Mandatory, Follows, Requires, Looking, Using, Goals, Effect, Lost, Gained,
       Typing, Sending, Seeing, Fields, Weaker, Know, Base, Page, Do, Await, AwaitIf, Step
<1>4. Follows(SendDM[3], kn[3], kn[4], empty)
  BY DEF SendDM, Needed, Mandatory, Follows, Requires, Looking, Using, Goals, Effect, Lost, Gained,
       Typing, Sending, Seeing, Fields, Weaker, Know, Base, Page, Do, Await, AwaitIf, Step
<1>5. Follows(SendDM[4], kn[4], kn[5], empty)
  BY DEF SendDM, Needed, Mandatory, Follows, Requires, Looking, Using, Goals, Effect, Lost, Gained,
       Typing, Sending, Seeing, Fields, Weaker, Know, Base, Page, Do, Await, AwaitIf, Step
<1>6. Follows(SendDM[5], kn[5], kn[6], empty)
  BY DEF SendDM, Needed, Mandatory, Follows, Requires, Looking, Using, Goals, Effect, Lost, Gained,
       Typing, Sending, Seeing, Fields, Weaker, Know, Base, Page, Do, Await, AwaitIf, Step
<1>7. Follows(SendDM[6], kn[6], kn[7], empty)
  BY DEF SendDM, Needed, Mandatory, Follows, Requires, Looking, Using, Goals, Effect, Lost, Gained,
       Typing, Sending, Seeing, Fields, Weaker, Know, Base, Page, Do, Await, AwaitIf, Step
<1>8. kn[1] = Base(T) /\ kn[7] = Base(T \cup {"DMSend"})
  OBVIOUS
<1> HIDE DEF kn
<1>9. \A k \in 1 .. 6 : SendDM[k].op # "identity" /\ Follows(SendDM[k], kn[k], kn[k + 1], empty)
  <2>1. \A k \in 1 .. 6 : SendDM[k].op # "identity"
    BY DEF SendDM, Do, Await, AwaitIf, Step
  <2> QED
    BY <1>2, <1>3, <1>4, <1>5, <1>6, <1>7, <2>1
<1>10. Outline(SendDM, kn, empty)
  BY <1>1, <1>9 DEF Outline
<1> QED
  BY <1>1, <1>8, <1>10 DEF Leads

LEMMA SendGroupMessageLeads ==
  ASSUME NEW empty, NEW T, empty \cap Needed = {}, "grant" \in T
  PROVE  Leads(Base(T), SendGroupMessage, Base(T \cup {"GroupSend"}), empty)
<1> DEFINE kn == << Base(T), Base(T), Page({}, {}, T), Page({"GroupID"}, {}, T),
                    Page({"GroupID", "GroupMessage"}, {}, T), Page({}, {"GroupSend"}, T),
                    Base(T \cup {"GroupSend"}), Base(T \cup {"GroupSend"}) >>
<1>1. Len(SendGroupMessage) = 7 /\ DOMAIN SendGroupMessage = 1 .. 7
  BY DEF SendGroupMessage
<1>2. Follows(SendGroupMessage[1], kn[1], kn[2], empty)
  BY DEF SendGroupMessage, Needed, Mandatory, Follows, Requires, Looking, Using, Goals, Effect,
       Lost, Gained, Typing, Sending, Seeing, Fields, Weaker, Know, Base, Page, Do, Await, AwaitIf,
       Step
<1>3. Follows(SendGroupMessage[2], kn[2], kn[3], empty)
  BY DEF SendGroupMessage, Needed, Mandatory, Follows, Requires, Looking, Using, Goals, Effect,
       Lost, Gained, Typing, Sending, Seeing, Fields, Weaker, Know, Base, Page, Do, Await, AwaitIf,
       Step
<1>4. Follows(SendGroupMessage[3], kn[3], kn[4], empty)
  BY DEF SendGroupMessage, Needed, Mandatory, Follows, Requires, Looking, Using, Goals, Effect,
       Lost, Gained, Typing, Sending, Seeing, Fields, Weaker, Know, Base, Page, Do, Await, AwaitIf,
       Step
<1>5. Follows(SendGroupMessage[4], kn[4], kn[5], empty)
  BY DEF SendGroupMessage, Needed, Mandatory, Follows, Requires, Looking, Using, Goals, Effect,
       Lost, Gained, Typing, Sending, Seeing, Fields, Weaker, Know, Base, Page, Do, Await, AwaitIf,
       Step
<1>6. Follows(SendGroupMessage[5], kn[5], kn[6], empty)
  BY DEF SendGroupMessage, Needed, Mandatory, Follows, Requires, Looking, Using, Goals, Effect,
       Lost, Gained, Typing, Sending, Seeing, Fields, Weaker, Know, Base, Page, Do, Await, AwaitIf,
       Step
<1>7. Follows(SendGroupMessage[6], kn[6], kn[7], empty)
  BY DEF SendGroupMessage, Needed, Mandatory, Follows, Requires, Looking, Using, Goals, Effect,
       Lost, Gained, Typing, Sending, Seeing, Fields, Weaker, Know, Base, Page, Do, Await, AwaitIf,
       Step
<1>8. Follows(SendGroupMessage[7], kn[7], kn[8], empty)
  BY DEF SendGroupMessage, Needed, Mandatory, Follows, Requires, Looking, Using, Goals, Effect,
       Lost, Gained, Typing, Sending, Seeing, Fields, Weaker, Know, Base, Page, Do, Await, AwaitIf,
       Step
<1>9. kn[1] = Base(T) /\ kn[8] = Base(T \cup {"GroupSend"})
  OBVIOUS
<1> HIDE DEF kn
<1>10. \A k \in 1 .. 7 : SendGroupMessage[k].op # "identity" /\ Follows(SendGroupMessage[k], kn[k], kn[k + 1], empty)
  <2>1. \A k \in 1 .. 7 : SendGroupMessage[k].op # "identity"
    BY DEF SendGroupMessage, Do, Await, AwaitIf, Step
  <2> QED
    BY <1>2, <1>3, <1>4, <1>5, <1>6, <1>7, <1>8, <2>1
<1>11. Outline(SendGroupMessage, kn, empty)
  BY <1>1, <1>10 DEF Outline
<1> QED
  BY <1>1, <1>9, <1>11 DEF Leads

LEMMA CreatePostLeads ==
  ASSUME NEW empty, NEW T, empty \cap Needed = {}, "grant" \in T
  PROVE  Leads(Base(T), CreatePost, Base(T), empty)
<1> DEFINE kn == << Base(T), Base(T), Page({}, {}, T), Page({"PostTitle"}, {}, T),
                    Page({"PostTitle", "PostContent"}, {}, T), Page({}, {"PostCreate"}, T), Base(T) >>
<1>1. Len(CreatePost) = 6 /\ DOMAIN CreatePost = 1 .. 6
  BY DEF CreatePost
<1>2. Follows(CreatePost[1], kn[1], kn[2], empty)
  BY DEF CreatePost, Needed, Mandatory, Routes, Follows, Requires, Looking, Using, Goals, Effect,
       Lost, Gained, Typing, Sending, Seeing, Fields, Weaker, Know, Base, Page, Do, Await, AwaitIf,
       Step
<1>3. Follows(CreatePost[2], kn[2], kn[3], empty)
  BY DEF CreatePost, Needed, Mandatory, Routes, Follows, Requires, Looking, Using, Goals, Effect,
       Lost, Gained, Typing, Sending, Seeing, Fields, Weaker, Know, Base, Page, Do, Await, AwaitIf,
       Step
<1>4. Follows(CreatePost[3], kn[3], kn[4], empty)
  BY DEF CreatePost, Needed, Mandatory, Routes, Follows, Requires, Looking, Using, Goals, Effect,
       Lost, Gained, Typing, Sending, Seeing, Fields, Weaker, Know, Base, Page, Do, Await, AwaitIf,
       Step
<1>5. Follows(CreatePost[4], kn[4], kn[5], empty)
  BY DEF CreatePost, Needed, Mandatory, Routes, Follows, Requires, Looking, Using, Goals, Effect,
       Lost, Gained, Typing, Sending, Seeing, Fields, Weaker, Know, Base, Page, Do, Await, AwaitIf,
       Step
<1>6. Follows(CreatePost[5], kn[5], kn[6], empty)
  BY DEF CreatePost, Needed, Mandatory, Routes, Follows, Requires, Looking, Using, Goals, Effect,
       Lost, Gained, Typing, Sending, Seeing, Fields, Weaker, Know, Base, Page, Do, Await, AwaitIf,
       Step
<1>7. Follows(CreatePost[6], kn[6], kn[7], empty)
  BY DEF CreatePost, Needed, Mandatory, Routes, Follows, Requires, Looking, Using, Goals, Effect,
       Lost, Gained, Typing, Sending, Seeing, Fields, Weaker, Know, Base, Page, Do, Await, AwaitIf,
       Step
<1>8. kn[1] = Base(T) /\ kn[7] = Base(T)
  OBVIOUS
<1> HIDE DEF kn
<1>9. \A k \in 1 .. 6 : CreatePost[k].op # "identity" /\ Follows(CreatePost[k], kn[k], kn[k + 1], empty)
  <2>1. \A k \in 1 .. 6 : CreatePost[k].op # "identity"
    BY DEF CreatePost, Do, Await, AwaitIf, Step
  <2> QED
    BY <1>2, <1>3, <1>4, <1>5, <1>6, <1>7, <2>1
<1>10. Outline(CreatePost, kn, empty)
  BY <1>1, <1>9 DEF Outline
<1> QED
  BY <1>1, <1>8, <1>10 DEF Leads

LEMMA CommentLeads ==
  ASSUME NEW empty, NEW T, empty \cap Needed = {}, ~ (Comments \subseteq empty), "grant" \in T
  PROVE  Leads(Base(T), Comment, Base(T \cup {"CommentSend"}), empty)
<1> DEFINE C == IF "CommentVisible" \in empty THEN Page({}, {"CommentSend"}, T)
                ELSE Page({}, {}, T \cup {"CommentSend"})
           kn == << Base(T), Base(T), Page({}, {}, T), Page({"ThreadID"}, {}, T),
                    Page({"ThreadID", "CommentContent"}, {}, T), Page({}, {"CommentSend"}, T),
                    Page({}, {"CommentSend"}, T), Page({}, {"CommentSend"}, T), C, C,
                    Base(T \cup {"CommentSend"}) >>
<1>1. Len(Comment) = 10 /\ DOMAIN Comment = 1 .. 10
  BY DEF Comment
<1>2. Follows(Comment[1], kn[1], kn[2], empty)
  BY DEF Comment, Comments, Needed, Mandatory, Follows, Requires, Looking, Using, Goals, Effect,
       Lost, Gained, Typing, Sending, Seeing, Fields, Weaker, Know, Base, Page, Do, Await, AwaitIf,
       Step
<1>3. Follows(Comment[2], kn[2], kn[3], empty)
  BY DEF Comment, Comments, Needed, Mandatory, Follows, Requires, Looking, Using, Goals, Effect,
       Lost, Gained, Typing, Sending, Seeing, Fields, Weaker, Know, Base, Page, Do, Await, AwaitIf,
       Step
<1>4. Follows(Comment[3], kn[3], kn[4], empty)
  BY DEF Comment, Comments, Needed, Mandatory, Follows, Requires, Looking, Using, Goals, Effect,
       Lost, Gained, Typing, Sending, Seeing, Fields, Weaker, Know, Base, Page, Do, Await, AwaitIf,
       Step
<1>5. Follows(Comment[4], kn[4], kn[5], empty)
  BY DEF Comment, Comments, Needed, Mandatory, Follows, Requires, Looking, Using, Goals, Effect,
       Lost, Gained, Typing, Sending, Seeing, Fields, Weaker, Know, Base, Page, Do, Await, AwaitIf,
       Step
<1>6. Follows(Comment[5], kn[5], kn[6], empty)
  BY DEF Comment, Comments, Needed, Mandatory, Follows, Requires, Looking, Using, Goals, Effect,
       Lost, Gained, Typing, Sending, Seeing, Fields, Weaker, Know, Base, Page, Do, Await, AwaitIf,
       Step
<1>7. Follows(Comment[6], kn[6], kn[7], empty)
  BY DEF Comment, Comments, Needed, Mandatory, Follows, Requires, Looking, Using, Goals, Effect,
       Lost, Gained, Typing, Sending, Seeing, Fields, Weaker, Know, Base, Page, Do, Await, AwaitIf,
       Step
<1>8. Follows(Comment[7], kn[7], kn[8], empty)
  BY DEF Comment, Comments, Needed, Mandatory, Follows, Requires, Looking, Using, Goals, Effect,
       Lost, Gained, Typing, Sending, Seeing, Fields, Weaker, Know, Base, Page, Do, Await, AwaitIf,
       Step
<1>9. Follows(Comment[8], kn[8], kn[9], empty)
  BY DEF Comment, Comments, Needed, Mandatory, Follows, Requires, Looking, Using, Goals, Effect,
       Lost, Gained, Typing, Sending, Seeing, Fields, Weaker, Know, Base, Page, Do, Await, AwaitIf,
       Step
<1>10. Follows(Comment[9], kn[9], kn[10], empty)
  BY DEF Comment, Comments, Needed, Mandatory, Follows, Requires, Looking, Using, Goals, Effect,
       Lost, Gained, Typing, Sending, Seeing, Fields, Weaker, Know, Base, Page, Do, Await, AwaitIf,
       Step
<1>11. Follows(Comment[10], kn[10], kn[11], empty)
  BY DEF Comment, Comments, Needed, Mandatory, Follows, Requires, Looking, Using, Goals, Effect,
       Lost, Gained, Typing, Sending, Seeing, Fields, Weaker, Know, Base, Page, Do, Await, AwaitIf,
       Step
<1>12. kn[1] = Base(T) /\ kn[11] = Base(T \cup {"CommentSend"})
  OBVIOUS
<1> HIDE DEF kn
<1>13. \A k \in 1 .. 10 : Comment[k].op # "identity" /\ Follows(Comment[k], kn[k], kn[k + 1], empty)
  <2>1. \A k \in 1 .. 10 : Comment[k].op # "identity"
    BY DEF Comment, Do, Await, AwaitIf, Step
  <2> QED
    BY <1>2, <1>3, <1>4, <1>5, <1>6, <1>7, <1>8, <1>9, <1>10, <1>11, <2>1
<1>14. Outline(Comment, kn, empty)
  BY <1>1, <1>13 DEF Outline
<1> QED
  BY <1>1, <1>12, <1>14 DEF Leads

LEMMA AdminReadsLeads ==
  ASSUME NEW empty, NEW T, "ServerVisible" \notin empty
  PROVE  Leads(Know({}, {}, {}, T \cup {"ApproveRequest", "RoleSave"}), AdminReads, Know({}, {}, {}, T), empty)
<1> DEFINE kn == << Know({}, {}, {}, T \cup {"ApproveRequest", "RoleSave"}),
                    Know({}, {}, {}, T \cup {"ApproveRequest", "RoleSave"}), Know({}, {}, {}, T) >>
<1>1. Len(AdminReads) = 2 /\ DOMAIN AdminReads = 1 .. 2
  BY DEF AdminReads
<1>2. \A k \in 1 .. 2 : AdminReads[k].op # "identity" /\ Follows(AdminReads[k], kn[k], kn[k + 1], empty)
  BY DEF AdminReads, Follows, Requires, Looking, Using, Goals, Effect, Lost, Gained, Typing,
       Sending, Seeing, Fields, Weaker, Know, Base, Page, Do, Await, AwaitIf, Step
<1>3. kn[1] = Know({}, {}, {}, T \cup {"ApproveRequest", "RoleSave"}) /\ kn[3] = Know({}, {}, {}, T)
  OBVIOUS
<1> HIDE DEF kn
<1>4. Outline(AdminReads, kn, empty)
  BY <1>1, <1>2 DEF Outline
<1> QED
  BY <1>1, <1>3, <1>4 DEF Leads

LEMMA ReadsLeads ==
  ASSUME NEW empty, NEW T, {"DMSend", "GroupSend", "CommentSend"} \subseteq T
  PROVE  Leads(Know({}, {}, {}, T), Reads, Know({}, {}, {}, T), empty)
<1> DEFINE kn == << Know({}, {}, {}, T), Know({}, {}, {}, T), Know({}, {}, {}, T), Know({}, {}, {}, T) >>
<1>1. Len(Reads) = 3 /\ DOMAIN Reads = 1 .. 3
  BY DEF Reads
<1>2. Follows(Reads[1], kn[1], kn[2], empty)
  BY DEF Reads, Follows, Requires, Looking, Using, Goals, Effect, Lost, Gained, Typing, Sending,
       Seeing, Fields, Weaker, Know, Base, Page, Do, Await, AwaitIf, Step
<1>3. Follows(Reads[2], kn[2], kn[3], empty)
  BY DEF Reads, Follows, Requires, Looking, Using, Goals, Effect, Lost, Gained, Typing, Sending,
       Seeing, Fields, Weaker, Know, Base, Page, Do, Await, AwaitIf, Step
<1>4. Follows(Reads[3], kn[3], kn[4], empty)
  BY DEF Reads, Follows, Requires, Looking, Using, Goals, Effect, Lost, Gained, Typing, Sending,
       Seeing, Fields, Weaker, Know, Base, Page, Do, Await, AwaitIf, Step
<1>5. kn[1] = Know({}, {}, {}, T) /\ kn[4] = Know({}, {}, {}, T)
  OBVIOUS
<1> HIDE DEF kn
<1>6. \A k \in 1 .. 3 : Reads[k].op # "identity" /\ Follows(Reads[k], kn[k], kn[k + 1], empty)
  <2>1. \A k \in 1 .. 3 : Reads[k].op # "identity"
    BY DEF Reads, Do, Await, AwaitIf, Step
  <2> QED
    BY <1>2, <1>3, <1>4, <2>1
<1>7. Outline(Reads, kn, empty)
  BY <1>1, <1>6 DEF Outline
<1> QED
  BY <1>1, <1>5, <1>7 DEF Leads

LEMMA ClosingLeads ==
  ASSUME NEW empty, NEW T
  PROVE  Leads(Base(T), Closing, Know({}, {}, {}, T), empty)
<1> DEFINE kn == << Base(T), Know({}, {}, {}, T) >>
<1>1. Len(Closing) = 1 /\ DOMAIN Closing = 1 .. 1
  BY DEF Closing
<1>2. \A k \in 1 .. 1 : Closing[k].op # "identity" /\ Follows(Closing[k], kn[k], kn[k + 1], empty)
  BY DEF Closing, Follows, Requires, Looking, Using, Goals, Effect, Lost, Gained, Typing, Sending,
       Seeing, Fields, Weaker, Know, Base, Page, Do, Await, AwaitIf, Step
<1>3. kn[1] = Base(T) /\ kn[2] = Know({}, {}, {}, T)
  OBVIOUS
<1> HIDE DEF kn
<1>4. Outline(Closing, kn, empty)
  BY <1>1, <1>2 DEF Outline
<1> QED
  BY <1>1, <1>3, <1>4 DEF Leads

(* The parts that add nothing.                                             *)
LEMMA ServerPageLeads ==
  ASSUME NEW empty, NEW T
  PROVE  Leads(Base(T), ServerPage, Base(T), empty)
<1>1. \A k \in DOMAIN ServerPage :
        Follows(ServerPage[k], Base(T), Base(T), empty)
  BY DEF ServerPage, Follows, Requires, Looking, Using, Goals, Effect, Lost, Gained, Typing,
       Sending, Seeing, Fields, Weaker, Know, Base, Page, Do, Await, AwaitIf, Step
<1> QED
  BY <1>1, Pieces, Steady

LEMMA NotificationsLeads ==
  ASSUME NEW empty, NEW T
  PROVE  Leads(Base(T), Notifications, Base(T), empty)
<1>1. \A k \in DOMAIN Notifications :
        Follows(Notifications[k], Base(T), Base(T), empty)
  BY DEF Notifications, Follows, Requires, Looking, Using, Goals, Effect, Lost, Gained, Typing,
       Sending, Seeing, Fields, Weaker, Know, Base, Page, Do, Await, AwaitIf, Step
<1> QED
  BY <1>1, Pieces, Steady

(* The routes need the whole navigation, and the desktop again.            *)
LEMMA ApplicationIALeads ==
  ASSUME NEW empty, NEW T, empty \cap Needed = {}
  PROVE  Leads(Know({"desktop", "real"}, {}, {}, T), ApplicationIA, Know({"desktop", "real"}, {}, {}, T), empty)
<1> DEFINE K == Know({"desktop", "real"}, {}, {}, T)
           M == Know({"real"}, {}, {}, T)
           first == << Do("landmarks", "page") >>
           routes == [k \in DOMAIN Routes |-> Do("route", Routes[k])]
           last == << Do("viewport", "mobile"), Do("snapshot", "page"), Do("viewport", "desktop"), Do("open", "/") >>
           kn == << K, M, M, K, K >>
<1>1. WellFormed(first) /\ Leads(K, first, K, empty)
  <2>1. first \in Seq(AnyStep) /\ \A k \in DOMAIN first : first[k].op # "identity"
    BY DEF Do, Step, AnyStep, Calls, Places
  <2>2. \A k \in DOMAIN first : Follows(first[k], K, K, empty)
    BY DEF Follows, Requires, Looking, Using, Goals, Effect, Lost, Gained, Typing, Sending, Seeing,
         Fields, Weaker, Know, Base, Page, Do, Await, AwaitIf, Step
  <2> QED
    BY <2>1, <2>2, NoForm, Steady
<1>2. WellFormed(routes) /\ Leads(K, routes, K, empty)
  <2>1. routes \in Seq(AnyStep) /\ \A k \in DOMAIN routes : routes[k].op # "identity"
    BY DEF Routes, Do, Step, AnyStep, Calls, Places, Selectors
  <2>2. \A k \in DOMAIN routes : Follows(routes[k], K, K, empty)
    <3> TAKE k \in DOMAIN routes
    <3>1. routes[k] = Do("route", Routes[k]) /\ Routes[k] \notin empty
      BY DEF Needed
    <3> QED
      BY <3>1 DEF Follows, Requires, Looking, Using, Goals, Effect, Lost, Gained, Typing, Sending,
           Seeing, Fields, Weaker, Know, Base, Page, Do, Await, AwaitIf, Step
  <2> QED
    BY <2>1, <2>2, NoForm, Steady
<1>3. WellFormed(last) /\ Leads(K, last, K, empty)
  <2>1. last \in Seq(AnyStep) /\ Len(last) = 4 /\ DOMAIN last = 1 .. 4
    BY DEF Do, Step, AnyStep, Calls, Places
  <2>2. \A k \in 1 .. 4 : last[k].op # "identity"
    BY DEF Do, Step
  <2>3. Follows(last[1], kn[1], kn[2], empty)
    BY DEF Follows, Requires, Looking, Using, Goals, Effect, Lost, Gained, Typing, Sending, Seeing,
         Fields, Weaker, Know, Base, Page, Do, Await, AwaitIf, Step
  <2>4. Follows(last[2], kn[2], kn[3], empty)
    BY DEF Follows, Requires, Looking, Using, Goals, Effect, Lost, Gained, Typing, Sending, Seeing,
         Fields, Weaker, Know, Base, Page, Do, Await, AwaitIf, Step
  <2>5. Follows(last[3], kn[3], kn[4], empty)
    BY DEF Follows, Requires, Looking, Using, Goals, Effect, Lost, Gained, Typing, Sending, Seeing,
         Fields, Weaker, Know, Base, Page, Do, Await, AwaitIf, Step
  <2>6. Follows(last[4], kn[4], kn[5], empty)
    BY DEF Follows, Requires, Looking, Using, Goals, Effect, Lost, Gained, Typing, Sending, Seeing,
         Fields, Weaker, Know, Base, Page, Do, Await, AwaitIf, Step
  <2>7. \A k \in 1 .. 4 : last[k].op # "identity" /\ Follows(last[k], kn[k], kn[k + 1], empty)
    BY <2>2, <2>3, <2>4, <2>5, <2>6
  <2>8. kn[1] = K /\ kn[5] = K
    OBVIOUS
  <2> HIDE DEF last, kn
  <2>9. Outline(last, kn, empty)
    BY <2>1, <2>7 DEF Outline
  <2> QED
    BY <2>1, <2>7, <2>8, <2>9, NoForm DEF Leads
<1>4. ApplicationIA = first \o routes \o last
  BY DEF ApplicationIA
<1> HIDE DEF first, routes, last, K
<1>5. WellFormed(first \o routes) /\ Leads(K, first \o routes, K, empty)
  BY <1>1, <1>2, LeadsOn, JoinedWellFormed
<1>6. Leads(K, first \o routes \o last, K, empty)
  BY <1>3, <1>5, LeadsOn
<1> QED
  BY <1>4, <1>6 DEF K

(* The form is filled in, or the page has connected by itself.             *)
LEMMA LoginLeads ==
  ASSUME NEW empty, NEW T, empty \cap Needed = {}
  PROVE  Leads(Know({"desktop", "real"}, {}, {}, T), Login, Base(T), empty)
<1> DEFINE there == {"desktop", "real", "shown"}
           kn == << Know({"desktop", "real"}, {}, {}, T), Know(there, {}, {}, T),
                    Know(there, {"IdentityID"}, {}, T), Know(there, {"IdentityID"}, {}, T),
                    Know(there, {}, {"IdentityLoad"}, T), Base(T) >>
<1>1. Len(Login) = 5 /\ DOMAIN Login = 1 .. 5
  BY DEF Login
<1>2. Follows(Login[1], kn[1], kn[2], empty)
  BY DEF Login, Form, Needed, Follows, Requires, Looking, Using, Goals, Effect, Lost, Gained,
       Typing, Sending, Seeing, Fields, Weaker, Know, Base, Page, Do, Await, AwaitIf, Step
<1>3. Follows(Login[2], kn[2], kn[3], empty)
  BY DEF Login, Form, Needed, Follows, Requires, Looking, Using, Goals, Effect, Lost, Gained,
       Typing, Sending, Seeing, Fields, Weaker, Know, Base, Page, Do, Await, AwaitIf, Step
<1>4. Follows(Login[3], kn[3], kn[4], empty)
  BY DEF Login, Form, Follows, Requires, Looking, Using, Goals, Effect, Lost, Gained, Typing,
       Sending, Seeing, Fields, Weaker, Know, Base, Page, Do, Await, AwaitIf, Step
<1>5. Follows(Login[4], kn[4], kn[5], empty)
  BY DEF Login, Form, Needed, Follows, Requires, Looking, Using, Goals, Effect, Lost, Gained,
       Typing, Sending, Seeing, Fields, Weaker, Know, Base, Page, Do, Await, AwaitIf, Step
<1>6. Follows(Login[5], kn[5], kn[6], empty)
  BY DEF Login, Form, Needed, Follows, Requires, Looking, Using, Goals, Effect, Lost, Gained,
       Typing, Sending, Seeing, Fields, Weaker, Know, Base, Page, Do, Await, AwaitIf, Step
<1>7. Weaker(kn[5], Connected(kn[1]))
  BY DEF Weaker, Connected, Know
<1>8. \A k \in 1 .. 5 : Login[k].op = "identity" => k = 1
  BY DEF Login, Do, Await, AwaitIf, Step
<1>9. kn[1] = Know({"desktop", "real"}, {}, {}, T) /\ kn[6] = Base(T)
  OBVIOUS
<1> HIDE DEF kn
<1>10. Outline(Login, kn, empty)
  BY <1>1, <1>2, <1>3, <1>4, <1>5, <1>6, <1>7, <1>8 DEF Outline
<1> QED
  BY <1>1, <1>9, <1>10 DEF Leads

(* The administration ends with what it has to do done.                    *)
LEMMA AdministrationLeads ==
  ASSUME NEW empty, NEW T, "grant" \in T, empty \cap Needed = {}, empty \cap Administrative = {}
  PROVE  Leads(Base(T), Administration, Base(T \cup {"ApproveRequest", "RoleSave"}), empty)
<1> DEFINE entered == Page({"ServerID", "Enter"}, {}, T)
           A == T \cup {"ApproveRequest"}
           first == << Step("open", "settings", {"NavAdmin"}), AwaitIf("content", "ServerID", {"NavAdmin"}),
                       Step("fill", "ServerID", {"ServerID"}), Step("press", "ServerID", {"ServerID"}) >>
           kf == << Base(T), Base(T), Page({}, {}, T), Page({"ServerID"}, {}, T), entered >>
           panels == [k \in DOMAIN Panels |-> AwaitIf("panels", Panels[k], {})]
           last == << Step("click", "ApproveRequest", {"ApproveRequest"}),
                      AwaitIf("ApproveRequest", "RequestVisible", {"ApproveRequest"}),
                      Step("choose", "RoleParticipant", Roles), Step("fill", "RoleValue", Roles),
                      Step("click", "RoleSave", Roles), AwaitIf("RoleSave", "RoleResult", Roles),
                      Do("snapshot", "page") >>
           kl == << entered, Page({"Enter"}, {"ApproveRequest"}, T), Page({"Enter"}, {}, A),
                    Page({"Enter", "RoleParticipant"}, {}, A),
                    Page({"Enter", "RoleParticipant", "RoleValue"}, {}, A), Page({}, {"RoleSave"}, A),
                    Base(T \cup {"ApproveRequest", "RoleSave"}), Base(T \cup {"ApproveRequest", "RoleSave"}) >>
<1>1. WellFormed(first) /\ Leads(Base(T), first, entered, empty)
  <2>1. first \in Seq(AnyStep) /\ Len(first) = 4 /\ DOMAIN first = 1 .. 4
    BY DEF Await, AwaitIf, Do, Step, AnyStep, Calls, Places, Selectors
  <2>2. \A k \in 1 .. 4 : first[k].op # "identity"
    BY DEF Do, Await, AwaitIf, Step
  <2>3. Follows(first[1], kf[1], kf[2], empty) /\ Follows(first[2], kf[2], kf[3], empty)
    BY DEF Needed, Routes, Administrative, Follows, Requires, Looking, Using, Goals, Effect, Lost,
         Gained, Typing, Sending, Seeing, Fields, Weaker, Know, Base, Page, Do, Await, AwaitIf, Step
  <2>4. Follows(first[3], kf[3], kf[4], empty) /\ Follows(first[4], kf[4], kf[5], empty)
    BY DEF Administrative, Follows, Requires, Looking, Using, Goals, Effect, Lost, Gained, Typing,
         Sending, Seeing, Fields, Weaker, Know, Base, Page, Do, Await, AwaitIf, Step
  <2>5. kf[1] = Base(T) /\ kf[5] = entered
    OBVIOUS
  <2> HIDE DEF first, kf
  <2>6. Outline(first, kf, empty)
    BY <2>1, <2>2, <2>3, <2>4 DEF Outline
  <2> QED
    BY <2>1, <2>2, <2>5, <2>6, NoForm DEF Leads
<1>2. WellFormed(panels) /\ Leads(entered, panels, entered, empty)
  <2>1. panels \in Seq(AnyStep) /\ \A k \in DOMAIN panels : panels[k].op # "identity"
    BY DEF Panels, Await, AwaitIf, Step, AnyStep, Calls, Places, Selectors
  <2>2. \A k \in DOMAIN panels : Follows(panels[k], entered, entered, empty)
    <3> TAKE k \in DOMAIN panels
    <3>1. panels[k] = AwaitIf("panels", Panels[k], {})
      OBVIOUS
    <3> QED
      BY <3>1 DEF Follows, Requires, Looking, Using, Goals, Effect, Lost, Gained, Typing, Sending,
           Seeing, Fields, Weaker, Know, Base, Page, Do, Await, AwaitIf, Step
  <2> QED
    BY <2>1, <2>2, NoForm, Steady
<1>3. WellFormed(last) /\ Leads(entered, last, Base(T \cup {"ApproveRequest", "RoleSave"}), empty)
  <2>1. last \in Seq(AnyStep) /\ Len(last) = 7 /\ DOMAIN last = 1 .. 7
    BY DEF Roles, Await, AwaitIf, Do, Step, AnyStep, Calls, Places, Selectors
  <2>2. \A k \in 1 .. 7 : last[k].op # "identity"
    BY DEF Do, Await, AwaitIf, Step
  <2>3. Follows(last[1], kl[1], kl[2], empty)
    BY DEF Administrative, Follows, Requires, Looking, Using, Goals, Effect, Lost, Gained, Typing,
         Sending, Seeing, Fields, Weaker, Know, Base, Page, Do, Await, AwaitIf, Step
  <2>4. Follows(last[2], kl[2], kl[3], empty)
    BY DEF Administrative, Follows, Requires, Looking, Using, Goals, Effect, Lost, Gained, Typing,
         Sending, Seeing, Fields, Weaker, Know, Base, Page, Do, Await, AwaitIf, Step
  <2>5. Follows(last[3], kl[3], kl[4], empty)
    BY DEF Administrative, Roles, Follows, Requires, Looking, Using, Goals, Effect, Lost, Gained,
         Typing, Sending, Seeing, Fields, Weaker, Know, Base, Page, Do, Await, AwaitIf, Step
  <2>6. Follows(last[4], kl[4], kl[5], empty)
    BY DEF Administrative, Roles, Follows, Requires, Looking, Using, Goals, Effect, Lost, Gained,
         Typing, Sending, Seeing, Fields, Weaker, Know, Base, Page, Do, Await, AwaitIf, Step
  <2>7. Follows(last[5], kl[5], kl[6], empty)
    BY DEF Administrative, Roles, Follows, Requires, Looking, Using, Goals, Effect, Lost, Gained,
         Typing, Sending, Seeing, Fields, Weaker, Know, Base, Page, Do, Await, AwaitIf, Step
  <2>8. Follows(last[6], kl[6], kl[7], empty)
    BY DEF Administrative, Roles, Follows, Requires, Looking, Using, Goals, Effect, Lost, Gained,
         Typing, Sending, Seeing, Fields, Weaker, Know, Base, Page, Do, Await, AwaitIf, Step
  <2>9. Follows(last[7], kl[7], kl[8], empty)
    BY DEF Follows, Requires, Looking, Using, Goals, Effect, Lost, Gained, Typing, Sending, Seeing,
         Fields, Weaker, Know, Base, Page, Do, Await, AwaitIf, Step
  <2>10. kl[1] = entered /\ kl[8] = Base(T \cup {"ApproveRequest", "RoleSave"})
    OBVIOUS
  <2> HIDE DEF last, kl
  <2>11. Outline(last, kl, empty)
    BY <2>1, <2>2, <2>3, <2>4, <2>5, <2>6, <2>7, <2>8, <2>9 DEF Outline
  <2> QED
    BY <2>1, <2>2, <2>10, <2>11, NoForm DEF Leads
<1>4. Administration = first \o panels \o last
  BY DEF Administration
<1> HIDE DEF first, panels, last, entered
<1>5. WellFormed(first \o panels) /\ Leads(Base(T), first \o panels, entered, empty)
  BY <1>1, <1>2, LeadsOn, JoinedWellFormed
<1> QED
  BY <1>3, <1>4, <1>5, LeadsOn

(* With its selector, a part is as it was, and without it, it is not there. *)
LEMMA OnlyWithLeads ==
  ASSUME NEW empty, NEW selector \in Selectors, NEW s, WellFormed(s), NEW P, NEW Q
  PROVE  /\ selector \notin empty /\ Leads(P, s, Q, empty) => Leads(P, OnlyWith(selector, s), Q, empty)
         /\ selector \in empty => Leads(P, OnlyWith(selector, s), P, empty)
<1> DEFINE w == OnlyWith(selector, s)
<1>1. /\ WellFormed(w) /\ DOMAIN w = DOMAIN s
      /\ \A k \in DOMAIN s : /\ w[k].op = s[k].op /\ w[k].at = s[k].at /\ w[k].by = s[k].by
                             /\ w[k].needs = s[k].needs \cup {selector}
  BY WithSelector
<1>2. Len(w) = Len(s)
  <2>1. w \in Seq(AnyStep) /\ s \in Seq(AnyStep)
    BY <1>1 DEF WellFormed
  <2> QED
    BY <1>1, <2>1, LenProperties
<1> HIDE DEF w
<1>3. ASSUME selector \notin empty, Leads(P, s, Q, empty) PROVE Leads(P, w, Q, empty)
  <2>1. PICK kn : kn[1] = P /\ kn[Len(s) + 1] = Q /\ Outline(s, kn, empty)
    BY <1>3 DEF Leads
  <2>2. ASSUME NEW k \in DOMAIN s PROVE Follows(w[k], kn[k], kn[k + 1], empty)
    <3>1. w[k].needs \cap empty = {} <=> s[k].needs \cap empty = {}
      BY <1>1, <1>3
    <3>2. Requires(w[k], kn[k], empty) <=> Requires(s[k], kn[k], empty)
      BY <1>1 DEF Requires
    <3>3. Effect(w[k], kn[k]) = Effect(s[k], kn[k])
      BY <1>1 DEF Effect, Lost, Gained, Typing, Sending, Seeing
    <3> QED
      BY <2>1, <3>1, <3>2, <3>3 DEF Outline, Follows
  <2>3. Outline(w, kn, empty)
    BY <1>1, <2>1, <2>2 DEF Outline
  <2> QED
    BY <1>2, <2>1, <2>3 DEF Leads
<1>4. ASSUME selector \in empty PROVE Leads(P, w, P, empty)
  <2>1. \A k \in DOMAIN w : w[k].needs \cap empty # {}
    BY <1>1, <1>4
  <2>2. Weaker(P, P)
    BY DEF Weaker
  <2> QED
    BY <1>1, <2>1, <2>2, Steady DEF Follows
<1> QED
  BY <1>3, <1>4 DEF w

(* The whole script, for every set of selectors that does not misguide it. *)
Nothing == Know({}, {}, {}, {})
ReadByAll == {"grant", "DMSend", "GroupSend", "CommentSend"}

LEMMA HumanFlowLeads ==
  ASSUME NEW empty, ~ Misguided(empty)
  PROVE  Leads(Know({}, {}, {}, {"grant"}), HumanFlow, Base(ReadByAll), empty)
<1> DEFINE T0 == {"grant"}
           T1 == T0 \cup {"DMSend"}
           T2 == T1 \cup {"GroupSend"}
           T3 == T2 \cup {"CommentSend"}
           P0 == Know({}, {}, {}, T0)
           P1 == Know({"desktop", "real"}, {}, {}, T0)
<1>1. empty \cap Needed = {} /\ ~ (Comments \subseteq empty)
  BY DEF Misguided
<1>2. "grant" \in T0 /\ "grant" \in T1 /\ "grant" \in T2
  OBVIOUS
<1>3. T3 = ReadByAll
  BY DEF ReadByAll
<1> HIDE DEF T0, T1, T2, T3
<1>4. Leads(P0, Start, P1, empty) /\ Leads(P1, ApplicationIA, P1, empty) /\ Leads(P1, Login, Base(T0), empty)
  BY <1>1, StartLeads, ApplicationIALeads, LoginLeads
<1>5. Leads(Base(T0), ServerPage, Base(T0), empty) /\ Leads(Base(T0), CreateGroup, Base(T0), empty)
  BY <1>1, <1>2, ServerPageLeads, CreateGroupLeads
<1>6. Leads(Base(T0), SendDM, Base(T1), empty) /\ Leads(Base(T1), SendGroupMessage, Base(T2), empty)
  BY <1>1, <1>2, SendDMLeads, SendGroupMessageLeads DEF T1, T2
<1>7. Leads(Base(T2), CreatePost, Base(T2), empty) /\ Leads(Base(T2), Comment, Base(T3), empty)
  BY <1>1, <1>2, CreatePostLeads, CommentLeads DEF T3
<1>8. Leads(Base(T3), Notifications, Base(T3), empty)
  BY NotificationsLeads
<1> HIDE DEF P0, P1
<1> DEFINE s2 == Start \o ApplicationIA
           s3 == s2 \o Login
           s4 == s3 \o ServerPage
           s5 == s4 \o CreateGroup
           s6 == s5 \o SendDM
           s7 == s6 \o SendGroupMessage
           s8 == s7 \o CreatePost
           s9 == s8 \o Comment
<1>9. HumanFlow = s9 \o Notifications
  BY DEF HumanFlow
<1> HIDE DEF s2, s3, s4, s5, s6, s7, s8, s9
<1>10. WellFormed(s2) /\ Leads(P0, s2, P1, empty)
  BY <1>4, Pieces, JoinedWellFormed, LeadsOn DEF s2
<1>11. WellFormed(s3) /\ Leads(P0, s3, Base(T0), empty)
  BY <1>4, <1>10, LoginWellFormed, JoinedWellFormed, LeadsOn DEF s3
<1>12. WellFormed(s4) /\ Leads(P0, s4, Base(T0), empty)
  BY <1>5, <1>11, Pieces, JoinedWellFormed, LeadsOn DEF s4
<1>13. WellFormed(s5) /\ Leads(P0, s5, Base(T0), empty)
  BY <1>5, <1>12, Pieces, JoinedWellFormed, LeadsOn DEF s5
<1>14. WellFormed(s6) /\ Leads(P0, s6, Base(T1), empty)
  BY <1>6, <1>13, Pieces, JoinedWellFormed, LeadsOn DEF s6
<1>15. WellFormed(s7) /\ Leads(P0, s7, Base(T2), empty)
  BY <1>6, <1>14, Pieces, JoinedWellFormed, LeadsOn DEF s7
<1>16. WellFormed(s8) /\ Leads(P0, s8, Base(T2), empty)
  BY <1>7, <1>15, Pieces, JoinedWellFormed, LeadsOn DEF s8
<1>17. WellFormed(s9) /\ Leads(P0, s9, Base(T3), empty)
  BY <1>7, <1>16, Pieces, JoinedWellFormed, LeadsOn DEF s9
<1> QED
  BY <1>3, <1>8, <1>9, <1>17, Pieces, LeadsOn DEF P0, T0

LEMMA AdministeringLeads ==
  ASSUME NEW empty, ~ Misguided(empty), "ServerVisible" \notin empty
  PROVE  Leads(Know({}, {}, {}, ReadByAll), Administering, Know({}, {}, {}, ReadByAll), empty)
<1> DEFINE K == Know({}, {}, {}, ReadByAll)
           P1 == Know({"desktop", "real"}, {}, {}, ReadByAll)
           all == ReadByAll \cup {"ApproveRequest", "RoleSave"}
           K2 == Know({}, {}, {}, all)
<1>1. empty \cap Needed = {} /\ empty \cap Administrative = {} /\ "grant" \in ReadByAll
  BY DEF Misguided, ReadByAll
<1>2. Leads(K, Start, P1, empty) /\ Leads(P1, Login, Base(ReadByAll), empty)
  BY <1>1, StartLeads, LoginLeads
<1>3. Leads(Base(ReadByAll), Administration, Base(all), empty)
  BY <1>1, AdministrationLeads
<1>4. Leads(Base(all), Closing, K2, empty)
  BY ClosingLeads
<1>5. Leads(K2, AdminReads, K, empty)
  BY AdminReadsLeads
<1> HIDE DEF K, P1, all, K2
<1> DEFINE s2 == Start \o Login
           s3 == s2 \o Administration
           s4 == s3 \o Closing
<1>6. Administering = s4 \o AdminReads
  BY DEF Administering, AdminFlow
<1> HIDE DEF s2, s3, s4
<1>7. WellFormed(s2) /\ Leads(K, s2, Base(ReadByAll), empty)
  BY <1>2, Pieces, LoginWellFormed, JoinedWellFormed, LeadsOn DEF s2
<1>8. WellFormed(s3) /\ Leads(K, s3, Base(all), empty)
  BY <1>3, <1>7, Pieces, JoinedWellFormed, LeadsOn DEF s3
<1>9. WellFormed(s4) /\ Leads(K, s4, K2, empty)
  BY <1>4, <1>8, ClosingCloses, JoinedWellFormed, LeadsOn DEF s4
<1> QED
  BY <1>5, <1>6, <1>9, Pieces, LeadsOn DEF K

LEMMA ScriptLeads ==
  ASSUME NEW empty, ~ Misguided(empty)
  PROVE  Leads(Nothing, Script, Know({}, {}, {}, ReadByAll), empty)
<1> DEFINE K == Know({}, {}, {}, ReadByAll)
           W == OnlyWith("ServerVisible", Administering)
           G == Know({}, {}, {}, {"grant"})
           s1 == Prepare \o HumanFlow
<1>1. Leads(Nothing, Prepare, G, empty)
  BY PrepareLeads DEF Nothing
<1>2. Leads(G, HumanFlow, Base(ReadByAll), empty)
  BY HumanFlowLeads
<1>3. Leads(Base(ReadByAll), Closing, K, empty)
  BY ClosingLeads
<1>4. Leads(K, W, K, empty)
  <2>1. "ServerVisible" \in Selectors
    BY DEF Selectors
  <2>2. CASE "ServerVisible" \in empty
    BY <2>1, <2>2, ScriptWellFormed, OnlyWithLeads
  <2>3. CASE "ServerVisible" \notin empty
    BY <2>1, <2>3, AdministeringLeads, ScriptWellFormed, OnlyWithLeads
  <2> QED
    BY <2>2, <2>3
<1>5. Leads(K, Reads, K, empty)
  BY ReadsLeads DEF ReadByAll
<1>6. Script = Before \o W \o Reads /\ Before = s1 \o Closing
  BY DEF Script, Before, Administering
<1>7. WellFormed(W) /\ WellFormed(Before) /\ WellFormed(Reads)
  BY ScriptWellFormed, Pieces
<1> HIDE DEF K, W, G, s1
<1>8. WellFormed(s1) /\ Leads(Nothing, s1, Base(ReadByAll), empty)
  BY <1>1, <1>2, Pieces, FlowsWellFormed, JoinedWellFormed, LeadsOn DEF s1
<1>9. Leads(Nothing, Before, K, empty)
  BY <1>3, <1>6, <1>8, ClosingCloses, LeadsOn
<1>10. WellFormed(Before \o W) /\ Leads(Nothing, Before \o W, K, empty)
  BY <1>4, <1>7, <1>9, JoinedWellFormed, LeadsOn
<1>11. Leads(Nothing, Before \o W \o Reads, K, empty)
  BY <1>5, <1>7, <1>10, LeadsOn
<1> QED
  BY <1>6, <1>11 DEF K

-----------------------------------------------------------------------------
(* What the outline says is so.                                            *)

(* What was sent the server will have, as nothing stands against it.       *)
OnItsWay(button, br, pd, dn) ==
  IF button = "IdentityLoad" THEN button \in pd \/ br.login = "human"
  ELSE button \in dn \/ (button \in pd /\ br.login = "human" /\ "grant" \in dn)

Known(K, br, pg, pd, dn) ==
  /\ "desktop" \in K.flags => br.viewport = "desktop"
  /\ "real" \in K.flags => br.real
  /\ "shown" \in K.flags => pg.shown
  /\ "human" \in K.flags => br.login = "human"
  /\ K.typed \subseteq pg.filled
  /\ \A button \in K.sent : OnItsWay(button, br, pd, dn)
  /\ K.there \subseteq dn

LEMMA WeakerKnown ==
  ASSUME NEW K, NEW L, NEW br, NEW pg, NEW pd, NEW dn, Weaker(K, L), Known(L, br, pg, pd, dn)
  PROVE  Known(K, br, pg, pd, dn)
BY DEF Weaker, Known

Annotated(empty) == CHOOSE kn : kn[1] = Nothing /\ Outline(Script, kn, empty)

LEMMA Annotation ==
  ASSUME NEW empty, ~ Misguided(empty)
  PROVE  Annotated(empty)[1] = Nothing /\ Outline(Script, Annotated(empty), empty)
<1>1. \E kn : kn[1] = Nothing /\ Outline(Script, kn, empty)
  BY ScriptLeads DEF Leads
<1> QED
  BY <1>1 DEF Annotated

(* What is known before steps that are left out is known after them.       *)
LEMMA LeftOut ==
  ASSUME NEW empty, ~ Misguided(empty), NEW a \in 1 .. End, NEW b \in 1 .. End, a <= b,
         \A i \in DOMAIN Script : a <= i /\ i < b => Script[i].needs \cap empty # {}
  PROVE  Weaker(Annotated(empty)[b], Annotated(empty)[a])
<1> DEFINE kn == Annotated(empty)
           T == {i \in a .. b : ~ Weaker(kn[i], kn[a])}
<1>1. \A i \in DOMAIN Script : Follows(Script[i], kn[i], kn[i + 1], empty)
  BY Annotation DEF Outline
<1>2. a \in Nat /\ b \in Nat /\ b <= Len(Script) + 1 /\ DOMAIN Script = 1 .. Len(Script) /\ Len(Script) \in Nat /\ 1 <= a
  BY ScriptTyped DEF End
<1> HIDE DEF kn
<1>3. SUFFICES ASSUME T # {} PROVE FALSE
  BY <1>2 DEF kn
<1>4. T \subseteq Nat
  BY <1>2
<1>5. \E n \in T : \A m \in T : ~ (m < n)
  <2> HIDE DEF T
  <2>1. PICK n \in T : \A m \in T : ~ (<<m, n>> \in OpToRel(<, Nat))
    BY <1>3, <1>4, NatLessThanWellFounded, WFMin
  <2> QED
    BY <1>4, <2>1 DEF OpToRel
<1>6. PICK n \in a .. b : ~ Weaker(kn[n], kn[a]) /\ \A m \in a .. b : m < n => Weaker(kn[m], kn[a])
  BY <1>5
<1>7. ~ Weaker(kn[n], kn[a])
  BY <1>6
<1>8. n # a
  BY <1>7 DEF Weaker
<1>9. PICK p \in a .. b : p \in DOMAIN Script /\ p < b /\ p < n /\ n = p + 1 /\ a <= p
  <2>1. n - 1 \in a .. b /\ n - 1 \in DOMAIN Script /\ n - 1 < b /\ n - 1 < n /\ n = (n - 1) + 1 /\ a <= n - 1
    BY <1>2, <1>8
  <2> QED
    BY <2>1
<1>10. Weaker(kn[p], kn[a])
  BY <1>6, <1>9
<1>11. Weaker(kn[n], kn[p])
  BY <1>1, <1>9 DEF Follows
<1> QED
  BY <1>7, <1>10, <1>11 DEF Weaker

-----------------------------------------------------------------------------
(* An honest page.                                                         *)

Pages == [shown : BOOLEAN, connected : BOOLEAN, filled : SUBSET (Places \cup {"Enter"})]

Candid ==
  /\ page \in Pages
  /\ Honest =>
       /\ echoed = {} /\ config.pretends = {}
       /\ browser.login \in {"none", "human"}
       /\ page.connected => browser.login = "human"
       /\ page.shown => browser.real

LEMMA CandidInitially == Init => Candid
BY DEF Init, Candid, Pages, Honest, Blank

LEMMA CandidKept ==
  ASSUME Typed, Candid, Next
  PROVE  Candid'
<1> USE DEF Candid
<1>1. config' = config /\ browser \in Browsers
  BY StepsKeep DEF Keeps, Typed
<1>2. Honest' <=> Honest
  BY <1>1 DEF Honest
<1>3. Blank \in Pages /\ ~ Blank.shown /\ ~ Blank.connected
  BY DEF Blank, Pages
<1>4. CASE UNCHANGED <<browser, page, echoed>>
  BY <1>1, <1>2, <1>4
<1>5. CASE Ask
  BY <1>4, <1>5 DEF Ask
<1>6. CASE Read
  BY <1>4, <1>6 DEF Read, Fail, server
<1>7. CASE SetViewport
  BY <1>1, <1>2, <1>7 DEF SetViewport, server, Browsers
<1>8. CASE Open
  BY <1>1, <1>2, <1>3, <1>8 DEF Open, Opened, Leave
<1>9. CASE Snapshot
  BY <1>4, <1>9 DEF Snapshot, Fail, server
<1>10. CASE Navigate
  <2>1. CASE Visible /\ Current.by \notin config.empty
    <3>1. page' = [shown |-> FALSE, connected |-> page.connected, filled |-> {}] /\ UNCHANGED <<browser, server>>
      BY <1>10, <2>1 DEF Navigate, Use
    <3>2. page' \in Pages /\ page'.connected = page.connected /\ ~ page'.shown
      BY <3>1 DEF Pages
    <3> QED
      BY <1>1, <1>2, <3>1, <3>2 DEF server
  <2>2. CASE ~ (Visible /\ Current.by \notin config.empty)
    BY <1>4, <1>10, <2>2 DEF Navigate, Use, Fail, server
  <2> QED
    BY <2>1, <2>2
<1>11. CASE Fill
  <2>1. CASE page' = [page EXCEPT !.filled = @ \cup {IF Current.op = "press" THEN "Enter" ELSE Current.at}]
             /\ UNCHANGED <<browser, server>>
    <3>1. Current.at \in Places
      BY <1>11, ScriptTyped DEF Fill, At, Current, AnyStep
    <3> QED
      BY <1>1, <1>2, <2>1, <3>1 DEF server, Pages
  <2>2. CASE UNCHANGED <<browser, page, server>>
    BY <1>4, <2>2 DEF server
  <2> QED
    BY <1>11, <2>1, <2>2 DEF Fill, Use, Fail
<1>12. CASE Click
  <2>1. CASE Submit(Current.at)
    BY <1>1, <1>2, <2>1 DEF Submit, Honest
  <2>2. CASE UNCHANGED <<browser, page, server>>
    BY <1>4, <2>2 DEF server
  <2> QED
    BY <1>12, <2>1, <2>2 DEF Click, Use, Fail
<1>13. CASE \E connected \in BOOLEAN : IdentityReady(connected)
  BY <1>4, <1>13 DEF IdentityReady, server
<1>14. CASE Seen
  BY <1>4, <1>14 DEF Seen, server
<1>15. CASE Late
  BY <1>4, <1>15 DEF Late, Fail, server
<1>16. CASE Close
  <2>1. CASE UNCHANGED <<browser, page, server>>
    BY <1>4, <2>1 DEF server
  <2>2. ASSUME NEW login \in {browser.login, "none"}, page' = Blank, Leave,
               browser' = [runs |-> FALSE, viewport |-> browser.viewport, real |-> FALSE, login |-> login]
        PROVE  Candid'
    BY <1>1, <1>2, <1>3, <2>2 DEF Leave
  <2> QED
    BY <1>16, <2>1, <2>2 DEF Close
<1>17. CASE SessionFails
  BY <1>4, <1>17 DEF SessionFails, server
<1>18. CASE DriverFails
  BY <1>1, <1>2, <1>18 DEF DriverFails, server, Browsers
<1>19. CASE Pass
  BY <1>4, <1>19 DEF Pass, server
<1>20. CASE Load
  BY <1>1, <1>2, <1>20 DEF Load, server, Pages
<1>21. CASE Connect
  BY <1>1, <1>2, <1>21 DEF Connect, server, Pages
<1>22. ASSUME NEW button \in pending, Deliver(button) PROVE Candid'
  BY <1>1, <1>2, <1>22 DEF Deliver, Browsers
<1> QED
  BY <1>5, <1>6, <1>7, <1>8, <1>9, <1>10, <1>11, <1>12, <1>13, <1>14, <1>15, <1>16, <1>17, <1>18,
     <1>19, <1>20, <1>21, <1>22 DEF Next, Harness, World

-----------------------------------------------------------------------------
(* What is known stays true, and each call finds what it relies on.        *)

(* The page and the server do not take back what they have shown or done.  *)
LEMMA WorldKnown ==
  ASSUME Typed, Candid, Honest, World, NEW K, Known(K, browser, page, pending, done)
  PROVE  Known(K, browser', page', pending', done')
<1>1. browser \in Browsers /\ page \in Pages
  BY DEF Typed, Candid
<1>2. CASE Load
  BY <1>1, <1>2 DEF Load, server, Known, OnItsWay, Pages
<1>3. CASE Connect
  BY <1>1, <1>3 DEF Connect, server, Known, OnItsWay, Pages
<1>4. ASSUME NEW sent \in pending, Deliver(sent) PROVE Known(K, browser', page', pending', done')
  <2>1. /\ browser'.viewport = browser.viewport /\ browser'.real = browser.real
        /\ browser'.login = (IF sent = "IdentityLoad" THEN "human" ELSE browser.login)
        /\ page' = page /\ done \subseteq done' /\ pending' = pending \ {sent}
        /\ sent # "IdentityLoad" /\ Accepted(sent) => sent \in done'
    BY <1>1, <1>4 DEF Deliver, Browsers
  <2>2. ASSUME NEW button, OnItsWay(button, browser, pending, done)
        PROVE  OnItsWay(button, browser', pending', done')
    BY <2>1, <2>2 DEF OnItsWay, Accepted
  <2> QED
    BY <2>1, <2>2 DEF Known
<1> QED
  BY <1>2, <1>3, <1>4 DEF World

LEMMA CallKnown ==
  ASSUME Typed, Candid, Honest, ~ (Administers /\ config.world = "strict"), Harness,
         outcome = "running", step \in DOMAIN Script, NEW s, s = Script[step],
         NEW K, Known(K, browser, page, pending, done), Requires(s, K, config.empty)
  PROVE  \/ outcome' = "failed" /\ ~ (faults' \subseteq {"close"})
         \/ outcome' = "failed" /\ step' = step /\ LookedTooEarly
         \/ /\ outcome' = "running" /\ step' = After(step)
            /\ Known(Effect(s, K), browser', page', pending', done')
         \/ /\ outcome' = "running" /\ s.op = "identity" /\ step' = After(step + FormSteps)
            /\ Known(Connected(K), browser', page', pending', done')
<1> DEFINE Goes_ == /\ outcome' = "running" /\ step' = After(step)
                    /\ Known(Effect(s, K), browser', page', pending', done')
<1>1. /\ browser \in Browsers /\ page \in Pages /\ s = Current /\ s.at \in Places
      /\ echoed = {} /\ config.pretends = {} /\ config.world \in {"honest", "late", "strict"}
      /\ browser.login \in {"none", "human"}
  BY ScriptTyped DEF Typed, Candid, Current, AnyStep, Honest
<1>2. CASE Ask
  <2>1. s.op \in {"grant", "ask"} /\ done' = done \cup Seeing(s) /\ Proceed /\ UNCHANGED <<browser, page, pending>>
    BY <1>1, <1>2 DEF Ask, At, Seeing
  <2> QED
    BY <2>1 DEF Proceed, Known, OnItsWay, Effect, Know, Lost, Gained, Typing, Sending, Seeing
<1>3. CASE Read
  <2>1. s.op \in {"read", "readOwn"} /\ s.at \in done
    BY <1>1, <1>3 DEF Read, At, Requires, Known
  <2>2. ~ (s.op = "readOwn" /\ config.world = "strict")
    BY DEF Requires, Administers
  <2>3. Proceed /\ UNCHANGED <<browser, page, server>>
    BY <1>1, <1>3, <2>1, <2>2 DEF Read
  <2> QED
    BY <2>1, <2>3 DEF Proceed, server, Known, OnItsWay, Effect, Know, Lost, Gained, Typing, Sending,
         Seeing
<1>4. CASE SetViewport
  <2>1. /\ s.op = "viewport" /\ Proceed /\ UNCHANGED <<page, server>>
        /\ browser'.viewport = s.at /\ browser'.real = browser.real /\ browser'.login = browser.login
    BY <1>1, <1>4 DEF SetViewport, At, Browsers
  <2> QED
    BY <2>1 DEF Proceed, server, Known, OnItsWay, Effect, Know, Lost, Gained, Typing, Sending,
         Seeing
<1>5. CASE Open
  <2>1. /\ s.op = "open" /\ step' = After(step) /\ outcome' = outcome /\ done' = done
        /\ browser'.viewport = browser.viewport /\ browser'.real /\ browser'.login = browser.login
    BY <1>1, <1>5 DEF Open, Opened, Leave, At
  <2> QED
    BY <2>1 DEF Known, OnItsWay, Effect, Know, Lost, Gained, Typing, Sending, Seeing
<1>6. CASE Snapshot
  <2>1. s.op \in {"landmarks", "snapshot"} /\ (s.op = "landmarks" => browser.real)
    BY <1>1, <1>6 DEF Snapshot, At, Requires, Known
  <2>2. CASE s.op = "landmarks" /\ config.world = "late" /\ ~ page.shown
    BY <1>1, <1>6, <2>2 DEF Snapshot, Fail, LookedTooEarly
  <2>3. CASE ~ (s.op = "landmarks" /\ config.world = "late" /\ ~ page.shown)
    <3>1. Proceed /\ UNCHANGED <<browser, page, server>>
      BY <1>1, <1>6, <2>1, <2>3 DEF Snapshot
    <3> QED
      BY <2>1, <3>1 DEF Proceed, server, Known, OnItsWay, Effect, Know, Lost, Gained, Typing,
           Sending, Seeing
  <2> QED
    BY <2>2, <2>3
<1>7. CASE Navigate
  <2>1. s.op = "route" /\ Visible /\ s.by \notin config.empty
    BY <1>1, <1>7 DEF Navigate, At, Requires, Looking, Known, Visible
  <2>2. /\ page' = [shown |-> FALSE, connected |-> page.connected, filled |-> {}]
        /\ Proceed /\ UNCHANGED <<browser, server>>
    BY <1>1, <1>7, <2>1 DEF Navigate, Use
  <2> QED
    BY <2>1, <2>2 DEF Proceed, server, Known, OnItsWay, Effect, Know, Lost, Gained, Typing, Sending,
         Seeing
<1>8. CASE Fill
  <2>1. s.op \in {"fill", "press", "choose"}
    BY <1>1, <1>8 DEF Fill, At
  <2>2. Visible /\ page.shown /\ s.by \notin config.empty /\ (s.op = "choose" => "ApproveRequest" \in done)
    BY <2>1 DEF Requires, Looking, Using, Known, Visible
  <2>3. /\ page' = [page EXCEPT !.filled = @ \cup {IF Current.op = "press" THEN "Enter" ELSE Current.at}]
        /\ Proceed /\ UNCHANGED <<browser, server>>
    BY <1>1, <1>8, <2>2 DEF Fill, Use
  <2>4. page'.shown = page.shown /\ page'.filled = page.filled \cup Typing(s)
    BY <1>1, <2>1, <2>3 DEF Pages, Typing
  <2> QED
    BY <2>1, <2>3, <2>4 DEF Proceed, server, Known, OnItsWay, Effect, Know, Lost, Gained, Sending,
         Seeing
<1>9. CASE Click
  <2>1. s.op = "click"
    BY <1>1, <1>9 DEF Click, At
  <2>2. Visible /\ page.shown /\ s.by \notin config.empty
    BY <2>1 DEF Requires, Looking, Using, Known, Visible
  <2>3. Submit(s.at) /\ Proceed
    BY <1>1, <1>9, <2>2 DEF Click, Use
  <2>4. /\ pending' = (IF s.at \in DOMAIN Fields /\ Fields[s.at] \subseteq page.filled
                       THEN pending \cup {s.at} ELSE pending)
        /\ UNCHANGED <<browser, page, done>>
    BY <1>1, <2>3 DEF Submit
  <2>5. s.at # "IdentityLoad" => browser.login = "human" /\ "grant" \in done
    BY <2>1 DEF Requires, Known
  <2>6. Sending(s, K.typed) # {} => s.at \in pending'
    BY <2>1, <2>4 DEF Sending, Known
  <2>7. \A button \in Sending(s, K.typed) : OnItsWay(button, browser', pending', done')
    BY <2>4, <2>5, <2>6 DEF Sending, OnItsWay
  <2>8. \A button \in K.sent : OnItsWay(button, browser', pending', done')
    BY <2>4 DEF Known, OnItsWay
  <2> QED
    BY <2>1, <2>3, <2>4, <2>7, <2>8 DEF Proceed, Known, Effect, Know, Lost, Gained, Typing, Seeing
<1>10. ASSUME NEW connected \in BOOLEAN, IdentityReady(connected)
       PROVE  \/ Goes_
              \/ /\ outcome' = "running" /\ s.op = "identity" /\ step' = After(step + FormSteps)
                 /\ Known(Connected(K), browser', page', pending', done')
  <2>1. /\ s.op = "identity" /\ page.shown /\ outcome' = outcome
        /\ UNCHANGED <<browser, page, pending, done>>
    BY <1>1, <1>10 DEF IdentityReady, At, server
  <2>2. CASE connected
    <3>1. step' = After(step + FormSteps) /\ page.connected
      BY <1>10, <2>2 DEF IdentityReady
    <3>2. browser.login = "human"
      BY <3>1 DEF Candid
    <3> QED
      BY <2>1, <3>1, <3>2 DEF Known, OnItsWay, Connected, Know
  <2>3. CASE ~ connected
    <3>1. step' = After(step)
      BY <1>10, <2>3 DEF IdentityReady
    <3> QED
      BY <2>1, <3>1 DEF Known, OnItsWay, Effect, Know, Lost, Gained, Typing, Sending, Seeing
  <2> QED
    BY <2>2, <2>3
<1>11. CASE Seen
  <2>1. s.op = "await" /\ Shows(s.at) /\ Proceed /\ UNCHANGED <<browser, page, server>>
    BY <1>1, <1>11 DEF Seen, Found, At, Wanted
  <2>2. page.shown /\ (s.at = "connected" => browser.login = "human") /\ (s.at \notin Goals => s.at \in done)
    BY <1>1, <2>1 DEF Shows, Candid, Goals
  <2> QED
    BY <2>1, <2>2 DEF Proceed, server, Known, OnItsWay, Effect, Know, Lost, Gained, Typing, Sending,
         Seeing
<1>12. ~ Late
  <2> SUFFICES ASSUME Late PROVE FALSE
    OBVIOUS
  <2>1. s.op \in {"await", "identity"} /\ ~ Shows(Wanted) /\ ~ Coming
    BY <1>1 DEF Late, Found, Waiting, At, Requires, Looking
  <2>2. Visible /\ page.shown /\ pending = {}
    BY <2>1 DEF Requires, Looking, Known, Visible, Coming
  <2>3. s.op = "await" /\ Wanted = s.at
    BY <1>1, <2>1, <2>2 DEF Wanted, Shows
  <2>4. s.at # "content"
    BY <2>1, <2>2, <2>3 DEF Shows
  <2>5. s.at # "connected"
    <3> SUFFICES ASSUME s.at = "connected" PROVE FALSE
      OBVIOUS
    <3>1. browser.login = "human"
      BY <2>2, <2>3 DEF Requires, Known, OnItsWay
    <3>2. page.connected
      BY <2>1, <2>2, <3>1 DEF Coming
    <3> QED
      BY <2>1, <2>2, <2>3, <3>2 DEF Shows
  <2>6. s.at # "panels"
    BY <2>1, <2>2, <2>3 DEF Shows, Requires, Known
  <2>7. s.at \in done
    <3>1. s.at \in (K.sent \ {"IdentityLoad"}) \cup K.there
      BY <2>3, <2>4, <2>5, <2>6 DEF Requires, Goals
    <3> QED
      BY <2>2, <3>1 DEF Known, OnItsWay
  <2> QED
    BY <2>1, <2>2, <2>3, <2>4, <2>5, <2>6, <2>7 DEF Shows
<1>13. CASE Close
  <2>1. s.op = "close" /\ step' = After(step) /\ outcome' = outcome
    BY <1>1, <1>13 DEF Close, Closed, At
  <2>2. browser'.viewport = browser.viewport /\ done' = done
    BY <1>13 DEF Close, Leave, server
  <2> QED
    BY <2>1, <2>2 DEF Known, OnItsWay, Effect, Know, Lost, Gained, Typing, Sending, Seeing
<1>14. CASE SessionFails
  BY <1>14 DEF SessionFails, May
<1>15. CASE DriverFails
  BY <1>15 DEF DriverFails, May
<1>16. ~ Pass
  BY ScriptTyped DEF Pass
<1> QED
  BY <1>2, <1>3, <1>4, <1>5, <1>6, <1>7, <1>8, <1>9, <1>10, <1>11, <1>12, <1>13, <1>14, <1>15, <1>16
     DEF Harness

-----------------------------------------------------------------------------
(* The invariant.                                                          *)

Guided ==
  Honest /\ ~ (Administers /\ config.world = "strict") /\ ~ Misguided(config.empty)

Foreseen ==
  Guided /\ outcome = "running" =>
    Known(Annotated(config.empty)[step], browser, page, pending, done)

HonestInv == Inv /\ Candid /\ Foreseen /\ HonestPageNotBlamed

LEMMA HonestInitially == Init => HonestInv
<1> SUFFICES ASSUME Init PROVE HonestInv
  OBVIOUS
<1>1. Inv /\ Candid
  BY InitHolds, CandidInitially
<1>2. Foreseen
  <2> SUFFICES ASSUME Guided PROVE Known(Annotated(config.empty)[step], browser, page, pending, done)
    BY DEF Foreseen
  <2>1. Annotated(config.empty)[step] = Nothing
    BY Annotation DEF Init, Guided
  <2>2. Known(Nothing, browser, page, pending, done)
    BY DEF Known, Nothing, Know
  <2> QED
    BY <2>1, <2>2
<1>3. HonestPageNotBlamed
  BY DEF Init, HonestPageNotBlamed
<1> QED
  BY <1>1, <1>2, <1>3 DEF HonestInv

(* Errors are not forgotten, and only a running gate passes or fails.      *)
LEMMA FaultsStay ==
  ASSUME Next
  PROVE  /\ faults \subseteq faults' /\ (outcome' # outcome => outcome = "running")
         /\ outcome = "failed" => step' = step
<1>1. CASE Ask
  BY <1>1 DEF Ask, At, Proceed
<1>2. CASE Read
  BY <1>2 DEF Read, At, Proceed, Fail
<1>3. CASE SetViewport
  BY <1>3 DEF SetViewport, At, Proceed
<1>4. CASE Open
  BY <1>4 DEF Open, At
<1>5. CASE Snapshot
  BY <1>5 DEF Snapshot, At, Proceed, Fail
<1>6. CASE Navigate
  BY <1>6 DEF Navigate, At, Use, Proceed, Fail
<1>7. CASE Fill
  BY <1>7 DEF Fill, At, Use, Proceed, Fail
<1>8. CASE Click
  BY <1>8 DEF Click, At, Use, Submit, Proceed, Fail
<1>9. CASE \E connected \in BOOLEAN : IdentityReady(connected)
  BY <1>9 DEF IdentityReady, At
<1>10. CASE Seen
  BY <1>10 DEF Seen, At, Proceed
<1>11. CASE Late
  BY <1>11 DEF Late, Waiting, At, Fail
<1>12. CASE Close
  BY <1>12 DEF Close, May
<1>13. CASE SessionFails
  BY <1>13 DEF SessionFails, May, At
<1>14. CASE DriverFails
  BY <1>14 DEF DriverFails, May, At
<1>15. CASE Pass
  BY <1>15 DEF Pass
<1>16. CASE World
  BY <1>16 DEF World, Load, Connect, Deliver, flow
<1> QED
  BY <1>1, <1>2, <1>3, <1>4, <1>5, <1>6, <1>7, <1>8, <1>9,
     <1>10, <1>11, <1>12, <1>13, <1>14, <1>15, <1>16 DEF Next, Harness

LEMMA HonestKept ==
  ASSUME HonestInv, Next
  PROVE  HonestInv'
<1> USE DEF HonestInv
<1>1. Typed /\ Inv'
  <2>1. Typed
    BY DEF Inv
  <2> QED
    BY <2>1, StepsKeep, GoesOn, StaysPut
<1>2. Candid'
  BY <1>1, CandidKept
<1>3. config' = config
  BY <1>1, StepsKeep DEF Keeps
<1>4. (Guided' <=> Guided) /\ (Honest' <=> Honest) /\ (Administers' <=> Administers)
  BY <1>3 DEF Guided, Honest, Administers
<1>5. /\ faults \subseteq faults' /\ (outcome' # outcome => outcome = "running")
      /\ outcome = "failed" => step' = step
  BY FaultsStay
<1>6. CASE ~ Guided
  <2>1. HonestPageNotBlamed'
    BY <1>3, <1>4, <1>6 DEF HonestPageNotBlamed, Guided
  <2>2. Foreseen'
    BY <1>4, <1>6 DEF Foreseen
  <2> QED
    BY <1>1, <1>2, <2>1, <2>2
<1>7. CASE Guided /\ outcome # "running"
  <2>1. Foreseen'
    BY <1>5, <1>7 DEF Foreseen
  <2>2. outcome' = "failed" => outcome = "failed"
    BY <1>5, <1>7
  <2>3. HonestPageNotBlamed'
    BY <1>3, <1>4, <1>5, <2>2 DEF HonestPageNotBlamed, LookedTooEarly, Current
  <2> QED
    BY <1>1, <1>2, <2>1, <2>3
<1>8. CASE Guided /\ outcome = "running"
  <2>1. PICK empty : empty = config.empty
    OBVIOUS
  <2> DEFINE kn == Annotated(empty)
  <2>2. PICK at : at = step
    OBVIOUS
  <2>3. ~ Misguided(empty) /\ Honest /\ ~ (Administers /\ config.world = "strict")
    BY <1>8, <2>1 DEF Guided
  <2>4. Known(kn[at], browser, page, pending, done)
    BY <1>8, <2>1, <2>2 DEF Foreseen
  <2> HIDE DEF kn
  <2>5. CASE World
    <3>1. step' = step /\ outcome' = outcome
      BY <2>5 DEF World, Load, Connect, Deliver, flow
    <3>2. Known(kn[at], browser', page', pending', done')
      BY <1>1, <2>3, <2>4, <2>5, WorldKnown
    <3>3. Foreseen'
      BY <1>3, <2>1, <2>2, <3>1, <3>2 DEF Foreseen, kn
    <3>4. HonestPageNotBlamed'
      BY <1>8, <3>1 DEF HonestPageNotBlamed
    <3> QED
      BY <1>1, <1>2, <3>3, <3>4
  <2>6. CASE Harness /\ step \in DOMAIN Script
    <3>1. PICK s : s = Script[at]
      OBVIOUS
    <3>2. /\ Follows(s, kn[at], kn[at + 1], empty)
          /\ s.op = "identity" => Weaker(kn[at + 4], Connected(kn[at]))
      BY <2>2, <2>3, <2>6, <3>1, Annotation DEF Outline, kn
    <3>3. Present(step) /\ s.needs \cap empty = {}
      BY <1>1, <2>1, <2>2, <2>6, <3>1 DEF Typed, Present
    <3>4. Requires(s, kn[at], empty) /\ Weaker(kn[at + 1], Effect(s, kn[at]))
      BY <3>2, <3>3 DEF Follows
    <3>5. \/ outcome' = "failed" /\ ~ (faults' \subseteq {"close"})
          \/ outcome' = "failed" /\ step' = step /\ LookedTooEarly
          \/ /\ outcome' = "running" /\ step' = After(step)
             /\ Known(Effect(s, kn[at]), browser', page', pending', done')
          \/ /\ outcome' = "running" /\ s.op = "identity" /\ step' = After(step + FormSteps)
             /\ Known(Connected(kn[at]), browser', page', pending', done')
      BY <1>1, <1>8, <2>1, <2>2, <2>3, <2>4, <2>6, <3>1, <3>4, CallKnown
    <3>6. CASE outcome' = "failed" /\ ~ (faults' \subseteq {"close"})
      BY <1>1, <1>2, <3>6 DEF Foreseen, HonestPageNotBlamed
    <3>10. CASE outcome' = "failed" /\ step' = step /\ LookedTooEarly
      BY <1>1, <1>2, <1>3, <3>10 DEF Foreseen, HonestPageNotBlamed, LookedTooEarly, Current
    <3>7. ASSUME NEW k \in DOMAIN Script, outcome' = "running", step' = After(k),
                 Known(kn[k + 1], browser', page', pending', done')
          PROVE  HonestInv'
      <4>1. /\ step' \in Nat /\ k < step' /\ step' <= End
            /\ \A i \in DOMAIN Script : k < i /\ i < step' => ~ Present(i)
        BY <3>7, AfterNext
      <4>2. PICK next : next = step'
        OBVIOUS
      <4>3. k + 1 \in 1 .. End /\ next \in 1 .. End /\ k + 1 <= next
        BY <4>1, <4>2, ScriptTyped DEF End
      <4>4. \A i \in DOMAIN Script : k + 1 <= i /\ i < next => Script[i].needs \cap empty # {}
        BY <2>1, <4>1, <4>2, ScriptTyped DEF Present
      <4>5. Weaker(kn[next], kn[k + 1])
        BY <2>3, <4>3, <4>4, LeftOut DEF kn
      <4>6. Known(kn[next], browser', page', pending', done')
        BY <3>7, <4>5, WeakerKnown
      <4>7. Foreseen'
        BY <1>3, <2>1, <4>2, <4>6 DEF Foreseen, kn
      <4>8. HonestPageNotBlamed'
        BY <3>7 DEF HonestPageNotBlamed
      <4> QED
        BY <1>1, <1>2, <4>7, <4>8
    <3>8. CASE /\ outcome' = "running" /\ step' = After(step)
               /\ Known(Effect(s, kn[at]), browser', page', pending', done')
      <4>1. Known(kn[at + 1], browser', page', pending', done')
        BY <3>4, <3>8, WeakerKnown
      <4> QED
        BY <2>2, <2>6, <3>7, <3>8, <4>1
    <3>9. CASE /\ outcome' = "running" /\ s.op = "identity" /\ step' = After(step + FormSteps)
               /\ Known(Connected(kn[at]), browser', page', pending', done')
      <4>1. Known(kn[at + 4], browser', page', pending', done')
        BY <3>2, <3>9, WeakerKnown
      <4>2. at + 3 \in DOMAIN Script /\ (at + 3) + 1 = at + 4
        <5>1. at + 3 <= Len(Script)
          BY <2>2, <2>6, <3>1, <3>9, ScriptWellFormed DEF WellFormed, FormFollows
        <5> QED
          BY <2>2, <2>6, <5>1, ScriptTyped
      <4> QED
        BY <2>2, <3>7, <3>9, <4>1, <4>2 DEF FormSteps
    <3> QED
      BY <3>5, <3>6, <3>8, <3>9, <3>10
  <2>7. CASE Harness /\ step \notin DOMAIN Script
    <3>1. Pass
      BY <1>8, <2>7 DEF Harness, Ask, Read, SetViewport, Open, Snapshot, Navigate, Fill, Click,
           IdentityReady, Seen, Late, Waiting, Close, Closed, SessionFails, DriverFails, At
    <3> QED
      BY <1>1, <1>2, <3>1 DEF Pass, Foreseen, HonestPageNotBlamed
  <2> QED
    BY <2>5, <2>6, <2>7 DEF Next
<1> QED
  BY <1>6, <1>7, <1>8

(* An honest page is never blamed, whatever it is found showing and        *)
(* however slowly it and its server answer, unless a call failed, its main *)
(* part and heading were not there when the landmarks were looked at, the  *)
(* server refuses a session that was closed, or the selectors leave out    *)
(* what the flows need, a mandatory one among them: all that browser.go    *)
(* and browserScenario wait for, look for or read back is there by then,   *)
(* for every set of empty selectors.                                       *)
THEOREM HonestPagePasses == Spec => []HonestPageNotBlamed
<1>1. HonestInv /\ UNCHANGED vars => HonestInv'
  BY DEF vars, flow, server, HonestInv, Inv, Typed, Due, Tracked, ReadBack, PassedAtEnd, Present,
       Candid, Honest, Foreseen, Guided, Administers, HonestPageNotBlamed, LookedTooEarly, Current
<1>2. HonestInv => HonestPageNotBlamed
  BY DEF HonestInv
<1> QED
  BY HonestInitially, HonestKept, <1>1, <1>2, PTL DEF Spec

=============================================================================
