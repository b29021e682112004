------------------------------ MODULE Browser ------------------------------
(***************************************************************************)
(* The browser gate: browserScenario of benchmark.go with the human and    *)
(* the administration flow of browser.go, which drive a page through the   *)
(* commands of agent-browser, and whose effects are then read back.        *)
(*                                                                         *)
(* A flow is a script of driver calls, which skips those whose optional    *)
(* selectors are empty and fails on others that are.  The page is external. *)
(* Its navigation is there as soon as it is opened, its content later;     *)
(* what is submitted reaches the server later still, unless the page is    *)
(* left before.  An honest page shows what the server has; others show     *)
(* what was typed in.                                                      *)
(***************************************************************************)
EXTENDS Integers, Sequences, FiniteSetsExt

CONSTANTS
  EmptySelectors,  \* sets of selectors a selectors file sets to ""
  Worlds,          \* kinds of pages, servers and browsers the gate may find
  Pretences,       \* sets of buttons of which a pretending page only shows the effect
  Troubles         \* kinds of errors of which each may happen once

ASSUME WorldsAssumption ==
  /\ Worlds \subseteq {"honest", "late", "optimistic", "pretending", "strict", "leftover"}
  /\ Troubles \subseteq {"agent", "driver", "close"}

VARIABLES
  config,      \* the empty selectors, and the world the gate finds
  step,        \* index in the script of the scenario
  outcome,     \* "running", "passed" or "failed"
  deferred,    \* whether a flow's deferred Close is due
  browser,     \* whether it runs, its viewport, whether it shows the UI, whose login it holds
  page,        \* whether its content is there and connected, and the fields filled in
  pending,     \* buttons whose request is under way
  echoed,      \* buttons whose effect the page shows without the server
  done,        \* buttons whose effect the server has
  faults,      \* kinds of errors that happened
  reported     \* driver calls other than looks reported to the collector as failed

server == <<pending, echoed, done>>
flow == <<step, outcome, deferred, faults, reported>>
vars == <<config, browser, page, server, flow>>

-----------------------------------------------------------------------------
(* The scripts.  A step is a call, its element or page, or what a wait is  *)
(* for, the selector it goes by, and those without which it is left out.   *)

Step(op, at, needs) == [op |-> op, at |-> at, by |-> at, needs |-> needs]
Do(op, at) == Step(op, at, {})
Await(what, by, needs) == [op |-> "await", at |-> what, by |-> by, needs |-> needs]
AwaitIf(what, by, needs) == Await(what, by, needs \cup {by})

Start == << Do("viewport", "desktop"), Do("open", "/") >>

Routes == <<"NavInbox", "NavServers", "NavMembers", "NavGroups", "NavForums", "NavAdmin">>
ApplicationIA ==
  << Do("landmarks", "page") >> \o [k \in DOMAIN Routes |-> Do("route", Routes[k])]
  \o << Do("viewport", "mobile"), Do("snapshot", "page"), Do("viewport", "desktop"), Do("open", "/") >>

Form == {"IdentityID", "IdentityLoad"}
Login ==
  << Step("identity", "IdentityID", Form), Step("fill", "IdentityID", Form),
     Step("fill", "IdentityToken", Form \cup {"IdentityToken"}), Step("click", "IdentityLoad", Form),
     AwaitIf("connected", "IdentityVisible", Form) >>

ServerPage ==
  << Do("open", "server"), AwaitIf("content", "ServerVisible", {}),
     AwaitIf("connected", "Presence", {}) >>

CreateGroup ==
  << Step("route", "NavGroups", {"NavGroups"}), AwaitIf("content", "GroupName", {"NavGroups"}),
     Step("fill", "GroupName", {"GroupName", "GroupCreate"}),
     Step("click", "GroupCreate", {"GroupName", "GroupCreate"}) >>

SendDM ==
  << Do("open", "dm"), Await("content", "DMRecipient", {}), Do("fill", "DMRecipient"),
     Do("fill", "DMContent"), Do("click", "DMSend"), Await("DMSend", "DMVisible", {}) >>

SendGroupMessage ==
  << Do("open", "group"), Await("content", "GroupID", {}), Do("fill", "GroupID"),
     Do("fill", "GroupMessage"), Do("click", "GroupSend"), Await("GroupSend", "GroupVisible", {}),
     AwaitIf("GroupSend", "OrderVisible", {}) >>

CreatePost ==
  << Step("route", "NavForums", {"NavForums"}), Await("content", "PostTitle", {"NavForums"}),
     Do("fill", "PostTitle"), Do("fill", "PostContent"), Do("click", "PostCreate"),
     Await("PostCreate", "PostVisible", {}) >>

Comment ==
  << Do("open", "post"), Await("content", "ThreadID", {}), Do("fill", "ThreadID"),
     Do("fill", "CommentContent"), Do("click", "CommentSend"), Do("click", "Follow"), Do("click", "React"),
     AwaitIf("CommentSend", "CommentVisible", {}), AwaitIf("content", "ThreadVisible", {}),
     AwaitIf("CommentSend", "ThreadStructure", {}) >>

Notifications ==
  << Step("open", "notifications", {"NavInbox", "Notification"}),
     AwaitIf("content", "Notification", {"NavInbox"}), Do("snapshot", "page") >>

HumanFlow ==
  Start \o ApplicationIA \o Login \o ServerPage \o CreateGroup \o SendDM \o SendGroupMessage
  \o CreatePost \o Comment \o Notifications

Panels == <<"ServerVisible", "MemberVisible", "RequestVisible", "GroupAdmin", "Moderation", "AuditVisible">>
Roles == {"RoleParticipant", "RoleValue", "RoleSave"}

Administration ==
  << Step("open", "settings", {"NavAdmin"}), AwaitIf("content", "ServerID", {"NavAdmin"}),
     Step("fill", "ServerID", {"ServerID"}), Step("press", "ServerID", {"ServerID"}) >>
  \o [k \in DOMAIN Panels |-> AwaitIf("panels", Panels[k], {})]
  \o << Step("click", "ApproveRequest", {"ApproveRequest"}),
        AwaitIf("ApproveRequest", "RequestVisible", {"ApproveRequest"}),
        Step("choose", "RoleParticipant", Roles), Step("fill", "RoleValue", Roles),
        Step("click", "RoleSave", Roles), AwaitIf("RoleSave", "RoleResult", Roles),
        Do("snapshot", "page") >>
AdminFlow == Start \o Login \o Administration

(* browserScenario: a makes the human administrator, which makes a server  *)
(* that a asks to join, and leaves its session; afterwards the human,      *)
(* through that session, and a read what was done.                         *)
Prepare == << Do("grant", "session"), Do("ask", "session"), Do("ask", "session"), Do("ask", "session") >>
AdminReads == << Do("readOwn", "RoleSave"), Do("readOwn", "ApproveRequest") >>
(* Operators whose name has an underscore are faults: variants of the      *)
(* definition they are named for that the checks tell apart from the code. *)
Reads_NoComment == << Do("read", "DMSend"), Do("read", "GroupSend") >>
Reads == << Do("read", "DMSend"), Do("read", "GroupSend"), Do("read", "CommentSend") >>

OnlyWith(selector, steps) ==
  [k \in DOMAIN steps |-> [steps[k] EXCEPT !.needs = @ \cup {selector}]]

Closing == << Do("close", "browser") >>

(* The whole scenario; without the selector of the administration's first  *)
(* panel there is no administration.                                       *)
Script ==
  Prepare \o HumanFlow \o Closing
  \o OnlyWith("ServerVisible", AdminFlow \o Closing \o AdminReads) \o Reads

-----------------------------------------------------------------------------
Blank == [shown |-> FALSE, connected |-> FALSE, filled |-> {}]

(* A late page has its main part and its heading only with its content; an *)
(* optimistic page shows at once what it sends, a pretending one what it   *)
(* never sends; a strict server refuses a session that was closed; a       *)
(* browser left over from before runs and holds somebody else's login.     *)
Init ==
  /\ config \in [empty : EmptySelectors, world : Worlds, pretends : Pretences]
  /\ config.world = "pretending" <=> config.pretends # {}
  /\ LET leftover == config.world = "leftover"
     IN  browser \in [runs : {leftover}, viewport : {"desktop", "mobile"}, real : {FALSE},
                      login : {IF leftover THEN "other" ELSE "none"}]
  /\ step = 1 /\ outcome = "running" /\ deferred = FALSE
  /\ page = Blank /\ pending = {} /\ echoed = {} /\ done = {}
  /\ faults = {} /\ reported = {}

(* The first step after k whose selectors are there.                       *)
After(k) ==
  Min({i \in DOMAIN Script : i > k /\ Script[i].needs \cap config.empty = {}}
      \cup {Len(Script) + 1})

Current == Script[step]
At(op) == outcome = "running" /\ step \in DOMAIN Script /\ Current.op = op

Proceed == step' = After(step) /\ UNCHANGED <<config, outcome, deferred, faults, reported>>
Fail == outcome' = "failed" /\ UNCHANGED <<config, browser, page, server, step, deferred, faults>>

Report(call) == reported' = reported \cup {call}

(* A call on an element that is not there, or on none, is an error of the  *)
(* driver.                                                                 *)
Use(there, effect) ==
  IF there /\ Current.by \notin config.empty THEN effect /\ Proceed ELSE Fail /\ Report(Current.op)

-----------------------------------------------------------------------------
(* The page and the server behind it.                                      *)

Load ==
  /\ browser.real /\ ~page.shown
  /\ page' = [page EXCEPT !.shown = TRUE]
  /\ UNCHANGED <<config, browser, server, flow>>

(* A page that was opened with a login connects by itself.                 *)
Connect ==
  /\ page.shown /\ ~page.connected /\ browser.login # "none"
  /\ page' = [page EXCEPT !.connected = TRUE]
  /\ UNCHANGED <<config, browser, server, flow>>

Privileged == {"GroupCreate", "PostCreate"}
Accepted(button) == browser.login = "human" /\ (button \in Privileged => "grant" \in done)

Deliver(button) ==
  /\ pending' = pending \ {button}
  /\ IF button = "IdentityLoad"
     THEN browser' = [browser EXCEPT !.login = "human"] /\ UNCHANGED done
     ELSE done' = (IF Accepted(button) THEN done \cup {button} ELSE done) /\ UNCHANGED browser
  /\ UNCHANGED <<config, page, echoed, flow>>

(* What is under way may be given up when the page is left.                *)
Leave == pending' \in SUBSET pending /\ echoed' = {} /\ UNCHANGED done

-----------------------------------------------------------------------------
(* The calls of the flows.                                                 *)

(* A session's call: the preparation, and reading back.                    *)
Ask ==
  /\ At("grant") \/ At("ask")
  /\ done' = IF Current.op = "grant" THEN done \cup {"grant"} ELSE done
  /\ Proceed /\ UNCHANGED <<browser, page, pending, echoed>>

Read ==
  /\ At("read") \/ At("readOwn")
  /\ IF Current.at \in done /\ ~(Current.op = "readOwn" /\ config.world = "strict")
     THEN Proceed /\ UNCHANGED <<browser, page, server>>
     ELSE Fail /\ UNCHANGED reported

SetViewport ==
  /\ At("viewport")
  /\ browser' = [browser EXCEPT !.viewport = Current.at]
  /\ Proceed /\ UNCHANGED <<page, server>>

Opened_Once(blank) ==
  [runs |-> TRUE, viewport |-> browser.viewport, real |-> ~blank, login |-> browser.login]

(* AgentBrowser.Open: a browser that was just started may acknowledge the  *)
(* navigation and still be blank; then it is issued once more.             *)
Opened(blank) ==
  [runs |-> TRUE, viewport |-> browser.viewport, real |-> TRUE, login |-> browser.login]

Open ==
  /\ At("open")
  /\ \E blank \in {FALSE, ~browser.runs} : browser' = Opened(blank)
  /\ page' = Blank /\ Leave
  /\ deferred' = TRUE /\ step' = After(step)
  /\ UNCHANGED <<config, outcome, faults, reported>>

Visible == browser.real /\ browser.viewport = "desktop"

(* A snapshot: the first of verifyApplicationIA, taken once right after the *)
(* page was opened, has to have the landmarks; nothing looks at the others. *)
Snapshot ==
  /\ At("landmarks") \/ At("snapshot")
  /\ IF Current.op = "landmarks" => browser.real /\ (config.world = "late" => page.shown)
     THEN Proceed /\ UNCHANGED <<browser, page, server>>
     ELSE Fail /\ UNCHANGED reported

(* A click in the navigation; verifyApplicationIA, which does without none *)
(* of it, reads the URL at once.                                           *)
Navigate ==
  /\ At("route")
  /\ IF Current.by \in config.empty THEN Fail /\ UNCHANGED reported
     ELSE Use(Visible, /\ page' = [shown |-> FALSE, connected |-> page.connected, filled |-> {}]
                       /\ UNCHANGED <<browser, server>>)

(* Fill, Select and Press.  Only members can be chosen.                    *)
Fill ==
  /\ At("fill") \/ At("press") \/ At("choose")
  /\ Use(Visible /\ page.shown /\ (Current.op = "choose" => "ApproveRequest" \in done \cup echoed),
         /\ page' = [page EXCEPT !.filled = @ \cup {IF Current.op = "press" THEN "Enter" ELSE Current.at}]
         /\ UNCHANGED <<browser, server>>)

Fields == [GroupCreate |-> {"GroupName"}, DMSend |-> {"DMRecipient", "DMContent"},
           GroupSend |-> {"GroupID", "GroupMessage"}, PostCreate |-> {"PostTitle", "PostContent"},
           CommentSend |-> {"ThreadID", "CommentContent"}, ApproveRequest |-> {"Enter"},
           RoleSave |-> {"Enter", "RoleParticipant", "RoleValue"}, IdentityLoad |-> {"IdentityID"}]

(* The page sends what was filled in, or pretends to.  Nothing looks for   *)
(* what Follow and React do.                                               *)
Submit(button) ==
  LET complete == button \in DOMAIN Fields /\ Fields[button] \subseteq page.filled
      pretended == button \in config.pretends
  IN  /\ pending' = IF complete /\ ~pretended THEN pending \cup {button} ELSE pending
      /\ echoed' = IF complete /\ (pretended \/ config.world = "optimistic") THEN echoed \cup {button} ELSE echoed
      /\ UNCHANGED <<browser, page, done>>

Click == At("click") /\ Use(Visible /\ page.shown, Submit(Current.at))

(* waitIdentityReady: whichever it sees first, the connected identity, and *)
(* then the form is not filled in, or the form.                            *)
FormSteps == 3
IdentityReady(connected) ==
  /\ At("identity") /\ Visible /\ page.shown
  /\ connected => page.connected /\ "IdentityVisible" \notin config.empty
  /\ step' = After(IF connected THEN step + FormSteps ELSE step)
  /\ UNCHANGED <<config, browser, page, server, outcome, deferred, faults, reported>>

Shows(what) ==
  /\ Visible /\ page.shown
  /\ CASE what = "content" -> TRUE
       [] what = "connected" -> page.connected
       [] what = "panels" -> "Enter" \in page.filled
       [] OTHER -> what \in done \cup echoed

(* A wait sees nothing through an empty selector.                          *)
Wanted == IF Current.op = "identity" THEN "content" ELSE Current.at
Waiting == At("await") \/ At("identity")

Found == Current.by \notin config.empty /\ Shows(Wanted)

Seen == At("await") /\ Found /\ Proceed /\ UNCHANGED <<browser, page, server>>

May(error) == error \in Troubles \ faults /\ faults' = faults \cup {error}

(* The limit passes; the page and the server have had time for all they do. *)
Coming ==
  \/ browser.real /\ ~page.shown
  \/ page.shown /\ ~page.connected /\ browser.login # "none"
  \/ pending # {}
Late_Never == FALSE
Late == Waiting /\ ~Found /\ ~Coming /\ Fail /\ UNCHANGED reported

Closed_OnSuccess == At("close")
(* The deferred Close runs when the flow is over, on every way out of it.  *)
Closed == At("close") \/ outcome = "failed"

(* Closing gives up the login or not; an error of Close is not looked at.  *)
Close ==
  /\ deferred /\ Closed
  /\ deferred' = FALSE
  /\ step' = IF outcome = "failed" THEN step ELSE After(step)
  /\ \/ /\ \E login \in {browser.login, "none"} :
             browser' = [runs |-> FALSE, viewport |-> browser.viewport, real |-> FALSE, login |-> login]
        /\ page' = Blank /\ Leave /\ UNCHANGED <<faults, reported>>
     \/ /\ May("close")
        /\ Report("Close") /\ UNCHANGED <<browser, page, server>>
  /\ UNCHANGED <<config, outcome>>

(* A call fails: of a session, or a command of the driver, which may have  *)
(* been carried out.                                                       *)
SessionFails ==
  /\ At("grant") \/ At("ask") \/ At("read") \/ At("readOwn")
  /\ May("agent") /\ outcome' = "failed"
  /\ UNCHANGED <<config, browser, page, server, step, deferred, reported>>

DriverCalls == {"viewport", "open", "landmarks", "snapshot", "route", "fill", "press", "choose", "click"}
DriverFails ==
  /\ \E op \in DriverCalls : At(op)
  /\ May("driver") /\ outcome' = "failed" /\ Report(Current.op)
  /\ \E runs \in {browser.runs, browser.runs \/ Current.op = "open"} :
       browser' = [browser EXCEPT !.runs = runs]
  /\ UNCHANGED <<config, page, server, step, deferred>>

Pass ==
  /\ outcome = "running" /\ step > Len(Script)
  /\ outcome' = "passed"
  /\ UNCHANGED <<config, browser, page, server, step, deferred, faults, reported>>

Harness ==
  \/ Ask \/ Read \/ SetViewport \/ Open \/ Snapshot \/ Navigate \/ Fill \/ Click
  \/ (\E connected \in BOOLEAN : IdentityReady(connected))
  \/ Seen \/ Late \/ Close \/ SessionFails \/ DriverFails \/ Pass
World == Load \/ Connect \/ (\E button \in pending : Deliver(button))

Next == Harness \/ World

(* The flow goes on, and what the page and the server have to do they do   *)
(* before the limit of a wait has passed.                                  *)
Spec == Init /\ [][Next]_vars /\ WF_vars(Harness) /\ WF_vars(World)

-----------------------------------------------------------------------------
(* Correctness.                                                            *)

Over == outcome # "running" /\ ~(deferred /\ Closed)
Honest == config.world \in {"honest", "late", "strict"}
Administers == "ServerVisible" \notin config.empty

(* Selectors without which an honest page cannot pass: those of the         *)
(* navigation and of the login, those no flow does without, one that shows *)
(* that the comment was sent, and those without which the administration,  *)
(* if there is one, does not do or not wait for what it goes on from.      *)
Mandatory ==
  {"DMRecipient", "DMContent", "DMSend", "DMVisible", "GroupID", "GroupMessage", "GroupSend",
   "GroupVisible", "PostTitle", "PostContent", "PostCreate", "PostVisible", "ThreadID",
   "CommentContent", "CommentSend", "Follow", "React"}
Needed == Form \cup {"IdentityVisible"} \cup {Routes[k] : k \in DOMAIN Routes} \cup Mandatory
Comments == {"CommentVisible", "ThreadStructure"}
Administrative == {"ServerID", "RequestVisible", "RoleResult", "ApproveRequest"} \cup Roles
Misguided(empty) ==
  \/ empty \cap Needed # {}
  \/ Comments \subseteq empty
  \/ "ServerVisible" \notin empty /\ empty \cap Administrative # {}

(* The one look at the landmarks, which does not wait for them.            *)
LookedTooEarly == config.world = "late" /\ step \in DOMAIN Script /\ Current.op = "landmarks"

(* An honest page whose navigation is there when it is opened passes,      *)
(* whatever viewport it is found with, however slowly it shows its content *)
(* or connects by itself, though a look or a Close failed; unless its main *)
(* part and heading come with its content, after the one look at them, the *)
(* server refuses a session that was closed and the administration is read *)
(* back through one, or the selectors leave out what it takes.             *)
HonestPageNotBlamed ==
  outcome = "failed" /\ Honest =>
    \/ ~ (faults \subseteq {"close"})
    \/ LookedTooEarly
    \/ Administers /\ config.world = "strict"
    \/ Misguided(config.empty)

(* What the README says the gate proves (Browser, "an agent client to      *)
(* verify the same content is readable"): a DM, a group message and a      *)
(* comment were sent, and a request approved and a role assigned, by this  *)
(* human, whatever the page shows.                                         *)
PassedWasDone ==
  outcome = "passed" =>
    /\ {"DMSend", "GroupSend", "CommentSend"} \subseteq done
    /\ Administers => {"ApproveRequest", "RoleSave"} \subseteq done

(* The flows leave no browser behind, on any way out; if they do, opening  *)
(* or closing it failed and the collector was told, although Close's error *)
(* is dropped.                                                             *)
LeftOpenIsReported ==
  Over /\ browser.runs /\ config.world # "leftover" => reported \cap {"open", "Close"} # {}

(* Every gate ends. *)
Terminates == <>Over

=============================================================================
