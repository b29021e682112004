------------------------------ MODULE Polling ------------------------------
(***************************************************************************)
(* The loops that wait for something to show: the delivery of a DM         *)
(* (dmScenario), the update of a followed thread (postScenario), an agent  *)
(* that goes offline and comes online (presenceScenario), a DM and the     *)
(* reply to it (agentEfficiencyScenario), all of benchmark/, and an        *)
(* element of the page (waitVisible of browser.go).                        *)
(*                                                                         *)
(* Each loop tests its deadline, makes a call, and sleeps.  Calls take     *)
(* time, and the server looks at its state at some moment in between.      *)
(* Time is counted in ticks; what is waited for shows, and in some loops   *)
(* vanishes, whenever it likes.                                            *)
(***************************************************************************)
EXTENDS Integers

CONSTANTS
  Limit,       \* the deadline, e.g. MaxDeliveryLatency (5 s in the code)
  MaxCall,     \* the longest call (the HTTP client gives up after 30 s)
  Pause,       \* the sleep between two calls (10, 20 or 50 ms in the code)
  Slack,       \* how much longer than asked for a sleep may last
  MaxChanges   \* bound on the changes of what is waited for

ASSUME TimesAssumption ==
  /\ Limit \in Nat \ {0} /\ Pause \in Nat \ {0} /\ MaxCall \in Nat /\ Slack \in Nat
  /\ MaxChanges \in Nat

VARIABLES
  kind,        \* which loop it is
  pc,          \* what it does next
  stage,       \* 1, or 2 while "reply" waits for the reply
  now, start,  \* the clock; when the loop's time began to run
  since,       \* when the call or sleep in progress began
  served,      \* whether the server has handled the call in progress
  seen,        \* what it saw when it handled the latest call
  shown,       \* whether what is waited for shows
  changes,     \* how often it has changed
  cancelled,   \* when the context was cancelled, -1 before
  outcome,     \* "running", "passed", "late" or "error"
  looks,       \* calls of this stage the server has handled
  lookedAt,    \* when it handled the latest one
  firstShown   \* when what is waited for first showed, -1 before

clock == <<now, cancelled>>
world == <<shown, changes, firstShown>>
loop == <<pc, stage, start, since, outcome>>
call == <<served, seen, looks, lookedAt>>
vars == <<kind, clock, world, loop, call>>

Kinds == {"delivery", "update", "offline", "online", "reply", "visible"}
Lasting == {"delivery", "update", "reply"}   \* what has shown once stays

Init ==
  /\ kind \in Kinds
  /\ pc = IF kind = "delivery" THEN "send" ELSE "test"
  /\ stage = 1
  /\ now = 0 /\ start = 0 /\ since = 0
  /\ served = FALSE /\ seen = FALSE
  /\ shown \in BOOLEAN /\ (kind = "delivery" => ~shown)
  /\ changes = 0
  /\ cancelled = -1
  /\ outcome = "running"
  /\ looks = 0 /\ lookedAt = 0
  /\ firstShown = IF shown THEN 0 ELSE -1

-----------------------------------------------------------------------------
(* The world around the loop.                                              *)

Calling == pc \in {"send", "call", "again"}

(* Nothing can show before the message it answers has been sent.           *)
Change ==
  /\ outcome = "running"
  /\ changes < MaxChanges
  /\ pc = "send" => served
  /\ kind \in Lasting => ~shown
  /\ shown' = ~shown
  /\ changes' = changes + 1
  /\ firstShown' = IF shown' /\ firstShown = -1 THEN now ELSE firstShown
  /\ UNCHANGED <<kind, clock, loop, call>>

Cancel ==
  /\ outcome = "running" /\ cancelled = -1
  /\ cancelled' = now
  /\ UNCHANGED <<kind, now, world, loop, call>>

(* Time passes in calls and sleeps only; a call does not outlast its       *)
(* context.                                                                *)
Tick ==
  /\ outcome = "running"
  /\ \/ Calling /\ now < since + MaxCall /\ cancelled = -1
     \/ pc = "pause" /\ now < since + Pause + Slack
  /\ now' = now + 1
  /\ UNCHANGED <<kind, cancelled, world, loop, call>>

(* A call that is begun in a cancelled context fails.                      *)
Serve ==
  /\ Calling /\ ~served /\ cancelled = -1
  /\ ~(kind = "reply" /\ pc = "send")
  /\ served' = TRUE
  /\ IF pc = "send" THEN UNCHANGED <<seen, looks, lookedAt>>
     ELSE seen' = shown /\ looks' = looks + 1 /\ lookedAt' = now
  /\ UNCHANGED <<kind, clock, world, loop>>

-----------------------------------------------------------------------------
(* The loop.                                                               *)

Finish(verdict) == pc' = "done" /\ outcome' = verdict /\ UNCHANGED <<stage, start, since>>
Begin(step) == pc' = step /\ since' = now /\ UNCHANGED <<stage, start, outcome>>
NewCall == served' = FALSE /\ UNCHANGED <<seen, looks, lookedAt>>

InTime == now - start < Limit

(* Operators whose name has an underscore are faults: variants of the       *)
(* definition they are named for that the checks tell apart from the code.  *)
Test_Once ==
  /\ pc = "test" /\ InTime
  /\ Begin("call") /\ NewCall
  /\ UNCHANGED <<kind, clock, world>>

(* The deadline is tested before each call.  When it has passed, delivery  *)
(* and update judge their last answer, which was a miss, waitVisible       *)
(* returns its last error, and only offline looks once more.               *)
Test ==
  /\ pc = "test"
  /\ IF InTime THEN Begin("call") /\ NewCall
     ELSE IF kind = "offline" THEN Begin("again") /\ NewCall
     ELSE Finish("late") /\ UNCHANGED call
  /\ UNCHANGED <<kind, clock, world>>

(* The call returns what is waited for.  offline leaves its loop but looks *)
(* once more; reply answers and then waits for the answer to be received.  *)
Hit ==
  /\ pc = "call" /\ served /\ seen
  /\ IF kind = "offline" \/ (kind = "reply" /\ stage = 1)
       THEN Begin(IF kind = "offline" THEN "again" ELSE "send") /\ NewCall
       ELSE Finish("passed") /\ UNCHANGED call
  /\ UNCHANGED <<kind, clock, world>>

Miss_Immediately ==
  /\ pc = "call" /\ served /\ ~seen
  /\ Finish("late")
  /\ UNCHANGED <<kind, clock, world, call>>

Miss ==
  /\ pc = "call" /\ served /\ ~seen
  /\ Begin("pause")
  /\ UNCHANGED <<kind, clock, world, call>>

Again_Trusts ==
  /\ pc = "again" /\ served
  /\ Finish("passed")
  /\ UNCHANGED <<kind, clock, world, call>>

Again_Repeats ==
  /\ pc = "again" /\ served
  /\ IF seen THEN Finish("passed") /\ UNCHANGED call ELSE Begin("again") /\ NewCall
  /\ UNCHANGED <<kind, clock, world>>

(* The look after the loop of offline decides, whatever the loop saw.      *)
Again ==
  /\ pc = "again" /\ served
  /\ Finish(IF seen THEN "passed" ELSE "late")
  /\ UNCHANGED <<kind, clock, world, call>>

(* SendDM returns.  The time of delivery runs from before the call, that   *)
(* of reply from after it.                                                 *)
Sent ==
  /\ pc = "send" /\ served
  /\ pc' = "test"
  /\ IF kind = "reply" THEN stage' = 2 /\ start' = now ELSE UNCHANGED <<stage, start>>
  /\ UNCHANGED <<kind, clock, world, since, outcome, call>>

(* What "reply" waits for after it has answered is a new message.          *)
Answer ==
  /\ kind = "reply" /\ stage = 1 /\ pc = "send" /\ ~served /\ cancelled = -1
  /\ served' = TRUE
  /\ shown' = FALSE /\ firstShown' = -1
  /\ looks' = 0 /\ seen' = FALSE
  /\ UNCHANGED <<kind, clock, changes, loop, lookedAt>>

Fail_WaitsWhenCancelled ==
  /\ Calling
  /\ IF kind = "visible" \/ (pc = "call" /\ cancelled # -1) THEN Begin("pause") ELSE Finish("error")
  /\ seen' = FALSE
  /\ UNCHANGED <<kind, clock, world, served, looks, lookedAt>>

(* A call fails, before or after the server handled it.  waitVisible takes *)
(* every error for an element that does not show yet.                      *)
Fail ==
  /\ Calling
  /\ IF kind = "visible" THEN Begin("pause") ELSE Finish("error")
  /\ seen' = FALSE
  /\ UNCHANGED <<kind, clock, world, served, looks, lookedAt>>

(* The sleep ends; only waitVisible's is cut short by the context, and     *)
(* when both are due either may be taken.                                  *)
Wake ==
  /\ pc = "pause"
  /\ now >= since + Pause
  /\ Begin("test")
  /\ UNCHANGED <<kind, clock, world, call>>

Interrupt ==
  /\ pc = "pause" /\ kind = "visible" /\ cancelled # -1
  /\ Finish("error")
  /\ UNCHANGED <<kind, clock, world, call>>

Step == Test \/ Hit \/ Miss \/ Again \/ Sent \/ Fail \/ Wake \/ Interrupt

Next == Serve \/ Answer \/ Change \/ Cancel \/ Tick \/ Step

(* The goroutine runs and its sleeps and calls end: the clock ticks, and   *)
(* whatever is due at the latest possible time happens.                    *)
Spec == Init /\ [][Next]_vars /\ WF_vars(Tick) /\ WF_vars(Step)

-----------------------------------------------------------------------------
(* Properties.                                                             *)

(* The longest time one round of a loop takes.                             *)
Round == MaxCall + Pause + Slack

TypeOK ==
  /\ kind \in Kinds
  /\ pc \in {"send", "test", "call", "pause", "again", "done"}
  /\ stage \in IF kind = "reply" THEN 1 .. 2 ELSE {1}
  /\ now \in Nat /\ start \in 0 .. now /\ since \in 0 .. now /\ lookedAt \in 0 .. now
  /\ served \in BOOLEAN /\ seen \in BOOLEAN /\ shown \in BOOLEAN
  /\ changes \in 0 .. MaxChanges
  /\ cancelled \in -1 .. now /\ firstShown \in -1 .. now
  /\ outcome \in {"running", "passed", "late", "error"}
  /\ looks \in Nat

(* Nothing passes that was not seen, and the call that saw it was begun    *)
(* within the limit; only offline's second look may come later.  A call    *)
(* in progress is never given up, so what is reported as a latency may     *)
(* exceed the limit by the length of one call (benchmark.go:451-459,       *)
(* 593-600, 935-954, 957-965, browser.go:436-438).                         *)
PassedWasSeen ==
  outcome = "passed" =>
    /\ seen /\ firstShown # -1 /\ firstShown <= lookedAt
    /\ kind = "reply" => stage = 2
    /\ IF kind = "offline" THEN looks >= 2 \/ lookedAt - start >= Limit
       ELSE since - start < Limit /\ lookedAt - start < Limit + MaxCall

(* What is given up as late had not shown when last looked at, and that    *)
(* look was not long ago: of a message that was delivered a round before   *)
(* the limit, no loss is reported.  Nobody has looked only when sending    *)
(* alone used up the limit, or every look at the page failed               *)
(* (benchmark.go:462-465, 604-606, 947-954, 968, v2.go:1300-1307,          *)
(* browser.go:448).                                                        *)
LateMeansLate ==
  outcome = "late" =>
    \/ looks = 0 /\ kind = "delivery" /\ since = 0 /\ now - start >= Limit
    \/ kind = "visible" /\ ~seen
    \/ /\ looks > 0 /\ ~seen
       /\ kind \in Lasting => firstShown = -1 \/ firstShown >= lookedAt
       /\ now - start >= Limit \/ kind = "offline"
       /\ now <= lookedAt + Round

(* Every wait is short: the round in which the limit passes and one more   *)
(* call, offline's second look or the call that delivery and reply begin   *)
(* with, is all that a wait may last longer.                               *)
WaitIsBounded ==
  /\ now <= start + Limit + Round + MaxCall
  /\ stage = 2 => start <= Limit + Round + MaxCall

(* A cancelled run does not wait for the limit: at most one sleep is slept *)
(* to its end, and the next call fails.  waitVisible, which takes a failed *)
(* call for a miss, is left out: its select ends it at once, unless the    *)
(* timer is due as well and is taken, again and again, until the limit.    *)
CancelEndsSoon ==
  cancelled # -1 /\ outcome = "running" /\ kind # "visible" => now <= cancelled + Pause + Slack

(* Every wait ends.                                                        *)
Terminates == <>(outcome # "running")

=============================================================================
