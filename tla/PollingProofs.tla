--------------------------- MODULE PollingProofs ---------------------------
(***************************************************************************)
(* The waiting loops for all limits, lengths of calls and sleeps.  Each    *)
(* theorem rests on an inductive invariant over the ones before it.        *)
(***************************************************************************)
EXTENDS Polling, TLAPS

Numbers ==
  /\ now \in Nat /\ start \in Nat /\ since \in Nat /\ lookedAt \in Nat /\ looks \in Nat
  /\ start <= now /\ since <= now /\ lookedAt <= now
  /\ cancelled \in Int /\ -1 <= cancelled /\ cancelled <= now
  /\ firstShown \in Int /\ -1 <= firstShown /\ firstShown <= now

LEMMA NumbersHold == Spec => []Numbers
<1>1. Init => Numbers
  BY TimesAssumption DEF Init, Numbers
<1>2. Numbers /\ [Next]_vars => Numbers'
  <2> SUFFICES ASSUME Numbers, [Next]_vars PROVE Numbers'
    OBVIOUS
  <2>1. CASE Serve
    BY TimesAssumption, <2>1 DEF Serve, Calling, Numbers, clock, world, loop
  <2>2. CASE Answer
    BY TimesAssumption, <2>2 DEF Answer, Numbers, clock, loop
  <2>3. CASE Change
    BY TimesAssumption, <2>3 DEF Change, Numbers, clock, loop, call
  <2>4. CASE Cancel
    BY TimesAssumption, <2>4 DEF Cancel, Numbers, world, loop, call
  <2>5. CASE Tick
    BY TimesAssumption, <2>5 DEF Tick, Calling, Numbers, world, loop, call
  <2>6. CASE Test
    BY TimesAssumption, <2>6 DEF Test, InTime, Begin, NewCall, Finish, Numbers, clock, world, call
  <2>7. CASE Hit
    <3>1. CASE kind = "offline"
      BY <2>7, <3>1, TimesAssumption DEF Hit, Begin, NewCall, Finish, Numbers, clock, world, call
    <3>2. CASE kind = "reply" /\ stage = 1
      BY <2>7, <3>2, TimesAssumption DEF Hit, Begin, NewCall, Finish, Numbers, clock, world, call
    <3>3. CASE ~(kind = "offline" \/ (kind = "reply" /\ stage = 1))
      BY <2>7, <3>3, TimesAssumption DEF Hit, Begin, NewCall, Finish, Numbers, clock, world, call
    <3> QED
      BY <3>1, <3>2, <3>3
  <2>8. CASE Miss
    BY TimesAssumption, <2>8 DEF Miss, Begin, Numbers, clock, world, call
  <2>9. CASE Again
    BY TimesAssumption, <2>9 DEF Again, Finish, Numbers, clock, world, call
  <2>10. CASE Sent
    BY TimesAssumption, <2>10 DEF Sent, Numbers, clock, world, call
  <2>11. CASE Fail
    BY TimesAssumption, <2>11 DEF Fail, Calling, Begin, Finish, Numbers, clock, world
  <2>12. CASE Wake
    BY TimesAssumption, <2>12 DEF Wake, Begin, Numbers, clock, world, call
  <2>13. CASE Interrupt
    BY TimesAssumption, <2>13 DEF Interrupt, Finish, Numbers, clock, world, call
  <2>14. CASE UNCHANGED vars
    BY <2>14 DEF Numbers, vars, clock, world, loop, call
  <2> QED
    BY <2>1, <2>2, <2>3, <2>4, <2>5, <2>6, <2>7, <2>8, <2>9, <2>10, <2>11, <2>12, <2>13, <2>14 DEF Next, Step
<1> QED
  BY <1>1, <1>2, PTL DEF Spec

(* Which loops come to which step.                                         *)
Control ==
  /\ pc = "done" <=> outcome # "running"
  /\ pc = "send" => kind \in {"delivery", "reply"} /\ stage = 1
  /\ pc = "again" => kind = "offline"
  /\ stage \in {1, 2} /\ (stage = 2 => kind = "reply")
  /\ stage = 1 => start = 0

LEMMA ControlHolds == Spec => []Control
<1>1. Init => Control
  BY DEF Init, Control, Kinds
<1>2. Numbers /\ Control /\ [Next]_vars => Control'
  <2> SUFFICES ASSUME Numbers, Control, [Next]_vars PROVE Control'
    OBVIOUS
  <2>1. CASE Serve
    BY <2>1 DEF Serve, Calling, Control, clock, world, loop
  <2>2. CASE Answer
    BY <2>2 DEF Answer, Control, clock, loop
  <2>3. CASE Change
    BY <2>3 DEF Change, Control, clock, loop, call
  <2>4. CASE Cancel
    BY <2>4 DEF Cancel, Control, world, loop, call
  <2>5. CASE Tick
    BY <2>5 DEF Tick, Calling, Control, world, loop, call
  <2>6. CASE Test
    BY <2>6 DEF Test, InTime, Begin, NewCall, Finish, Control, clock, world, call
  <2>7. CASE Hit
    BY <2>7 DEF Hit, Begin, NewCall, Finish, Control, clock, world, call
  <2>8. CASE Miss
    BY <2>8 DEF Miss, Begin, Control, clock, world, call
  <2>9. CASE Again
    BY <2>9 DEF Again, Finish, Control, clock, world, call
  <2>10. CASE Sent
    BY <2>10 DEF Sent, Control, clock, world, call
  <2>11. CASE Fail
    BY <2>11 DEF Fail, Calling, Begin, Finish, Control, clock, world
  <2>12. CASE Wake
    BY <2>12 DEF Wake, Begin, Control, clock, world, call
  <2>13. CASE Interrupt
    BY <2>13 DEF Interrupt, Finish, Control, clock, world, call
  <2>14. CASE UNCHANGED vars
    BY <2>14 DEF Control, vars, clock, world, loop, call
  <2> QED
    BY <2>1, <2>2, <2>3, <2>4, <2>5, <2>6, <2>7, <2>8, <2>9, <2>10, <2>11, <2>12, <2>13, <2>14 DEF Next, Step
<1> QED
  BY <1>1, <1>2, NumbersHold, PTL DEF Spec

(* How long each step lasts, and when it may begin at the latest.          *)
Durations ==
  /\ pc = "send" => since - start < Limit + MaxCall /\ now <= since + MaxCall
  /\ pc = "send" /\ kind = "delivery" => since = 0
  /\ pc = "call" => since - start < Limit /\ now <= since + MaxCall
  /\ pc = "pause" => since - start < Limit + MaxCall /\ now <= since + Pause + Slack
  /\ pc = "test" => now - start < Limit + Round
  /\ pc = "again" => since - start < Limit + Round /\ now <= since + MaxCall
  /\ WaitIsBounded

LEMMA DurationsHold == Spec => []Durations
<1>1. Init => Durations
  BY TimesAssumption DEF Init, Durations, WaitIsBounded, Round
<1>2. Numbers /\ Control /\ Durations /\ [Next]_vars => Durations'
  <2> SUFFICES ASSUME Numbers, Control, Durations, [Next]_vars PROVE Durations'
    OBVIOUS
  <2>1. CASE Serve
    BY TimesAssumption, <2>1 DEF Serve, Calling, Numbers, Control, Durations, WaitIsBounded, Round, clock, world, loop
  <2>2. CASE Answer
    BY TimesAssumption, <2>2 DEF Answer, Numbers, Control, Durations, WaitIsBounded, Round, clock, loop
  <2>3. CASE Change
    BY TimesAssumption, <2>3 DEF Change, Numbers, Control, Durations, WaitIsBounded, Round, clock, loop, call
  <2>4. CASE Cancel
    BY TimesAssumption, <2>4 DEF Cancel, Numbers, Control, Durations, WaitIsBounded, Round, world, loop, call
  <2>5. CASE Tick
    BY TimesAssumption, <2>5 DEF Tick, Calling, Numbers, Control, Durations, WaitIsBounded, Round, world, loop, call
  <2>6. CASE Test
    BY TimesAssumption, <2>6 DEF Test, InTime, Begin, NewCall, Finish, Numbers, Control, Durations, WaitIsBounded, Round, clock, world, call
  <2>7. CASE Hit
    <3>1. CASE kind = "offline"
      BY <2>7, <3>1, TimesAssumption DEF Hit, Begin, NewCall, Finish, Numbers, Control, Durations, WaitIsBounded, Round, clock, world, call
    <3>2. CASE kind = "reply" /\ stage = 1
      BY <2>7, <3>2, TimesAssumption DEF Hit, Begin, NewCall, Finish, Numbers, Control, Durations, WaitIsBounded, Round, clock, world, call
    <3>3. CASE ~(kind = "offline" \/ (kind = "reply" /\ stage = 1))
      BY <2>7, <3>3, TimesAssumption DEF Hit, Begin, NewCall, Finish, Numbers, Control, Durations, WaitIsBounded, Round, clock, world, call
    <3> QED
      BY <3>1, <3>2, <3>3
  <2>8. CASE Miss
    BY TimesAssumption, <2>8 DEF Miss, Begin, Numbers, Control, Durations, WaitIsBounded, Round, clock, world, call
  <2>9. CASE Again
    BY TimesAssumption, <2>9 DEF Again, Finish, Numbers, Control, Durations, WaitIsBounded, Round, clock, world, call
  <2>10. CASE Sent
    <3>1. CASE kind = "reply"
      BY <2>10, <3>1, TimesAssumption DEF Sent, Numbers, Control, Durations, WaitIsBounded, Round, clock, world, call
    <3>2. CASE kind # "reply"
      BY <2>10, <3>2, TimesAssumption DEF Sent, Numbers, Control, Durations, WaitIsBounded, Round, clock, world, call
    <3> QED
      BY <3>1, <3>2
  <2>11. CASE Fail
    BY TimesAssumption, <2>11 DEF Fail, Calling, Begin, Finish, Numbers, Control, Durations, WaitIsBounded, Round, clock, world
  <2>12. CASE Wake
    BY TimesAssumption, <2>12 DEF Wake, Begin, Numbers, Control, Durations, WaitIsBounded, Round, clock, world, call
  <2>13. CASE Interrupt
    BY TimesAssumption, <2>13 DEF Interrupt, Finish, Numbers, Control, Durations, WaitIsBounded, Round, clock, world, call
  <2>14. CASE UNCHANGED vars
    BY <2>14 DEF Numbers, Control, Durations, WaitIsBounded, Round, vars, clock, world, loop, call
  <2> QED
    BY <2>1, <2>2, <2>3, <2>4, <2>5, <2>6, <2>7, <2>8, <2>9, <2>10, <2>11, <2>12, <2>13, <2>14 DEF Next, Step
<1> QED
  BY <1>1, <1>2, NumbersHold, ControlHolds, PTL DEF Spec

(* Every wait is short, for all times: a loop cannot take longer than its  *)
(* limit, the round that is under way when it passes, and one more call.   *)
THEOREM WaitsAreBounded == Spec => []WaitIsBounded
<1>1. Durations => WaitIsBounded
  BY DEF Durations
<1> QED
  BY <1>1, DurationsHold, PTL

(* What a cancelled loop is still waiting for.                             *)
Cancelled ==
  cancelled # -1 /\ outcome = "running" /\ kind # "visible" =>
    /\ now <= cancelled + Pause + Slack
    /\ pc = "pause" => since <= cancelled
    /\ pc \in {"send", "call", "again"} /\ served => now <= cancelled

LEMMA CancelledHolds == Spec => []Cancelled
<1>1. Init => Cancelled
  BY TimesAssumption DEF Init, Cancelled
<1>2. Numbers /\ Durations /\ Cancelled /\ [Next]_vars => Cancelled'
  <2> SUFFICES ASSUME Numbers, Durations, Cancelled, [Next]_vars PROVE Cancelled'
    OBVIOUS
  <2>1. CASE Serve
    BY TimesAssumption, <2>1 DEF Serve, Calling, Numbers, Durations, Cancelled, clock, world, loop
  <2>2. CASE Answer
    BY TimesAssumption, <2>2 DEF Answer, Numbers, Durations, Cancelled, clock, loop
  <2>3. CASE Change
    BY TimesAssumption, <2>3 DEF Change, Numbers, Durations, Cancelled, clock, loop, call
  <2>4. CASE Cancel
    BY TimesAssumption, <2>4 DEF Cancel, Numbers, Durations, Cancelled, world, loop, call
  <2>5. CASE Tick
    BY TimesAssumption, <2>5 DEF Tick, Calling, Numbers, Durations, Cancelled, world, loop, call
  <2>6. CASE Test
    BY TimesAssumption, <2>6 DEF Test, InTime, Begin, NewCall, Finish, Numbers, Durations, Cancelled, clock, world, call
  <2>7. CASE Hit
    <3>1. CASE kind = "offline"
      BY <2>7, <3>1, TimesAssumption DEF Hit, Begin, NewCall, Finish, Numbers, Durations, Cancelled, clock, world, call
    <3>2. CASE kind = "reply" /\ stage = 1
      BY <2>7, <3>2, TimesAssumption DEF Hit, Begin, NewCall, Finish, Numbers, Durations, Cancelled, clock, world, call
    <3>3. CASE ~(kind = "offline" \/ (kind = "reply" /\ stage = 1))
      BY <2>7, <3>3, TimesAssumption DEF Hit, Begin, NewCall, Finish, Numbers, Durations, Cancelled, clock, world, call
    <3> QED
      BY <3>1, <3>2, <3>3
  <2>8. CASE Miss
    BY TimesAssumption, <2>8 DEF Miss, Begin, Numbers, Durations, Cancelled, clock, world, call
  <2>9. CASE Again
    BY TimesAssumption, <2>9 DEF Again, Finish, Numbers, Durations, Cancelled, clock, world, call
  <2>10. CASE Sent
    BY TimesAssumption, <2>10 DEF Sent, Numbers, Durations, Cancelled, clock, world, call
  <2>11. CASE Fail
    BY TimesAssumption, <2>11 DEF Fail, Calling, Begin, Finish, Numbers, Durations, Cancelled, clock, world
  <2>12. CASE Wake
    BY TimesAssumption, <2>12 DEF Wake, Begin, Numbers, Durations, Cancelled, clock, world, call
  <2>13. CASE Interrupt
    BY TimesAssumption, <2>13 DEF Interrupt, Finish, Numbers, Durations, Cancelled, clock, world, call
  <2>14. CASE UNCHANGED vars
    BY <2>14 DEF Numbers, Durations, Cancelled, vars, clock, world, loop, call
  <2> QED
    BY <2>1, <2>2, <2>3, <2>4, <2>5, <2>6, <2>7, <2>8, <2>9, <2>10, <2>11, <2>12, <2>13, <2>14 DEF Next, Step
<1> QED
  BY <1>1, <1>2, NumbersHold, DurationsHold, PTL DEF Spec

(* A cancelled loop ends soon, for all times, although it does not look at *)
(* the context while it sleeps; waitVisible's, which does, is left out.    *)
THEOREM CancellationEndsWaits == Spec => []CancelEndsSoon
<1>1. Cancelled => CancelEndsSoon
  BY DEF Cancelled, CancelEndsSoon
<1> QED
  BY <1>1, CancelledHolds, PTL

(* What the latest look says of what is waited for.                        *)
Showing ==
  /\ shown => firstShown # -1
  /\ seen => firstShown # -1 /\ firstShown <= lookedAt
  /\ kind \in Lasting /\ firstShown # -1 => shown
  /\ kind \in Lasting /\ outcome # "error" /\ looks > 0 /\ ~seen =>
       firstShown = -1 \/ firstShown >= lookedAt

LEMMA ShowingHolds == Spec => []Showing
<1>1. Init => Showing
  BY DEF Init, Showing
<1>2. Numbers /\ Control /\ Showing /\ [Next]_vars => Showing'
  <2> SUFFICES ASSUME Numbers, Control, Showing, [Next]_vars PROVE Showing'
    OBVIOUS
  <2>1. CASE Serve
    <3>1. CASE pc = "send"
      BY <2>1, <3>1 DEF Serve, Calling, Numbers, Control, Showing, Lasting, clock, world, loop
    <3>2. CASE pc # "send"
      BY <2>1, <3>2 DEF Serve, Calling, Numbers, Control, Showing, Lasting, clock, world, loop
    <3> QED
      BY <3>1, <3>2
  <2>2. CASE Answer
    BY <2>2 DEF Answer, Numbers, Control, Showing, Lasting, clock, loop
  <2>3. CASE Change
    <3>1. CASE shown
      BY <2>3, <3>1 DEF Change, Numbers, Control, Showing, Lasting, clock, loop, call
    <3>2. CASE ~shown
      BY <2>3, <3>2 DEF Change, Numbers, Control, Showing, Lasting, clock, loop, call
    <3> QED
      BY <3>1, <3>2
  <2>4. CASE Cancel
    BY <2>4 DEF Cancel, Numbers, Control, Showing, Lasting, world, loop, call
  <2>5. CASE Tick
    BY <2>5 DEF Tick, Calling, Numbers, Control, Showing, Lasting, world, loop, call
  <2>6. CASE Test
    BY <2>6 DEF Test, InTime, Begin, NewCall, Finish, Numbers, Control, Showing, Lasting, clock, world, call
  <2>7. CASE Hit
    <3>1. CASE kind = "offline"
      BY <2>7, <3>1 DEF Hit, Begin, NewCall, Finish, Numbers, Control, Showing, Lasting, clock, world, call
    <3>2. CASE kind = "reply" /\ stage = 1
      BY <2>7, <3>2 DEF Hit, Begin, NewCall, Finish, Numbers, Control, Showing, Lasting, clock, world, call
    <3>3. CASE ~(kind = "offline" \/ (kind = "reply" /\ stage = 1))
      BY <2>7, <3>3 DEF Hit, Begin, NewCall, Finish, Numbers, Control, Showing, Lasting, clock, world, call
    <3> QED
      BY <3>1, <3>2, <3>3
  <2>8. CASE Miss
    BY <2>8 DEF Miss, Begin, Numbers, Control, Showing, Lasting, clock, world, call
  <2>9. CASE Again
    BY <2>9 DEF Again, Finish, Numbers, Control, Showing, Lasting, clock, world, call
  <2>10. CASE Sent
    BY <2>10 DEF Sent, Numbers, Control, Showing, Lasting, clock, world, call
  <2>11. CASE Fail
    <3>1. CASE kind = "visible"
      BY <2>11, <3>1 DEF Fail, Calling, Begin, Finish, Numbers, Control, Showing, Lasting, clock, world
    <3>2. CASE kind # "visible"
      BY <2>11, <3>2 DEF Fail, Calling, Begin, Finish, Numbers, Control, Showing, Lasting, clock, world
    <3> QED
      BY <3>1, <3>2
  <2>12. CASE Wake
    BY <2>12 DEF Wake, Begin, Numbers, Control, Showing, Lasting, clock, world, call
  <2>13. CASE Interrupt
    BY <2>13 DEF Interrupt, Finish, Numbers, Control, Showing, Lasting, clock, world, call
  <2>14. CASE UNCHANGED vars
    BY <2>14 DEF Numbers, Control, Showing, Lasting, vars, clock, world, loop, call
  <2> QED
    BY <2>1, <2>2, <2>3, <2>4, <2>5, <2>6, <2>7, <2>8, <2>9, <2>10, <2>11, <2>12, <2>13, <2>14 DEF Next, Step
<1> QED
  BY <1>1, <1>2, NumbersHold, ControlHolds, PTL DEF Spec

(* Which look decides at which step.                                       *)
Looking ==
  /\ pc \in {"call", "again"} /\ served => since <= lookedAt /\ looks >= 1
  /\ pc = "again" /\ served => looks >= 2 \/ lookedAt - start >= Limit
  /\ pc = "again" /\ ~served => looks >= 1 \/ since - start >= Limit
  /\ pc \in {"test", "pause"} => ~seen
  /\ pc = "send" /\ (kind = "delivery" \/ served) => ~seen /\ looks = 0
  /\ pc = "pause" /\ kind # "visible" => looks >= 1 /\ since <= lookedAt + MaxCall
  /\ pc = "test" /\ kind # "visible" =>
       \/ looks >= 1 /\ now <= lookedAt + Round
       \/ looks = 0 /\ kind = "delivery" /\ since = 0
       \/ looks = 0 /\ now = start

LEMMA LookingHolds == Spec => []Looking
<1>1. Init => Looking
  BY TimesAssumption DEF Init, Looking
<1>2. Numbers /\ Control /\ Durations /\ Looking /\ [Next]_vars => Looking'
  <2> SUFFICES ASSUME Numbers, Control, Durations, Looking, [Next]_vars PROVE Looking'
    OBVIOUS
  <2>1. CASE Serve
    <3>1. CASE pc = "send"
      BY <2>1, <3>1, TimesAssumption DEF Serve, Calling, Numbers, Control, Durations, Looking, Round, clock, world, loop
    <3>2. CASE pc # "send"
      BY <2>1, <3>2, TimesAssumption DEF Serve, Calling, Numbers, Control, Durations, Looking, Round, clock, world, loop
    <3> QED
      BY <3>1, <3>2
  <2>2. CASE Answer
    BY TimesAssumption, <2>2 DEF Answer, Numbers, Control, Durations, Looking, Round, clock, loop
  <2>3. CASE Change
    BY TimesAssumption, <2>3 DEF Change, Numbers, Control, Durations, Looking, Round, clock, loop, call
  <2>4. CASE Cancel
    BY TimesAssumption, <2>4 DEF Cancel, Numbers, Control, Durations, Looking, Round, world, loop, call
  <2>5. CASE Tick
    BY TimesAssumption, <2>5 DEF Tick, Calling, Numbers, Control, Durations, Looking, Round, world, loop, call
  <2>6. CASE Test
    BY TimesAssumption, <2>6 DEF Test, InTime, Begin, NewCall, Finish, Numbers, Control, Durations, Looking, Round, clock, world, call
  <2>7. CASE Hit
    <3>1. CASE kind = "offline"
      BY <2>7, <3>1, TimesAssumption DEF Hit, Begin, NewCall, Finish, Numbers, Control, Durations, Looking, Round, clock, world, call
    <3>2. CASE kind = "reply" /\ stage = 1
      BY <2>7, <3>2, TimesAssumption DEF Hit, Begin, NewCall, Finish, Numbers, Control, Durations, Looking, Round, clock, world, call
    <3>3. CASE ~(kind = "offline" \/ (kind = "reply" /\ stage = 1))
      BY <2>7, <3>3, TimesAssumption DEF Hit, Begin, NewCall, Finish, Numbers, Control, Durations, Looking, Round, clock, world, call
    <3> QED
      BY <3>1, <3>2, <3>3
  <2>8. CASE Miss
    BY TimesAssumption, <2>8 DEF Miss, Begin, Numbers, Control, Durations, Looking, Round, clock, world, call
  <2>9. CASE Again
    BY TimesAssumption, <2>9 DEF Again, Finish, Numbers, Control, Durations, Looking, Round, clock, world, call
  <2>10. CASE Sent
    <3>1. CASE kind = "reply"
      BY <2>10, <3>1, TimesAssumption DEF Sent, Numbers, Control, Durations, Looking, Round, clock, world, call
    <3>2. CASE kind # "reply"
      BY <2>10, <3>2, TimesAssumption DEF Sent, Numbers, Control, Durations, Looking, Round, clock, world, call
    <3> QED
      BY <3>1, <3>2
  <2>11. CASE Fail
    <3>1. CASE kind = "visible"
      BY <2>11, <3>1, TimesAssumption DEF Fail, Calling, Begin, Finish, Numbers, Control, Durations, Looking, Round, clock, world
    <3>2. CASE kind # "visible"
      BY <2>11, <3>2, TimesAssumption DEF Fail, Calling, Begin, Finish, Numbers, Control, Durations, Looking, Round, clock, world
    <3> QED
      BY <3>1, <3>2
  <2>12. CASE Wake
    BY TimesAssumption, <2>12 DEF Wake, Begin, Numbers, Control, Durations, Looking, Round, clock, world, call
  <2>13. CASE Interrupt
    BY TimesAssumption, <2>13 DEF Interrupt, Finish, Numbers, Control, Durations, Looking, Round, clock, world, call
  <2>14. CASE UNCHANGED vars
    BY <2>14 DEF Numbers, Control, Durations, Looking, Round, vars, clock, world, loop, call
  <2> QED
    BY <2>1, <2>2, <2>3, <2>4, <2>5, <2>6, <2>7, <2>8, <2>9, <2>10, <2>11, <2>12, <2>13, <2>14 DEF Next, Step
<1> QED
  BY <1>1, <1>2, NumbersHold, ControlHolds, DurationsHold, PTL DEF Spec

(* Nothing passes that was not seen in time, for all times.                *)
THEOREM NothingPassesUnseen == Spec => []PassedWasSeen
<1>1. Init => PassedWasSeen
  BY TimesAssumption DEF Init, PassedWasSeen
<1>2. Numbers /\ Control /\ Durations /\ Showing /\ Looking /\ PassedWasSeen /\ [Next]_vars => PassedWasSeen'
  <2> SUFFICES ASSUME Numbers, Control, Durations, Showing, Looking, PassedWasSeen, [Next]_vars PROVE PassedWasSeen'
    OBVIOUS
  <2>1. CASE Serve
    BY TimesAssumption, <2>1 DEF Serve, Calling, Numbers, Control, Durations, Showing, Looking, PassedWasSeen, clock, world, loop
  <2>2. CASE Answer
    BY TimesAssumption, <2>2 DEF Answer, Numbers, Control, Durations, Showing, Looking, PassedWasSeen, clock, loop
  <2>3. CASE Change
    BY TimesAssumption, <2>3 DEF Change, Numbers, Control, Durations, Showing, Looking, PassedWasSeen, clock, loop, call
  <2>4. CASE Cancel
    BY TimesAssumption, <2>4 DEF Cancel, Numbers, Control, Durations, Showing, Looking, PassedWasSeen, world, loop, call
  <2>5. CASE Tick
    BY TimesAssumption, <2>5 DEF Tick, Calling, Numbers, Control, Durations, Showing, Looking, PassedWasSeen, world, loop, call
  <2>6. CASE Test
    BY TimesAssumption, <2>6 DEF Test, InTime, Begin, NewCall, Finish, Numbers, Control, Durations, Showing, Looking, PassedWasSeen, clock, world, call
  <2>7. CASE Hit
    <3>1. CASE kind = "offline"
      BY <2>7, <3>1, TimesAssumption DEF Hit, Begin, NewCall, Finish, Numbers, Control, Durations, Showing, Looking, PassedWasSeen, clock, world, call
    <3>2. CASE kind = "reply" /\ stage = 1
      BY <2>7, <3>2, TimesAssumption DEF Hit, Begin, NewCall, Finish, Numbers, Control, Durations, Showing, Looking, PassedWasSeen, clock, world, call
    <3>3. CASE ~(kind = "offline" \/ (kind = "reply" /\ stage = 1))
      BY <2>7, <3>3, TimesAssumption DEF Hit, Begin, NewCall, Finish, Numbers, Control, Durations, Showing, Looking, PassedWasSeen, clock, world, call
    <3> QED
      BY <3>1, <3>2, <3>3
  <2>8. CASE Miss
    BY TimesAssumption, <2>8 DEF Miss, Begin, Numbers, Control, Durations, Showing, Looking, PassedWasSeen, clock, world, call
  <2>9. CASE Again
    BY TimesAssumption, <2>9 DEF Again, Finish, Numbers, Control, Durations, Showing, Looking, PassedWasSeen, clock, world, call
  <2>10. CASE Sent
    BY TimesAssumption, <2>10 DEF Sent, Numbers, Control, Durations, Showing, Looking, PassedWasSeen, clock, world, call
  <2>11. CASE Fail
    BY TimesAssumption, <2>11 DEF Fail, Calling, Begin, Finish, Numbers, Control, Durations, Showing, Looking, PassedWasSeen, clock, world
  <2>12. CASE Wake
    BY TimesAssumption, <2>12 DEF Wake, Begin, Numbers, Control, Durations, Showing, Looking, PassedWasSeen, clock, world, call
  <2>13. CASE Interrupt
    BY TimesAssumption, <2>13 DEF Interrupt, Finish, Numbers, Control, Durations, Showing, Looking, PassedWasSeen, clock, world, call
  <2>14. CASE UNCHANGED vars
    BY <2>14 DEF Numbers, Control, Durations, Showing, Looking, PassedWasSeen, vars, clock, world, loop, call
  <2> QED
    BY <2>1, <2>2, <2>3, <2>4, <2>5, <2>6, <2>7, <2>8, <2>9, <2>10, <2>11, <2>12, <2>13, <2>14 DEF Next, Step
<1> QED
  BY <1>1, <1>2, NumbersHold, ControlHolds, DurationsHold, ShowingHolds, LookingHolds, PTL DEF Spec

(* Nothing is late that had shown a round before the limit, for all times. *)
THEOREM LateIsLate == Spec => []LateMeansLate
<1>1. Init => LateMeansLate
  BY TimesAssumption DEF Init, LateMeansLate
<1>2. Numbers /\ Control /\ Durations /\ Showing /\ Looking /\ LateMeansLate /\ [Next]_vars => LateMeansLate'
  <2> SUFFICES ASSUME Numbers, Control, Durations, Showing, Looking, LateMeansLate, [Next]_vars PROVE LateMeansLate'
    OBVIOUS
  <2>1. CASE Serve
    BY TimesAssumption, <2>1 DEF Serve, Calling, Numbers, Control, Durations, Showing, Looking, LateMeansLate, Lasting, Round, clock, world, loop
  <2>2. CASE Answer
    BY TimesAssumption, <2>2 DEF Answer, Numbers, Control, Durations, Showing, Looking, LateMeansLate, Lasting, Round, clock, loop
  <2>3. CASE Change
    BY TimesAssumption, <2>3 DEF Change, Numbers, Control, Durations, Showing, Looking, LateMeansLate, Lasting, Round, clock, loop, call
  <2>4. CASE Cancel
    BY TimesAssumption, <2>4 DEF Cancel, Numbers, Control, Durations, Showing, Looking, LateMeansLate, Lasting, Round, world, loop, call
  <2>5. CASE Tick
    BY TimesAssumption, <2>5 DEF Tick, Calling, Numbers, Control, Durations, Showing, Looking, LateMeansLate, Lasting, Round, world, loop, call
  <2>6. CASE Test
    <3>1. CASE InTime
      BY <2>6, <3>1, TimesAssumption DEF Test, InTime, Begin, NewCall, Finish, Numbers, Control, Durations, Showing, Looking, LateMeansLate, Lasting, Round, clock, world, call
    <3>2. CASE ~InTime /\ kind = "offline"
      BY <2>6, <3>2, TimesAssumption DEF Test, InTime, Begin, NewCall, Finish, Numbers, Control, Durations, Showing, Looking, LateMeansLate, Lasting, Round, clock, world, call
    <3>3. CASE ~InTime /\ kind = "visible"
      BY <2>6, <3>3, TimesAssumption DEF Test, InTime, Begin, NewCall, Finish, Numbers, Control, Durations, Showing, Looking, LateMeansLate, Lasting, Round, clock, world, call
    <3>4. CASE ~InTime /\ kind \notin {"offline", "visible"}
      BY <2>6, <3>4, TimesAssumption DEF Test, InTime, Begin, NewCall, Finish, Numbers, Control, Durations, Showing, Looking, LateMeansLate, Lasting, Round, clock, world, call
    <3> QED
      BY <3>1, <3>2, <3>3, <3>4
  <2>7. CASE Hit
    <3>1. CASE kind = "offline"
      BY <2>7, <3>1, TimesAssumption DEF Hit, Begin, NewCall, Finish, Numbers, Control, Durations, Showing, Looking, LateMeansLate, Lasting, Round, clock, world, call
    <3>2. CASE kind = "reply" /\ stage = 1
      BY <2>7, <3>2, TimesAssumption DEF Hit, Begin, NewCall, Finish, Numbers, Control, Durations, Showing, Looking, LateMeansLate, Lasting, Round, clock, world, call
    <3>3. CASE ~(kind = "offline" \/ (kind = "reply" /\ stage = 1))
      BY <2>7, <3>3, TimesAssumption DEF Hit, Begin, NewCall, Finish, Numbers, Control, Durations, Showing, Looking, LateMeansLate, Lasting, Round, clock, world, call
    <3> QED
      BY <3>1, <3>2, <3>3
  <2>8. CASE Miss
    BY TimesAssumption, <2>8 DEF Miss, Begin, Numbers, Control, Durations, Showing, Looking, LateMeansLate, Lasting, Round, clock, world, call
  <2>9. CASE Again
    BY TimesAssumption, <2>9 DEF Again, Finish, Numbers, Control, Durations, Showing, Looking, LateMeansLate, Lasting, Round, clock, world, call
  <2>10. CASE Sent
    BY TimesAssumption, <2>10 DEF Sent, Numbers, Control, Durations, Showing, Looking, LateMeansLate, Lasting, Round, clock, world, call
  <2>11. CASE Fail
    BY TimesAssumption, <2>11 DEF Fail, Calling, Begin, Finish, Numbers, Control, Durations, Showing, Looking, LateMeansLate, Lasting, Round, clock, world
  <2>12. CASE Wake
    BY TimesAssumption, <2>12 DEF Wake, Begin, Numbers, Control, Durations, Showing, Looking, LateMeansLate, Lasting, Round, clock, world, call
  <2>13. CASE Interrupt
    BY TimesAssumption, <2>13 DEF Interrupt, Finish, Numbers, Control, Durations, Showing, Looking, LateMeansLate, Lasting, Round, clock, world, call
  <2>14. CASE UNCHANGED vars
    BY <2>14 DEF Numbers, Control, Durations, Showing, Looking, LateMeansLate, Lasting, Round, vars, clock, world, loop, call
  <2> QED
    BY <2>1, <2>2, <2>3, <2>4, <2>5, <2>6, <2>7, <2>8, <2>9, <2>10, <2>11, <2>12, <2>13, <2>14 DEF Next, Step
<1> QED
  BY <1>1, <1>2, NumbersHold, ControlHolds, DurationsHold, ShowingHolds, LookingHolds, PTL DEF Spec

(* The state is well typed: what is not a number, and the number of        *)
(* changes.                                                                *)
Discrete ==
  /\ kind \in Kinds
  /\ pc \in {"send", "test", "call", "pause", "again", "done"}
  /\ served \in BOOLEAN /\ seen \in BOOLEAN /\ shown \in BOOLEAN
  /\ outcome \in {"running", "passed", "late", "error"}

LEMMA DiscreteHolds == Spec => []Discrete
<1>1. Init => Discrete
  BY DEF Init, Discrete, Kinds
<1>2. Discrete /\ [Next]_vars => Discrete'
  <2> SUFFICES ASSUME Discrete, [Next]_vars PROVE Discrete'
    OBVIOUS
  <2>1. CASE Serve
    <3>1. CASE pc = "send"
      BY <2>1, <3>1 DEF Serve, Calling, Discrete, clock, world, loop
    <3>2. CASE pc # "send"
      BY <2>1, <3>2 DEF Serve, Calling, Discrete, clock, world, loop
    <3> QED
      BY <3>1, <3>2
  <2>2. CASE Answer
    BY <2>2 DEF Answer, Discrete, clock, loop
  <2>3. CASE Change
    BY <2>3 DEF Change, Discrete, clock, loop, call
  <2>4. CASE Cancel
    BY <2>4 DEF Cancel, Discrete, world, loop, call
  <2>5. CASE Tick
    BY <2>5 DEF Tick, Calling, Discrete, world, loop, call
  <2>6. CASE Test
    <3>1. CASE InTime
      BY <2>6, <3>1 DEF Test, InTime, Begin, NewCall, Finish, Discrete, clock, world, call
    <3>2. CASE ~InTime /\ kind = "offline"
      BY <2>6, <3>2 DEF Test, InTime, Begin, NewCall, Finish, Discrete, clock, world, call
    <3>3. CASE ~InTime /\ kind # "offline"
      BY <2>6, <3>3 DEF Test, InTime, Begin, NewCall, Finish, Discrete, clock, world, call
    <3> QED
      BY <3>1, <3>2, <3>3
  <2>7. CASE Hit
    <3>1. CASE kind = "offline"
      BY <2>7, <3>1 DEF Hit, Begin, NewCall, Finish, Discrete, clock, world, call
    <3>2. CASE kind = "reply" /\ stage = 1
      BY <2>7, <3>2 DEF Hit, Begin, NewCall, Finish, Discrete, clock, world, call
    <3>3. CASE ~(kind = "offline" \/ (kind = "reply" /\ stage = 1))
      BY <2>7, <3>3 DEF Hit, Begin, NewCall, Finish, Discrete, clock, world, call
    <3> QED
      BY <3>1, <3>2, <3>3
  <2>8. CASE Miss
    BY <2>8 DEF Miss, Begin, Discrete, clock, world, call
  <2>9. CASE Again
    <3>1. CASE seen
      BY <2>9, <3>1 DEF Again, Finish, Discrete, clock, world, call
    <3>2. CASE ~seen
      BY <2>9, <3>2 DEF Again, Finish, Discrete, clock, world, call
    <3> QED
      BY <3>1, <3>2
  <2>10. CASE Sent
    <3>1. CASE kind = "reply"
      BY <2>10, <3>1 DEF Sent, Discrete, clock, world, call
    <3>2. CASE kind # "reply"
      BY <2>10, <3>2 DEF Sent, Discrete, clock, world, call
    <3> QED
      BY <3>1, <3>2
  <2>11. CASE Fail
    <3>1. CASE kind = "visible"
      BY <2>11, <3>1 DEF Fail, Calling, Begin, Finish, Discrete, clock, world
    <3>2. CASE kind # "visible"
      BY <2>11, <3>2 DEF Fail, Calling, Begin, Finish, Discrete, clock, world
    <3> QED
      BY <3>1, <3>2
  <2>12. CASE Wake
    BY <2>12 DEF Wake, Begin, Discrete, clock, world, call
  <2>13. CASE Interrupt
    BY <2>13 DEF Interrupt, Finish, Discrete, clock, world, call
  <2>14. CASE UNCHANGED vars
    BY <2>14 DEF Discrete, vars, clock, world, loop, call
  <2> QED
    BY <2>1, <2>2, <2>3, <2>4, <2>5, <2>6, <2>7, <2>8, <2>9, <2>10, <2>11, <2>12, <2>13, <2>14 DEF Next, Step
<1> QED
  BY <1>1, <1>2, PTL DEF Spec

LEMMA ChangesCounted == Spec => [](changes \in Nat /\ changes <= MaxChanges)
<1>1. Init => changes \in Nat /\ changes <= MaxChanges
  BY TimesAssumption DEF Init
<1>2. changes \in Nat /\ changes <= MaxChanges /\ [Next]_vars => (changes \in Nat /\ changes <= MaxChanges)'
  <2> SUFFICES ASSUME changes \in Nat, changes <= MaxChanges, [Next]_vars
               PROVE  changes' \in Nat /\ changes' <= MaxChanges
    OBVIOUS
  <2>1. CASE Change
    BY <2>1, TimesAssumption DEF Change
  <2>2. CASE UNCHANGED changes
    BY <2>2
  <2> QED
    BY <2>1, <2>2 DEF Next, Step, vars, world, Serve, Answer, Cancel, Tick, Test, Hit, Miss, Again, Sent, Fail, Wake, Interrupt
<1> QED
  BY <1>1, <1>2, PTL DEF Spec

(* Polling's state is well typed, for all times.                           *)
THEOREM TypeCorrect == Spec => []TypeOK
<1>1. Numbers /\ Control /\ Discrete /\ changes \in Nat /\ changes <= MaxChanges => TypeOK
  <2> SUFFICES ASSUME Numbers, Control, Discrete, changes \in Nat, changes <= MaxChanges PROVE TypeOK
    OBVIOUS
  <2>1. /\ now \in Nat /\ start \in 0 .. now /\ since \in 0 .. now /\ lookedAt \in 0 .. now
        /\ cancelled \in -1 .. now /\ firstShown \in -1 .. now /\ looks \in Nat
    BY DEF Numbers
  <2>2. changes \in 0 .. MaxChanges
    BY TimesAssumption
  <2>3. stage \in IF kind = "reply" THEN 1 .. 2 ELSE {1}
    BY DEF Control
  <2> QED
    BY <2>1, <2>2, <2>3 DEF TypeOK, Discrete
<1> QED
  BY <1>1, NumbersHold, ControlHolds, DiscreteHolds, ChangesCounted, PTL

=============================================================================
