# WalkieBench in TLA+

WalkieBench runs a fixed list of scenarios against a server through its
contract, records what it sees, and publishes one verdict: a scorecard and an
exit code. A benchmark is only worth what its gates are worth, so the questions
asked here are about the harness, not about the servers it measures: can a
failed gate be forgotten, can an agent job be charged with traffic that is not
its own, can a loss go unreported or be reported of an honest server, does every
run end.

The modules are translated from the Go source. Everything outside it (the
server, the browser, the clock) is an environment that may do whatever the code
has to cope with, and is marked external in `PROJECT.json`.

## The system

| Component | State | Operations | Works with |
|---|---|---|---|
| Telemetry collector (`telemetry/telemetry.go`) | scenarios, operations, wire samples, jobs and the active one, categories, reliability counters, invalid reasons, probes; one mutex | `BeginScenario`, `EndScenarioStatus`, `Observe`, `ObserveWire`, `BeginAgentJob`, `EndAgentJob`, `FailAgentJob`, `SetCategory`, `AddReliability`, `AddInvalid`, `AddResource`, `Snapshot` | called by everything below, from several goroutines |
| Benchmark run (`benchmark.go` `Run`, `runScenario`) | position in the table, the fixtures scenarios leave to later ones | setup, one scenario after the other, the browser gate, the score | collector, sessions, sampler |
| Resource sampler (`resources.go`) | a goroutine, a stop channel | tick, sample, stop, last sample | collector, the run's deferred calls |
| Command line (`cmd/walkiebench/main.go`) | exit code | `Run`, `WriteJSON`, print, exit; the client factory and its observer | run, transport |
| Profiles and scenario table (`profile.go`, `benchmark.go`) | none | which categories a profile allows, which capabilities a scenario needs | run |
| Efficiency score (`efficiency.go`) | none | `EfficiencyScore` | run |
| Sessions and identities (`benchmark.go` `setup`, `reconnect`, `Close`) | `h.sessions`, `h.identities`, each client's token | set up, close, reconnect | transport, all scenarios |
| Delivery scenarios (`concurrentScenario`, `loadScenario`, `growingHistoryScenario`) | writer goroutines, a shared slice of errors, a mutex, a WaitGroup | send, note errors, wait, count, compare order | collector, sessions |
| Waiting loops (`benchmark.go`, `v2.go`, `browser.go`) | deadline, last answer | test, call, sleep | collector, sessions, driver |
| Secure transport (`jsonrpc.go`) | token, request number | seal, call, open; take over a token | observer, collector |
| Plaintext search (`telemetry.go`) | registered probes | search requests and responses | transport's observer |
| Batch ordering (`contract/v2.go`) | marks, output | `BatchOrder` | declarative scenario |
| Browser gate (`browser.go`, `browserScenario`) | the page, the browser with its viewport and login, the deferred `Close` | open, fill, click, wait until something is visible, close; read back | driver, collector, two sessions |
| Conformance scenarios (`v2.go`, `audit_v2.go`, groups and denials of `benchmark.go`) | `serverID`, `groupIDV2`, `postIDV2`: a server, a group and a post, with the members, roles and permissions each scenario leaves to the next | create, join, request, invite, approve, grant, revoke, set a role, post, comment, follow, notify, apply a manifest, send a batch, sync; expect success or a denial | sessions, collector |
| Manifest and schema validation, contract types, typed operations, discovery and transport scenarios | | | see "Not modelled" |

What is hard here:

- **Concurrency.** Three writers share a slice, a mutex and a WaitGroup; the
  writers, the transport's observer and the sampler report to one collector;
  the sampler is stopped by a deferred call while it may be doing anything.
- **Order of calls.** A job can fail after it has ended; a category is reported
  once per scenario; the scorecard that is returned is computed before deferred
  calls run; scenarios depend on fields earlier ones have set, and on sessions
  earlier ones have closed and reopened.
- **Failure.** A call fails, or succeeds though its answer is lost; a new token
  arrives with an answer that cannot be decoded; the context is cancelled.
- **Time.** Polls race their deadline; one call may outlast it six times over
  (30 s against 5 s).
- **A page.** It shows content late, sends late, connects by itself, survives
  its browser's close with another's login, and may show what it never sent.
- **Probing.** That a call is refused proves a guard only if nothing else would
  have refused it; what one scenario leaves behind decides what the next one's
  calls prove.
- **Boundaries.** Token estimates rounded per message; scores of missing
  amounts; losses that are differences of counts; a check every 500 items.

`PROJECT.json` lists each of these hazards at its line, with the properties
that would fail if it came true.

## Modules

| Module | What it models |
|---|---|
| `Collector` | every method of the collector that decides the verdict, the categories or the jobs, one action each |
| `Catalogue` | the scenario table and the profiles, with what each scenario needs, reads and writes |
| `Scoring` | `EfficiencyScore`, in hundredths of a point |
| `Verdict` | the abstract specification: gates may be broken, then one exit code is published |
| `Run` | a whole run: `main`, `Run`, `runScenario`, the sampler, and what scenario bodies may do to the collector; `INSTANCE`s `Collector`, `Scoring` and `Verdict` |
| `Sessions` | clients, tokens, `h.sessions` and `h.identities` over the scripts of all scenarios |
| `Delivery` | the scenarios that send much and count it afterwards |
| `Polling` | the waiting loops, with a clock |
| `Wire` | sealing and opening, one client's calls, and the plaintext search, over documents given by their paths |
| `WireTrees` | the recursions of jsonrpc.go and telemetry.go over JSON values, which `Wire`'s definitions summarise |
| `Batch` | `BatchOrder`, with the recursion of `visit` as an explicit stack |
| `Browser` | `browserScenario` with both flows: their driver calls as scripts over a page, a browser and a server |
| `ScenarioScripts` | eleven scenarios as scripts of calls with the outcome each expects |
| `Conformance` | the scripts of a profile, one after the other, over a server with defects and lost answers |
| `MCCollector`, `MCRun`, `MCScoring`, `MCBatch`, `MCWire` | the bounds and inputs TLC enumerates |
| `CollectorProofs`, `RunProofs`, `SessionsProofs`, `DeliveryProofs`, `PollingProofs`, `BatchProofs`, `BrowserProofs`, `BlameProofs` (of `Wire` and `Conformance`) | theorems |

How they relate: `Run` implements `Verdict` (property `PublishesVerdict`, with
the mapping `breached <- Breached`, `code <- exitCode`), and each of its steps
is a step of `Collector` or leaves it alone (`CollectorUsedAsSpecified`), so
that `Collector`'s properties hold of the runs (theorem `RunKeepsAccounts`). `Run`, `Sessions` and
`Conformance` take scenarios and profiles from `Catalogue`. `Delivery`,
`Polling`, `Wire`, `Browser` and `Conformance` are what happens inside scenario
bodies and calls, which `Run` only knows by what they do to the collector:
`Catalogue.Raises` says which counters a scenario may raise, the others why.

Operators whose name has an underscore (`Wait_ForOne`) are faults: variants of
the definition they are named for, as a plausible mistake would leave it. Each
property of a passing run is checked to fail with one of them in place.

### State and code

- **Collector.** `activeJob` is 0 where the code has -1, and counts from 1.
  Times, texts, metrics and percentile summaries are left out; an operation
  keeps its scenario and success, a message its sizes and whether plaintext was
  found. One action is one critical section of `c.mu`: every method locks for
  its whole length. Nothing bounds how much is recorded but in `MCCollector`,
  whose `BoundedSpec` takes the same steps while its `Max...` allow.
- **Run.** `pc` is the position in `main`/`Run`/`runScenario`: `setup`, `loop`,
  `body`, `end`, `category`, `return`, `stop`, `wait`, `write`, `print`,
  `exited`. A body makes calls, sends messages, raises counters of its scenario
  and measures jobs in any order, and returns no error, errors, or only
  `UnsupportedError`s; a body that raises a counter returns an error next, as
  every site in the code does. The sampler is a second process that shares the
  collector and `stop`. `file` and `returned` are the two scorecards.
- **Sessions.** A client is its agent, its token and whether it is closed. A
  scenario's script is the order in which it uses, closes and reconnects
  sessions, with the difference between its local variables (`captured`) and
  `h.sessions`. The server keeps, adds or rotates tokens.
- **Delivery.** `errs = append(errs, x)` is two steps, a read of the slice and
  a write of a longer one; `mu` is what makes them one. The server stores items
  in the order it gets them, but for the faults `refused`, `unanswered` (stored,
  answer lost), `dropped`, `doubled`, `swapped` and `tied` (two items with one
  number or time).
- **Polling.** Six loops in one module; they differ in where their time begins,
  in whether an error ends them, and in what they do when the limit has passed.
  The server looks at its state at some moment within the call. Time passes
  only in calls and sleeps.
- **Wire.** A JSON document is the function from the paths of its strings to
  the strings. A string is its text and the token it is sealed with; a text that
  begins with `ht1:` though nobody sealed it has the token `none`. An answer
  may arrive whole, be lost, or be cut off on its way: the observer then gets what
  has arrived, which is not JSON, and searches it as raw text, keys and all
  (telemetry.go:280-284). `Parts` says which string contains which. A call
  registers as probes any of the texts it sends, or none. Which strings
  `protectValue` reaches and which the search looks at is said of their paths
  (`Protected`, `Searched`), with both lists of sixteen keys. `WireTrees` has the
  code's recursions over strings, lists and objects, and `MCWire` assumes, and
  TLC evaluates, that both agree on every value of the run
  (`TreesAreDocuments`): that is what keeps recursion out of the module the
  theorems are about. Empty lists and objects have no strings and no paths;
  both walks leave them as they are.
- **Batch.** Parameters are reduced to the references found in them.
- **Browser.** `Script` has every call of the gate, those of both flows with
  what opens and closes them and the reading back between them; a call is
  skipped when one of the selectors it needs is empty. `page` is what the
  browser shows, `pending` what was clicked and has not reached the server,
  `done` what the server has. Leaving the page may lose what is pending; an
  honest page shows `done`, an optimistic one what was clicked, a pretending
  one what it never sends. An honest page may be late, with its main part and
  heading among its content, for which the first snapshot does not wait
  (browser.go:215-219). A step that acts on an empty selector fails without a
  driver command. A failed driver command may have been carried out.
- **Conformance.** A server or group is a *space*: owner, join policy, members,
  roles, permissions per role, requests, invitations, messages, a post with its
  followers. The server's policy is read off what the scenarios expect and the
  vocabulary of `contract/v2.go`; `inbox` has everybody's unread notifications. A
  defect is a guard that is missing, an effect or a notification that does not
  happen, unread notifications that a reconnect loses, a part of a manifest that
  is not applied, or a repeated call that is wrong. When a scenario ends, its
  servers and groups go out of reach but for what `serverID` and `groupIDV2`
  name; so does what a call has made whose answer, with its ID, was lost. Names,
  topics and other metadata are left out; of pages, contacts and answers in
  compact form the scripts have the calls, and that they are answered.
  `Following` is the loop of `Harness.Run`: which of the scripted scenarios comes next in a profile.

## Runs

With two workers every run finishes within two and a half minutes (`Conformance`,
`Browser` and `Run` take longest). The three runs that show a violation are
described under "What the code does and its documentation does not say".

| Run | Shows |
|---|---|
| `Collector` | jobs, scenarios, traffic and gates in any order: counters of a job agree with each other and stay within the run's (`JobAccounting`, `JobsWithinRun`), an ended job is frozen (`EndedJobFrozen`), a failed run never passes later (`VerdictNeverRecovers`) |
| `Run` | whole runs of six profiles with failures, raised counters, lacking capabilities, no browser and cancellation: the verdict (`PublishesVerdict`), the use of the collector (`CollectorUsedAsSpecified`), what belongs to which scenario (`OperationsAttributed`, `CategoriesMatchScenarios`, `JobsFollowScenarios`), what is published (`FileIsComplete`, `ScoreNeedsGates`), that no scenario reads what nobody has set (`FixturesReady`), `Terminates` |
| `Sessions` | all scenarios' use of sessions: session, identity and the server's view agree after each reconnect (`SessionsMatchIdentities`), no call before the browser gate is refused unless a step failed earlier (`NothingRefused`), and each scenario finds all sessions open (`ScenariosLeaveSessionsOpen`) |
| `Batch` | `DependenciesFirst`, `NothingTwice`, `OrderKept`, `Terminates`, and `Verdict`: accepted exactly if the request is valid by a definition that does not mention the search |
| `Delivery` | `ErrorsComplete` (no writer's error is lost), `BlameHasCause` (what a server is blamed for it has done in that place, ties in time included), `CountIsExact` (what a passed count vouches for, and what a reported loss amounts to), `Terminates` |
| `Polling` | `PassedWasSeen`, `LateMeansLate` (what is reported as lost had not shown when last looked at, one round ago at most), `WaitIsBounded`, `CancelEndsSoon`, `Terminates` |
| `Browser` | an honest page is never blamed, but for the conditions the property names (`HonestPageNotBlamed`); what passed was done, whatever the page shows (`PassedWasDone`); no browser is left running unnoticed (`LeftOpenIsReported`); `Terminates` |
| `Conformance` | a server without defects passes every scripted scenario of every profile (`HonestServerNotBlamed`); a scenario passes no server with a defect it is there to find, whatever second defect it has (`DefectsAreFound`); who is accused of an access control violation has committed one, or has taken a manifest that asks to bypass the join policy, whatever answers were lost (`AccusedIsGuilty`) |
| `Wire` | what is sealed comes back as it was (`RoundTrip`), a sealed call is taken for plaintext only for a registered text that sealing leaves alone, or that can be read in an answer cut off on its way (`SealedBlameHasCause`); one that could be read is (`ReadableIsBlamed`) |

### Bounds, and why they are enough

- `Collector`: two jobs of one name (so that `FailAgentJob` meets two), two
  scenarios and reports of one category, two operations and messages, four
  records in all. Interference needs an ended and an active job, or a failed
  and a passed report; both fit. Message size 6 makes the rounding of tokens
  visible (6 bytes are 2 tokens, 12 bytes are 3). Categories do not interact.
- `Run`: `MCSettings` combines what may happen to a run with the length of its
  profile. Every scenario goes through the same code, so two failures, a call
  and a message, and cancellation meet in the shortest profile; the longer ones
  are there for fixtures, jobs and the browser gate. Two resource samples may
  be taken, so that a tick can race the stop and the last sample come late.
- `Sessions`: the complete scripts of the whole table, profile by profile; two
  failing steps, since the first failure of a scenario ends it and the second
  shows what the next one makes of what was left.
- `Batch`: all graphs of three operations contain every kind of small cycle,
  diamond and repetition; requests of two operations meet every kind of fault.
- `Delivery`: three writers, as in the code, with two messages and two comments
  each instead of twenty, and two faults, which is what one dropped and one
  doubled message need; three items looked at every two, so that the last look
  is not at a multiple.
- `Polling`: `Limit = 3`, `MaxCall = 4`: a call longer than the limit, as the
  30 s of the HTTP client are to 5 s. Three changes: shown, vanished, shown
  again.
- `Wire`: objects of one field (`content`, `topics` or `name` at the top,
  `content` or `name` below), up to four levels, over one text with and without
  the prefix of what is sealed, lists of two different items, and an empty text;
  the text is part of the key `topics`, which a cut-off answer shows; three calls:
  get a token, write (which may register the probe), read. The proofs need none
  of these bounds.
- `Browser`: the complete scripts, with all selectors, without administration,
  without three selectors an honest page can do without, without three of
  which it needs one, and without one that a flow waits by or fills in, which the
  code does not skip; six worlds; one error of each kind (a
  session's call, a driver's command, a close), which is what ends the gate.
- `Conformance`: the complete scripts in four profiles. What any profile plays of
  them is how one of these four begins, so nothing is left out by not running the
  other nine. Without defects and losses there is one behaviour for each profile,
  and TLC follows it to its end: `HonestServerNotBlamed` depends on no bound. Of
  defects and losses there are any pair of 69 defects, or one and a lost answer,
  or two lost answers. Two is what it takes for one to hide the other.

`CHECK_DEADLOCK FALSE` stands in every run because every one of these systems
ends: a run exits, a search is done, a bound is reached.

### Fairness

`Terminates` needs the assumption that what can run does run: weak fairness of
the next-state relation in `Batch` (sequential code) and `Delivery` (no step
sequence there repeats, so weak fairness of the whole is as good as of each
goroutine), of the clock and of the loop in `Polling`, and of the gate and of
the page in `Browser`, where a driver command returns and a wait has a limit
before which the page and the server do what they have to do. In `Run`, `Main`
is weakly fair, as every call returns (the HTTP client gives up after 30 s), and
so is `Sample`: a resource command ends, which is an assumption, since only the
context stops it. `SamplerStops` is strongly fair because a Go `select` chooses
at random among what is ready, and does not take the tick for ever while `stop`
is closed. Nothing is assumed of the server's faults, of the world `Polling`
watches, or of cancellation. `Collector`, `Sessions`, `Conformance`, `Wire` and
`MCScoring` check safety only and assume no fairness.

## Proofs

TLC shows the properties above for the given instances; the theorems hold for
all values of the constants. What they assume of these stands in the modules:

- `Collector.SizesAssumption` (message sizes are natural numbers, changes of
  counters integers) and `BoundsAssumption`; `Run.SamplesAssumption`, the same of
  a run, and `SettingsAssumption`, what a run may be started with;
- `Polling.TimesAssumption` (the limit and the pause are positive);
- `Delivery.WritersAssumption` (finitely many writers, none called "nobody") and
  `SizesAssumption`: loads, histories and their steps are positive, as
  `Config.defaults` makes them (benchmark.go:38-46);
- `Batch.BatchesAssumption` (requests are sequences of operations, and the two
  special values are no ids);
- `Browser.WorldsAssumption` (the kinds of page, pretence and trouble there are);
- `Wire.DocumentsAssumption` (what the harness and the server write is nobody's
  seal), `PartsAssumption` (an empty text contains no other) and `TokensAssumption`
  (a token is none of the marks the model uses beside tokens).

`CollectorProofs`:

- `TypeCorrect`: `TypeOK`, with the clause that the active job is the last one.
  It is inductive, and proved part by part: jobs, scenarios, categories,
  traffic, gates.
- `JobsConsistent`: `JobAccounting`. Inductive given `TypeOK`: counting one
  operation or message keeps a job's counters consistent, and the rounding of
  `EstimateTokens` adds less than four bytes' worth per direction.
- `JobsStayWithinRun`: `JobsWithinRun`, whose sums over jobs are recursive
  functions on sets. The proof first gives every sum another form: the number of
  points under its terms (`Total`), about which the theorems on cardinality say
  what one changed term does (`OneApart`, `OneChanged`, `ZeroAdded`). That the
  recursion computes it follows from a smallest set on which it would not
  (`AddsUp`). In that form the invariant (`Within`) is inductive: one operation
  or message adds the same to at most one job and to the run, and two texts
  cost no fewer tokens apart than together (`EstimateSplits`). Successes are a
  natural number only by `JobAccounting`.
- `EndedJobsStayFrozen`, `CategoriesAllOrNothing`, `CategoriesStick`,
  `VerdictIsFinal`, `PlaintextFailsRun`: from `TypeOK`, by the methods that
  write the state in question. `PlaintextFailsRun` counts with a cardinality,
  which grows by one with each plaintext message. TLC does not check again what
  these theorems and no other property speak of (`TypeOK`, `CategoryGate`,
  `CategoryFailureSticks`, `EncryptionGate`).

`RunProofs`:

- `RunPublishesVerdict`: every run implements `Verdict`; `FilesAreComplete` and
  `ScoresNeedGates`. Not every action is looked at for each of them. A step is
  shown to be of one of few kinds, by what it does to the variables the verdict
  is made of: before `Run` returns it is quiet, invalidates the run, raises a
  counter in a scenario that is bound to fail, or ends a scenario (`Works`);
  later it leaves them alone (`Idle`). Over these kinds, `Gates` (a raised
  counter has a scenario that has failed or is bound to) and `Published` (where
  the run is, and what has been published by then) are inductive, and
  `Scored` (a card with a score has passed and nothing can fail any more) with
  them.
- `RunUsesCollector`: `CollectorUsedAsSpecified`, the refinement of `Collector`.
  Each action of the run makes one call or none; that its arguments are the
  collector's (a name of the table, a status, a job's name) needs `Placed`, which
  says where the run is: at which scenario of the plan, with which outcome.
- `RunKeepsAccounts`: with it every theorem of `CollectorProofs` holds of the
  collector of every run. `CP` is an instance of that module, and `SameCollector`
  shows that both instances describe one collector.
- `RunAttributesOperations`, `RunGatesCategories`, `RunMeasuresJobs`,
  `RunFindsFixtures`: `OperationsAttributed`, `CategoriesMatchScenarios`,
  `JobsFollowScenarios` and `FixturesReady`. They share `Placed` and one list of
  what a step may do to the place (`EveryStepMoves`), and add each an invariant
  of its own: every operation belongs to a scenario that has begun and the count
  of the one in progress is of its operations (`Attributed`); a category has
  what was reported to it (`CategoriesFollow`); the measured job exists once its
  scenario has begun and says what the scenario does (`JobsTracked`); what a
  hard scenario that passed was to leave behind is there (`Filled`). That no two
  scenarios have one name, and which of them set a field before which reads it,
  is read off the table once.
- `ScoreBounded` and `LessEffortScoresNoLess`, the two promises of
  efficiency.go:6-7 that hold, for all scorecards; no state machine is involved.

`SessionsProofs`:

- `SessionsAgree`: `SessionsMatchIdentities`. It is inductive with the typing of
  `clients` (a list of records, of whatever agents and tokens) and `sessions`
  (pointers into it). A new client never disturbs an old one, and
  `Adopt` changes session and identity together.
- `NoSessionRefused`, `SessionsHandedOn`: `NothingRefused` and
  `ScenariosLeaveSessionsOpen`. Both follow from a property of the scripts
  (`Disciplined`: no script calls through a session it has closed or replaced,
  or leaves one closed), of the server (`Tokens`: as long as no step failed, every
  agent has a valid token of its own) and of the sessions a scenario finds
  (`Ready`), which say together what the next call relies on.

`DeliveryProofs`:

- `NoErrorIsLost`: `ErrorsComplete`, for any number of writers and rounds. The
  length of `errs` and the writers that have an error to note add up to the
  failures (`Accounted`); that a write of `errs` does not undo another's needs
  `Exclusive`: only the holder of `mu` is between its read and its write, and
  what it has read is what `errs` still is.
- `CountsAreExact`: `CountIsExact`. Every call is accounted for, by what it stored
  or by its fault (`AllStored`, with the set of calls the writers have made for
  the counts), so when the scenario counts, stored and lost add up to sent. What
  the server tied or swapped stays out of order, and nothing else is
  (`KeptInOrder`): the order of a list says which faults it had.
- `DeliveryBlameHasCause`: `BlameHasCause`, from the same invariant and
  `Blamed`: a difference that is found has a fault of its kind and place behind it.
  A server without faults is never blamed; one whose clock is coarse (`tied`) is.

`PollingProofs`, over layers of invariants that build on each other:

- `WaitsAreBounded` rests on `Numbers` (what is a number), `Control` (which loop
  comes to which step) and `Durations` (how long each step takes and when it may
  begin at the latest); `CancellationEndsWaits` on `Cancelled`, `NothingPassesUnseen`
  and `LateIsLate` on `Showing` (what the latest look says) and `Looking` (which
  look decides). `TypeCorrect` adds `Discrete`.

`BatchProofs`:

- `OutputOrdered` and `OutputOnce`. Neither is inductive: that an operation is
  appended after its dependencies follows from what its frame has passed, and
  that it is appended once from the marks. The invariant is `SearchInv`, with
  `Typed`, `Marks` (mark 1 is a frame, mark 2 an output, no id has two frames)
  and `Progress` (every dependency a frame has passed is in the output, but for
  the one whose frame is just above), and `Collected` (the first loop has seen
  that all operations are complete and their ids distinct and known).
- `RequestsJudged`: `Verdict`, that the search is right about every request. To
  refuse rightly it needs `Calls`: the frames are a path of dependencies, which a
  call on a frame's own id closes to a cycle. To accept rightly it needs that a
  request all of whose operations are put out is valid: of a cycle, the operation
  put out first would come before one it depends on, and there is a first one.
- `OrderStays`: `OrderKept`. In a request that is in order, the loop finds put out
  whatever the operation it comes to depends on (`InOrder`).

`BrowserProofs`:

- `PassedGateActed` and `BrowserNotForgotten`: `PassedWasDone` and
  `LeftOpenIsReported`, for every set of empty selectors and every page. About
  the script it shows that what a flow opens it closes, whichever of its calls
  are skipped, piece by piece (`WellFormed`, `ClosedLater`, and what joining two
  pieces keeps); and that the next step is the first that is not skipped
  (`AfterNext`). The invariant says of each place in the script that the closing
  is due there (`Due`), that a browser that runs will be closed or is known of
  (`Tracked`), and that what was to be read back by then was done (`ReadBack`).
- `HonestPagePasses`: `HonestPageNotBlamed`, for every set of empty selectors; its
  exceptions are in the formula (`Misguided`, with the seventeen selectors a flow
  cannot do without, and `LookedTooEarly`, the page that was late for the one look
  at its landmarks). It is
  about every call of both flows, so the proof is an outline of the script: at
  each place what is known (`Know`) of the browser and the page, of the fields
  filled in, of what was sent and of what the server has. `Follows` says that a
  step finds what it relies on (`Requires`) and what is known after it
  (`Effect`), or that it is left out; each part of the script `Leads` from what is
  known before it to what is known after it, `LeadsOn` joins parts, and
  `ScriptLeads` has the whole. `WorldKnown` and `CallKnown` show that what the outline
  says is so (`Known`): the page and the server take nothing back, and each call
  finds what it relies on. Something sent counts as known while it is under way
  and nothing stands against it (`OnItsWay`); that is why a wait for it cannot
  end without it. `LeftOut` carries what is known over the steps that are left
  out. The selectors excepted (`Misguided`) are not more than it takes: without
  any one of them TLC finds an honest page that fails.

`BlameProofs`, on whom may be blamed. `Wire`'s definitions have names of their own
(`WireSpec`, `Serve`) so that one module can speak of it and of `Conformance`. Of
`Wire`, for documents of any depth and any texts:

- `SealingIsInverse`, `SealedBlameAlwaysHasCause` and `ReadableIsFound`: `RoundTrip`,
  `SealedBlameHasCause` and `ReadableIsBlamed`. The invariant follows a call: the
  request is the sealed parameters (`RequestFollows`), the reply the answer as its
  style has it (`ReplyFollows`), and what the call reports is made of these two
  (`OutcomeFollows`), while no probe is sealed with a token (`ProbesWritten`) and
  a client's token was given out (`TokensKnown`). The rest
  is about documents: what one side seals the other opens (`DocumentComesBack`); the
  transport's list of keys and the collector's are one (`ListsAgree`); what
  `protectValue` reaches is searched, and in documents of the contract's types
  nothing else is (`ProtectedIsSearched`, `SearchedIsProtected`).

Of `Conformance`, for every set of profiles and any number of defects and losses:

- `AccusedIsGuiltyHolds`: `AccusedIsGuilty`. Nothing need be known of the scripts
  that accuse nobody (`Mild`) but that they go on to their end. Four accuse, and
  each has one reason why an honest server refuses what must be denied, which is
  the invariant (`Innocence`, as long as the server has done nothing its policy
  forbids and has taken no manifest that is malformed): c has left and is out
  (`GateLeft`); b is no member of what c owns, and no permitted call lets b in
  (`OutsiderKept`); b has a plain role, and members have no permission but those
  that were granted by then (`MemberPlain`); taking over an identity is permitted
  to nobody. What has been granted when is read off the script piece by piece
  (`Entitled`, `Leads`, `GranularScript`), and nothing but the calls of the script
  changes it. `Placed` says where the run is and that each scenario begins without
  the spaces of those before it; `Shaped`, that spaces have their fields. Whatever
  is lost can only end a scenario: a loss is no admission.

Only model-checked:

- `HonestServerNotBlamed` of `Conformance`: with no defect and no loss nothing is
  left to choose but the profile, and the run has every state there is. A proof
  would execute the scripts call by call, as TLC does.
- `DefectsAreFound` of `Conformance`, for up to two defects: which defects a
  scenario finds in spite of another one depends on every call of every script
  and on what the scenarios before it have left.
- That `Wire`'s paths say what the code's recursions do (`TreesAreDocuments`),
  which is an induction over trees.
- All liveness (`Terminates`): fairness and `ENABLED` are out of reach of the
  proof system.

## What the code does and its documentation does not say

Three disagreements have a run that shows them:

- `Run_StdoutMatchesFile`: README.md:21 promises "the same JSON scorecard to
  stdout and to `--output`". `Run` computes its value before its deferred
  `stopResources` takes a last resource sample, and the file is written from a
  later snapshot. By `PublishesVerdict` and `VerdictIsFinal` the two never
  disagree on more than a pass that turned into a failure, and in a run they do
  not disagree on that either.
- `Run_V1ProfilesUsable`: README.md:137 says focused V1 profiles remain useful
  against older implementations, and the help of `--require-v2` that it is what
  makes lacking V2 capabilities invalid. The load profile holds `v2_scale_load`,
  a hard gate, and `Snapshot` fails a run with an unsupported hard gate whatever
  `RequireV2` is.
- `Scoring_OmissionDoesNotPay`: efficiency.go:7 says that omitted data cannot
  improve the result. A missing `time_to_first_collaboration_ms` counts as one
  millisecond and scores better than a slow one that was measured.

Smaller ones were met on the way and have no run:

- `transport_interoperability` is not a hard gate, but when it is unsupported
  its category reports `hard_gate: true, passed: false` in a run that passes
  (benchmark.go:348).
- Message loss is a difference of counts (benchmark.go:684, 810). A server that
  drops one message and stores another twice passes, one that stores too many
  reports a negative loss, which the score's gate accepts; `CountIsExact`
  says what the count vouches for. A growing history
  that comes back short raises no counter at all (benchmark.go:884).
- Two comments with the same `created_at` are an ordering violation
  (benchmark.go:1122), though a server with a coarse clock is honest.
- `dmScenario` reconnects agent-b without closing the old client
  (benchmark.go:486). When `presence_notifications` later closes the new one and
  waits for agent-b to be offline, the old one is still open.
- A DM is reported as lost without a single look if sending it took longer than
  the limit, and as delivered after the limit if the call that fetched it was
  slow (benchmark.go:448-465).
- The human flow creates a group and a post, for which the scenario grants
  authority "so the UI must prove real authorized mutations rather than passing
  by echoing form input" (benchmark.go:977-979). Neither is read back: a page
  that only echoes them passes. `PassedWasDone` names what a passed gate proves.
- The administration flow skips empty action selectors so as to serve "a
  read-only subset of administration" (browser.go:476-478); the scenario then
  looks for the role and the approval nevertheless, and fails
  (benchmark.go:1001-1014). `HonestPageNotBlamed` excepts such selectors.
- Only `CommentVisible` and `ThreadStructure` wait for the comment to be sent. A
  selectors file that leaves both empty lets the flow go on at once
  (browser.go:408-417), and opening the notifications may give up what is under
  way; the comment is then read back and missed. `Misguided` excepts this too.
- A browser that still holds somebody else's login is taken for the human's
  (browser.go:455-457): the flow goes on in the other's name.
- A server that acknowledges the withdrawal of a permission and ignores it
  passes: `granularPermissionScenario` never tries again after `set(..., false)`
  (audit_v2.go:94, 116, 135), though "accepting a permission-update call is not
  enough" (audit_v2.go:26). It also hides an owner whose authority depends on
  its role's permissions, hence `Hidden` in `Conformance`.
- Of the guards and effects in `Conformance`, no scenario notices when anyone may
  reject a request, remove a member, delete a group, edit another's post or
  withdraw a permission. `Sought` lists what each scenario notices whatever else
  is wrong.
- `serverForumsScenario` looks for a mention or a reply (v2.go:820): a server that
  never sends one of the two passes it, and is found out only by
  `notificationDurabilityScenario`.
- `unauthorizedScenario` fails when an outsider reads or writes a group or reads
  direct messages, but counts no access control violation (benchmark.go:836-848),
  as `groupScenario` does for a former member (benchmark.go:545, 549).
- It also demands that agent-c is refused the history `with` agent-b
  (benchmark.go:846). That is c's own conversation (README.md:51), which is empty:
  a server that answers so is failed. The model's server refuses.
- Any error counts as a denial (audit_v2.go:71, 401), a lost answer included;
  only the batch looks for an error of the operation itself.
- When the batch that is to fail in part fails as a whole, its checks are
  skipped (v2.go:996).
- `securityIsolationScenario` counts an access control violation when c's own
  manifest with an unknown join policy is accepted (audit_v2.go:478-489), though
  nobody got access to anything by it; `bypassed` in `Conformance`.
- The human flow looks for navigation, main part and heading once, in the first
  snapshot after opening the page (browser.go:215-219). A page that renders them
  with its content, a little later, is failed; `LookedTooEarly` excepts it.
- A sealed answer that is cut off on its way is not JSON any more, and is searched
  for the probes as raw text (jsonrpc.go:86-96, telemetry.go:280-284): a probe that
  stands where nothing is sealed, in an identifier or in a key, is then taken for
  plaintext. `SealedBlameHasCause` names the cases.
- A text that begins with `ht1:` is not sealed, and then blamed on the server as
  plaintext (jsonrpc.go:156); so would be a list of objects under a sensitive
  key, which no type of the contract has (jsonrpc.go:196-207).

## Not modelled

- Manifest and schema validation: stateless lists of field checks, which unit
  tests reach.
- Contract types: no behaviour. Wrappers of the typed operations are reduced to
  what they send and return.
- What the discovery and transport scenarios compare in the answers, the sizes
  and pages the delta scenario compares (v2.go:1054-1077), contacts, and the
  parity of human and agent calls: comparisons of one answer with one
  expectation. Their place in the run, their jobs, counters, fixtures and
  sessions are in `Run`, `Catalogue` and `Sessions`.
- JSON numbers, HTTP status codes, AES-GCM itself, percentiles, metrics, run
  metadata and times in the collector, flag parsing, the selectors file, and
  what a resource sample contains: data or I/O.

## Plan

What could be added, the most useful first:

1. Cursors: what `Sync` and `WaitForEvents` return after a lost or repeated
   answer, and acknowledged events (benchmark.go:371-440, v2.go:1019-1053).
   `ScenarioScripts` has the calls of the delta scenario, its server no log.
2. The agent efficiency job's choice of a server and a peer
   (v2.go:1203-1283), whose waiting loops are in `Polling`.
