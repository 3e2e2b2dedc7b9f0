# TLA+ models of Don Quixote

Don Quixote is a set of containers on one host. Agents with a language model
behind them talk through a message bus; BOB, the orchestrator, talks to people
and delegates to the agents; a promotion gate puts what the agents have made
into production when a human agrees. This directory holds TLA+ models of the
parts where processes, requests and failures interleave, TLC configurations
that check them on small instances, and proofs of their main invariants.

## The system

| part | source | state | operations | hard part |
|---|---|---|---|---|
| message bus, tasks | `message-bus/app/routes/tasks.py`, `database.py` | rows of `tasks`, `task_watchers`, announcements in `messages` | POST, PATCH, watch, unwatch | check and write are awaits apart; each statement commits on its own |
| message bus, messages | `routes/messages.py`, `subscriptions.py`, `database.py` | `messages`, `subscriptions` | POST, poll, subscribe | a text timestamp is the only delivery record |
| message bus, registry | `routes/agents.py`, `capabilities.py`, `database.py` | `agents`, `capabilities` | register, upsert | one transaction shared by all requests |
| live feed | `routes/system.py`, `dashboard_api.py`, `dashboard/src/api/websocket.ts` | set of WebSockets, a socket per page | push, proxy, reconnect | iteration over a set across awaits; two halves of a proxy |
| buslib | `debate-arena/common/buslib` | `_last_poll`, task cache | poll loop, handlers | lost answers, restarts, handlers that end half way |
| debate arena | `debate-arena/agents` | the task and its `metadata.debate`; the engineers' workspaces | classify, draft, test, critique, review, rework, escalate | verdicts of several critics in any order; files of several drafts in one directory |
| promotion gate | `debate-arena/services/promotion-gate` | `promotions`, live files | create, approve, reject | threads, copies that fail or stop half way |
| bus client | `bob-orchestrator/app/bus_client.py`, `circuit_breaker.py` | breaker, `pending_requests` | read, write, drain | retries of what was done, answers not recorded, refused rows, restarts |
| tool gate | `firewall.py`, `loop_detector.py` | confirmations, call window | gate, confirm, reject | a timeout racing an answer; tools wrapped again |
| chat admission | `main.py`, `rate_limit.py`, `user_sessions.py`, `router.py` | windows, thread counter, sessions | chat, open, update, close | windows' edges, a counter that starts again |
| photo intake, cost | `photo_intake.py`, `cost_tracker.py` | rows, files, timers, the ledger | upload, purge, remember, ask | check and charge are awaits apart; timers die with the process |
| authentication | `auth.py`, twice | cached signing keys | identify, fetch, forget | concurrent requests around a rotation |
| memory, proposals | `memory.py`, `memory_proposals.py` | two stores that nothing ties together | remember, propose, decide, import | one of the two writes fails |
| scheduler | `scheduler.py` | job store | start, add, fire, run | stored jobs unseen before the start; threads without a loop |
| monitors | `gmail_monitor.py`, `elevenlabs_monitor.py` | seen ids, waiting mails, alert flags | poll, push, alert, reset | flags shared by sweeps; a batch cut short |
| voice server | `bob-voice-updates/app.py` | queue, stop event, tasks of one connection | listen, stream, speak, stop | two coroutines share an event |
| recovery | `recovery.py` | paused tasks | pause, resume | nothing ever pauses a task |
| the rest of BOB, sites, deployment | `graph.py`, `tools.py`, `mcp_server.py`, `a2a.py`, `eval`, ... | none of its own | | not modelled |

Everything meets on the bus. BOB and the PM create and PATCH tasks; every change
of state becomes a message to ALL; the PM answers it by assigning the task; the
agents exchange drafts and critiques as messages, each through its own poll
loop; BOB's calls go through the bus client and its queue. What the agents put
into their `proposals` directories the promotion gate copies to the sites.

## The modules

    TaskLifecycle          what the bus promises about a task (abstract)
      BusTasks             its request handlers, await by await
      DebateArena          the agents that drive a task
    BusDelivery            messages, polls and the clock
    Registry               agents and capabilities in one shared transaction
    LiveFeed               pushes to the dashboards through BOB's proxy
    Workbench              what the engineers write and how it is tested
    PromotionGate          the gate's threads, files and records
    BusClient              BOB's client, its queue and circuit breaker
    ToolGate               the firewall in front of BOB's tools
    ChatAdmission          rate limits, threads, sessions, choice of a tier
    PhotoIntake            photos, their timers and the budget they are charged to
    KeyCache               the signing keys of the three identity providers
    SharedMemory           memory, proposals and imports over two stores
    Scheduler              recurring jobs and the bridge to the event loop
    MailMonitor            the inbox monitor and the dashboard's list
    UsageMonitor           the flags of the usage alerts
    VoiceSession           one connection of the voice server

`MC*` modules hold the instances for TLC, `*_proofs` modules the proofs.
`BusTasks` and `DebateArena` are both shown to implement `TaskLifecycle`.
`DebateArena` composes what the other two establish about the bus: a PATCH is
the two steps `BusTasks` gives it (`CallPatch`, `PatchWritten`), and a message is
received once, in the order of its stamp, or lost, which is what `BusDelivery`
shows (`HandledOnce`, `HandledInOrder`, `OnTimeNotLost`). A push that raises in
`LiveFeed` is, where it happens in a write, `PostBroadcastFails` and the failing
`PatchAnnounce` of `BusTasks`.

### TaskLifecycle, BusTasks

The bus is one asyncio process with one SQLite connection, so the unit of
interleaving is the code between two awaits that touch shared rows. A request is
a record in `req[c]`; its `pc` is the await it stands at. `PostInsert`,
`PostAddWatcher`, `PostAnnounce` are `create_task` and `insert_task`;
`PatchRead`, `PatchAnnounce`, `PatchWatch`, `PatchWrite` are
`update_task_state`. `update_task` overwrites the column without looking at it
again: `PatchWrite` does too. `PostBroadcastFails` and the second disjunct of
`PatchAnnounce` are the dashboard feed raising in the middle of a request;
`Crash` ends every request and keeps the rows. `serialised` is a choice of the
environment, made at the start and never changed: the tasks whose callers never
overlap requests about them.

* `NoStageSkipped`: overlapping PATCHes do make transitions the table lacks, but
  no task is ever in a stage without having been in every stage before it.
* `AnnouncedBeforeHeld`, `AssigneeWatches`: what a watcher of the feed, and an
  assignee, can rely on through crashes and failing broadcasts.
* `ImplementsLifecycle`: where requests are serialised the handlers are atomic.
  `TaskLifecycle` is instantiated with the states of just those tasks
  (`Observed`); the others are, to it, tasks nobody has created.
* `LegalTransitions` (violated): the documented rule, with two overlapping
  PATCHes. The counterexample has both pass the check on IN_REVIEW and write
  ACCEPTED and REWORK one after the other, or the like from another state.

### BusDelivery

`envelope` holds the stamps, `stored` the committed rows; between the two lies
the await in `insert_message`. A poll is `PollSelect` (the SELECT) and
`PollAnswer` (server_time, taken over by the loop), or `PollFails`. `Stamp` is
how `now_iso` sorts: a whole second has no fraction, and its Z sorts behind
every fraction of the same second. Four variables are history, one for each way
a message can go past an agent: `cut`, what LIMIT has kept from an answer,
`dropped`, what a restart has skipped, and `overtaken`, what the last server_time
has gone past, for which `beside` notes whose insert was under way while the
poll was open.

* `HandledOnce`, `HandledInOrder`: true except for stamps on a whole second.
* `OnTimeNotLost`, `OnTimeHandled`: the ways to lose a message are these and no
  other: cut by LIMIT; posted before a restart; its insert, from `now_iso` to the
  commit, overlaps a poll that is answered, wherever in it the SELECT falls (so
  also one stamped before the SELECT and committed after the answer); its stamp
  is in the tick, or the whole second, of the last server_time.

### DebateArena

One task. `script[x]` is what the handler of actor x (the PM, the primary) has
still to call on the bus; taking a message computes the script from the task as
it is read then (`Classify`, `Route`, `Revise`, `Approved`, `Draft`), the calls
are separate steps. `PatchRefused` is the 422, which ends the handler. Critics
answer one request with one message. `HandlerFails`, `MessageLost` and
`Restart` are the faults. Verdict not_my_domain of a reviewer is an approval to
the code, and reject is revise; an answer that is not JSON has no verdict and is
a lost message.

* `RoundsBounded`, `WorkFitsState`, `AcceptedIsFinal`: several objections to one
  draft, double classification and late verdicts do not add rounds, do not give
  the primary work that does not fit, and do not leave it working on an accepted
  task. All of it rests on the bus refusing the second PATCH.
* `EventuallyClosed`: without faults the task is closed, unless the PM decided
  between the primary's `deliverable` message and its PATCH to IN_REVIEW
  (`overtaken`): then the 422 ends the PM's handler and nothing moves the task on.
* `ApprovedAsReviewed` (violated): a late approval of draft 1 accepts draft 2.

### BusClient

A request's coroutine is `call[r]`; `Arrive` is the bus carrying it out, `Answer`
the answer, `Retry` and `GiveUp` the failed attempts, with the answer lost if
the bus had acted, `AnswerUnreadable` an answer whose body is no JSON, which
queues the write the bus has carried out. The queue is `pending` with ids; a
drain is `rest`, `arrived` and `answered`: sending a row, its answer and its DELETE
are three steps, and `DrainFails` or a `Restart` may come before any of them.
`enqueue` may fail silently, as `_enqueue` does. `Restart` keeps the table only.
Direct writes and drains interleave.

* `NoWriteLost`, `RepeatedOnlyUnheeded`: at least once, and more than once only as
  often as an answer was lost, could not be read, or came and the row was not
  deleted.
* `DrainsInOrder`, `ClosedBelowThreshold`: order of the queue; the breaker agrees
  with its count although calls end in any order around its changes.
* `DrainsUnlessBlocked`: the queue drains but for what is behind a refused write.

### PromotionGate

Handlers are threads. `ApproveRead` and `RejectRead` read the record, `CopyFile`
copies one file, `ApproveWrite`, `ErrorWrite` and `RejectWrite` update the row by
id. `WalkEnds` is Python 3.12's `rglob`, which passes over a directory that has
gone; `CopyFails` any exception; `HandlerDies` and `Restart` a locked database
and a stopped container.

* `AppliedIsComplete`: applied means every file was copied, as long as the
  proposal has not been taken away.
* `LiveIsAccountedFor`: a live file of a pending or rejected promotion needs two
  overlapping decisions or an approval that died.
* `ResolvedOnce`: decisions that do not overlap are single-shot. The file's
  header promises it of all; two that overlap (`raced`) do overwrite each
  other, which is why the property leaves them out.

### ToolGate

`_firewall_wrap` puts a gate in front of a tool; `layers[t]` is how often tool t
has been wrapped. BOB's own tools are wrapped once, when the module is loaded.
Tools from MCP servers are wrapped by `build_graph`, which is called for every
tier and again by every personality switch, on the same objects: `Init`,
`SwitchPersonality` and `Restart` count that. A call is `current`: it goes
through its gates without an await, so no other action comes between (`left`
gates are to come, `first` marks the outermost one). Each gate scans
(`GateDenyInjection`), records the call and looks for loops (`GateDenyLoop`), and
then lets low and medium risk through (`GateAllow`) and high risk on an approval
(`GateAllowConfirmed`) or not yet (`GateQueue`). `Confirm`, `ConfirmLate`,
`Reject`, `GetPending` and `CheckConfirmation` are the endpoints and the tool that
touch a confirmation, each with the status changes the code makes: a rejected or
used confirmation can be confirmed again, and looking at one that is
late expires it. `gate` is called without a thread everywhere but for photo uploads, so all
conversations, and the replays of the audit log, share one history (`calls`).
Which calls the model makes, and how often, is not limited; that confirmations
have `Ids` means that after the last of them a HIGH call without an approval
queues nothing new. What a gate lets through has to have a coroutine: a tool
that is a plain function passes its gate as here and then ends in a TypeError
(`tools.py:455`), without a state of this module.
`clicks`, `spent` and `ran` are history variables: approvals given, approvals
consumed and calls that reached their tool.

* `RunsAreApproved`: a HIGH call runs at most as often as Rob has approved just
  that call, through everything above.
* `ApprovalsSpentOnRuns`: the loop detector comes before the approval is looked
  up, so no approval is used up by a call it refuses. That holds for a tool
  wrapped once; a HIGH MCP tool uses one approval for every layer and may be
  refused behind one that took it, which the property leaves out.
* `RepeatsBounded`: what the detector's bounded memory holds never shows a
  threshold of equal calls that ran within one window.
* `LoopsAreTheAgents` (violated): counting only what the agent called, that is,
  `first`, the detector refuses a call that is no loop: with three tiers the
  second equal call of an MCP tool is the fifth entry.

### Registry

`BaseAgent.start` is `AgentStart`, `RegisterAgent` with its retries
(`RegisterFails`), `DeclareCapabilities`, `SubscribeTopics`. On the bus an upsert
is `UpsertDelete`, an `UpsertInsert` per capability and `UpsertCommit`, with an
await between any two. All requests write through one connection, so `rows` and
`caps` are what each of them sees at once and `saved` is what a stop of the bus
falls back to: a commit by anyone commits for everyone. An agent that stops
leaves its request at work, and its next life makes another for the same rows.
`UpsertClash` is the UNIQUE constraint: the statement raises, the transaction
stays open, and the rows the first request has inserted are not undone.

* `CapabilitiesWhole`: when no request for an agent is at work, its capabilities
  are all there, however two lives' requests interleaved and failed, unless the
  bus stopped in the middle of one.

### LiveFeed

A page (`tab`) has a socket to BOB's proxy, which has one to the bus: `link[k]`
holds both halves. `Connect` is the page's, `ProxyAccepts` and `BusRefuses` the
proxy's, `BusAccepts` and `Wake` the loop of `websocket_endpoint`.
`broadcast_update` is `BeginSending`, a `PushSend` per socket, `PushEnds`;
`SetChanged` is Python's error when the set's size is another one than at the
start of the iteration. A push that raises takes down the endpoint it runs in.

* `LiveIsFed`: a page that shows Live is in the bus's set with an endpoint that
  will push again, unless the bus's half of its connection has ended. The
  exception is real: `gather` waits for both directions, the browser's side says
  nothing, and the page goes on showing Live.

### Workbench

All drafts of an engineer go to one directory. `disk[a][p]` is who wrote a file
last and whether its checker finds an error. `Build`, `SelfTest`, `Repair` (or
`RepairKept`, `RepairRaises`), `Retest` are `execute_writing` and
`_self_test_loop`, `Revise` is `revise_output`, `Review` RE's analysis, which may
come when the agent is at a later draft. The model's answer is a choice for each
path: written clean or with an error, cut short, refused by the path check.

* `ReportsAreTrue`: of each file that is still the one a draft left, the draft's
  own test and RE's say what is the case. The exceptions are the code's: a repair
  that raised half-way keeps the first report, and a file the first answer wrote
  and the repair did not is in no report.

### ChatAdmission

A request passes the minute's and the hour's window (`RefusedByMinute`,
`RefusedByHour`), the budget and the choice of a thread in `ChatAdmitted`, up to
the first await; `Identified`, `Classified` and `Answered` are the awaits behind
it. `slots` is the limiter's list of times, counted even for a request the next
check refuses. `SessionOpen`, `SessionUpdate`, `SessionClose` and `ListActive` are
the session table's.

* `RateHolds`: in no stretch as long as a window do more requests pass than the
  limit, wherever it begins, as long as the process lives; that is, requests of
  an address that is limited. Those in `_BYPASS_IPS` (`Inside`) pass unlimited and
  are not counted.
* `NewThreadsAreNew`: no two new conversations get one thread, over restarts too.
  The counter starts again at zero; what keeps the ids apart is the second in
  them, because a restart takes more than one.

### PhotoIntake

`PhotoUpload` is the endpoint up to the await of the file, `SaveTemp` up to the
await of the vision model, `VisionAnswers` the charge, the row and the timer.
`Purge` is `_auto_purge` when it wakes; the `Remember` actions are
`remember_photo` for a photo that is remembered, lost or there. `faults` are
statements that fail, unlinks that raise, and restarts. An unlink that raises is
caught in both places, so that the row goes and the file stays (`PurgeLeaves`,
the second disjunct of `VisionFails`). The two guards fail open
(`PhotoUploadUnseen`), and so does `record_usage` (a disjunct of `VisionAnswers`).
Asking again about a photo goes through BOB's tool, looks at no budget and is
charged to Rob.

* `OvershootBounded`: a member spends less than the cap plus what the uploads that
  overlapped, and those a failing query let through, can cost. Uploads at a
  time do all pass the same check, so the cap alone does not hold.
* `RememberedIsKept`: purge, second request, failures and restarts in any order
  leave a photo the user was told is remembered.
* `TempIsPurged`: a temporary file has someone who will remove it, its request or
  a timer that will find its row, but for exactly four faults, after which it
  stays for good: a restart, an INSERT of its row that fails, a statement of the
  purge that fails, an unlink that raises in either place.

### KeyCache

`auth.py` exists twice, in BOB and in the voice server, with the same logic.
`Identify` reads what is cached; a miss leads to a fetch (`KeysSent`, `KeysKept`,
`FetchFails`), a key that is not among those cached to forgetting them and one
more fetch. `Rotate` is the provider's. What else a token is checked for is a
choice.

* `NewKeyAccepted`: a good token signed by a key published from the beginning of
  the request on is accepted, unless this request's own fetch failed or an empty
  answer has been cached.

### MailMonitor, UsageMonitor

`check_inbox` has no await in it: a poll is one step, and marks all it returns.
The loop then awaits a push for each (`PushSent`, `PushFails`); BOB's tool
(`CheckEmail`) takes mails without showing them. What Rob reads in his own mail
program is `MarkAsRead`. `_pending_emails` is cut after
every append; since no mail is on it twice (`MailsAreListedOnce`) the model keeps
the newest of the list at once (`Kept`), and a dismissal takes one entry out
(`DismissEmail`) where the code filters the list. A usage sweep awaits two
readings and a push for each alert; sweeps overlap and share the flags, which go
back on a low reading, a new day or a restart.

* `UrgentIsSurfaced`: a mail that is not looked at again has been on the dashboard
  or taken by the tool, or it is behind a push, the ways the code has to lose it.
* `AlertedOnce`: an alert is fired again only after its flag has gone back. The
  flag is tested and set without an await in between, which is all it needs.

### SharedMemory

A decision is `DecideRead`, for an approval `ApproveStore` (ChromaDB), and
`DecideRecord` (SQLite); each may fail (`StoreFails`, `RecordFails`) or be cut off
by `MemoryRestart`, and a call of ChromaDB that raises may have written. Decisions
are made by the endpoints of the API, on the event loop and without an await, so
no two overlap (`DecideRead`); BOB's tools for the memory are plain functions and
fail before they get to it (see Findings). But the process may stop between the
two stores, and an import comes between them, since `import_from_file` may run
in a process of its own: it lists, deletes and writes, in replace mode.

* `RecordIsTrue`: an approved proposal has been written, and one that is not has
  not, unless an approval ended after its write without a record of it.

### Scheduler

The store outlives the process; `Start` seeds the defaults. Two calls reach it,
both from BOB's MCP server: `add_job` and `RunNow`. BOB's own tools for jobs, which
would also pause, resume and remove them, are plain functions and fail before
they get to it. A job that has come due is submitted (`Fire`) and `Run` on a worker
thread, where asking for the event loop raises; `RunNow` is on the loop's own
thread, hands the callback over, and `CreateTask` is that callback.

* `SchedulesSurvive` (violated): what was asked of a job last is what is stored,
  through restarts. `get_jobs` of a scheduler that has not been started knows
  nothing of the store, so `Start` finds it empty each time and puts every default
  back. The counterexample is a start, an `add_job` that changes a default, a
  stop and a start.
* `FiresAsTask` (violated): the run of a job does not end by an error of the
  bridge. It always does when the job is due: the counterexample is a start, a
  job that comes due, and its run.

### VoiceSession

The listener (`Utter`, `StopAudio`, `ListenerEnds`) and the main loop (`Take` to
`Stored`) share the stop event and the queue. An answer is streamed sentence by
sentence, each a task (`TaskEnds`, `TaskFails`), or spoken whole when the stream
breaks.

* `SpokenInOrder`: sentences are heard in BOB's order, exchange after exchange,
  except what a broken stream left behind.
* `StoppedStaysSilent`: after a stop no sentence of that answer is heard, although
  the event is cleared at both ends of an exchange; the answer spoken in one
  piece is past stopping.


## Runs and bounds

| run | instance | why it is enough |
|---|---|---|
| bustasks_concurrent | one task, two requests, one agent; the task's requests are serialised or not | no action touches two tasks; a race needs two requests, and a third only repeats what one of two can do again after it has ended |
| bustasks_race | the same | |
| delivery_polling | three messages to all or by topic, LIMIT 2, second of 3 ticks, up to tick 4, fairness | LIMIT cuts, a whole second falls inside the run, polls overlap stores |
| debates | all four kinds of tier, one fault | tiers differ in critics, light review and rounds; RA stands for SA, which is not deployed |
| debate_stale | research tier, no fault | |
| busclient_queue | three writes (one refused), one read, threshold 2, one retry, 3 faults | a row before, at and behind a refused one; the breaker opens, probes and closes |
| promotion_decisions | two proposals sharing a file, two threads | a file of one, a file of both, two decisions on either |
| toolgate_approvals | a HIGH and a medium tool wrapped once, a HIGH MCP tool wrapped once or twice, two arguments, two confirmations, two approvals, of one call or of two; threshold 3, history 3, window 1, timeout 1, clock up to 2 | two confirmations of one call, and one reused, are the ways to get two approvals, and both are consumed in the run, by two calls or by the two gates of one; the third equal call is the first a threshold can refuse; timeout and window pass inside the run, and the history forgets |
| toolgate_wrapped | one MCP tool, three tiers, the thresholds of `loop_detector.py` | |
| services | eleven components, one in each behaviour, see below | |
| scheduler_fires | one default, one other job, one start | |
| scheduler_restart | the same, two starts, one call of `add_job` | |

`MaxClock` bounds the clock, `MaxFaults` the number of faults, `MaxLayers` the
wrappings, `MaxClicks` the approvals Rob gives in all and the number of `Ids` the
confirmations (once all are given out, a HIGH call without an approval is still
refused, and queues nothing new); `MaxStarts` and `MaxAsks` the starts of the
scheduler and the calls to it; nothing else is cut off. A cycle is two names or
more, twice or more, which the history of three in toolgate_approvals has no room
for, so that there the threshold decides; in toolgate_wrapped, with the constants
of `loop_detector.py`, the cycles are there. Deadlock checking is off for `DebateArena`, where a closed
task and empty inboxes are the end, for `BusClient`, where all requests end, and
in services, scheduler_fires and scheduler_restart, where a bounded number of
requests is served and a process may be stopped for good.

**services.** The eleven components of `MCServices` exchange no call and share no
variable. An invariant about one of them holds in the product of all exactly
when it holds in the behaviours in which the others stand still, so `focus`
picks one component for each behaviour, and the run is as large as the sum of
the components instead of their product. `Still` fixes what the environment
chooses for those that stand still. `Numbered` gives requests, mails, photos,
sweeps, connections and drafts their numbers in the order in which they begin:
the modules use nothing of a number but its identity, so this leaves out
renamings only. The chats are in focus in two ways: the four requests and six
times it takes for a window to slide are followed up to their admission, where
the limiter has done with them ("rates"), and fewer requests up to their end, with
the sessions ("chats"); `ChatPart` is that restriction. A single component may be tried alone with its own
`...Spec`. The bounds, by component:

* photos: two uploads, so that they overlap, by one member or by Rob, who
  bypasses the caps; the vision cap is one call; one midnight; one fault.
* rates: four requests, one of them from an address that is not limited; one in
  two ticks and two in five; the clock goes to 5, so both windows slide and a
  message leaves the long one; one restart.
* chats: three of these requests, the clock to 2, the session table; one restart.
* voice: two exchanges of up to two sentences; a stop and an end at any await.
* keys: three overlapping requests, three key generations: one request caches
  an old set while another fetches the new one.
* mails: three mails, a window of two, a dashboard of two; one push fails.
* usage: two overlapping sweeps, one period change.
* memory: one proposal, two decisions on it, one after the other, a seeded
  document and another that an import may replace, one fault.
* registry: an agent with two capabilities, two lives, two tries; one stop of
  the bus. Two lives are the fewest whose requests meet; two capabilities are
  the fewest between whose inserts another request can come.
* workbench: two drafts of one engineer, two paths: a later draft overwrites one
  file of an earlier one and leaves the other.
* scheduler: a default and another job, three starts, three calls to it.
* feed: two pages, three connections, two overlapping pushes, one fault.

Every module's type invariant is proved; those of the modules in services are
also checked there (`ServicesTypeOK`), and proved of the composition.

Fairness. `BusDelivery`: the loop is `while self._running`, so it polls and
handles (weak fairness), and a poll answered again and again in spite of
failures is answered in the end (strong fairness on `PollAnswer`). `DebateArena`:
every poll loop gets on with its messages, and no critic is assumed to approve.
`BusClient`: `_drain_loop` runs every thirty seconds, and a bus that is up
answers; the bounded faults are the bus being down. No fairness is assumed of
clients, of faults, or of the clock. The modules of services have safety
properties only.

## Findings

Five runs end in a counterexample, each against a line of the repository:

* bustasks_race: two overlapping PATCHes make a transition that
  `VALID_TRANSITIONS` lacks (`README.md:172`).
* debate_stale: a reviewer's late approval of one draft accepts the next one,
  which nobody has reviewed (`DEBATE-ARENA-ADAPTED.md:198`).
* toolgate_wrapped: tools from MCP servers are wrapped once per tier, and their
  second call with equal arguments is refused as a loop (`loop_detector.py:36`).
* scheduler_fires: no job that comes due creates a task (`scheduler.py:4`).
* scheduler_restart: every start puts the default jobs back over what has been
  changed (`scheduler.py:110`, "seed default jobs if empty"; `README.md:196`,
  "the scheduler survives restarts without re-registering jobs").

Met on the way, and kept in the properties as exceptions that are named there:

* A page whose bus half has ended shows Live and is not fed
  (`dashboard_api.py:293`); `INFRASTRUCTURE.md:491` says "auto-reconnects on
  disconnect". It is the exception of `LiveIsFed`.
* A queued write that the bus refuses blocks those behind it; `SECURITY.md:75` of
  BOB says "No lost data". It is the exception of `DrainsUnlessBlocked`.
* A message whose insert overlaps a poll is never returned if the poll is
  answered; `DEBATE-ARENA-ADAPTED.md:131` says "returns new messages". It is `overtaken` in `OnTimeNotLost`, which is about the
  others.
* A photo whose purge was cut off, by a restart, a failing statement or an unlink
  that raises, stays; `photo_intake.py:5` and `USER_GUIDE.md:170` of BOB promise it is
  deleted after 60 seconds. It is `stranded` in `TempIsPurged`.
* Of BOB's own tools only those that are coroutines work: `_firewall_wrap` awaits
  `tool.coroutine` (`tools.py:455`), which a plain function has not, so the tools for
  jobs, memory, proposals and mail end in a TypeError behind their gate; the
  comment above, `tools.py:451`, says "LOW/MEDIUM: execute normally". The models
  take it as it is: nothing they do is an action.
* Chats cost nothing in the ledger: only photos call `record_usage`, while
  `ROADMAP.md:123` of BOB says it "records every LLM call".

Hazards the models do not reach, for want of a property that the code keeps: a
stream from BOB that breaks makes the voice server send the message again, so
BOB acts on it twice (`bob-voice-updates/app.py:419`); with no critic running
nobody answers a draft (`orchestrator.py:178`); two promotions at work on a
directory interleave their copies (`promotion-gate/main.py:340`); an older
snapshot may overtake a newer one until the next push, three seconds later
(`routes/system.py:39`); the endpoint of a dashboard that was dropped from the set
sleeps and wakes for ever (`routes/system.py:76`).

## Proofs

The proofs hold for every value of the constants; they need only the named
assumptions in the modules (`Absent` is no state, thresholds are positive, the
sets of names are disjoint, ...).

* `BusTasks_proofs`: `StagesAreNotSkipped` strengthens `NoStageSkipped` with what
  a PATCH in flight knows: the state it is going to write is one whose
  prerequisite the task has held, because it passed the check on a state the
  task had then and `ever` only grows. `StatesAreAnnouncedFirst` adds that a
  PATCH past its announcement has announced what it will write. `AssigneesWatch`
  follows an assignee to its row in the watchers' table: a POST still at work has
  it among those left to add (`LeftToAdd`), a PATCH has made it a watcher before
  it writes the column (`WatchedFirst`). `SerialRequestsImplementLifecycle`: of a
  task whose requests do not overlap (`serialised`), what a PATCH has read is still
  so when it writes (`SerialInv`), so that its write is the transition it checked;
  every other step leaves the column alone, and steps about other tasks are
  stutters of the lifecycle. `SerialTransitionsAreLegal` states the property that
  bustasks_race refutes, and holds where all are serialised: the overlap is all
  it takes. What the race can do is bounded by `RacesTakeLegalSteps`, with no
  assumption: the state a PATCH is about to write is a successor in the table of
  a state the task has held (`PendingWasLegal`), so that a race takes a task back
  or repeats a step and never makes a transition that was not legal before.
* `DebateArena_proofs`: one invariant (`DebateInv`) for the whole debate. The PM and
  the primary PATCH the task in disjoint sets of states, so a PATCH that passed
  the bus's check is still legal when it is written, though checking and writing
  are two steps; the primary has one request waiting or at work, which fits the
  state; rounds and drafts are counted against the tier where the PM decides, and
  nobody is asked for anything once the debate is over. `RoundsAreBounded`,
  `WorkFits` and `AcceptedDraftIsFinal` follow from it, and, step by step,
  `DebatesImplementLifecycle`: here nothing is assumed to be serial. Two more
  invariants stand on it. `OneAnswerAcceptsTheLast` says what the finding of debate_stale
  takes: two critics and two rounds (with both, TLC finds it even in the light
  tier). With one critic the draft is in one place at a time, with the primary, in
  the PM's inbox, in a decision or with the critic (`LoneInv`), so that what is
  accepted is the last draft; with one round there is only one draft.
  `OneAnswerIsAsReviewed` is the documented gate, `ApprovedAsReviewed`, of an arena
  whose tiers are all such (the infrastructure tier has one critic).
  `SomebodyIsAlwaysAtIt` is the part of `EventuallyClosed` that is about states:
  for each state of the task it names who is waited for, and that message or
  handler is there (`SomebodyIsAtIt`) unless there was a fault, the PM has overtaken
  the primary, or the tier debates and has no critic. A refused PATCH ends its
  handler and loses what it had still to do; the proof is that this happens only
  where another answer or the primary's work is still to come. What is left to
  TLC is that answers cannot go on for ever, which `RoundsAreBounded` makes
  plausible and a sum over all inboxes would be needed to prove.
* `BusDelivery_proofs`: no time in use is later than the clock, and what is
  handled is not stamped after `since`; so a SELECT cannot match it again, whole
  seconds apart. `OnTimeMessagesAreNotLost` follows each message: one whose insert is
  under way while a poll is open is `beside` it, so that the answer either brings
  a message, or has cut or overtaken it, or leaves it newer than `since`.
* `BusClient_proofs`: ids below `nextId`, distinct and growing; what a drain
  holds is a tail of the queue in order of id; each write's count of arrivals
  against those that went unheeded (the answer lost, unreadable, or not recorded by
  a DELETE), by where its coroutine and its row are.
  `BlockedIsBlockedForGood`: the exception of `DrainsUnlessBlocked` never ends.
  The bus carries out no write it refuses, so that its row is never deleted
  (`NoneRefused`), and a drain that holds a younger row holds it too; the younger
  one is therefore never first, is neither sent nor deleted, and keeps its id.
* `ToolGate_proofs`: `ran <= spent <= clicks`, made inductive by counting the
  approvals that still stand (`SpentWasGiven`, over the cardinality of a finite
  set) and the one a call between two gates carries (`RanWasSpent`); for a tool
  wrapped once, `spent` and `ran` differ exactly while a call carries one.
  `RepeatsAreBounded`: a call that runs was counted when it was recorded and the
  count was below the threshold, and a call behind the gate is the last one
  recorded (`LoopInv`); what is counted later has a window that starts no earlier.
* `PromotionGate_proofs`: what an approval has still to copy is the complement of
  what it has copied; where nothing raced, a promotion has one decider and is
  pending while it decides.
* `Channels_proofs`, the ways into BOB:
  * `PhotoIntake`: `OvershootIsBounded` counts an upload in flight as if its cost had
    been recorded (`SpendInv`, over the cardinality of a finite set); then what a
    member has spent grows at an admission only, and the check admits while less
    than the cap has been spent. `KeepInv` ties rows, files, timers and requests
    together for the other two.
  * `ChatAdmission`: the counter is the number of requests this process has named
    (`Counts`), and a request of an earlier process has an earlier stamp
    (`Stamps`); so two new threads differ in the count or in the stamp. For the
    rates, what has passed within a window is still in the limiter's list
    (`Tracked`), whose length the check compares with the limit, and any window of
    a process ends, seen from its last request, no later than that check.
  * `VoiceSession`: one sentence of an unbroken stream is being made into speech at
    a time, and it is the last one produced (`Making`); an exchange that has not
    begun to be spoken has nothing sent or at work (`Unspoken`). That orders what
    is sent. A stop leaves the event set until no task of its answer is left
    (`Stops`), since the event is cleared before the first task and after the
    last. Nothing is sent twice (`Once`), which bounds what is sent.
* `Services_proofs`, the services that share nothing, and their composition in
  `MCServices` (it extends that module and `Channels_proofs`):
  * `Scheduler`: its type invariant; both properties of it are refuted.
  * `UsageMonitor`: an alert a sweep is about to fire has no flag, and one reading
    never both fires and takes back an alert of the same meter; so an alert fired
    twice has had its flag taken back in between.
  * `SharedMemory`: an approval between the two stores has written, and a proposal
    has at most one decision at work and is pending while it is (`DecisionInv`).
  * `KeyCache`: a key a request looks for is not newer than the provider's, and an
    answer on its way held that key while it was published (`CallInv`).
  * `LiveFeed`: what is in the set has been accepted, what a push calls dead has
    ended, and a page whose bus half is open has its place and its endpoint
    (`FeedInv`): a push that ends takes only ended ones out, and one that raises
    closes the socket it takes out (`OpenOnesStay`).
  * `Registry`: every capability of an agent that has declared any is there or still
    to come (`CapabilityKept`, `Coming`): from a request about to delete, which
    will insert all, or from one that inserts and finds nothing in its way up to
    it. A request clashes only on a row that is there, and so takes nothing away.
  * `Workbench`: what a report says of a file is said when the file is tested, and
    stays so while the draft still owns the file (`FileTold`); a draft other than
    the one that writes either finds its file as it was or no longer its own
    (`OthersStand`); how often a draft was answered and what has been tested
    follows from its stage (`Progress`).
  * `MailMonitor`: a mail whose push is awaited has been shown, and the loop goes
    through its mails up to the next push (`SurfacedAll`); the new mails put in
    order are all there, because as many different ones as there are, are all of
    them (`OrderedAll`). What is on the dashboard or in a
    poll's list is not looked at again, and of such a list only the mail whose push
    is awaited is on the dashboard yet (`ListInv`): so new mails put after it repeat
    none (`BothLists`), and `MailsAreListedOnce`.
  * `MCServices`: a step of the run is a step of the one component in `focus` and a
    stutter of the ten others (`FocusStep`), and `Still` and `Numbered` only leave
    steps out. So each behaviour of the run is one of every component
    (`ServicesImplementEach`), every theorem about a component holds of the
    composition, and `ServicesTypeCorrect` needs no induction of its own.

Each `...TypeCorrect` is the type invariant of its module. Only model-checked are:

* the liveness properties `OnTimeHandled`, `EventuallyClosed` and
  `DrainsUnlessBlocked`, which are out of the prover's reach (of the last two the
  theorems above prove the part that is about states and steps);
* `LoopsAreTheAgents`, `FiresAsTask` and `SchedulesSurvive`, which their runs refute.
  The other two refuted properties are theorems under the condition that
  excludes the counterexample. For `LoopsAreTheAgents` that condition is a tool
  wrapped once, but the proof would have to compute a `SelectSeq` over the history,
  an induction over data; `FiresAsTask` fails for every job that comes due, and
  `SchedulesSurvive` for every default that has been changed.

## Not modelled, and the plan

* Recovery of paused tasks (`recovery.py`): `pause_task` is called nowhere in the
  repository, so its table is empty and its monitor has nothing to resume.
* The chat budget's warnings, `llm.py` and its fallbacks: no state but the ledger,
  which chats never write.
* Acknowledgements, threads of messages and the fifteen-second task cache: no
  decision of an agent depends on them but for the cache, whose stale task is
  written again by nobody except through a PATCH the bus checks.
* The researcher's and the other agents' loops over a model and its tools: their
  results are the choices of `DebateArena`; they write a file of their own.
* MCP and A2A front ends, graph and tools, digests, replay, evaluation,
  personality: glue and offline tools; where one of them matters to a part it is
  in that part's module (`SwitchPersonality`, `RunNow`, `CheckEmail`).
* Host metrics, the SDK, the widget, the web sites, deployment: readings, clients
  and files without state of their own here.

Next: liveness of the small services (a temporary file is purged in the end where
no fault occurs, and a page is fed again after the bus has been restarted), to be
checked by TLC; and a bound on the steps of a debate in which no fault happens,
which with `SomebodyIsAlwaysAtIt` would give `EventuallyClosed`.
