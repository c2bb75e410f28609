# A TLA+ verification of NeuraShield

NeuraShield is a multi-tenant security operations centre. Endpoint agents and
connectors post events; a chain of Redis Streams carries them through
normalization, detection, correlation and investigation; a FastAPI service,
WebSockets and a React frontend show the results. This directory models the
path of an event from a log line on an endpoint to a published investigation,
and the parts of the platform beside it where processes meet: the transactions
of tokens, sessions and the audit trail, edit locks and presence, the tasks
that follow an alert, the sweeps of the workers next to heartbeats and analysts,
containment and assignments. TLC checks the models on small
instances, TLAPS proves most of their invariants for every size. Paths below
are relative to the repository's `backend/app/` unless they start with
`backend/`, `agent/` or `frontend/`.

`PROJECT.json` has the machine-readable form: components, runs, which
definition models which lines, findings, hazards and theorems.

## The system

### Components, their state and operations

| Component | State | Operations | What makes it correct |
|---|---|---|---|
| Endpoint agent (`backend/scripts/soc_agent_v2.py`, the script `api/v1/installer.py:84` serves) | read positions in memory and in a checkpoint file, SQLite queue with retry counts, drain in progress | collect, enqueue, save checkpoint; drain, post, ack, nack; restart of `main()`; process restart | no line skipped, no row lost unnoticed, rows leave in the end |
| Ingest endpoint (`ingestion/`) | `idempotency:event:{id}` keys, `raw_events` stream | per event EXISTS, XADD, SET | a retried post is published once |
| Stream consumer (`pipeline/consumer.py`) | per stream and group: last-delivered id, pending entries list (PEL); per worker: batch | XREADGROUP, XAUTOCLAIM, handler, XACK | at-least-once, nothing forgotten, poison starves nobody |
| Normalization worker (`workers/normalization_worker.py`, `normalization/`) | `events` rows, `normalized_events` stream | commit row, publish, return | acknowledged implies stored and published |
| Detection worker (`workers/detection_worker.py`, `detection/`) | rate counters, threshold windows, suppression keys; `alerts` rows; `alert_events` stream | per rule: rate limit, match, count, suppress; deduplicate, publish, commit, notify | one alert per rule, count and quiet period, none lost |
| Attack chains (`detection/attack_chain/`) | `alerts` and `investigations` rows, lock keys in Redis | two tasks after the commit of an alert | one chain alert per cluster, no chain among the newest alerts and no crowd overlooked |
| Correlation worker (`workers/correlation_worker.py`, `correlation/`) | mapping keys, metadata, members and snapshots of groups in Redis, 7 day TTL | resolve or found group, add event, snapshot, update, publish | what is published can be read, nothing acknowledged is lost |
| Investigation worker (`workers/investigation_worker.py`, `investigation/`) | `investigations` rows, `investigation_results` stream | read group, upsert, mail, playbook task, publish | acknowledged implies reported, rows complete, one playbook |
| Realtime (`realtime/`) | subscriptions and queues in memory, presence and edit locks in Redis | fan out, acquire and release a lock, presence heartbeat | one editor, presence ends, events arrive |
| Installer tokens (`services/installer_service.py`, `api/v1/installer.py`) | tokens, agents | generate, claim, use, revoke, expire | one agent per token, none with a revoked one |
| Sessions (`services/auth_service.py`, `services/mfa_service.py`) | refresh tokens, password hash, reset link, backup codes | login, rotate, log out, reset, change | credentials are spent once, a change ends the sessions |
| Audit trail (`services/audit_service.py`) | hash chain per tenant | append inside the transaction of the action | one chain, no fork |
| Escalation (`workers/escalation_worker.py`) against analysts (`services/alert_service.py`) | status and notes of alerts | sweep every 300 s by default; PATCH, DELETE | an alert is escalated once |
| Heartbeats (`ingestion/`) against the sweep (`workers/heartbeat_worker.py`), containment (`services/containment_service.py`) | the row of an agent, the trail of response actions | heartbeat, enrolment, sweep; quarantine, isolate, release | an agent is shown as it was heard of and contained |
| Assignments (`analyst/assignment.py`) | assignment rows, `investigations.assigned_to` | assign | one active row, the column in agreement |
| Other sweeps (`workers/{installer,retention,baseline_snapshot}_worker.py`) | rows of PostgreSQL | periodic scan and update | single statements; the installer sweep is in `Enrollment` |
| Worker entrypoint (`workers/main.py`) | task list, tenants known | start workers per tenant, hot reload every 60 s, shutdown | every tenant's streams have consumers |
| REST API, analyst workspace, AI, UEBA, connectors, frontend | rows of PostgreSQL, caches | single-request CRUD, LLM calls, parsing | transactional or pure; not a subject of these models |

### Interactions

The agent's two threads share the SQLite queue; the drainer posts to the API.
API workers share Redis. `raw_events`, `normalized_events`, `alert_events`,
`correlated_events` and `investigation_results` are one Redis stream per tenant
each, read by consumer groups (`normalize_workers`, `detect_workers`,
`correlate_workers`, ...) whose members are asyncio tasks in one or several
worker processes. A worker that does not acknowledge an entry within
`AUTOCLAIM_IDLE_MS` may lose it to another worker, while its handler runs on.
Redis and PostgreSQL are not updated in one transaction anywhere.

A request of the API is one transaction of PostgreSQL under READ COMMITTED,
committed by the route or by `get_db`. WebSocket handlers live in the API
process and share Redis with each other. The worker process runs the consumers,
the sweeps and the listener of the pub/sub channels.

### What is hard here

Two workers with the same entry; a crash between a commit, an XADD and an XACK;
a Redis reply that is lost after the command took effect; a request that times
out at the client and goes on at the server; keys that expire between a read
and a write; an entry that fails every time; a transaction that writes what it
concluded from a row another transaction has changed since. The list with source
lines, and the property that covers each, is `hazards` in `PROJECT.json`.

## Modules

| Module | Models | Kind |
|---|---|---|
| `AtLeastOnce` | what a consumer group promises | abstract specification |
| `StreamConsumer` | `pipeline/consumer.py` with the stream commands of `core/redis.py` | detailed specification |
| `NormalizationStage` | `StreamConsumer` with the normalization handler split at its two effects | composition |
| `DetectionStage` | `StreamConsumer` with the detection handler at the grain of a Redis command | composition |
| `CorrelationStage` | `StreamConsumer` with the correlation handler at the grain of a Redis command | composition |
| `InvestigationStage` | `StreamConsumer` with the investigation handler, next to the correlation and detection workers, playbook tasks and an analyst | composition |
| `EventIngestion` | `POST /api/v1/agents/ingest` by concurrent API workers | component |
| `AgentDelivery` | the agent's threads against `EventIngestion` | composition |
| `Enrollment` | installer tokens, agents and the audit trail | component |
| `Sessions` | sessions, codes and password of a user | component |
| `Workspace` | edit lock and presence | component |
| `ApiServer` | the three above in one process that may die | composition |
| `AttackChains` | the chain task and the crowd task after an alert | component |
| `AlertDesk` | the escalation sweeps and analysts on the same alerts | component |
| `Fleet` | the row of an agent: heartbeats, sweeps, containment | component |
| `Assignments` | the assignments of an investigation | component |
| `Platform` | `ApiServer`, `AttackChains`, `AlertDesk`, `Fleet` and `Assignments` together | composition |
| `Broadcast` | an event over pub/sub to the WebSockets | component |
| `*Proofs` | theorems about the module of that name; `ApiServerProofs` has those of `Enrollment`, `Sessions` and `Workspace`, `PlatformProofs` those of the other parts | TLAPS |
| `MC*` | finite instances | TLC |

Operators under a comment that starts with *Mutant* are variants of the
definition that follows, changed as a plausible bug would. No action uses
them; `mutants` in `PROJECT.json` says which property breaks when one takes the
place of the real definition.

### StreamConsumer and AtLeastOnce

Entries are numbered in the order of their XADD. `lastDelivered` and `pending`
are the group's state in Redis, `stale` the pending entries idle long enough for
XAUTOCLAIM. `stage[c]` is the call of the loop in `run` that worker `c` is in,
`batch[c]` what its last call fetched and it has not dealt with, `returned[c]`
that the handler returned for the head of the batch and XACK is due. One action
is one Redis command with the code up to the next await. `PollFails`,
`ReclaimFails` and `AckFails` are the `except` branches: the command was
executed or not. `HandlerRaises` is the `except` of `_process`; a payload that
does not parse at all is a member of `Poison`, one that parses to something
other than a dict of `NotDict`. `Halt` is a process death and the cancellation at
shutdown; a restarted process has a new consumer name, so a member of
`Consumer` is a slot, not a name, and its old entries come back through `GoIdle`
and `Reclaim`. XAUTOCLAIM removes trimmed entries from the PEL, as Redis 7 does.

`AtLeastOnce` forgets the PEL, batches and faults: entries are offered,
completed any number of times and settled once, after completion.

### The stages

Each keeps the actions of `StreamConsumer` except `HandlerOk`, `HandlerFails` and
`Halt`, which it splits into the steps of its handler and their failures.

`NormalizationStage`: `CommitRow` (the flush, enrichment and commit) and
`PublishNormalized` (the XADD, with which the handler returns). A row is its
`stream_id` and whether the table had one with that `stream_id` before: all later
copies count as one, so that the state stays finite though a retry adds a row
each time.

`DetectionStage`: one host and one user, so suppression keys and deduplication
meet. A rule's conditions are the relation `NoMatch`. `current[c]` is the rule in
evaluation with the count it fired with, the `extra` of its suppression key.
`period` in an alert is a history field: how often its key had expired when it
fired. Time is the nondeterministic expiry of rate counters, window members and
keys; the renewal of a TTL is therefore not visible. An event has an `event_id`;
the schema accepts an empty one (`ingestion/schemas.py:19`), for which
`ThresholdEvaluator` draws a new window member on every call (`threshold.py:71`), so
that a redelivery is counted again. The agent sends a UUID, and `CountsDifferentEvents`
is about such events only. The AI analysis and the
e-mail are left out: their errors are swallowed and they change nothing checked
here. The docstring of `DetectionEngine` (`detection/engine.py:41`) speaks of one
alert per "(category, hostname, username)", while `_deduplicate_alerts`
(`detection/engine.py:242`) documents and implements one per tactic, host and
user. The model follows the code.

`CorrelationStage`: `Resolve` looks one mapping key up, `WriteMapping` writes one,
`InitGroup`, `AddEvent`, `StoreSnapshot`, `ReadGroup` and `WriteGroup` are the
commands on a group, `PublishCorrelated` the XADD. The temporal windows and the
rules decide the score of an event and nothing else; any score of `Scores` may
come out, and one below `Significant` ends the handler (`Insignificant`).
`groups[i].merged` stands for the entities and rules of the hash. `CommandFails`
raises at any command, executed or not; mapping keys expire (`MappingExpires`),
the hash and the sorted set, renewed at each event, outlive them. The cap of a
group (`_MAX_GROUP_EVENTS`) and the expiry of the renewed keys are left out.

`InvestigationStage`: `ReadSnapshots`, `CheckIsNew`, `Persist`, `Notify`, `Analyse`
and `PublishResult` separate the handler where it awaits what another process can
come before. Errors the handler swallows (`PersistFails`, `PublishFails`) go on,
others (`ReadFails`) leave the entry to a retry. `waiting` and `generating` are the
playbook tasks in their delay and past their check. `AddMember`, `AddSnapshot` and
`PublishCorrelated` are the correlation workers, `AlertStored` the detection
workers, `ChangeStatus` is `CaseService.change_status`. `missed` collects the
entries a handler gave up on by an early return or a swallowed error.

### EventIngestion and AgentDelivery

An API worker takes one event of its request after the other through
`Lookup`, `Publish` and `MarkSeen`. `Rejects` (`EventFails`) is the `except` in
the loop, `Dies` (`Abort`) everything that ends a request without an answer.

The agent's main loop is `Collect`, `Enqueue`, `SaveCheckpoint`; its drainer
`Drain`, `Post`, then `Answered`, `Refused`, `Timeout` or `Dies`. An event id is
the pair of a line and the number of the drain that drew it. `Rewinds` says
whether an exception in `main()` restores the saved position: the Windows
readers do when a checkpoint file exists, the Linux tailers keep their
advanced positions. `AInit` is an agent with a checkpoint. History variables:
`queued`, `dropped`, `refused` and `exposed`; the last collects the ids for which
EXISTS cannot protect (unfinished at a timeout, failed between XADD and SET, or
expired).

Left out: the limits of a first read (500 records, two hours), logs cleared or
rotated under the reader, MAXLEN of `raw_events` (in `StreamConsumer`), SQLite
errors in `nack`, and a full disk.

### Enrollment, Sessions and ApiServer

Requests are transactions. A SELECT sees what is committed; what a request
writes is staged until `Commit`, and `RollBack` may end it at any step. In
`Enrollment`, `op[r]` says what request `r` is about and `doing[r]` its next step:
a claim (`MarkInstalling`, FOR UPDATE SKIP LOCKED), the agent row (`EnrollAgent`,
SELECT and INSERT or UPDATE), the audit entry (`Log`), the commit. `Locked(t)` is
the row lock of a token: a claim skips it, a revocation waits for it. The status
INSTALLING exists inside a transaction only. `Lapse` and `ExpireOld` are time and
the sweep. An agent row is named by the request that inserted it. `now` numbers
audit entries by `created_at`, which is drawn before the commit.

In `Sessions` a call of one user is its SELECT (`Login`, `Refresh`, `Logout`,
`ForgotPassword`, `ResetPassword`, `ChangePassword`), for the last two the bulk
revocation (`RevokeAll`), and `CommitCall`. `Revoked`, `Issued`, `NewHash`,
`NewCodes` and `NewLink` are what the commit writes. Calls with wrong or unknown
credentials change nothing and are left out.

The history variables `together`, `crossed`, `met` and `mixed` record which
requests overlapped: the code takes no lock between its SELECT and its write, so
what it guarantees is that nothing goes wrong *unless* two named requests met.
Each property states that exception; without it TLC finds the overlap at once.

`ApiServer` joins the two with `Workspace`; `ApiDies` rolls all open transactions
back and closes all connections without their cleanup.

### Workspace

Edit lock of one investigation and presence keys, one Redis command per step.
`lock` is the connection that set `lock:inv:{id}`. `told` are the analysts who were
told `lock.acquired`, did not ask for its release since, and whose `expires_at`
has not passed. `release` is GET and DEL (`ReleaseLock`, `DeleteLock`); `snatched`
records a DEL that hit a lock in use. `presence` says for each analyst whether
the hash is there and whether it has a TTL; several connections (tabs) of an
analyst share it. Until the welcome is sent (`Welcome`) a connection that fails is
not cleaned up. `refresh`, `transfer` and `force_release` of the lock and
`list_online` of presence are called by no code of the repository.

### AttackChains, AlertDesk, Fleet, Assignments and Platform

`AttackChains` starts at the commit of a detection worker (`StoreAlerts`), which
creates two tasks per alert. The chain task loads the newest `Limit` alerts of the
host once (`LoadRecentAlerts`; the code has 50) and goes through the chains in order
(`TryChains`, `chainOf`): for each that matches (`MatchIn`) it takes the lock of the
cluster (`TakeChainLock`), commits the chain alert (`InsertChainAlert`) and opens an
investigation (`AutoCreateInvestigation`). A lock that is taken sends it on to the
next chain; the key names the cluster and no chain, so a second chain with the same
alerts is refused too. The row of the investigation is always refused by the
database (see *Observations*): the error is swallowed, but the session has been
rolled back and its objects are expired, so the next use of one ends the task. A
task therefore fires for one chain at most. The crowd task counts (`CountCrowd`),
looks for an investigation of the host and hour (`FindCluster`) and inserts one
(`OpenCluster`). Alerts are numbered by `created_at` and may be committed in another
order. Lengths of group ids are kept because the column takes 64 characters. Left
out: titles that match several stages, a chain that names a stage twice, optional
stages, and the notification.

`AlertDesk` has alerts of severity high or critical. `picked[w]` is what sweep `w`
selected, with the notes it read, `edit[u]` what the request of analyst `u` will
write: the columns it changed and no others. Notes are sequences of paragraphs;
an analyst sends none, new ones, or those that were shown, continued.

`Fleet` is the row of one agent. A request loads it (`Authenticate`, `FindHost`,
`LoadAgent`) and writes it at its commit (`RecordHeartbeat`, `ReEnroll`, `SetState`);
SQLAlchemy leaves a column out of the UPDATE if the value assigned is the value
loaded (`StatusWritten`, `Dating`), which is where another commit in between
shows. `CheckAgentStatus` is the transaction of the sweep, whose UPDATEs look at the
row again under its lock; any number of workers run it. `silence` is the age of
`last_seen_at` in the three classes the sweep tells apart. `trail` are the states
written to `response_actions`. `outrun` and `mingled` are history: the status
changed under the last heartbeat, or an order under the last one. The state
MUTED is set by no route.

`Assignments` is one investigation. The UPDATE of `_deactivate_current` takes its
snapshot (`DeactivateCurrent`), waits for the transactions that hold rows of it and
looks at these rows again (`LockRows`); `Assign` is insertion, flush and commit. A
row is named by its request. `alone` are the requests that no other overlapped.
`unassign`, `escalate` and `transfer` are called by no code of the repository.

`Platform` is the product of these four with `ApiServer`. They share no variable;
the death of the API process takes the open requests of agents and analysts along.

### Broadcast

From `broadcast_event` over Redis pub/sub and the listener to the queue and the
WebSocket of each subscriber. `Listening` are the processes that run a listener,
`ProcessOf(c)` the process whose memory holds connection `c`.

## Runs

| Run | Question | Result |
|---|---|---|
| `normalization` | the consumer: at-least-once, no loss, no redelivery after acknowledgement, no starvation; the stage: acknowledged implies stored and published, unpublished implies retried, every parsable event arrives | holds |
| `normalization_duplicates` | one row per stream id, as the handler's comment says | violated |
| `detection` | one alert per rule, count and quiet period under faults; counts, keys and announced alerts agree without | holds |
| `detection_each_count` | only the first alert of a rule and host fires in a suppression window, as `build_suppression_key` says | violated |
| `detection_lost_alert` | a key implies its alert fired, as `SuppressionStore` says | violated |
| `agent_delivery` | no line skipped, every row accounted for and gone in the end, retries deduplicated | holds |
| `correlation` | published correlations can be read, acknowledged ones exist, calm groups are whole | holds |
| `correlation_history_lost` | history is kept until 7 days of inactivity, as `grouping.py` says | violated |
| `investigation` | acknowledged correlations are reported, calm rows are whole and mailed once, one playbook | holds |
| `investigation_status` | status moves along the transition table | violated |
| `platform` | tokens, agents, audit trail, sessions, locks, presence, chains, crowds, escalation, heartbeats, containment, assignments | holds |
| `realtime_undelivered` | every backend process receives a broadcast event, as `broadcast.py` says | violated |

The six violated properties quote a comment or docstring; `findings` in
`PROJECT.json` tells each counterexample.

*Calm* in the name of a property means that handlers did not overlap, nothing
failed and no key expired. The code does not promise more there, and TLC finds a
counterexample for the property without the condition: two overlapping handlers
of one group overwrite each other's metadata or row.

`StreamConsumer` is checked as the loop of the normalization stage, whose handler
steps refine `HandlerOk` and `HandlerFails`; its properties are those of every stage.

### Bounds

- `Consumer`, `Worker`, `Sweeper`: two. The code only distinguishes "this worker"
  from "another"; a third adds no new kind of step. One in the two violation runs
  where the second plays no part.
- `MaxEntries`: four in `normalization` (with `BatchSize = 2` this gives a batch that
  is not the whole PEL), three in `detection_each_count`, two or one elsewhere.
  `StreamMaxLen` is two in `normalization`, so that trimming takes unread and pending
  entries; elsewhere it is the number of entries, so that nothing hides in trimming.
- `MaxFaults`, `MaxErrors`: one error or death, anywhere, and none where a violation
  needs none. One is enough for every violation above; the theorems hold for any
  number.
- `MaxExpiries`, `MaxForgotten`: one expiry of each suppression or mapping key, one of
  an idempotency key.
- `OneMishap` (of `correlation` and `detection`): a fault or an expired key, not both.
  `ShellFirst` (of `detection`): the pattern rule, which never fires there, is
  evaluated before the threshold rule. Rules share no key, so the order only
  multiplies states. Two different events, so that counts 1 and 2 both occur; an event is
  counted again by a redelivery. That it is not either when two entries hold it
  (`EventOf`) is in the theorem `CountsAreOfEvents`.
  `OneOccurrence` (of `investigation`): one of a fault, a swallowed error, an expired
  snapshot, a stored alert, an analyst's change. Two at once exceed five minutes;
  the theorems cover them for what they state.
- `RateLimit`, `Threshold`, `MaxAlerts`: 1 where the limit must be reached, larger
  where it must not.
- `Lines`, `BatchSize`: one line, batches of one; `Attempts`, `MaxRetries`: two (the
  code has 3 attempts and 5 retries). `MaxDraws = 5` is more than the drains the line
  can take part in (two nacks, twice if it is read again after a crash), so the
  bound never stops the drainer.
- `platform`: `OneMoves` lets one of the seven parts move in a behaviour. They share
  no variable (theorems `PartsAreIndependent` and `PlatformParts`), so a violation
  in a behaviour of several is one of a behaviour of one. Four requests and four
  calls, numbered in the order they arrive (`InOrder`), which is a symmetry of the
  model: four are two that overlap, one between them and one after. One token, one
  host, two backup codes, three connections of two analysts. Four alerts of three stages
  and none, two chains that share a stage, with windows of 30 and 60 minutes;
  `Limit = 3` where the code has 50, so that the fourth alert pushes one out; two
  severe alerts make a crowd. `MaxOccurrences = 2` deletions, alerts
  leaving a window, turns of the hour, lost locks or mishaps with up to three alerts,
  none with four; `OneKind` keeps the
  two kinds of tasks apart, which read nothing the other writes. One alert, two
  sweeps and two requests on the desk. Two heartbeats and one enrolment of a known
  host, three orders, three assignments to two analysts: two that overlap and one
  after. The enrolment and the orders stand for what overtakes a heartbeat. `MCPlInit` starts with an outdated password
  hash, the case in which a login writes one, and with an investigation that was
  opened for an analyst and has no assignment row.
- `QueueMaxSize = 1`, one event and one connection in `realtime_undelivered`.

### Fairness

- `StreamConsumer!FairSpec`: a started worker goes on (asyncio schedules it), a
  dead one is started again (`restart: unless-stopped`, `docker-compose.yml`), a
  pending entry becomes idle (time). No fairness for faults, which are finite.
  `EventuallyAcked` needs `BatchSize` larger than the number of poison entries:
  XAUTOCLAIM scans from `0-0` with COUNT `BATCH_SIZE`, so as many old poison entries as
  that would be all it ever returns.
- `NFairSpec`: the same, with the steps of the handler.
- `AFairSpec`: both threads go on, requests end, backoffs run out. `Refused` is one
  of the drainer's fair steps, so a server that never accepts is included.
- `BFairness`: the listeners and the senders of WebSockets go on. The violation of
  `BroadcastsArrive` is therefore not one of a system that stops.

Deadlock checking is on in every run but `platform` and `realtime_undelivered`:
there each request, connection and event occurs at most once, and the model stops
when all have.

## Proofs

All theorems hold for every number of workers, entries, lines, requests, tokens,
calls, connections, alerts, sweeps, heartbeats, orders and assignments, every batch size and every number of
faults, under the named assumptions on the constants (`ConsumerAssumption`,
`AgentAssumption`, `DetectionAssumption`, `CorrelationAssumption`,
`InvestigationAssumption`, `NoneAssumption`, `NoCallAssumption`, `CodeAssumption`,
`UserOfAssumption`, `NoOneAssumption`, `AlertAssumption`, `EditorAssumption`),
which TLC evaluates in the runs. Apart from types they only say that the values
standing for "none" are none of the others and that thresholds are not zero
(`Threshold`, `MinStages`, `Crowd`; the built-in rules and chains have at least 3 and 2,
`VOLUME_THRESHOLD` is 3; a threshold of 0 would act as one of 1, since an evaluation
counts its own event first). TLC checked each inductive invariant on the instances above before it was proved.

**StreamConsumer** (`Spec`). `AckedWasHandled` and `DeliveredIsTracked` are not
inductive: XACK is allowed by `returned[c]`, so that flag must imply that the head
of the batch is in `handled`; XREADGROUP moves `lastDelivered`, so everything it
passes must be below it and enter the PEL. `IInv` states this: PEL,
acknowledged and handled entries and batches lie in what was delivered, PEL and
`acked` are disjoint, a returned handler's entry is handled, and nothing was
delivered before the group exists. It is preserved action by action
(`NextIInv`); `Invariance`, `AcknowledgedWasHandled` and `NothingForgotten`
follow. `NoRefetch` uses that a fetch takes entries above `lastDelivered` or in the
PEL, and `acked` has neither. `Refinement` maps every step to one of
`AtLeastOnce` or a stutter (`StepRefines`).

**The stages** reuse `IInv`: their steps are steps of `StreamConsumer` or leave its
variables alone, so `acked` is within `handled`, and it remains to show that
`handled` implies what the handler did.

- `NormalizationStage`: `NIInv` says of a handler past its commit that the row it
  holds is in `rows` and is the head's, and of a handled entry that it is stored and
  published. `UnpublishedRetried` then follows: a row that was not published belongs
  to an entry that is not handled, hence not acknowledged, hence pending.
  `PromptRowsAreUnique` says when the violated claim of `normalization_duplicates` does
  hold: as long as nothing failed and no entry sat idle long enough to be claimed,
  an entry is in one batch at most and has one row (`OnceInv`). It takes a fault or a
  claim to get a second one.
- `DetectionStage`: in `DIInv`, `OnDuty` gives a handler the data of its phase: a count
  that delivered events account for where it is about to ask for the key, an empty
  session outside. Windows hold delivered events only, each once, hence
  `CountsAreOfEvents`. `OneAlertPerRule` needs `AlertsHaveKeys`: the alert of the current
  period of a key is there only while the key is, so the SET NX that lets a second one
  through comes after an expiry, in a new period. Two alerts of one rule and
  different keys differ in their counts, which only threshold rules have
  (`PatternsHaveNoCount`). `SuppressedForAnAlert` and
  `AnnouncedAlertsExist` are about behaviours without faults: the alert of a key goes
  from the session of its handler to the table without getting lost.
  `FirstAlertsFire` concludes that there the claim violated in `detection_lost_alert`
  holds, if no user's suppression rule discards alerts after the key is set.
- `CorrelationStage`: `CIInv` gives each running handler the effects of the commands
  behind it (`OnTrack`): at "snap" the event is a member, at "publish" the snapshot
  is there. Members and snapshots only grow, which is why other workers and retries
  do not matter. The metadata does not only grow: for `CalmGroupsWhole`, `CalmInv`
  adds that one handler is at work (`AloneAtWork`), that it founds a group only where
  there is none because whoever writes a key also writes the hash behind it
  (`FoundersMapped`, `MappedFounded`), and that what it read is still what the hash
  holds when it writes (`CalmWork`). `CalmHistoryKept` is the action property: in these
  behaviours no step takes an event out of a group.
- `InvestigationStage`: `InvInvariant` says that the correlation workers wrote the
  group before the entry, that a running handler has its event in hand, or the
  snapshot expired, and that for an investigation that was never `crowded` there is
  at most one playbook or one task past its check. `CalmRowsWhole` and `CalmNotices`
  need that a row was built from snapshots its group still has, so that the next
  handler reads no less than the row it replaces, and that the handler knows whether
  there was a row (`CalmWork`, `RowsFromGroups`); no other handler intervenes.
- Each stage implements `AtLeastOnce` (`NormalizationRefines`, `DetectionRefines`,
  `CorrelationRefines`, `InvestigationRefines`): its behaviours, with the state of the
  handler forgotten, are behaviours of `StreamConsumer`, to which `Refinement` applies.
  A rule that raises inside `evaluate()` has no counterpart there and is a stutter.

**AgentDelivery** (`ASpec`). `AgentTypeCorrect` contains that the rows of the drain
in progress are in the queue and due. `AgentSkipsNoLine` follows from `ReaderInv`:
lines up to the position in memory are queued or in the reader's hands.
`AgentAccountsForEveryLine` needs `HandlerInv` (a seen id is in the stream, an id
about to be marked too) and `AnswerInv` (each event the agent waits for is
unfinished at its worker, in the stream, or counted as rejected): at a 200 answer
nothing is unfinished. `RetriesAreDeduplicated` needs `DrawnInv` (ids are drawn once),
`RequestInv` and `OnceInv`: an id that is not exposed is before at most one
worker, the one the agent waits for while it is posted, and once in the stream it
is marked or about to be.

**Enrollment** (`EnSpec`). `TokenIsSingleUse` rests on `TokenInv`: the row lock is held
by one request, and while an enrolment holds it the committed status stays pending,
so a second claim finds the lock or a status it may not claim. `RevokedTokenIsUnused`
adds that a revocation next to an enrolment has crossed it. `HistoryInv` is for the
two properties without a lock: requests in flight at the same time have met, a
request about to insert an agent has met those that inserted it meanwhile, and the
audit trail is ordered by `created_at` as far as requests did not meet.

**Sessions** (`SeSpec`). `SeInv` says of each open call what it read and what has
become of it: a session being opened is of the last change or `mixed`; what a bulk
revocation missed is `mixed`; what was spent is not valid any more, and every open
call that found it before has met the spender.

**Platform** (`PlSpec`). `LockInv`: unless a release deleted a lock in use, analysts
are told of the current lock only, a connection about to tell of its lock holds
it, and one about to delete it belongs to its analyst. `ChainInv`: the owners of clusters are the committed chain alerts and the ones
tasks are about to commit (`Owners`); the cluster of an owner is locked, and has no second owner, unless its
lock was lost after an insertion.
`AccumulationsAreNoticed` needs `NoticeInv`: while nothing failed, as soon as the alerts
in reach show enough stages of a chain, that chain is attended (`ChainAttended`): some
task has yet to load, or there is an answer, committed or about to be, by a task that
owns the lock of its cluster or is about to ask for it (`Attended`, `Claims`). The alert committed last is the witness: its task looks after its
commit, what it loads contains all that the limit cannot keep from it
(`ReachIsLoaded`), and the newest alert of each stage that it picks covers every
stage there is (`Newest`, `MatchCovers`; the stored alerts are finitely many). Its
loop then stops at the chain or at an earlier one that matches, which answers
(`LoopAnswers`); a task refused the lock is covered by the owner of the cluster, and
what answered goes on answering (`AnswersStay`). Deletions, alerts that leave a window
and newer ones that push others out of reach only leave less to notice
(`ShrinkingIsAttended`). The crowd has the same argument with one step. `NotesInv`: the notes a sweep read hold no escalation and those an edit
sends at most one, so whichever is written last, there is one. `FlInv` is
inductive as it stands, since `outrun` and `mingled` are taken at the commit: a
heartbeat under which nothing changed writes ONLINE or finds it, and a sweep meets
silent agents only. `AloneInv`: a request that is alone read the column as it is, its
UPDATE saw every active row and marks them all. `PartsAreIndependent` and
`PlatformParts` project a behaviour of the platform on its parts and carry the
theorems about tokens, audit trail, sessions and workspace over
(`TransactionsStayCorrect`).

Type invariants are proved with the inductive invariants (`TypeCorrect`,
`NTypeCorrect`, `DetectionTypeCorrect`, `CInvariance`, `InvestigationInvariance`, `AgentTypeCorrect`,
`EnrollmentInvariance`, `SessionsInvariance`, `PlatformTypeCorrect`). No run checks
`TypeOK`, `ATypeOK` and `PlatformTypeOK`.

Every safety invariant a run finds true is a theorem, and so are the action
property `NeverRefetched` and the refinement `ImplementsAtLeastOnce`. Only
model-checked are the liveness properties `EventuallyAcked`, `EventuallyNormalized` and
`RowsLeave`: fairness and ENABLED are out of the prover's reach. The six violated
properties are no theorems; for three of them a theorem says when they hold
(`PromptRowsAreUnique`, `FirstAlertsFire`, `CalmHistoryKept`).

## Observations without a run

Met while modelling; each follows from the lines named, none is a property here.

- `investigations.investigation_group_id` is VARCHAR(64) (`models/investigation.py:37`,
  created in migration 005). The group id of a chain investigation has 75 characters
  (`detection/attack_chain/correlator.py:314`), so `_auto_create_investigation`'s row
  is always refused, which its `except` logs: the investigation "that analysts can
  open immediately after a chain fires" (line 306) is never there. The id of a crowd
  has 57 characters and the host name (line 421), so hosts of eight and more
  characters get none. The model has both (`Fits`); `AccumulationIsNoticed` names the
  exception.
- Crowd investigations of short host names can be duplicated: SELECT and INSERT
  without a unique constraint, against the docstring at line 379.
- A task that is refused the lock of a cluster gives up; if the owner then fails and
  deletes the key "so the next replica can retry" (line 73), nobody does.
- A chain task ends after its first chain alert, because the session of the refused
  investigation is of no use any more (`correlator.py:358`); chains later in the list
  wait for another alert. A second chain that the same alerts satisfy is refused at
  the lock (line 129). `AccumulationIsNoticed` lets an earlier chain answer for both.
- With 50 newer alerts of the host an older stage of a chain is never loaded
  (line 195): a burst of alerts hides it, although it is in the window.
- Each further alert that is newer for its stage gives a new fingerprint and one
  more chain alert.
- The sweep's UPDATE looks at the id only: an alert acknowledged after the SELECT is
  marked as escalated, and an analyst's note written meanwhile is overwritten.
- `revoke_token` ends as revoked although an enrolment committed in between
  (`crossed`), and the agent keeps its credentials.
- A heartbeat that loaded ONLINE while a sweep was about to commit OFFLINE leaves the
  agent offline until its next heartbeat (`outrun`).
- A release that overlaps a quarantine may leave the agent contained although the
  last response action says "release" (`mingled`).
- Two overlapping assignments leave two active rows, where `analyst/assignment.py:7`
  speaks of the one that is current.
- The docstring of the installer route (`api/v1/installer.py:308`) sets a token FAILED
  when enrolment fails; an error of the database rolls everything back, and the
  token is pending again. The same rollback takes the mark "expired" and the audit
  entry of a refused request with it.
- `release` of an edit lock may delete another analyst's lock (`snatched`), against the
  header of `realtime/locks.py:15`.
- A dead API process leaves its analysts in `presence:online_set`; only `list_online`
  would remove them, and nothing calls it.
- `playbook_service.complete_step` counts the finished steps before the last one is
  flushed (`autoflush=False`), so the playbook it should complete stays open.

## Not modelled, and why

Most of the code is not about state that processes share. Parsing, field mapping,
Sigma matching, rule tables (`detection/default_rules.py`), scoring, graph and
timeline building are functions of their input, tested better than
model-checked. REST routes and dashboards are CRUD in one transaction per
request over rows nobody else writes, and reports; demo data and evaluation
scripts (`services/demo_service.py`, `backend/eval_accuracy.py`) are tools. E-mail,
LLM calls, metrics and logging change no state a property is about. UEBA and
threat intelligence are counters and caches whose results only raise scores.
The frontend is a client of the API; `agent/soc_agent_v2.py` is an older copy of
the agent, which the installer does not serve.

Of the components modelled in part, `PROJECT.json` names what is left out. The
larger omissions: the retention and baseline sweeps; the hot reload of
tenants (a tenant's consumers exist or not, and entries before the group are
outside every promise); file integrity, remote commands and the heartbeat thread of
the agent; the realtime worker that turns stream entries into broadcast events and the
resync of a client; registration, e-mail verification and set-up of MFA;
`check_rate_limit` (`core/redis.py:290`, INCR and EXPIRE in two commands). Redis
eviction (`allkeys-lru` in `docker-compose.yml`) can remove a whole stream with its
group; consumers then log NOGROUP until they are restarted. That is an
operational limit of the deployment and outside these models.

The map covers a small share of the repository's lines for that reason: the
lines that decide how concurrent processes meet are few.

## Running

    tlc -workers 2 -config MCNormalization.cfg MCNormalizationStage
    tlc -workers 2 -config MCPlatform.cfg MCPlatform     # two to three minutes
    tlapm StreamConsumerProofs.tla
