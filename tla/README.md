# Nexus Admin Assistant in TLA+

Nexus Admin Assistant is a Flask application, one process with many threads, in
which a language model administers servers over SSH. A person talks to it in a
web page or in Telegram; scheduled jobs and service checks run it unattended.
What has to be right is less any single function than what happens when the
agent's thread, the requests that answer or stop it, the scheduler, the poller
and the Telegram bridge meet. This directory models those parts, checks them
with TLC on small instances, and proves the most important statements with
TLAPS for instances of every size.

Paths of the code below are relative to the repository.

## 1. Inventory

| Part | Where | State it keeps | Operations |
|---|---|---|---|
| Safety policy | `agent/policy.py` | none | classify a command, a path, a call; decide run, ask, defer |
| Agent run | `agent/core.py` | one `Run`: `pending`, `stop_flag`, `auto_approve`, `envelope`, `deferred_count`; the thread of `_drive` | LLM round, tool call, gate, wait for an answer, plan, run a tool, `confirm`, `stop` |
| Run registry, streams, conversations | `agent/core.py`, `app.py`, `telegrambot.py` | `RUNS`, `run.q`, `run.finished`; tables conversations, messages | start, emit, finish, reap, stream, clean up, create, delete, clear |
| Job scheduler | `schedule.py`, `app.py` | table jobs; `_fired`; run threads | tick, fire, run, report, retire a one-off; create, edit, delete, run now |
| Deferred inbox | `schedule.py`, `telegrambot.py`, `app.py` | table deferred_actions; `_pending` tokens; audit | defer, approve, deny, press a button, add to the allow-list |
| Service checks, auto-fix | `services.py`, `app.py` | table service_checks; poller and repair threads | poll, test, probe, fold, repair, re-probe; edit, delete |
| Probes | `services.py` 74-296 | none | TCP, SSH, SMB, ping, DNS, HTTP, certificate |
| Change journal | `changes.py`, `agent/tools/files.py`, `app.py` | table change_journal; remote files | read, write, record; revert |
| Host monitor | `monitor.py` | `_snap`, `_prev_issues`; table host_metrics | poll, alert on new issues |
| Telegram bridge | `telegrambot.py` | `_offset`, `_pending`, `_chat_host`; a thread per update | long poll, commands, buttons, start and listen to a run |
| Settings | `store/settings.py`, `app.py` | one JSON document | read, set a section |
| Database | `store/db.py` | the SQLite file, `schema_migrations` | one statement at a time, migrations |
| Users and authorisation | `auth.py`, `app.py` | table users, sessions | create, change role, delete; login, host scope |
| Inventory, credentials | `inventory.py`, `provision.py`, `app.py` | hosts, credentials; `authorized_keys` of the machines | create, edit, delete, detach; provision a key, deploy a shared one, test |
| Skills, memory | `skills.py`, `memory.py` | their tables | CRUD, search, lint |
| Start of a process | `app.py` `boot`, `config.py` | `config.json`, the key in memory | load or make the key, migrate, first admin and mission, guard |
| Backup, TLS | `backup.py`, `tls.py` | `naa.db`, its log, `config.json`; certificate, key and their temporary files | snapshot, restore and exit; upload, generate, install |
| LLM client, prompts | `agent/llm.py`, `agent/prompts.py` | the reply being put together | stream a reply, parse its calls |
| Tools | `agent/tools/` | none here; the remote hosts | run a command, write a file, ... |
| Front end | `static/`, `templates/` | browser | render, send requests |

**How they interact.** `POST /api/agent/send` saves a message and starts a run;
its thread emits events into `run.q`, which an SSE request (or the Telegram
thread that started it) drains. The thread asks for approval by putting a
prompt in `run.pending` and waiting on an event; `confirm()` on another thread
finds the prompt by call id, stores the decision and sets the event; `stop()`
sets the flag and wakes every prompt. The scheduler and the repair threads run
the same loop with `run.unattended`: an action outside the envelope goes to
`record_deferred`, which inserts a row and pushes a Telegram button. A web
request or that button later approves the row, which runs the tool and may
update the job. The poller calls `run_check`, which may start a repair thread,
which runs the agent and then calls `run_check` again. Components share the
database, where each statement is atomic and nothing longer is
(`store/db.py:62-68`).
Telegram's updates each get a thread, which may change the chat's host or start
a run as the account the settings name. What the model answers comes through the
LLM client as a list of calls; one of them may save a playbook that a person
later approves. All of it lives on one data directory, which a starting process
migrates and a restore replaces.

**What is hard here.** Nearly every operation is read, slow step, write, with
other threads in between: `update()` of a job, `approve_deferred`, `run_check`,
`DELETE /api/conversations`. Waits race their timeouts (15 minutes for a
person, 15 seconds for a keepalive, 20 minutes in Telegram). Threads die with
the process and rows do not. Pairs of files are replaced one by one. Answers of
Telegram and of the model are lost or cut. `PROJECT.json` lists the hazards with their lines
and with the properties that watch them.

**What makes each part correct.**

- *Agent run*: no tool starts without the authority its risk needs; an edit on
  the card does not lower what is asked; a denial is final; Stop is heeded; a
  job never waits for a person and says what it skipped; every run ends.
- *Registry*: a running run can be found; its conversation is not deleted under
  it; streams end; finished runs are forgotten.
- *Scheduler*: a cron job starts once in a minute it matches, and not again
  unless the process is restarted within it; a one-off is run and retired; a
  deleted job stays deleted.
- *Inbox*: an approved action runs once; every decision is audited; a late
  denial changes nothing; an approval changes the allow-list only.
- *Change journal*: a revert puts back what the agent's write replaced; a row
  says reverted only after that happened; reverts are audited.
- *Monitor*: every host is polled; an issue is alerted once it appears, not held
  back because of a race, and again after a restart.
- *Hosts and credentials*: a blank field never loses a secret; testing a form
  tests what saving it would store; switching to another key never locks the
  application out.
- *Telegram*: an instruction is carried out once, and on the host its chat was
  told of.
- *Users*: a name is one person's.
- *Data directory*: the key opens the database, a whole installation leaves a
  certificate and a key that match, a process that serves has the whole schema, and a crash anywhere
  leaves something the next start can use.
- *Model client and playbooks*: what runs is what the model meant; a text is
  stored whole; approval is a person's.
- *Checks*: a sustained failure becomes down; repairs respect the cooldown, do
  not overlap and are retried; one check does not stop the others.

## 2. Modules

`MC*` modules give the constants of the module they extend small values;
`*Proofs` modules hold its theorems. Three of them also hold those of a second
module that the first works beside: `RunRegistryProofs` of `DeferredInbox` (runs,
and what unattended ones leave for people to decide), `HostMonitorProofs` of
`ServiceCheck` (the two pollers), `ChangeJournalProofs` of `Playbooks` (what the
agent leaves behind). The two have no state in common, and so that a module can extend both, the specifications of
the second are called `InboxSpec`, `ChecksSpec` and `PlaybooksSpec`.

### Policy (`agent/policy.py`)

Operators only. A risk level is its rank in `LEVELS`. A command is the record
of what the expressions of the classifier see in it: the levels whose rules
match, whether a construct makes it opaque, and the kinds of the segments it
splits into; `ClassifyCommand`, `ClassifyPath`, `Classify`, `UnattendedRuns`,
`ClampCeiling`, `EnvelopeCovers` and `NeedsConfirmation` are the functions of
the same names. An allow-list is the set of commands that contain one of its
entries.

### AgentRun (`agent/core.py`)

One run. `pc` is where its thread is: at the head of the `MAX_ITERS` loop
(`top`), in the LLM request (`chat`), between two calls of a reply (`reply`),
at the gate (`gate`), waiting for a person (`waiting`), after the wait and
before the prompt is removed (`woken`, `expired`), in a tool (`running`),
finished (`done`). The thread is split wherever another thread can act; between
two of these points it holds no state others see.

| Actions | Code |
|---|---|
| `LoopTop`, `LlmReply`, `ReplyDone`, `TakeCall` | the loops of `_drive`, the head of `_run_tool`, `_resolve_target` |
| `UnattendedGate` | `_run_tool` for a job: run, defer and tell `on_defer`, refuse a plan |
| `GatePasses`, `GateAsks` | the confirmation loop: autonomy, session approval, envelope, or a prompt |
| `Wake`, `Timeout`, `TakeAnswer` | `_await_confirmation` and what its result decides |
| `TakePlanApproval` | `_propose_plan` |
| `TakeRiskierEdit` | an edited command whose new level has to be asked for again |
| `ToolReturns`, `AgentFails` | `_execute`; the `except` and `finally` of `_drive` |
| `Confirm`, `StopSetsFlag`, `StopWakes` | `confirm()`, and `stop()` in its two steps |

The model asks for any call of `Requests`, in any order and number up to
`MaxCalls` a reply, with call ids that may repeat, which is what
`agent/llm.py:116` and `161` produce when a provider sends none. History
variables (`card`, `answered`, `sessionBy`, the fields `by` and `stale`) record
who answered what, `brought` and `settled` what became of a job's calls; no guard
reads them. Who may answer is `MayAnswer`: an account `may_control` accepts, and,
for a run the Telegram bridge started (`bridged`), nobody at all (`NoUser`),
because the bot passes `_app_user()`, which is `None` when no account is left to
act as, and `confirm` asks no more of `None` (`agent/core.py:208`,
`telegrambot.py:327`).

### ApprovalGate (`agent/core.py`), implemented by AgentRun

What a gate promises, without threads, prompts, ids or timeouts: an action is
judged, carried out if it needs nobody's word or there is a standing one, asked
for otherwise, carried out after a "yes", dropped in any other case; words are
heard only while they are asked for; the end is the end. `AgentRun` maps its
state to it (`StageOf`, `IsSerious`, `VerdictOf`, `StandingOf`) and `ImplementsGate` says
every step is one of the gate's or none. The interesting obligations are that a
decision in the dictionary of prompts is the word on the action in hand and on
no other, and that an approval which was read but found to cover a riskier edit
is a new question.

### RunRegistry (`agent/core.py`, `app.py`, `telegrambot.py`)

Conversations, the threads that start runs, the runs, `RUNS` (`listed`), the
queues, SSE streams, Telegram listeners (`bots`), and delete and clear requests.
A run here only emits, saves and finishes: `AgentRun` is what happens inside.
`Sends`, `InsertsMessage` and `Starts` are the three steps of
`POST /api/agent/send`; `SeesActive`, `Selects` and `Deletes` those of clearing;
`TakesEvent`, `SendsEvent`, `WaitsInVain`, `KeepsAlive`, `Disconnects` and
`CleansUp` the generator of the stream, which is left where it stands when its
client is gone. `known` is a history variable: the runs that existed when a
request looked.

### CronRule and JobScheduler (`schedule.py`)

`CronRule` has operators only: `ParseField`, `IsValidCron`, `CronMatch` and
`NextLocal` are `_parse_field`, `is_valid_cron`, `cron_match` and the loop of
`compute_next_run`, over a calendar whose sizes are constants, so that a small
one can be searched whole. A zone is the local time of each minute; `StandsFor`
is what `astimezone` makes of a local time that is skipped or repeated.

`JobScheduler` has the rows of `jobs` with what firing depends on (kind, time,
enabled), the tick in progress with the list it read, `_fired` (local times, as
in the code), run threads, and PUT requests between `update()`'s read and write.
A schedule is the set of local times an expression matches, or the one of a
one-off. `Advance` lets a minute pass at any time, whether ticks saw it, failed or
never came. `Restart` drops everything that is not a row, `_fired` too. `starts`
and `boots` are history, and survive it: the starts of each job and the restarts
in each minute; `seen` holds the jobs a tick of the present minute got past,
`touched` those somebody changed in it.

### DeferredInbox (`schedule.py`, `telegrambot.py`, `app.py`)

Rows of `deferred_actions` and of `jobs` (ceiling and allow-list), buttons per
chat (each with a token of its own; `/approvals` mints another), and actors that go through a decision statement by statement: look, run
the tool, mark, read the job, `update()`'s read and write, audit. `ran`,
`audits` and `lost` are history.

### ServiceCheck (`services.py`)

Rows of `service_checks` split into settings and state, and the threads that
execute `run_check`: the poller, Test requests, repairs. Time is reduced to
whether the interval of a check is over (`due`) and how old its last repair is
(`age`, in units of a cooldown, which is a setting people edit). `dueChecks` is
what the cycle has still to run, `services` what a probe would report. `Seen` is
what `run_check` keeps of the row it read: the age in it grows with the clock
(`Ages`), because the row holds the time of the repair, but its cooldown stays what it
was. `fold_result` is `FoldStatus` and `FoldCount`.

### ChangeJournal (`changes.py`, `agent/tools/files.py`, `app.py`)

One host. `disk` holds its files, `journal` the rows of `change_journal`.
`write_remote_file` is `StartsWrite`, `Reads` or `ReadFails`, `Pushes` or
`PushFails`, `Records` or `RecordFails`; the revert is `AsksRevert`, `Undoes` or
`UndoFails`, `Marks`, `Audits`. Every one is an SSH session or a statement, so
they are separate steps. A content is a value and the constant `Captured` says
what a read brings back of it, because `ssh.run` strips terminal controls and
the journal keeps the first 400,000 characters: with a `Captured` that is not
the identity a revert is not faithful, and `UndoRestores` says for which files
it is. A failed push may have done nothing, truncated the file, or written it.

### Settings (`store/settings.py`) and HostMonitor (`monitor.py`)

`Settings` is the document with its requests: `Loads`, then `Saves` or
`Rejects`. `HostMonitor` extends it: the webhook it alerts through (`Hook`) is a
section of that document, and a request that changes another section can write
an old one back. `CycleStarts` and `CycleTakes` are the loop, `PollAsked` the
request, and `Probes`, `Stores`, `Fails`, `Compares`, `Remembers` and `Notifies`
the statements of `poll_host` and `_check_alerts`. A reading is reduced to the
thresholds of `compute_status`. `told` and `unhooked` are history: what was sent,
and whether somebody asked for no webhook.

### HostVault (`inventory.py`, `provision.py`, `app.py`)

Hosts, shared credentials, and what the machines accept (`accepted`: address,
user and secret). `SecretsFor` is `secrets_for`, `Opens` what `connect` offers.
An edit is `EditAsked` and `Edits`; the deletion of a credential `Detaches` and
`Drops`. `Provisions` and `DeploysCredential` read the row and its secrets, then
`Deploys`, `Tests` and `Switches` work from what was read; any of them can fail.
The machines change under them (`ChangesOutside`). `lastKey` and `tampered` are
history.

### Accounts (`auth.py`) and TelegramBridge (`telegrambot.py`)

`Accounts` is the table of users with the requests of administrators: the name
is found free and then inserted (`AsksToCreate`, `Creates`), the administrators
are counted (`Looks`) and then one is deleted (`Deletes`). The column `username` is
unique, so the insertion of a name that was taken meanwhile fails. `TelegramBridge` extends it, because the bot
acts as one of the accounts. Telegram keeps what was `sent` from `confirmed` on;
`Polls` and `HandsOut` are `_poll_loop`, `PollFails` an answer lost after Telegram
took the offset in; `Refuses` to `StartFails` are the thread of one update in
the steps between which others can act. `belief` and `expects` are history: the
host a chat was last told, and what an instruction was sent in the belief of;
`Unsure` while a `/use` is on its way. Once sent, an instruction keeps what it
expects.

### ServingCert (`tls.py`) and DataDir (`store/db.py`, `config.py`, `backup.py`, `app.py`)

`ServingCert` is the certificate and the key: `Writes`, `Moves` and `Cleans` are
`_write_atomic`, once for each file, and `InstallFails` an `OSError` in any of
them. An installation knows whether it ran `alone`; `torn` is set when one is cut,
fails or meets another, and reset when one that ran alone is whole. `DataDir`
extends it with `config.json`,
`naa.db` and its log, the processes in their way through `boot()` (`Loads`,
`WritesKey`, `Opens`, `Executes`, `Records`, `LooksForAdmin` ... `Guards`), and
backups and restores in flight. A database is the set of migration statements
executed, the versions recorded, the keys its secrets are sealed with, whether
it has an account and a mission, which people may remove (`EditsData`), and
whether it is spoiled: opened with a log that is not its own. Of a spoiled one
nothing is known: whatever a start looks for it may find or miss (`Found`), and
any statement of a start may raise (`Chokes`), at every start if it so happens. Any process can die
between any two steps (`Crash`), the supervisor starts it again, and another may
be started beside it. `parted` and `raced` are history: they name what the
documentation cannot promise.

### LlmClient (`agent/llm.py`) and Playbooks (`skills.py`, `agent/tools/skilltool.py`)

`LlmClient` is one streamed reply: the calls the model meant, the pieces they
come in, and the two ways of putting them together (`ReceivesDelta` by index,
`ReceivesBlock` by the current block). The place in the stream is the call and
the part of it that come next. A piece may be unreadable (`Skips`), the
stream may end early (`Ends`) or break (`Breaks`). `Parsed` says what
`json.loads` can make of a text with pieces missing. `Playbooks` runs the calls:
a save looks the name up, then writes; a PUT may approve, then reads, then
writes. `blessed` and `unread` are history: the rows a person approved, and
whether a line of some reply could not be read.

## 3. What is checked

| Run | Instance | States | Shows |
|---|---|---|---|
| `agent_run` | an owner, an admin, another user, the bot without an account; hosts prod, lab and out of scope; nine calls over two ids, two edits, two plans; 2 rounds of 1 call; a conversation of the page or of a chat, and a job | 174 000 | the gate, its waits, a job's account of itself, and that it implements the abstract gate |
| `job_scheduler` | one job with the schedules of two cron expressions, three minutes of which the last repeats the local time of the second, 3 actions of people or restarts | 395 000 | starts of a minute, none missed; retirement; deletion; the rules of cron |
| `deferred_inbox` | one job and row, two deciding threads, two chats with two tokens, one edit in flight, one restart | 1 438 000 | audit, no denial over an approval |
| `service_check` | a check with auto-fix, whose cooldown may be made longer, and one that is only watched; one Test, one repair at a time, one edit, press or deletion | 130 000 | cooldown, escalation, retry, each check's turn |
| `run_registry` | one conversation and run, two streams, one remover | 39 000 | reachability, streams, reaper, deletion |
| `change_journal` | one file, three contents of which one is not captured whole, one writer, two reverts, two rows, one mishap | 594 000 | undo, its mark and its audit |
| `host_monitor` | two hosts, the cycle and one poll request, two settings requests over two sections, two mishaps | 579 000 | alerts, progress of the cycle |
| `telegram_bridge` | two chats, two hosts, three updates, three accounts over two names, two requests of administrators, 3 events of people or restarts | 187 000 | polling, threads of a chat, names |
| `data_dir` | two workers, two migrations of which one has two statements, three keys, an older backup and one without its key, two requests, two installations over two pairs, 3 events: requests, crashes, failures, removals | 814 000 | starts, restores, certificates |
| `playbooks` | replies of one or two calls in both protocols, two pieces a call, two people, three rows, 4 events | 1 063 000 | calls, texts, approval |
| `host_vault` | one host reached by password, own key or credential, two requests, two fresh keys, two mishaps | 436 000 | keys, tests of forms, switches |

What the properties say is written above each definition. In short:

- `RunsOnlyWithAuthority`, `ApprovedAtItsOwnRisk`, `PlanStaysInside`: whatever
  runs has the authority its risk, with its final arguments and on its host,
  calls for, given by somebody whose answer `confirm` takes.
- `ImplementsGate`, `StopEndsTheLoop`, `JobNeverWaits`, `EveryRunEnds`: the
  protocol between the thread and the requests that answer it. (`DenialIsFinal`,
  `LateAnswersAreInert` and `OnlyTheAwaitedPrompt` say parts of it more plainly;
  they are proved and in no run.)
- `FiresOncePerMinute`, `NoMinuteIsMissed`, `OneOffIsRetired`, `DeletedForGood`.
- `ResolutionsAreAudited`, `ApprovedStaysApproved`.
- `NoRepairInCooldown`, `SustainedFailureCommits`, `StillDownIsRetried`,
  `EveryCheckGetsItsTurn`.
- `RunningIsReachable`, `RefusesWhileActive`, `StreamsEnd`,
  `FinishedAreForgotten`.
- `UndoRestores`, `RevertedWasUndone`, `RevertsAreAudited`.
- `SuppressedWasTold`, `LastingIssueIsTold`.
- `LastKeyWins`, `TestMirrorsSave`, `SwitchKeepsAccess`.
- `HandledOncePerLife`, `EveryUpdateIsTaken`, `RunsWhereTold`, `NamesAreUnique`.
- `KeyStaysWithTheDatabase`, `PairMatches`, `UpMeansReady`, `ServesAgain`.
- `CallsAreThoseMeant`, `BodiesAreWhole`, `ApprovedByAPerson`.

Each module with variables has one type invariant. All are proved, those of
`Settings`, `Accounts`, `ServingCert` and `LlmClient` as part of the type
invariant of the module that extends them, and no run lists them.

The assumptions `NextRunIsTheTicks` and `FieldsCount` of `MCJobScheduler` search
the rules of `CronRule`: for 96 expressions in four zones (fixed offsets, clocks
put forward, clocks put back), the next run that is shown is the minute in which
the tick will next find a match, as long as no change of the clocks lies in
between.

**Why the bounds are enough.** Two call ids, of which one is asked for by
several different calls, and two rounds are what it takes for an answer to meet
a later prompt of the same id; three prompts are the code's own limit for one
call. Two minutes contain a boundary at which a tick that began in one minute
is still at work in the next. Two actors decide the same row, which is all a
race on one row needs. Two streams share a queue, and one of them takes the last
event. `MaxFails` is where `FoldCount` saturates: thresholds are not above it,
so larger counts behave the same. Two requests over one host
meet at every pair of their steps; two rows of the journal are what it takes for
a revert of the older to meet a newer write of the same file, and two settings requests for one to write
back what the other replaced. Three updates are a `/use`, an instruction sent
in its belief, and a second `/use`, of the same chat or another; three events
are a lost selection or a deleted host beside them. Two statements in one
migration are one point at which it can be cut; two workers are one too many for
the guard; an older backup needs a migration after it was restored, and its key
is another than the directory's. Two pieces make a beginning, an end and a hole
in a text, two calls an order. Two people and the agent meet over one name, and
three rows leave one to be inserted after a deletion. Two installations
overlap, or one follows what another left; a second check is what a first must
not hold up; a cooldown of two units can be read as one and be two by the time a
repair starts. Two requests for one free name are all a race for it needs. Every bound is a constant named in its
module, and the acts of people are counted, not those of threads. Deadlock is not
checked where the counted acts run out with nothing left to do: a full journal,
a vault without hosts, requests that all came to their end (`change_journal`,
`host_vault`, `telegram_bridge`, `playbooks`), and where a container finds one of
the two certificate files and does not start (`data_dir`).

**Fairness.** Weak fairness of a thread's own steps: the LLM client
(`timeout`), the tools (SSH and HTTP timeouts), `ev.wait(CONFIRM_TIMEOUT)`,
`q.get(timeout=15)` and the database (`busy_timeout`) all return, so a thread
that can move does. The monitor's cycle and the
revert of a change move for the same reason. Time passes: intervals and
cooldowns end, the reaper's timer fires. The poll
loop never ends and does not wait for handlers; that answers of Telegram are not
lost for ever is weak fairness of `Polls`, beside which `PollFails` may happen any
number of times. The supervisor (Docker, systemd, gunicorn) starts a process
that died. Crashes are counted. People are never fair: no liveness property relies on somebody answering,
approving, reconnecting or pressing Stop. The scheduler has one strong fairness
assumption, that a job the ticks keep finding is not lost to a failing tick
every time; `_loop` catches what a tick raises and nothing in a tick fails for
good.

## 4. Where code and text disagree

The run `finding_executed_once` checks a sentence of the repository that the code
does not meet: two approvals of one row both run its command
(`schedule.py:232-248`; the button says "Approve once").

Three more are stated at the end of their modules, in no run; TLC refutes each
when it is added to the cfg of its module:

- `AgentRun.AnswerIsForThisCard`: `confirm()` looks the prompt up by call id. An
  answer to a card the timeout has closed decides the next card with the same id
  (`README.md:393-396`, `agent/core.py:465`).
- `ServiceCheck.OneRepairAtATime`: the cooldown is measured from the start of a
  repair, whose length it does not know (`services.py:479-489`).
- `ChangeJournal.DeletesOnlyWhatItCreated`: a file that could not be read before
  the agent wrote it is recorded as one that did not exist, and its revert
  removes it (`agent/tools/files.py:18-23`, `app.py:956`).

Noticed while modelling:

- An approval that lands after `ev.wait` timed out and before the prompt is
  popped runs the tool, after the page was told "treating as denied"
  (`agent/core.py:564-572`).
- A one-off job is due at every tick until the first run of it ends, so one that
  takes longer than a tick is started again beside itself
  (`schedule.py:338-352`, `README.md:456`).
- `update()` of a job writes all columns of the row it read, so "approve and
  allow" can restore a ceiling that was just lowered (`schedule.py:164-181`,
  `agent/tools/schedtool.py:5-6`).
- A disk that goes from 85 % to 95 % raises no alert, because both thresholds
  have the key `disk`, and a probe that raises sets the host to bad without one
  (`monitor.py:71-91`, `175-179`; `README.md:470` has an alert when a host
  crosses a threshold).
- Deploying a credential to a host that has a key of its own leaves it on its
  own key (`inventory.py:160`), though `README.md:330` says it switches the host.
  That is why `SwitchKeepsAccess` speaks of access, not of which key is used.
- Testing the form of a saved host with another credential in place of the one
  that lends its secrets, or with the user taken away, tests the stored ones
  (`app.py:481-492`): `TestMirrorsSave` says which forms these are
  (`KeepsTheLender`, `KeepsTheUser`) and that there are no others.
- `/api/settings/llm/test` saves the configuration it tests (`app.py:512-518`,
  whose comment says "without saving first").
- A deployment that meets the deletion of its credential leaves the host
  attached to a credential that is gone (`app.py:371`, `inventory.py:209-211`).
- Stop does not halt a thread that passed the check and is about to open a
  prompt: it waits out the 15 minutes (`agent/core.py:249-261`, against
  `README.md:397`).
- A decision string other than `deny` approves (`agent/core.py:450`).
- The bot answers a card as the account it acts as; when there is none, it answers
  as nobody, and nobody is not asked for authority (`telegrambot.py:327`,
  `agent/core.py:208`). `RunsOnlyWithAuthority` counts that answer as one.
- `_fired` is in memory: a restart within a minute, after a job was fired in it,
  fires it again (`schedule.py:28`, `348`); `FiresOncePerMinute` allows one start
  more for each restart. A minute in which every tick raises before it gets to a
  job, or in which the process is down, passes without it (`schedule.py:315-326`):
  `NoMinuteIsMissed` speaks of the jobs some tick got past.
- A deferred action whose record fails is counted and audited, and cannot be
  approved (`agent/core.py:417-421`).
- The poller decides on a repair by the cooldown it read before its probe: one made
  longer during the probe is not respected by the repair that follows
  (`services.py:424`, `479-489`). `NoRepairInCooldown` says so: it compares with the
  cooldown of the row that was read.
- After an edit, `next_run` in the row can be that of the schedule a finishing
  run had read (`schedule.py:287-289`), and a one-off that was turned into a
  cron job during its run is disabled (`schedule.py:290`).
- `_take_token` looks a token up and pops it in two steps
  (`telegrambot.py:112-121`), so a button is not strictly for one use.
- A denial pressed while an approval executes leaves a `denied` audit row for an
  action that ran (`schedule.py:257-263`).
- The failure count of a check is computed from a stale row, so the consecutive
  failures that take it down may not be consecutive ones
  (`services.py:424-437`); `run_check`, which "never raises", does when its
  check is deleted during the probe, and then a repair leaves no audit row.
- A conversation can be deleted between the message that is sent to it and its
  run, which then fails at its first save (`app.py:735`, `776-803`).
- A stream can clean a run up with events still queued (`app.py:820-829`).

Of the parts modelled later:

- A cron field with values out of range (`99 * * * *`) is accepted and never
  matches (`schedule.py:31-68`).
- A local time that the clocks skip has no tick, though `next_run` shows one; in
  the repeated hour a `next_run` may lie in the past, and a job of several
  minutes an hour fires again (`schedule.py:106-117`, `347`). A job moved to
  another time zone between the two ticks of a minute may fire twice.
- An update that was handled and not acknowledged by the next poll is handled
  again after a restart, so an instruction may be carried out twice
  (`telegrambot.py:137-154`). An edited message is a new instruction
  (`telegrambot.py:165`).
- An instruction to a chat whose selected host was deleted fails at the foreign
  key of the conversation and gets no answer (`telegrambot.py:257-269`).
- Deleting the account the bot acts as makes it act as the oldest administrator
  (`telegrambot.py:78-84`).
- A `/use` sent after an instruction has a thread of its own and may overtake the
  instruction's, which then runs on the new host (`telegrambot.py:153-154`, `218`,
  `261`); `RunsWhereTold` allows that host and no other.
- `delete_user` counts and then deletes, and nothing counts at a demotion, so
  there may be no administrator left (`auth.py:157-175`), and `ensure_admin` makes
  one only if there is no account at all (`auth.py:39`). No property claims
  otherwise, and `UpMeansReady` speaks of an account, not of an administrator.
  Accounts and the mission can also be removed while the process serves; the next
  start makes them again.
- An `OSError` at the second of the two certificate files is reported, and leaves
  the new certificate with the old key (`tls.py:126-132`); so does a crash between
  them, and two uploads at once may cross. `PairMatches` speaks of installations that
  ran alone to their end.
- A restore cut between `naa.db` and its log lets the next start replay the log of
  one database on the other (`backup.py:88-92`); what it then finds, and whether
  that start or any later one gets through `migrate()`, nobody can say. `UpMeansReady`
  and `ServesAgain` except such a database (`db.mixed`).
- A change of the bot's token keeps `_offset`, which counts the updates of the old
  bot: those of a new one with smaller ids would not be delivered
  (`telegrambot.py:137-154`, `store/settings.py:122-136`). The model has one bot.
- Deltas of a streamed call without an `index` all go to call 0
  (`agent/llm.py:145`): `LlmClient` presumes that a provider numbers its calls.
- An old content that can no longer be decrypted reads as empty, and its revert
  writes an empty file (`changes.py:55`). Encryption is not modelled, so
  `UndoRestores` is silent on it.
- Of two processes started at once on an empty directory one may go on with a
  key that is not the file's; the guard comes last (`config.py:46-62`,
  `app.py:70-75`). A `config.json` that cannot be parsed is replaced by one with a
  new key (`config.py:49`).
- A restore that is cut short leaves the key of one database with another; a
  secret saved before the process exits is sealed with the old key, and a process
  that starts during a restore may find either (`backup.py:87-92`,
  `app.py:597`).
- A migration cut between two statements of which the first cannot be repeated
  stops every later start (`store/db.py:38-51`); so does one certificate file
  without the other (`tls.py:143-144`).
- A reply that ends early counts as complete, and a call whose arguments were cut
  runs with none (`agent/llm.py:151-165`, `262-271`).
- A playbook the agent saves over an approved one stays approved
  (`skills.py:111-114`), though the tool's note says "Saved as a draft"
  (`agent/tools/skilltool.py:24`); a PUT writes back a text that was replaced
  meanwhile, and a save the approval that was withdrawn.

## 5. What is proved

By TLAPS, from the named assumptions on the constants only (`ActorsAssumption`,
`HostsAssumption`, `RequestsAssumption`, `JobAssumption`, `NoCallAssumption`,
`TextsAssumption` for the run; those of their modules for the others), for any
number of users, hosts, calls, jobs, minutes, editors, streams, runs, processes,
backups, migrations and pieces of a reply. With them every safety property that a
run checks and the code keeps is a theorem. Three assumptions deserve a word:
`GivenAssumption` says that the backups a directory starts with were made by this
program (whole migrations, and the key of their database unless they are torn),
which is what `restore_backup` takes for granted; `CertAssumption` that there is
a pair of certificate and key to start with; `PlaybookAssumption` that the
markers for a row that never was and one that is gone are no rows. A process that
needs a new key finds one in `FreshKeys`: the bound is in the guard of `Loads`, not
in an assumption.

| Module | Theorem | Statement |
|---|---|---|
| `AgentRunProofs` | `TypeCorrect` | `TypeOK` |
| | `GateSafe` | `GateInv`, the invariant the next four follow from |
| | `Authority`, `EditsAreShown`, `OnePrompt`, `PlanBounds` | `RunsOnlyWithAuthority`, `ApprovedAtItsOwnRisk`, `OnlyTheAwaitedPrompt`, `PlanStaysInside` |
| | `JobsNeverWait` | `JobNeverWaits` |
| | `DenialHolds`, `LateAnswersDoNothing`, `StopIsHeeded` | `DenialIsFinal`, `LateAnswersAreInert`, `StopEndsTheLoop` |
| | `GateIsImplemented` | `ImplementsGate`: every behaviour of a run is one of the abstract gate |
| `JobSchedulerProofs` | `SchedulerTyped`, `FiresOnce`, `DeletedStays`, `NoneMissed` | `TypeOK`, `FiresOncePerMinute`, `DeletedForGood`, `NoMinuteIsMissed` |
| `RunRegistryProofs` | `RegistryTyped`, `Reachable`, `ActiveIsSpared` | `TypeOK`, `RunningIsReachable`, `RefusesWhileActive` |
| | `InboxTyped`, `EveryResolutionAudited`, `LateDenialsChangeNothing` | of `DeferredInbox`: `InboxTypeOK`, `ResolutionsAreAudited`, `ApprovedStaysApproved` |
| `ChangeJournalProofs` | `JournalTyped`, `MarkedAfterUndo`, `RevertRestores` | `TypeOK`, `RevertedWasUndone`, `UndoRestores` |
| | `PlaybooksTyped`, `BodiesStayWhole`, `PeopleApprove`, `CallsAreMeant` | of `Playbooks`: `PlaybooksTypeOK`, `BodiesAreWhole`, `ApprovedByAPerson`, `CallsAreThoseMeant` |
| `HostMonitorProofs` | `MonitorTyped`, `NoAlertIsSwallowed` | `TypeOK`, `SuppressedWasTold` |
| | `ChecksTyped`, `RepairsWaitOutTheCooldown` | of `ServiceCheck`: `ChecksTypeOK`, `NoRepairInCooldown` |
| `HostVaultProofs` | `VaultTyped`, `LastKeyIsKept`, `SwitchIsSafe`, `TestsAreSaves` | `TypeOK`, `LastKeyWins`, `SwitchKeepsAccess`, `TestMirrorsSave` |
| `TelegramBridgeProofs` | `BridgeTyped`, `OncePerLife`, `NamesStayUnique`, `RunsWhereToldHolds` | `TypeOK`, `HandledOncePerLife`, `NamesAreUnique`, `RunsWhereTold` |
| `DataDirProofs` | `DataTyped`, `PairHolds`, `KeyStays`, `ReadyHolds` | `TypeOK`, `PairMatches`, `KeyStaysWithTheDatabase`, `UpMeansReady` |

**Agent run.** `TypeOK` is inductive by itself. The safety invariants are not:
that a running call was authorised depends on what the thread found at the gate
several steps earlier. `GateInv` adds what connects those points: the open prompt
is that of the call in hand exactly while the thread waits; an approving decision
in it came from somebody `confirm` takes it from; so did the session approval
and the envelope; the call carries the level its present arguments have; and the
card last shown has the level and host of the call unless an edit, not yet
judged, is in the prompt. Each action of the thread moves the call one point
further and each request touches only the prompt, so the proof goes action by
action.

**Refinement.** `GateIsImplemented` takes the actions of `AgentRun` one by one and
names the step of the gate each is, under `GateInv`: that the open prompt is the
one of the call in hand is what makes `Confirm` a `HearVerdict` or a stutter. Who
may speak is not part of the abstract gate: `Authority` says that. `JobsNeverWait`
is about counts alone: every step of the thread keeps the sum of what was settled and
deferred at what was brought to the gate, one less while a call stands there.

**Scheduler.** `FiresOncePerMinute` needs `FiredUpToNow`: no job has a start in a
minute after the tick in progress began or after the present one, the tick began
no later than now, and for a minute whose starts are more than its restarts
`_fired` shows its local time, unless no tick can come back to it. So a restart,
which forgets `_fired`, is paid for by the count of the minute it falls in, and
later minutes owe nothing to it. That the guard compares local times, of which two
minutes can have the same, only makes it refuse more. `NoMinuteIsMissed` needs the
converse, `NothingPassedOver`: `_fired` only ever names a time the job was started
at, and each wanted job that a tick of the present minute has got past was started;
the others are still before it, with the row they have now.

**Registry.** `RunningIsReachable` needs to know why whoever takes a run off
`RUNS` may: a stream cleans up after the event `done` or after it saw
`finished`, so a `done` that is queued or in hand, and a cleanup that is under
way, belong to a run that has finished (`DoneQueued`, `DoneInHand`); and a
Telegram listener only ever removes a run that a chat started (`BotsOwnTheirs`).
`RefusesWhileActive` rests on what a removal knows after its look and keeps
knowing: of the runs there were, each that is still running in `RUNS` has its
conversation among the active ones (`KnownAreActive`), and none of those is left
to delete (`SparesTheActive`).

**Inbox.** What a deciding thread carries tells what it owes (`ThreadsKnow`): the
row it read, and the verb of its audit, at each step between its look and its
audit. A row becomes approved or denied only in a step that leaves such a thread
behind, and the test in `deny_deferred`'s UPDATE is what keeps approved rows.

**Service checks.** The poller decides on a repair from the row it read before its
probe. `RowsFit` says what remains true of it: the poller alone starts
repairs, so while it probes none begins, and the age in its row is no more than the
one in the table. The cooldown it compares with is that of its row, and an edit
reaches the next row only.

**Change journal.** `UndoRestores` relates a revert to a write that ended long
before: the invariant carries, for a thread that is writing, how its reading
relates to the file it saw, and for a row in a revert's hands, that it is the
row of the journal but for its mark.

**Monitor.** For an issue to be held back, some poll has put it among the
remembered ones, and that poll goes on to send it or found it there already. So
the invariant says of a poll between its comparison and its memory that what it
calls known was told, is being told, or nobody wanted it; and of the settings,
that no document in anybody's hands lacks the webhook unless somebody asked.

**Hosts and credentials.** `LastKeyWins` is inductive with `TypeOK`.
`SwitchKeepsAccess` needs two facts about a request on its way: its credential,
if it is still there, has the key that was deployed, because credentials are
inserted and deleted but never changed (`CredentialsLast`); and once the test has
passed, the machine accepts the user and key about to be stored
(`SwitchesAreVerified`), which lasts until somebody takes a login off a machine.

**Telegram bridge and accounts.** `NamesAreUnique` is inductive with the types: what
a request found free may be taken by the time it inserts, and the insert looks
again. That an update is handled once
follows the offset: what was fetched is in order and not below it, and what was
handed to a thread is below it (`InOrder`), all of it sent by somebody
(`OnlySent`). `RunsWhereTold` is an invariant of what a chat believes
(`SelectionsKnown`): as long as it is sure, none of its `/use`
is open and its selection is the host it was told of or lost; two that overlap
make it unsure until both have ended. For an instruction already sent
`ExpectationsHold` says where it can still get: the selection of its chat, and the
host of every `/use` that is open or that Telegram may hand out again, is what the
chat was told or was asked for later. The hard case is a restart, after
which an old `/use` comes back: `UsesInOrder` shows that only the last one, the
one the chat believes in, can.

**Data directory.** `DirInv` has three parts. `CertKept` compares the two files and
their temporary ones with the pair of an installation that runs alone, and so
knows which of them has been replaced, whatever others left there before it. `KeyInv` says, for each step of a restore,
which of key file, database and log are the old and which the new, that what a
backup in flight has read fits the key of the file, and that of the processes that
start at most one makes a key and the others have that of the file (`OneKey`).
`ReadyInv` counts statements: what a start calls applied is recorded, the
statements before the one it is at were executed, by it or by another, and a
recorded version has all of them. A version is recorded after its last statement,
which is the guard `Records` keeps. A spoiled database has none of this: every part
of `ReadyInv` is about sound ones, and the proof has to show that a sound database
is never taken from a spoiled one but by a whole restore.

**Playbooks.** `Heard` says what the client has put together from the place in the
stream, while every line could be read: the calls before it have whole texts, the
call it is in its first pieces, the others nothing. A beginning is no JSON, so
no half of a text reaches `calls` (`CallsAreWhole`), a request or a row
(`NoHalves`). The order in which `Ends` hands the calls over is the order of
their indices, and since a call is named when it begins, what is handed over is a
beginning of what was meant. `SavesAsApproved`: a save that will write an approval
has read it from a row a person approved, or comes from a person.

**Only model-checked.** Liveness (`EveryRunEnds`, `OneOffIsRetired`,
`SustainedFailureCommits`, `StillDownIsRetried`, `EveryCheckGetsItsTurn`,
`StreamsEnd`, `FinishedAreForgotten`, `RevertsAreAudited`, `LastingIssueIsTold`,
`EveryUpdateIsTaken`, `ServesAgain`), since the provers reason neither about
fairness nor about `ENABLED`; and the rules of `CronRule`, searched through.
What a recursive definition computes for every
input is out of the provers' reach as well (the library's induction theorems take
an operator as a parameter); no module declares a `RECURSIVE` operator, so that
all of them can be proved about.

## 6. What is not modelled

- The text of things: commands, paths, reports, prompts, notifications. A
  command is what the policy sees of it. Whether the classifier's expressions
  see the right things is for its unit tests.
- Effects of tools on hosts, and the probes: their result is an input.
- The sizes of the real calendar (`CronRule` is given small ones), and jobs in
  different zones: the zone of an instance is that of all its jobs.
- Passwords, the login's rate limit, sessions and host scopes. Authorisation of
  requests other than who may control a run: every request of a model is one that
  passed its route's tests.
- Replies of the model that are not streamed, the conversion of its history, and
  prompts.
- Encryption of secrets, SSH sessions below the level of "it worked or not", the
  Telegram copy of alerts, and webhook posts that fail (they count as sent, as
  in the code, which only logs them).
- Creation of service checks and of the inbox's jobs: they exist from the start.
- The database below the level of a statement, but for its log in a restore; two
  processes on one data directory beyond their start, which
  `_single_instance_guard` in `app.py` refuses.
- The parts marked `not_modelled` in `PROJECT.json`, with the reason there.

## 7. Plan

Modelled first, because everything else rests on it: the gate (`Policy`,
`AgentRun`), then the threads around it (`RunRegistry`, `JobScheduler`,
`DeferredInbox`, `ServiceCheck`), what changes hosts and what is known of them
(`ChangeJournal`, `Settings`, `HostMonitor`, `HostVault`), then the abstract gate,
the bridge with its accounts, the data directory, the model client with the
playbooks, and the rules of cron. Next, in this order:

1. An abstract inbox and an abstract directory (key, database, schema) that
   `DeferredInbox` and `DataDir` implement, with the mapping proved step by step.
2. The safety part of what is now only checked as liveness: that a thread which
   has begun always has a step, an audit or a cleanup ahead of it.
3. `RunRegistry` and `AgentRun` composed over one run; hosts edited under a run.

## 8. Running it

    tlc -workers 2 -config AgentRun.cfg MCAgentRun.tla
    tlapm AgentRunProofs.tla

The other runs pair their cfg with the module named in `PROJECT.json`, which also
maps each definition to the lines of the code it translates, and lists for each
property a change of one definition, the kind of slip an edit of the code could
make, under which TLC finds the property violated.
