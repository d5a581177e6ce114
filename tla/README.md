# A TLA+ verification of merlya

merlya is an interactive infrastructure assistant: one Python process per user, one asyncio
event loop, a language model that proposes commands, and SSH, Terraform, Kubernetes, MCP
servers and a SQLite file as the things it acts on. This directory models merlya's *own*
logic (`src/merlya`): what its tasks do to shared state between two `await`s, what survives a
failure, a cancellation or a crash, and what the user is promised about a change. TLC checks
the models on small instances; TLAPS proves the safety properties for every value of
the constants. What the language model says, the text of commands and the layout of output
are left out.

Contents: [inventory](#1-inventory), [how to read a module](#2-how-to-read-a-module),
[modules and code](#3-modules-and-code), [runs](#4-runs-bounds-and-fairness),
[proofs](#5-proofs), [findings](#6-findings), [what is not modelled](#7-what-is-not-modelled),
[plan](#8-plan).

## 1. Inventory

A component is listed with its state, its operations, whom it shares state with, what is hard
about it, what makes it correct, and its model; section 7 says what a model leaves out.

| Component | State it keeps | Operations | Shared with, called by | What is hard | What makes it correct | Model |
|---|---|---|---|---|---|---|
| SSH pool (`ssh/pool.py`, `types.py`, `executor.py`) | connections by `user@host:port`, key locks, `_pool_lock`, channel semaphores, circuit breakers | `get_connection`, `execute` with retries, `disconnect`, `disconnect_all`, eviction, `reset_circuit` | every tool and sub-agent task; one pool per process | every operation awaits between reading and writing the dictionaries; two lock levels; cancellation; retries | no open transport outside the pool; bounded size; no closed connection offered; calls end | SSHPool |
| SSH circuit breaker (`ssh/circuit_breaker.py`) | per host: state, failure count, last failure | `can_execute`, `record_success`, `record_failure` | the pool; results arrive in any order | results of calls admitted in another state, or to a replaced breaker | count and state agree | SSHCircuitBreaker |
| SSH connecting (`ssh/auth.py`, `pool_connect_mixin.py`, `commands/handlers/ssh.py`) | passphrases by slot, passwords by host, tunnels | choosing a method, preparing a key, asking, opening a jump host, `/ssh config`, `/ssh connect` | logins that overlap while the user types; the secret store | slots shared by hosts and keys; a callback that stores before it tries; cancellation with a tunnel open | a passphrase that was tried is kept for its key; a login that fails leaves no tunnel | Login |
| Resilience decorators (`core/resilience.py`) | state, counts, last failure, a lock | `CircuitBreaker.call`, `reset`, `@retry` | concurrent callers of a decorated function | the lock is released during the call | opens after consecutive failures only; recovers; retries stop | Resilience |
| Database schema (`persistence/database.py`) | the SQLite file, its schema version, a migration flag in a table | `connect`, `_init_schema`, `_run_migrations`, lock and release | several merlya *processes* on one file | crashes with the flag set; stale version reads; writers racing | no version claimed untruly; one migration at a time; messages survive; a dead holder is replaced | Migration, SchemaFile |
| Change pipelines (`pipelines/`) and provisioners (`provisioners/`) | stage, rollback data, result; what a backend has created | `execute`: plan, diff, approval, apply, post-check, rollback | agent tools; the user answers; the target is shared with others | partial failure at any stage; exceptions; time passing at the approval | the pipelines change nothing unapproved (the provisioners ask nobody); success means done; failure is rolled back | ChangePipeline, Bash-, Kubernetes-, Ansible-, TerraformPipeline, Provisioner, Pipelines |
| Resource state (`provisioners/state/`) | a row per resource, snapshots | `track`, `update`, `mark_*`, `rollback`, snapshot, restore, drift | clients of one database | read-modify-write over awaits; an update that fails and is tried again | a rollback leads to the last good configuration | ResourceState |
| MCP manager (`mcp/manager.py`) | session group, connected servers, a shared name prefix, one lock | `call_tool`, `list_tools`, `close`, add and remove a server | agent tasks; the commands, under a time limit | double-checked creation; a group held across a wait; `close` takes no lock | a connected server's tools are in the group; tools filed under their server; started once | MCPManager |
| Sessions (`session/`) | current session, messages, summary, rows in the database | `add_message`, summarise, save, `load_session`, `end_session` | the REPL; *one* SQLite connection and transaction shared by all components | saves of several statements; calls without the lock; a failed save is only logged | nothing told is forgotten; row and messages are of one moment | Session |
| Agent turns (`agent/main.py`, `history.py`, `orchestrator/`), REPL and CLI | history, active conversation, stored conversations, the signal flag | `run` with delegations and attempts, `limit_history`, `/new`, `/conv`, tasks of a batch, interrupts | the model, the user, the database | a turn ends in many ways; the history is cut | the stored conversation is the agent's; no return without its call; every turn ends | Turn |
| Tool calls (`agent/tracker.py`, `confirmation.py`, `specialists/`) | recorded calls, "always" answers, the prompt, the last target | recording, loop and limit checks, `confirm_command`, `ssh_execute`, `bash` | the concurrent calls of one response | all of it is shared across awaits | only what was said yes to runs, case aside | ToolCalls |
| Elevation (`agent/specialists/elevation.py`, `tools/interaction.py`) | method per host, cached method, stored passwords | `prepare_host_elevation`, `request_credentials`, `ssh_execute` | calls on one host; the user | found out before, used later | no command waits for a password nobody sends; a password goes where it was verified, if that could be saved | Elevation |
| Sub-agents (`subagents/`) | executions and their status, a semaphore, last activity | `run_on_hosts`, `ActivityTimeout.run`, cancellation | the event loop | a deadline racing an answer; cancellation inside a gather | nothing is left running; every result is true | Fleet |
| Provider (`config/`, `/model`, setup) | config file, its copy, environment, keys, the agent's client | `/model`, wizard, save, restart, switch of provider | one process after another | four copies of one choice; a save that raises halfway | requests go to the address that is shown, with that provider's key, once it is saved | Provider |
| Router (`router/`) | the models and whether they are ready | `extract`, `classify`, their fallbacks; `classify_intent` | a batch | a second verdict replaces the first | unanswered means the safer verdict | Routing |
| User input (`tools/core/user_input.py`, `ui/console.py`) | answers and counts by question, the prompt's lock | `ask_user`, choices, secrets, confirmations | concurrent calls | calls asking the same words at once | an answer belongs to the question it is given for | Questions |
| References (`tools/core/resolve.py`) | none of its own | replacing `@name` by addresses, variables, secret values; masking | inventory, secrets | replacement by position | each reference is replaced by its own value and the shown copy has none | References |
| Inventory (`persistence/repositories.py`, `/hosts`, `/variable`, setup) | hosts and variables | add, edit, delete, tag, check, import, export, merge | two operators, agents | reads, waits, writes whole rows | one host per name; a merge keeps the most trusted source | Inventory |
| Scan (`/scan`, `tools/system`, `tools/security`) | the report under way | checks side by side on hosts side by side | a connection that may break | failing checks; counting over parts | what is counted was found, two false alarms aside | Scan |
| Remote files (`tools/files`, `tools/system/cron.py`) | a remote file, its backups, a crontab | `write_file`, `sync_file`, `add_cron`, `remove_cron` | concurrent tools | a shell line that fails in the middle; retries | what is replaced can be had back | RemoteFiles |
| Secrets (`secrets/store.py`, `/secret`) | keyring, index file, memory | `set`, `remove`, `list`, clearing | processes one after another | keyring and index are written one after the other | what is listed can be read | SecretStore |
| Templates (`templates/`) | templates by name and version, loaders, manual copies | register, load, reload, `get`, instantiate | threads | the registry changes under a lock, `get` reads without it | between loads, the unversioned template is the highest and those registered by hand are there | Templates |
| Capabilities, fingerprint, audit, `security/permissions.py`, `config/policies.py` | caches, rows | — | nothing in production calls or feeds them | — | — | none |
| Parser, health, core contexts and metrics, i18n, common | none, or counters | pure functions, read-only checks, containers of the others | everyone | text, not state | tests reach them | none |

How they interact: one event loop interleaves the tasks of one process at their `await`s
(SSHPool, Resilience, MCPManager, Session, Elevation, ToolCalls, Turn, Fleet, Questions, Login, Scan
and RemoteFiles are models of that); processes meet in the SQLite file (Migration), in the
configuration and the keyring (Provider, SecretStore) and in the inventory (Inventory); a pipeline
meets its target, which it does not own (Pipelines). `PROJECT.json` lists every component with its
sources, the hazards at their lines with the properties that cover them, and for each definition the
lines it translates.

## 2. How to read a module

* A step runs from one `await` that can suspend to the next; `pc` names the await a task is
  suspended at. Code without an await is one step, however many calls it makes.
* Locks of asyncio are first come, first served. Where the holder follows from the program
  counters (SSHPool) there is no lock variable.
* Time is a Boolean that says whether a limit has passed (`cooling`, `fresh`, `aged`), set by
  an action that may happen at any moment, or, in Fleet, the number of looks at the clock. Counters
  that the code only compares with a threshold saturate at it.
* A cancellation (`Cancel`) may strike at every await. It is no `Exception`, so the code's
  `except Exception` clauses do not see it while its `finally` and `async with` do.
* Variables called *history* are not in the code; the properties need them.
* Definitions named `M_...` are mutants: forms a plausible bug could give the definition that
  follows them. For each property a run checks, a mutant breaks it (`PROJECT.json`,
  "mutants"), which shows that the property depends on the code. A property that is a conjunction
  over components has a mutant for each conjunct.
* `MC...` modules instantiate a model for TLC (MCPManager is run as it is); the `.cfg` files give the constants.
* Three modules compose others that share no state: Pipelines (one execution is of one kind),
  Agent and Services. An execution of these follows one part (`part`), whose variables are `None` in
  the others. `INSTANCE ... WITH` renames a variable that two parts call alike.

## 3. Modules and code

**SSHCircuitBreaker** — operators on one breaker record. `CanExecute`, `RecordFailure` and
`RecordSuccess` are the methods of the same names.

**SSHPool** — the whole pool. `pool`, `link`, `fresh` and `newer` stand for `_connections`
with each connection's transport, health and order of last use; `gen` counts how often
`disconnect_all` has replaced the table of key locks, so that a task can hold a lock that no
longer excludes anybody. `execute` is cut at its awaits: `Execute` (circuit check), `GetLock`,
`Reuse`/`FindStale`/`FindNone` under the key's lock, `TakeSlot`/`Evict` under `_pool_lock`,
`Connected`, `GetSem`, `AcquireSem`, `RunSucceeds`/`RunFails`, `Invalidate`, `NextAttempt`.
`DisconnectNext` and `SweepNext` are the loop bodies of `disconnect` and `disconnect_all`,
with the `KeyError` and `RuntimeError` they raise when the dictionary changes under them. The
breakers are records of SSHCircuitBreaker; `orphan` marks a call that holds a
breaker object `reset_circuit` has replaced.

**Resilience** — `@retry` around `@circuit_breaker` around one function. `Admit` and `Reject`
are `CircuitBreaker.call` up to the await, `Succeeds` and `Fails` what follows it, with the
lock released in between.

**Migration** — one process's `connect` is `Connect` (CREATE TABLE), `ReadVersion`,
`InsertVersion` or `CheckLock`, `SetLock`, `Begin`, `DropSessions`, `RenameSessions`,
`MigrationStep(n)`, `Commit`, `Release`. `db` is what is committed, `work` what the migration's
transaction sees, `writer` the holder of SQLite's write lock. Processes die anywhere (`Crash`),
statements fail (`MigrationFails`), the flag grows stale (`LockAges`), and a connect is cancelled
(`Cancel`): "except Exception" lets that pass without a ROLLBACK, and the commit of `Release` then keeps
the migration as far as it came. Step 2 rebuilds `sessions`; `DROP TABLE` with `foreign_keys = ON`
deletes the messages, and between it and the renaming there is no table `sessions` (`gone`).

**SchemaFile** — the abstract specification: a file that is upgraded in one step and loses no
message unless it began at version 1. Migration implements it (`ImplementsSchemaFile`, by
INSTANCE with `version <- db.version`, `messages <- db.messages`).

**ChangePipeline** — `AbstractPipeline.execute` with its stages left open: each stage's end is
an operator with the stage's outcome as a parameter. The modules for the pipelines conjoin these
with what their `plan`, `diff`, `apply`, `post_check` and `rollback` do to a target:
**BashPipeline** (effects of commands on a host), **KubernetesPipeline** (one resource, its count,
its manifest or its rollout revision, which others change too), **AnsiblePipeline** (tasks and the
playbook that undoes them), **TerraformPipeline** (resources against a state file) and
**Provisioner** (`AbstractProvisioner`, which validates first and rolls back only what `apply`
returned data for, with either backend). **Pipelines** composes them: an execution is of one kind,
all kinds share the engine's variables, and the promises (`Touched`, `Achieved`, `Undone`) are asked
of every kind alike.

**MCPManager** — `call_tool` with `_ensure_connected` and `_ensure_group`, `close`, and the
configuration changed by `/mcp add` and `/mcp remove`. `sessions[g][s]` counts how often
server s was aggregated into the g-th group.

**Session** — messages are numbers in the order they are told; a summary is the set of the
messages it was made from. `live` is what the shared connection sees, `disk` what is
committed. `SaveRow`, `SaveDelete`, `SaveMessages`, `SaveCommit` are the statements of
`_persist_session` in their order. `allowed` fixes per behaviour which disturbances may occur:
calls that overlap with `load_session` or `end_session`, cancelled calls, other components'
commits and rollbacks. Statements fail in every behaviour; a SELECT of the messages that fails
(`LoadRow` finds none) is only logged, and the session goes on without them (`unread`).

**Transcript** — the abstract specification: a current session knows all it is told (`Tell`), is
saved in one step as all it knows (`Save`) and loaded from what was saved of it, less what cannot be
read (`Open`); otherwise only a session being ended may forget (`End`), and leaving it, also by a crash,
loses what is not saved and nothing else (`Leave`). Session implements it where `allowed = {}` (`ImplementsTranscript`, by INSTANCE):
`known` is the summary, the messages in memory and those a load has read but not yet stored
(`Knows`), `saved` is what row and messages say on disk (`Stored`). Four statements and a commit are
one `Save`; a load's two SELECTs are one `Open`, which happens when the row becomes the session.

A request of the user (**Agent** composes):

* **Turn** — the loop of the REPL or the tasks of a batch, and one run of the agent inside:
  `messages` is what the model last had, `attempt` the attempt of the delegation under way, `store`
  the table of conversations. A round is a request, calls and their returns; `limit_history` cuts
  between messages. Every way out of a turn is an action: an answer, an error, a limit, an
  interrupt, a refused write.
* **ToolCalls** — the calls of one response. `caller[t].pc` goes through the record of the call, the
  checks for loops and limits, the confirmation (where it prints, then waits in `queue` for the
  prompt), and the command, which fixes the host by `lastTarget`. `NormalOf` is what
  `ConfirmationState` compares.
* **Elevation** — `task[t]` is a call in `prepare_host_elevation`, `request_credentials` or
  `ssh_execute`; the method it has read, the prefix it has put before the command and the password
  it will send are fields, since other calls change what they were read from. `host.found` says by
  which lookup the host's row is found: not all of them look by hostname.
* **Fleet** — `run_on_hosts`: `pc[i]` of each host's task (semaphore, timeout, waiting for a
  cancelled subagent), `subagent[i]` of the task in which the subagent runs, and `Gather`.

The services (**Services** composes):

* **Provider** — `file`, `config`, `env` and `keyring` are the four places where the choice of a
  provider is kept; `client` is what the agent was built with. `/model`, the wizard, other commands
  that save, a save that raises or is cut short, and a restart move it between them. `fresh` tells whether
  the last `/model` could be saved; where not, the configuration has changed and the agent has not.
* **Routing** — a task is the set of features its words have; `extract` and `classify` go from model
  to fallback to rules, and `unasked` records a command that ran without a question.
* **Questions** — `call[t]` is a tool in its prompt, `responses` and `counts` are `AskUserCache`. A
  typed answer has a number, so that it can be told whose it is.
* **References** — a command is a sequence of cells; replacement works by position, as the code's
  slices do, so a replacement of another length would show.
* **Inventory** — `operator[o]` is who waits for a user, a file or the network with a host that has
  been read; the wizard merges what its sources say of a host.
* **Login** — `phrases` maps a slot (`ssh:passphrase:...`) to the key whose passphrase it holds;
  `login[t]` is a call between its questions; `callback` which passphrase callback the pool has, that of
  the tools or that of `/ssh` for a host, which an encrypted key of a jump host calls; `untried` the keys for
  which the latter has stored what was typed; `stranded` an open tunnel whose login came to nothing.
* **Scan** — per host, `found` is what each check met (trouble or none; an answer, none, or a broken
  connection), `sections` what is kept, `report` what is counted and shown.
* **RemoteFiles** — one action per remote command; a command that writes may stop having emptied the
  file (`Torn`).
* **SecretStore** — `keyring` against `index`; a change of a name is two steps (`saving`).
* **ResourceState** — `request[c]` holds the row a client has read and will write back whole.
* **Templates** — what registers, loads or removes is under the registry's lock; a load is several steps
  (`left`, the loaders to come, and `back`, the templates to register next), in which the dictionary is
  incomplete. `thread[t]` at `found` has made sure that everything is loaded and looks it up in a further
  step, without the lock.

## 4. Runs, bounds and fairness

| Run | Instance | Result | What it shows |
|---|---|---|---|
| ssh_pool_core | 2 tasks, 3 keys of one host, pool of 1, 2 attempts, 1 channel, no `disconnect_all` | holds | `CapacityDrift`: concurrent creators overshoot `max_connections` by at most one each; `NoLeakWhileLocksKept`: every open transport is in the pool; `PooledNotClosed`; `CircuitCounts` |
| ssh_pool_live | 2 tasks, 2 keys, pool of 1, 1 attempt, one task with a `disconnect_all`, the other with `disconnect` | holds | every call ends, although tasks evict each other's connections, take `_pool_lock` under a key's lock and have the key locks replaced while they wait (retries, whose number only falls, are in ssh_pool_core) |
| resilience | 3 tasks, thresholds 3 and 2, 2 attempts | holds | `CountersMatchState`, `OpensAfterConsecutiveFailures`, `Recovers`, `CallsEnd` |
| migration | 3 processes, files of version 0 to 4, 2 tries, 2 messages | holds | `VersionIsTrue`, `UpMeansMigrated`, `NothingOverwritten`, the refinement of SchemaFile, `EventuallyMigrated` |
| migration_v1_messages | 2 processes, a file of version 1 | violated | `MessagesKept`: finding 1 |
| pipelines | 3 commands, rollback commands, 2 checks; counts 0..3; 2 resources; all six kinds | holds | `ChangedOnlyIfApproved`, `SuccessMeansAchieved`, `FailureIsRolledBack`, `RollbackUndoes`, `Terminates` |
| mcp_manager | 2 tasks, 2 servers, one `close` | holds | `PrefixIsOwn`, `StartedOnce` and `AggregatedUntilClose` (both up to the first `close`), `CallsEnd` |
| session | 2 tasks; undisturbed: 2 sessions, 3 messages; disturbed: 1 session, 1 message | holds | the refinement of Transcript, `SavedWhole` (undisturbed), `OrderKept`, `CallsEnd` (always) |
| session_overlap | 2 tasks, 2 sessions, 3 messages, overlapping calls | violated | `SavedTogether`: finding 2 |
| agent | 2 calls on a host; 2 callers, 3 calls, 3 commands of 2 normal forms; 2 conversations, 3 messages sent, 2 tasks; 3 hosts, 2 at a time | holds | `PasswordsFit`, `RunsOnlyConfirmed`, `ConversationIsKept`, `SentIsPaired`, `ContinuesItself`, `NothingLeftRunning`, `ResultsAreTrue`, `EverythingEnds` |
| agent_confirm | the same | violated | `AnswersWhatIsShown`: finding 3 |
| services | two of whatever acts at once, eleven parts | holds | `NothingUnexpected`, `KeptCanBeHad`, `RegistriesAgree`, `UsedForItsOwn`, `ReportedIsFound`, each a conjunction over the parts it names |

Every bound, and why it is enough to be interesting:

* *Tasks, processes, callers, clients, threads, operators*: two suffice for every race between two
  awaits; Resilience has three so that two late reports can meet a third call in the half-open state,
  and Migration three so that a process that is slow can be overtaken by one that fails and one that
  succeeds. In Services the two are symmetric (`SYMMETRY Acting`): no property distinguishes them
  and the run has no liveness.
* *Keys, pool*: three keys and a pool of one is the smallest pool in which creators can overshoot
  further than the bound of `CapacityDrift` if the check were wrong; with two keys the bound
  would hold for want of keys. The liveness run has two, enough for two tasks to evict each other.
  All keys are of one host; `Matching` (which keys `disconnect(host)` takes) is a parameter.
* *Conns*: identities of connection objects; an object that nothing refers to any more is
  allocated anew, so the number bounds those alive together, not those created.
* *MaxSweeps, MaxCloses, MaxMessages, Bounds*: cap the calls of `disconnect_all` and `close`, and
  messages. One `disconnect_all` is enough to replace the locks under their holders and one
  `close` to leave a task with a dead group. Three messages summarise twice with `Keep = 1`.
* *Thresholds*: the code's failure and success thresholds become 1 to 3: the smallest values for which "reached",
  "almost reached" and, in Resilience, "reached by a call of an earlier period" differ.
* *Agent*: `MaxPasswordRetries` and `MaxAttempts` have the code's value 3. `MaxSameFingerprint`,
  `PatternWindowSize`, `MaxCategoryCommands` and `MaxTotalCalls` are lowered so that `MaxCalls = 3`
  calls reach each limit. With `MaxMessages = 3` a history of two rounds of calls
  is cut inside a round, and `HardMax = 6` is met as well. Three hosts, two at a time, leave one waiting for the
  semaphore; the time limits are 2 and 1 looks at the clock, so idleness and lateness differ.
* *Services*: `MaxAsked = 3` with `MaxSameQuestion = 2` reaches a kept answer; `MaxParts = 2` and
  references 1, 2 and 3 characters wide make every replacement change its successor's position;
  `MaxEdits = 3`, `MaxRequests = 5`, `MaxUses = 4`, `MaxCommands = 2`, `MaxLogins = 2`, `MaxTasks = 1`
  and `MaxChecks = 1` cap the calls of one behaviour: one call for each operator and one more, an
  update that fails and is tried again beside another client, a second version registered during a
  reload, and so on.
* Deadlock is checked in SSHPool, Resilience and Migration; in the other runs a behaviour may really
  stop: a pipeline ends, a batch ends, the bounded calls are used up.

Fairness, and why the code justifies it:

* asyncio runs every ready task, and its locks and semaphores serve waiters in order, so a task
  that could go on infinitely often does: strong fairness of a task's own steps in SSHPool,
  MCPManager and Session; weak in Resilience, Elevation, ToolCalls, Turn and Fleet, where a step once
  possible stays so or is served in the order of a queue.
* SSH connecting, running and closing end by their time limits (`ssh/pool.py`, `ssh/types.py`),
  and SQLite answers. That MCP servers answer is an *assumption*: the manager sets no time limit.
* Migration assumes that a process runs, that its user starts it again after it gave up, and
  that time passes; not that faults happen or stop (`EventuallyMigrated` has the latter as its
  premise).
* In Fleet, besides the steps of the tasks of `run_on_hosts` itself, time (`Tick`) and the unwinding
  of a cancelled subagent are assumed; a subagent need never answer. In Turn, `UsageLimits`
  bound the requests of a run, and commands have time limits. That the model and the MCP servers
  answer is an *assumption*: the agent's tools wait for a server without a limit
  (`agent/tools_mcp.py:88`, `mcp/manager.py`), and a turn with a silent one ends only when the
  user interrupts it.
* The stages of a pipeline end. For bash commands the time limits see to it; kubectl, ansible and
  terraform are waited for without one (`pipelines/kubernetes.py:629-635`, `pipelines/ansible.py:477-483`,
  `pipelines/terraform.py:420-426`, `provisioners/backends/terraform.py:162`), and so are the MCP
  servers of the provisioners: that they end is an *assumption* of `Terminates`.
* Of the user, ToolCalls assumes that of the answers he may give to a prompt an understood one
  comes at last (`SF` of `Understood`), for the code asks again until then. `Terminates` begins
  at the approval. Nothing is assumed of new calls, interrupts, cancellations, expiry or resets.

## 5. Proofs

A module `XProofs` extends `X` and proves results of its specification for every value of the
constants that satisfies the named assumptions. These say that limits are natural numbers, that sets
which are counted are finite, and that a mark for "nothing" (`None`, `Torn`, `Latest`) is no value
(`PoolAssumption`, `ThresholdAssumption`, `ResilienceAssumption`, `MigrationAssumption`,
`BashAssumption` and `KubernetesAssumption` through `PipelineAssumption`, `MCPAssumption`, `SessionAssumption`, `IdAssumption`,
`AgentAssumption`, `NoneAssumption`, and in Services `OperationAssumption`, `MergeAssumption`,
`ReferenceAssumption`, `KeyAssumption`, `ContentAssumption`, `ValueAssumption`, `RowAssumption`,
`VersionAssumption`). TLC
evaluates them in each run of the module. One theorem has a hypothesis of its own: `NoneOfferedClosed`.

Every invariant and action property of the passing runs is stated by a theorem. `PROJECT.json` lists the theorems with the property each states.

**SSHPoolProofs** — `TypeCorrect`: `TypeOK` is inductive with `TaskShape` (who is inside
`execute` has a key; who prepares a retry has attempts left). `NoLeak`: *an open transport is in
the pool until the key locks are first replaced*. The property is not inductive: that `Connected`
overwrites no open connection depends on the key's lock admitting one creator and on the key
staying free under it. `KeyLockInv` says just that (one task per key between the lookup and the
insertion; the key empty, or holding the dead connection that task is closing) and is proved per
action. `CapacityBounded`: `CapacityDrift` is inductive by itself; the argument counts pooled
connections plus creators, and is about cardinalities: only `TakeSlot` adds a creator, at a moment
when the pool is below its limit, and then at most the *other* tasks are creators; `Evict` trades a
pooled connection for a creator and `Connected` trades it back. `CircuitsCount`: each step changes a host's breaker by
one of its operations or not at all, and every operation keeps count and state in agreement.
`NoneOfferedClosed`: no closed connection is in the pool, where `disconnect_all` is not called
(`MaxSweeps = 0`, as in the run that checks `PooledNotClosed`; with it the code does offer closed
ones). `ClosingInv` adds that a connection is pooled once and that whoever awaits a close has popped the
connection first or holds the lock of the one key it is under.

**ResilienceProofs** — `CountersCorrect` (type, `CountersMatchState`, `CountIsStreak`, inductive
together) and from it `OpensOnlyAfterConsecutiveFailures`: the counter that opens the circuit
never exceeds the number of failures in a row, in the order in which they are reported.

**MigrationProofs** — `TypeCorrect`; `Invariance` of `IInv`, which adds to the safety
properties what each place in the code knows: the process in the transaction is the writer, and stays it when cancelled
(`WriterMigrates`), whoever inserts the version has created the tables (`TablesCreated`), the version
it read has been reached (`ReadIsReached`), the transaction has done every step up to where it is
(`StepsDone`), and a file that did not begin at version 1 is never rebuilt (`OnlyFromOne`);
`VersionTrue`, `ConnectedMeansMigrated` and `MigrationsSerialized` follow. `Refinement`: every step of
Migration, the commit of a cancelled migration too, is a step of SchemaFile or a stutter. It needs,
beyond `IInv`, that no message is saved below the current schema (`Unsaved`), proved inductive.

**PipelinesProofs** — the four promises are about the end of an execution; `EngineInv` (the result is
empty up to the confirmation; what runs after it is approved and no dry run) holds of all kinds,
and each kind adds what its stages know of the target: `BashInv` (the effects are those of the
commands up to `next`), `AnsibleInv`, `KubernetesInv` (the count kept for the rollback is the one
replaced, unless others changed it), `TerraformInv` (the state file is true, and the plan carried out
is of this state) and `ProvisionInv`. `ApprovedChanges`, `SuccessIsWhole`,
`FailuresRolledBack` and `RollbacksUndo` read the promises off the invariant of the kind that runs;
`TypeCorrect` bounds the place in the list of commands.

**MCPManagerProofs** — everything rests on the lock: `LockHeld` (just the task that enters a group or
connects holds it), from which `PrefixSet` and `PrefixCorrect`; and on which groups there are:
`sessions` has one aggregation of each server marked as connected in the current group and none
elsewhere, while no `close` has begun, from which `Aggregated` and `ServersStartedOnce`.

**SessionProofs** — `OrderStays` holds whatever overlaps, fails or is cancelled: by `OrderInv`, wherever
messages are (memory, connection, disk, a row under way) they are increasing and older than the next.
`KnowsWhatItWasTold` and `CommitsAreWhole` are about undisturbed behaviours (`allowed = {}`; the
finding `SavedTogether` shows why): `WholeInv` says, for each statement of a save or load,
which of row and messages are already the new ones, and that what is told, or was loaded, is the summary with the messages.
`SessionImplements` is the refinement of Transcript, step by step: the statements of a save stutter
and its commit is the `Save`, for by `WholeInv` the connection's rows differ from the disk's in the
current session alone, and there hold just what it knows; summarising divides the messages and
loses none (`Splitting`), so adding one is a `Tell` either way; between the SELECTs of a load nobody
else is in a call, so the messages read are still those of the row. `KnowsWhatItWasTold` states one
consequence by itself (`NothingForgotten`, which no run checks any more).

**AgentProofs** — one invariant for each part and property. `FleetInv`: a host's task, its subagent, its
answer and its outcome are in step; the bound on concurrency is by cardinality of the semaphore's
holders. `CallsInv`: what the confirmations remember has been said. `ElevationInv`: what the method a call has
read, the prefix it has chosen and the password it holds imply about each other and about the host,
as long as no other call has verified one. `TurnInv`: agents have conversations of their own, and the one
stored is the one in mind. `PairedInv`: every history is well formed, so that a cut at the point that
`find_safe_truncation_point` chooses leaves no return without its call; the lemmas are about the window
on any sequence of messages. `GrowthInv`: what is stored goes on where the history did; with it
`OnlyContinued`, an action property.

**ServicesProofs** — an execution follows one part and `part` never changes, so each part has an
inductive invariant of its own: `ProviderInv` (where each of the four copies of the choice may
differ, by the last command and by whether its save failed), `RoutingInv`, `QuestionsInv` (a kept answer was typed for its words, as the
kind it is given as), `InventoryInv` (a host that an operator is about to create is not there),
`ReferencesInv`, `LoginInv` (`Fitting`: every path but those of `untried` has its own key's passphrase), `ScanInv`, `FilesInv` (`WritesInv`: at most one write is past its backup; `CrontabInv`), `SecretsInv`
(a name is in the index exactly while it has a value, but for the one being saved), `StateInv` and
`TemplatesInv` (`Regained`: a template registered by hand is listed, or the thread that holds the lock
has yet to register it again). `AsksAsShown`, `PutAwayIsKept`, `RegistriesKeepTheirWord`, `EachUsedForItsOwn` and
`ReportsAreTrue` join them. Three groups of lemmas are about data: `MergeIsTrusted`, that the wizard's merge of any claims keeps for each host
the data of the most trusted source, and `Highest`, that a nonempty set of versions has a
highest one, which is by well-foundedness of the natural numbers; and those on a text and its pieces, on
which `ReferencesInv` rests. A command is the concatenation of its parts (`FlattenSeq`), and the code replaces
by position, from the last match to the first. `ReferencesInv` says what a pass has reached: the text
is that of the same pieces, of which the references that are left are as they were and the others are
what they stand for (`Mixed`). That one replacement is one step of it is `CutMark`: the pieces up to the match are still the
ones in which its position was found, so cutting there takes out just that piece (`CutPiece`), whatever the
lengths of what has been put in behind it. `Marks` says that the matches are the beginnings of the references and
nothing else. There is no induction over sequences: the text up to each piece is given by a function
(`GatherExists`), and that it exists, is unique and grows by a piece at a time is by the least counterexample. With nothing left the
pieces are those of the second pass, which goes on from the text that the first one leaves.

Only model-checked: every liveness property (`CallsEnd` in four modules, `Recovers`, `EventuallyMigrated`,
`Terminates`, `EverythingEnds`), which fairness puts out of the prover's reach. That a
model refines a simpler one is proved for Migration and for Session.

## 6. Findings

Three disagreements between the code and what it says of itself, each with a run that exhibits it:

1. A second process can repeat the migration of a version 1 file ("a lock for multi-process
   safety", `persistence/database.py:334`): the version is read before the lock is waited for and
   not read again, and the repeated `DROP TABLE sessions` cascades to messages saved since.
2. `load_session` and `end_session` take no lock ("Lock for concurrent access (M3)",
   `session/manager.py:127`): a save can commit the row of one state with the messages of another.
3. `confirm_command` prints a command before it waits for the prompt ("Mutex to prevent overlapping
   prompts from parallel agents", `ui/console.py:67`): with two calls in one response the yes goes to the
   first command while the second is the one seen last.

Twelve more statements of the docs and comments that the code does not keep are definitions of the
modules, beside the properties that hold. No run checks them; given to TLC as an INVARIANT they have
a counterexample. In `EveryTransportPooled` and `ConnectedMeansAggregated`, one operation breaks what
holds otherwise (and is checked):

* `Migration!MigratedAtOnce` ("Commit entire migration atomically", `persistence/database.py:382`): a
  cancelled migration is committed half done by the `finally` clause (`:392`, `:326`); a second process
  that repeats step 2 and is cancelled between its DROP and its renaming (`:522`, `:525`) leaves a file of
  version 4 without the table `sessions` until the next start creates an empty one.
* `Session!HistoryLoaded` ("Load a session from database, including message history",
  `session/manager.py:487`): a SELECT of the messages that fails is only logged (`:595`); the session is
  current without them, and its next save deletes them.
* `ToolCalls!RunsExactlyConfirmed` ("Check if this exact command was already confirmed",
  `agent/confirmation.py:116`): commands are compared without regard to case (`:117`, `:127`) and whatever
  the host.
* `SSHPool!EveryTransportPooled` ("Disconnect all connections", `ssh/pool.py:501`): while
  `disconnect_all` awaits one close, `get_connection` inserts without `_pool_lock`, and `clear()` drops an
  open transport.
* `MCPManager!ConnectedMeansAggregated` ("Ensure a server is connected and aggregated into the
  group", `mcp/manager.py:307`): a `close` during a connect.
* `Turn!ExitTellsFailure` (exit codes, `docs/reference/cli.md:40`): an error of the agent counts as success.
* `Provider!StaysWithOllama` ("Switch to local Ollama for privacy", `docs/guides/llm-providers.md:251`):
  a base URL of the earlier provider stays in the environment (`config/providers.py:179`).
* `Routing!FlaggedIsAsked` ("Prompt user if router flagged severity/destructive intent",
  `agent/tools/core/ssh.py`): the fallback's verdict replaces the flag (`router/classifier/core.py:223`).
* `Login!ConnectPreparesBatch` ("Execute: /ssh connect", `ssh/auth.py:616`): what `/ssh connect` types is
  not always what a batch looks for.
* `Scan!TroubleIsShown` (`docs/commands.md:197`): the figures of the health summary are never read, the
  report always says "Internet: connected", recent errors never get into it.
* `RemoteFiles!BackedUp` ("backup: Create backup before writing", `docs/tools.md:298`): a failed copy
  does not stop the write.
* `ResourceState!RestoreRecovers` (`docs/architecture.md:705`): a snapshot stores only ids.

Other behaviour worth knowing, present in the models (as an action, a guard or a history variable that
excludes it from a property, where a comment says so):

* *SSH*: nothing ever sets "half_open" (`ssh/circuit_breaker.py:69`), so an open circuit is closed by
  `reset_circuit` only; `max_connections` can be exceeded by the bound `CapacityDrift` gives;
  disconnecting `web1` disconnects `web10` (`ssh/pool.py:494`); retries may run a command twice
  (`:427`). The passphrase callback of `/ssh` stores what is typed for the encrypted key of a jump host before
  the key is read with it (`commands/handlers/ssh.py:151`, `ssh/connection_builder.py:179`), and a wrong one
  stays; a login that fails clears the slots tried, of which one may hold another key's right one; a cancelled
  login leaves its tunnel open, and so does a connection that is closed later (not in the models).
* *Persistence*: commits of other tasks split a save (`persistence/database.py:589`), a cancelled save
  leaves its transaction open (`:590`); the migration flag is checked and set in two transactions
  (`:304`), and `BEGIN IMMEDIATE` is what really serialises. `end_session` replaces the summary
  (`session/manager.py:614`).
* *Pipelines*: an exception out of `apply()` is not rolled back (`pipelines/base.py:317`); the count
  restored is the one read before the approval (`kubernetes.py:334`), `rollout undo` after a failed
  restart goes one revision too far (`:575`); the Terraform rollback applies the unchanged
  configuration and so creates again what the failed apply created (`terraform.py:318`). The
  provisioners approve for the user (`provisioners/base.py:434`: no context has a `hitl`), and an
  exception out of the MCP backend leaves `apply` without data for a rollback
  (`provisioners/backends/mcp_backend.py:218-220`, `:279`).
* *MCP*: a server removed and added under the same name keeps its old process (`mcp/manager.py:314`); one
  that never answers keeps the lock (`:339`).
* *Agent*: the signal flag is never reset, so a second Ctrl-C kills (`cli/__init__.py:36`); `/conv load`
  returns data that the REPL does not handle; a stored conversation is cut to the window of the
  history; the expect script exits 0 whatever su says (`tools/interaction.py:165`), and the method that
  worked is saved only where the host is found by its name (`:465`, while `elevation.py:80` also looks
  by hostname), so that a password verified with sudo may then go to su; a subagent's command
  runs locally unless its host is mentioned or was the last target (`agent/tools/core/ssh.py:224`), and
  then is not asked for (`:289`); a
  cancelled subagent makes the gather's assertion fail (`subagents/orchestrator.py:199`).
* *Provider, routing*: `OPENAI_*` set for OpenRouter stays for OpenAI; an environment key wins over a
  newer one in the keyring; `MERLYA_*` overrides are persisted by the next save; a crash during a
  save leaves an empty file, which means the defaults; when `save` raises (`config/loader.py:257-271`) the REPL
  goes on (`repl/loop.py:342`) with the configuration and the environment changed and the agent as it was; a
  base URL left over by `merlya config set` (`cli/__init__.py:375`) is shown for OpenAI but not used; `--yes` makes the prompt for a flagged task raise.
* *Questions, references*: an answer is kept for the session and given again when the same words are
  asked too often, now as a secret or not; `@sudo-password` takes the first password stored for any host.
* *Scan*: a service that is not installed counts as one that is down and critical, since `systemctl` prints
  "inactive" before the echo of "not-found" (`tools/security/monitoring.py:222`); a protected key in OpenSSH's
  own format is reported as one without a passphrase (`tools/security/keys.py:100-105`).
* *Inventory*: a name that differs only in case is another host for the table and the same for lookups;
  `/variable import --replace` deletes all hosts first; a health check writes back the row it has read.
* *Files*: a retry copies a torn file over the good backup; `sync_file` reports "synced" for a file that
  decoding has mangled; `add_cron` with a failed `crontab -l` replaces the crontab.
* *Secrets, state, templates*: clearing counts failed deletions; a value without a keyring is lost with the
  process; clients overwrite each other's rows; a `register` before the first load keeps the loaders
  from loading; `get` beside another thread's reload finds no template (`templates/registry.py:95`, `:170`).

## 7. What is not modelled

* *External programs* (asyncssh, SQLite, terraform, kubectl, ansible, MCP servers, the keyring, model
  providers) appear by how merlya uses them. A SQLite transaction is atomic; a statement may fail. What a
  model answers, and what a user types, is a choice.
* *Text*: prompts, parsing, patterns, formatting, risk levels. They are pure functions whose tests reach
  what a model would; where a decision depends on one, its result is a choice (Routing, ToolCalls, Scan).
* *SSH dialogues*: several factors, PTY, SFTP; one call after another on asyncssh.
* *Context tiers and token estimates*: the choice whether to summarise is nondeterministic.
* *Code that production does not reach*: `capabilities/`, `fingerprint/`, writing of the audit log,
  `security/permissions.py` (its `request_elevation` tool is registered with no agent),
  `config/policies.py`, `manage_service`. A model of it would be of no behaviour of the program.
  Two exceptions are modelled although no command or tool of the program calls them yet, for the sake
  of the engine they share with the pipelines: the provisioners and their MCP backend (Provisioner).
* *Read-only or stateless*: health checks, the parser, log and network queries, i18n, validation,
  metrics and logging.
* *The composition of a request with the pool*: Fleet and ToolCalls cancel or run a command as one step, where
  SSHPool has it in a dozen; the product is beyond TLC, and SSHPool allows a cancellation at any of them.

## 8. Plan

Modelled: the core and everything of the first plan except what section 7 rules out. Proved: the safety
properties, as section 5 says. What could still be proved, in this order:

1. **Conditional statements made exact** — the disturbances that `allowed`, the history
   variables and `MaxSweeps = 0` exclude: for each, that it is the *only* cause (as `LoginInv` does for
   cancelled logins), for example `SavedWhole` under cancellation alone.
2. **SSHPool** — that a task holds a key's semaphore only for an open or doomed connection, and mutual exclusion of
   `_pool_lock`, as theorems of their own; a bound on transports outside the pool after a sweep.
3. **Abstract specifications** of more components, as Migration and Session have: a breaker as a counter of
   failures (Resilience), a conversation as an append-only log seen through a window (Turn).
