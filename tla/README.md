# ClewdR: a TLA+ model

ClewdR is a proxy written in Rust (axum, tokio, ractor). It offers the Anthropic and OpenAI
APIs to local clients and serves them from a pool of Claude.ai Cookies, through the Claude Web
chat endpoints or through Claude Code. Much of the program converts formats. What is hard
about it is state that outlives a request: a pool of Cookies that answers, limits and
administrators move around, and whose records many requests copy and write back; *explicit
sessions*, conversations that a client names, that must be continued at the right place upstream
after disconnects, failed writes and restarts; and *implicit* conversations, which are continued
when a request happens to repeat one.

This directory models that state, checks the model with TLC on small instances and proves
its safety properties with TLAPS. Paths below are relative to `src/src/` unless they say otherwise.

## The system

| Part | State | Operations | Interacts with | Hard because | Correct when |
|---|---|---|---|---|---|
| **Explicit operation lock** `claude_web_state/conversation_cache.rs` 214-371, 612-731 | weak registry of lock states per session; a slot with the generation in progress and its version; an outcome channel per generation | `lock_explicit_request`, `lock_explicit_operation`, `ExplicitReplayHandle::complete/fail`, drops of handle and guard | every explicit request, the reset and the download endpoint | not a mutex: calls read, subscribe, sleep and race; cancellation at every await; drop order | one operation at a time; a replay is fresh, complete and of an identical request; nobody waits for ever |
| **Explicit session records** same file, 485-523, 737-994, 1105-1170; `utils/mod.rs` | `inner`, the snapshot file, `persist_lock` | `set_explicit_checked`, `stage_`/`commit_explicit_turn`, `mark_explicit_uncertain(_in_memory)`, `restore_explicit_committed`, `tombstone_explicit`, `reset_explicit`, `flush`, load | chat, reset, router (maintenance) | memory changes before the file; a write can fail, or outlive the request that asked for it; restarts | a record that may be reused is never wrong about the upstream conversation |
| **Explicit chat and lifecycle** `claude_web_state/chat.rs` 100-711, 810-855; `claude_web_state/explicit_session.rs` 95-200; `types/claude_web/response.rs` | where a request stands; pending turn; the lifecycle that owns the operation while a response is read | `try_explicit_chat` with one recovery, `ExplicitLifecycle::commit/uncertain/drop`, `finalize_uncertain` | lock, records, Cookie pool, staged files | a completion may be accepted upstream though the connection fails; the client may leave at any await; recovery gives the lock back and takes it again | answers are durable; uncertain turns are never built upon; one failure does not leave a session stuck |
| **Turn planning** `explicit_session.rs` 205-423 | none; it reads the turns of a record | `digest_messages`, `plan`, `plan_turns`, `validate_timeline`, `parent_timeline` | chat, records | index arithmetic over two lists of digests, of which one has the answers and the other not | an answer is given after exactly the messages of its request, though only the last of them are sent |
| **Implicit conversations** `chat.rs` 286-354, 857-1232; `diff.rs`; cache 583-611, 996-1168 | cached turns per key of system prompt and first message | `try_chat`, `try_reuse_conversation`, `diff_messages`, `append_turn`, `fork_and_append`, `invalidate` | Cookie pool | reuse is decided on a copy; an attempt that failed may have been answered upstream | a parent message belongs to the history the request repeats |
| **Staged files** `protocol_files.rs` | index and its file, objects, leases | `stage_stream`, `resolve`, `add_`/`remove_`/`set_`/`reconcile_references`, `cleanup` | chat, router | object files and the index change in steps that fail separately | a referenced or leased file is never removed; quotas hold |
| **File-reference reconciliation** `chat.rs` 35-102, `explicit_session.rs` 25-46, `router.rs` 34-90 | references kept over a rebuild | guard and its drop, hourly maintenance | sessions, staged files | runs detached, beside later operations | references equal what the records name |
| **Cookie pool** `services/cookie_actor.rs` | `valid` queue, `exhausted`, `invalid`, affinity cache | Request, Return, Submit, Delete, CheckReset, GetStatus | every client; `CLEWDR_CONFIG` | clients hold copies and return them late, twice or never | a Cookie has one place, takes its turn and rests until it is due |
| **Configuration** `config/clewdr_config.rs`, `config/cookie.rs`, `api/config.rs` | `CLEWDR_CONFIG`, the TOML file | `save`, load and `validate`, `api_post_config` | Cookie pool | detached save tasks, no atomic write | it covers the pool |
| **Status cache** `api/misc.rs` | 5-minute status cache, mailbox of the actor | get, submit and delete Cookies | Cookie pool, Claude Code client | filled after an await | fresh after an invalidation |
| **Claude Code client** `claude_code_state/`, `config/token.rs`, `config/cookie.rs` | token, usage counters and window boundaries in the record of a Cookie | `try_chat` and `try_count_tokens` with retries, token exchange and refresh, usage probe | Cookie pool | requests work on copies that overwrite each other; refresh tokens are used up | usage is counted once and in its window; a token lost to another request fails nobody |
| **Messages** `types/claude_web/request.rs`, `claude_web_state/transform.rs`, `chat.rs` 1338-1385 | none | `normalize_explicit_message`, `merge_messages`, `bundle_user_messages`, uploads | turn planning, chat | two pieces of code read the same blocks | whichever of them sends a message, it says the same |
| **Responses** `types/claude_web/response.rs`, `middleware/claude/` | text gathered, open block; partial stop sequences; thinking blocks seen | `transform_response`, `stop_stream`, `normalize_stream`, `to_oai` | lifecycle, Cookie pool | lazy streams stacked on each other, each rewriting events; the commit in the middle of one | well-formed blocks; cut at the first stop sequence; nothing shown that is not recorded |
| Web bootstrap, upload, download `claude_web_state/{bootstrap,mod,transform}.rs`, `api/protocol.rs` | lease of a Cookie | bootstrap, uploads, download, reset endpoint | all of the above | the lease is returned in a drop | the Cookie comes back once |
| Authentication, router, self-update, types, frontend | none that lasts | | | | |

The parts in bold are modelled; `PROJECT.json` says of each how far.

## Modules

| Module | What it is |
|---|---|
| `SerialOperations` | What the lock promises, as a specification of seven actions: grant one call at a time, let a waiting call share the complete response of a twin that ran while it waited. |
| `OperationLock` | The lock as it is written: one action per std-mutex section and per watch-channel operation. Implements `SerialOperations` (`RefinesSerial`). |
| `OperationLockProofs` | The theorems about `OperationLock`. |
| `ExplicitSession` | Records, snapshot file, requests, lifecycle, reset and restart of one session. Uses `SerialOperations` as its lock. |
| `ExplicitSessionProofs` | The theorems about `ExplicitSession`. |
| `StagedFiles` | The index of staged files, its file, the objects, references and leases; uploads, rebuild guards, resets, maintenance and restarts. |
| `StagedFilesProofs` | The theorems about `StagedFiles`. |
| `CookiePool` | The Cookie actor, `CLEWDR_CONFIG`, the save tasks, the file and restarts. |
| `CookiePoolProofs` | The theorems about `CookiePool`. |
| `TurnPlanning` | Planning, suffix and commit of the turns of a session, over the tree of messages upstream. |
| `MessageContent` | What a message says, how it is digested, and the two ways it is sent to the service. |
| `TurnPlanningProofs` | The theorems about `TurnPlanning` and `MessageContent`, the two halves of what a session sends: which messages, and what of them. |
| `ImplicitChat` | The retry loop without a session, `diff_messages`, the cache and its snapshot, restarts. |
| `ImplicitChatProofs` | The theorems about `ImplicitChat`. |
| `CodeClient` | Requests of the Claude Code client on copies of Cookie records: tokens, usage, windows, status probes. |
| `CodeClientProofs` | The theorems about `CodeClient`. |
| `ResponseStream` | One answer from the service through `transform_response` and the layers to the client. |
| `ResponseStreamProofs` | The theorems about `ResponseStream`. |
| `StatusCache` | The admin endpoints, the status cache and the mailbox of the Cookie actor. |
| `MC...` | Instances for TLC. `MCTurnPlanning` holds an instance of `MessageContent` too; a behaviour takes the steps of one of them. |

They compose at their edges. `ExplicitSession` has `SerialOperations`, which `OperationLock`
implements, as its lock, and takes any plan that `TurnPlanning` can compute; `TurnPlanning` has
messages as digests, which `MessageContent` gives a meaning; `StagedFiles` has of a session only
its file mapping; `ResponseStream` has of it only whether its turn is open, committed or uncertain;
`CookiePool` has of a Cookie only its place, `CodeClient` only its record.

### `OperationLock`

`pc[c]` is the place of call `c` in `lock_explicit_request` (or `lock_explicit_operation`, the
calls outside `Requests`, which pass the empty fingerprint and never replay), and then in the
life of its permit. `registry` is the weak map's entry, `inst[c]` the `Arc` a call holds, so
that `Alive` is the strong count; `active[i]` is `StoredOperationState.active`, `outcome[g]`
the value of a generation's outcome channel; `signal` is the set of receivers with an unseen value. A call
makes at most one generation and at most one lock state, so both are named by calls.
`Arrive` is `stored_operation`; `Observe` the head of the loop; `SubscribeOutcome`,
`ReadOutcome`, `WakeOutcome` are `wait_for_replay_terminal`; `SubscribeRelease`, `ReadActive`,
`WakeRelease` are `wait_for_generation_release`; `Install` is the check and the assignment under
the slot's mutex; `Complete` and `FailReplay` are the handle, `DropGuardOutcome` and
`DropGuardSlot` the two parts of the guard's drop. `Cancel` drops a waiting future at any step.
`witnessed` is history: the identical requests that held the session during a call's wait.

### `ExplicitSession`

`mem` and `disk` are the record in `inner` and in the snapshot file. Conversations and turns
are named by the calls that made them. A mutation (`Mutate`) is `mutate_explicit`: memory
changes, a `job` is handed to the blocking pool, and the request waits at `"writing"` until
`WriteLands` or `WriteFails`, the latter with the roll-back the code does. A client that
disconnects in between leaves the job behind in `late`, where any number gather: each lands when it likes
(`LateWriteLands`), is lost in a restart, and is marked `passed` once a later write has landed before it.
A request goes through `Arrive`/`Grant` (lock), `Plan`, `Stage`, `Post`, `Respond`, one of the
`Read...` actions and `Complete`, or through one of the failures, to `FailReplay` and
`Release`, and then possibly once through a recovery (`SkipReset`, `RecoveryReset`) with a
second lock call; after a repeated failure of the kinds that can be recovered from it takes the
lock a third time before it reports it (`try_explicit_chat`). `life` and
`spawned` follow `ExplicitLifecycle` from its creation to its drop and the task that the drop
spawns. `Crash` loads `disk` and forgets everything else.

Abstractions. The plan is any of the outcomes `plan` can have for a record: create, append,
regenerate the last turn, fork (`keep` is `replace_from_turn`), or a refusal. The upstream is
whatever it answers. `doubtful` is history: the conversations with a completion that was posted
and not seen to end. File mappings and their references are left out, as are the 25-day
retention of tombstones and the session limits, whose refusals are among the outcomes of `PrepareFails`.
`release` takes the operation out of the lifecycle, so when a clone of the lifecycle is dropped after
it makes no difference, and one `life` bit per call is enough.

The code does not make a cancelled write land before the next one starts (see *Known divergences*). `overtaken` is history:
the snapshots that such a write has put over a later one. What they bring back is the exception
in `ReusableIsKnown` and `AnsweredIsDurable`, and without it TLC finds both violated; a cancelled write that nothing has
passed is no exception, and what it brings must be known like the rest.

### `StagedFiles`

`state` and `refs` are the index, `disk` its file; `objects` and `trash` the object directory
and the cleanup artifacts in it; `mapped` and `mapDisk` the file mappings of the session
records, all that is kept of `ExplicitSession`, whose operations run one at a time (`pc[s]`).
`task` is the upload, maintenance or startup that holds `lock_explicit_files`; `FilesFree` and
`IndexFree` say when that lock and the mutex of the index can be had. An operation that takes
the index lock, writes and replaces the index is one action with three outcomes: `Written`,
`Fails`, and `Lands`, the client's going away during the write, after which file and index
differ. Where objects change too (`Stage`, `StageWrite`, `RemoveEvicted`, `StageEnds`,
`Discard`; `Maintain`, `Scan`, `CleanupMove`, `CleanupWrite`, `DeleteMoved`) every step is an
action of its own, so that a failure or a restart comes between any two. `drops` are leases
whose `drop` has spawned a task that has not run. `armed` and `orphaned` follow the guard that
keeps references over a rebuild. `uncounted` and `torn` are history. `uncounted` are the files of which a failed `resolve` dropped a lease
it had not counted, which takes the count of another request (*Known divergences*), until all leases of
the file have been dropped; `LeasedStays` excuses their readers. `torn` are the sessions whose
reset a disconnect, a failed repair or a restart cut short, and those that put a mapping of an uncounted file after
it had been removed, until maintenance finds what they map live; `MappedIsReferenced` excuses them.

Abstractions. All files have one size and one principal. A scan and the deletion of artifacts
are one action each, in which any subset may be left over: nothing else looks at these
objects. The last use is one bit, `old`, and survives a restart. As in the session runs, a
file operation that outlives its request takes effect at once or never. `Stage` begins when the body has been read;
in the code the lock on files is held from before that.

### `CookiePool`

One action per message of the actor, which handles them one at a time. `lent` is the set of
Cookies of which a client may have a copy; it never shrinks but at a restart, so that copies
come back late and repeatedly. `due` stands for reset times that have passed. `config` and
`file` hold `cookie_array`, split by whether the stored Cookie has a reset time, and
`wasted_cookie`. `Save` publishes to `CLEWDR_CONFIG` and queues a task; `SaveLoads` and
`SaveWrites` are that task. `Restart` also lets a write in progress leave an empty file, which
loads as the default configuration. Usage counters and tokens are abstracted: the saves
they cause are in `CheckReset` and `GetStatus`. `relapsed` is history: the Cookies that a late copy gave up while they
rested, or limited after they were given up. The code keeps both entries, also in the file, so a first start may find some,
and `OnePlace` excepts them, but only from the claim that what was given up is not in use. `running` is FALSE once the handler of a message has failed:
`handle` ends with `reply_port.send(..)?`, which is an error when the caller has gone, and an error
of its handler stops the actor (ractor, external). What the properties say of the pool holds of a stopped one, too.

### `TurnPlanning` and `MessageContent`

A message is its digest, a request a sequence of them, of which `Users` and `Assistants` tell the
roles. `session` is the record with its turns as `commit_explicit_turn` makes them; `nodes` is the
conversation upstream, a tree: each answer with the messages and the system prompt it was given after (`after`, `system`), the request
and the system prompt that were asked (`request`, `asked`) and the answer. `Create` sends the whole request, with the system prompt in its first message, `Continue` the suffix that
`Suffix` cuts off and nothing else, after the parent that `ParentOf` chooses. When the first turn is regenerated that is the root, so
that the new answer and all that follow it have no system prompt (`SystemOf`); `first` tells these answers apart, and
`AnsweredAsAsked` excepts their system prompt, not their messages. The answer may be empty (`NoText`), and
the response may not be read to its end, which leaves an answer upstream and the session uncertain.
`Recover` is the reset before a rebuild. `PlanTurns` is the code's, branch for branch; positions
count from one. Concurrency, failed writes and restarts are `ExplicitSession`'s business.

`MessageContent` gives the digest a meaning. A block has a kind, one payload, perhaps a name, and, when
it names a file, perhaps blank space around the id; `NormalizedBlock` and `MergedBlock` say what the two
readings make of it. `asked` is what the client sent last and `got` the turns that the service has:
`SendFull` begins a conversation with one reading, `SendIncremental` goes on and `SendIncrementalFork` takes the last turn again with the other,
`Repeat` is a request with other blocks that have the same digests, `Rebuild` the reset. `SentAsAWhole`
compares what the service has got with a reading in one line, `Said`. Two differences between the readings
are excepted or left out: file ids in an image or container block are trimmed when
a conversation is continued and not when it begins (`Untrimmed`), and without a session `merge_messages` silently
drops blocks that `bundle_user_messages` refuses, so that such a request fails to be continued and is
rebuilt. How long a text is, which decides whether it is sent as a `Paste` among the attachments, is a choice of the step.

### `ImplicitChat`

`task[t]` is a handler and the clone of `ClaudeWebState` its attempt works with; `pc` goes through the
awaits of `try_chat`: Cookie, bootstrap, plan, reuse or full send, transform, commit, or failure and
return. `base` is the copy of the record the plan was made on, `sent` what `pending_cache_write` will
record. `cache` and `disk` are the record of each key and the snapshot. The key is the system
prompt and the first user message; only user messages are hashed, so that answers edited by the client go
unnoticed by design. `nodes` is the service, which answers only after a message of the same
conversation (external). Nothing serialises the requests of one key, so a commit finds whatever record the key has by
then: `Kept` is what stays of it below the new turn, `Planned` what the plan was made on. Where they differ the message
is `misplaced`, history that restarts do not clear, since the snapshot keeps the turns. `AnswersInContext` excepts
the answers that follow such a turn, and `RecordsAreReal` what a record says from the first of them on.
`FailedNotReused` has no exception: a record that was invalidated takes further turns and stays invalid.

### `CodeClient`

`valid` and `limited` are the record the actor hands out and the one that waits; `task[t].copy` is the
clone of a request, `kept` the chat's copy during the look at the usage that
`update_cookie_boundaries_if_due` makes with a state of its own. Steps between which the code does not
await are one action. `grants` are the OAuth tokens: fresh, in their last five minutes, or
expired, and `spent` when their refresh token has been used. Of the counters are kept the number of
answers in `lifetime_usage` and, for each kind of usage window (`Windows`: session, weekly, `weekly_sonnet`, which
counts one family of models and is in `SonnetOnly`), the window of the service that the oldest answer in its counters was
added in. The kinds share one look at the usage, which `Read` makes when any of them is unknown or due: it clears the
counters of those that were due before the look and sets the boundaries of all that are tracked, or finds that there
is none (`Bounded`). The windows of the service end in `NewWindow`, each by itself. The timer, every 300 s, clears what is due in a
record and guesses the next boundary, which the service may contradict (`Guess`).

Overlapping copies lose usage, the last one wins: `UsageCounted` therefore
claims exactness only for Cookies that have not been used by two requests at once (`overlapped`) and, for all,
that nothing is counted twice. `OneWindow` has two exceptions, for which the code has nothing and both of which TLC
finds needed: usage added before the kind of window was known to be limited (`blind`), and windows that the service ended
before the local boundary, or while a look was under way (`outrun`). `is_count_tokens_unauthorized`
is not in the model: `check_claude` turns the 401 it waits for into a refusal of the Cookie before.

### `ResponseStream`

`Sends` is the service (external): blocks in order, of text or thinking, with summaries that may come
without a start or after the stop. `reader` is the state of `transform_response`, `body` the events it has
yielded, `search` and `blocks` the state of `stop_stream` and `normalize_stream`, `out` what the client
has. The order of the layers is that of `router.rs`: stop sequences first, then usage or the OpenAI
format. A session's response is made a whole first (`Readable`), so that its layers run when the turn is
settled; any other is pulled event by event, and when a stop sequence is found what is below is dropped. In a session the text is
recorded without links and without the cut of a stop sequence: a client that repeats what it was
shown then fails `validate_timeline` and its session is rebuilt, which is why `RecordedAsShown` has
exceptions. Without streaming, stop sequences are not looked for, and without a session an answer
without `message_stop` is accepted. What is counted (`Counts`) is the text gathered, whoever counts it, except that a whole
answer is counted with its links when the service is not asked (`enable_web_count_tokens`, off by default) or does not say.

### `StatusCache`

`mailbox` is the order in which the actor handles the messages of the calls; `applied` the changes it
has made; `status[g]` what a get was told. A submission is cast and not awaited. `owed` is history.

## Runs

| Run | Instance and bounds | Shows |
|---|---|---|
| `lock` | two identical requests, one other call; no bound on steps | `OneOperation`, `ReplayFromConcurrentTwin`, `CompleteIsFinal`, refinement of `SerialOperations`, `EveryCallResolved` |
| `session` | two identical streaming requests; one restart, one disconnect, whose write may land late, one failed write, each anywhere | `ReusableIsKnown`, `AnsweredIsDurable`, `FailsOnlyByOwnFault`, `OnlyHolderChanges` |
| `session_live` | one request that is not streaming and a reset; one restart, two disconnects, whose writes may land late, two failed writes | `EveryRequestEnds`, `OnlyHolderChanges` with the reset endpoint |
| `pool` | three Cookies, one affinity key, one save at a time, one restart | `OnePlace`, `ConfigCovers`, `TakesTurns`, `RestsUntilDue` |
| `staged` | two sessions, two files and room for one; one failure and one disconnect anywhere, in a resolve too, one restart | `NothingLost`, `LeasedStays`, `MappedIsReferenced` |
| `staged_live` | one session, one file; two failures, two disconnects, one restart | `ReferencesReconciled` |
| `implicit` | two tasks at once, one key, requests `u`, `u v v`, `u v w`; one Cookie with a changing account; no retry, three answers upstream, one fault | `AnswersInContext`, `RecordsAreReal`, `FailedNotReused` |
| `implicit_race` | two tasks, one Cookie, no faults; four answers | violation of `TurnsDoNotInterleave` |
| `code_client` | two tasks, one Cookie, streams, web counts and status probes; two requests, no retry, two kinds of window, one for one family of models, two of each, two faults | `UsageCounted`, `ServedUnlessFault`, `OneWindow` |
| `stream` | three deltas, two blocks, four pieces of text, three sets of stop sequences, all modes | `WellFormed`, `ShownUpToFirstStop`, `AnsweredIsCommitted`, `RecordedAsShown`, `CountedOnce` |
| `planning` | two user and two assistant digests, a system prompt or none, requests of up to four messages, three answers; beside it, one or two messages, of two blocks together, of eleven kinds, two payloads, one file name | `AnsweredAsAsked`, `RecordIsPath`, `PlansLastPlace`, `EchoContinues`, `SentAsAWhole` |
| `status` | two gets, a submission, a deletion | violation of `FreshAfterClear` |

Why the bounds are enough to be interesting. In `lock` three calls suffice for a holder, a sleeper that
is overtaken, an operation without a fingerprint, and a lock state that
dies and is made again; the theorems cover any number. In `session` each request makes up to three calls
of the lock, so up to six operations follow one another on the record, with forks and
regenerations of turns; a fault of each kind happens at every point between them, in every
order, and every pair and triple of such faults. Three Cookies are the least for which a Cookie can be passed over while
another is used twice. With one save at a time a message that would save waits for the save
task of the last one; the tasks touch nothing the properties read, so the order of the
messages is not restricted by it. Two files and room for one make every
upload of the other an eviction, of a file the first or the second session may be using. The second failure
in `staged_live` is there for a cleanup that fails and whose undoing fails, too. The requests of `implicit`
share a first message, end inside a turn, differ inside one, and extend one, so that every branch of
`diff_messages` is taken, on a record of up to two turns; three answers are a conversation, its continuation,
and a rebuild or a fork, or two continuations at once that leave the record with `u`, `v`, `v`. A request that
continues that record needs a fourth answer, which `implicit_race` has and the theorems cover. There is no retry because
the next attempt of a request starts from a fresh clone and is no different from a new request with the same messages;
the same is true of `code_client`. The bound counts answers, not requests: refused attempts come in any number.
Two requests in `code_client` are enough for copies that overtake each other, of which one
refreshes a token the other holds; a third adds nothing a copy could do that is not a return. Two kinds of window are
the least for which one causes a look that moves the boundary of the other. In
`stream` three deltas let a stop sequence begin in one, go on in the next and end in the middle of a
third, over the end of a block; `aab` overlaps itself and shares its end with `bb`, and `n` begins the links.
In `planning` a request of four messages is the least that repeats two turns with one answer and adds to them; three
answers allow a fork of a turn that has a successor. Its theorems cover all lengths. Two blocks are the
least whose order can be lost, or of which one can begin a conversation and the other continue it.

`MaxCrashes`, `MaxCancels`, `MaxWriteFailures`, `MaxFailures`, `MaxDrops`, `MaxSaves`,
`MaxRestarts`, `MaxNodes`, `MaxFaults`, `MaxRequests`, `MaxWindows`, `MaxDeltas`, `MaxBlocks` and `MaxLength` are the
only bounds of the modules (`MaxRetries` and `Capacity` are parameters of the program). Deadlock is not checked: in every
instance all calls end in the end, and the pool waits for messages.

### Fairness

`OperationLock`: a call that can run is polled, and a permit is used up: the handler that holds
it returns, fails or is dropped by axum. `ExplicitSession`: every task that can run does, a
snapshot write ends, and the upstream answers, fails or closes the connection. The code sets no
timeout of its own around the response, so this is an assumption on the HTTP client and on the
upstream. `StagedFiles`: an operation that holds a lock goes on, spawned tasks run, and the hourly
maintenance gets the lock on files in its turn: that lock is a tokio mutex, which serves its waiters in order, so strong
fairness is what the code gives to all that wait for it. Requests need not arrive, clients need not leave, nothing need fail.
That a session is not handed out in order does not hurt `EveryCallResolved`, because a session of the
model sees finitely many calls; with an unending stream of new calls a sleeper could be overtaken for ever.

Safety runs have no fairness. `ImplicitChat`, `CodeClient` and `ResponseStream` have no liveness property: their
loops are bounded by `max_retries`, and that a request ends is then only the assumption that the service answers.

### What the violations say

* `implicit_race`: the comment on the cache says that `operation_locks` provides a lock per key "so
  concurrent turns for the same conversation cannot interleave" (`conversation_cache.rs:521`). For implicit
  conversations that lock is `lock_operation`, which nothing calls. Two requests that begin alike plan
  on the same record; the second to finish appends its turn after the turn of the first, whose answer
  is not its parent, and the next request is answered after messages it does not contain.
  That is all that goes wrong: but for the turns recorded out of place every answer is in context (`AnswersInContext`).
* `status`: "Clear cache to ensure fresh data on next request" (`api/misc.rs:75`, `:199`). A get that was told the status
  before the change fetches usage from the network and puts the old status into the cache after it
  was cleared; requests are served it until it expires.

### Known divergences

These were found while modelling; the models contain the behaviour, and no run checks the statement:

* `src/README.md:36` says that concurrent identical requests share the completed response. A
  call that is asleep when the slot becomes free has no claim to it: if an identical request that came
  later takes it first and completes before the sleeper looks, the sleeper sends the prompt again.
* `conversation_cache.rs:1113` says that `persist_lock` keeps mutations from publishing snapshots out of
  order. A cancelled mutation gives it up while its blocking write goes on, and may replace a later snapshot. Such snapshots are
  the exception in `ReusableIsKnown` and `AnsweredIsDurable`.
* Recovery from `InvalidCookie` resets unconditionally (`chat.rs:406`), where recovery from other errors
  asks `explicit_recovery_still_needed` first, so it may remove a conversation that another request rebuilt meanwhile.
* A Cookie given up while an earlier answer has it exhausted stays exhausted too, and one limited by a late copy after it
  was given up is exhausted again; both are usable again when due (`services/cookie_actor.rs:258`, `:283`; `config/reason.rs:9`
  calls such a Cookie one that cannot be used). These are the exception in `OnePlace`.
* `resolve` makes the lease of a file before it counts it (`protocol_files.rs:440`). When its write fails,
  the drop of the lease takes away a count that belongs to another request, and the file that one reads may be
  removed; the request then maps a file that the index does not have. These are the exceptions in `LeasedStays` and `MappedIsReferenced`.
* `transform_response` is documented to account usage (`types/claude_web/response.rs:122`), but an implicit
  request calls it on `self` (`chat.rs:322`), not on the clone of the attempt that has the Cookie and the
  parameters, so nothing is recorded (`Count`).
* A request that repeats the first turn of a session is sent from the root of the conversation by `send_incremental_fork`
  (`claude_web_state/chat.rs:1144`), whose body has the bundled user messages and not the system prompt
  (`build_incremental_body`, `:1290`), which `merge_messages` had put into the first message of the full send
  (`transform.rs:372`). The new answer, and every later turn of the session, is given without it. `plan` refuses
  requests with another system prompt (`explicit_session.rs:283`), but nothing in the repository says that a regeneration sends it again.
* One look at the usage sets the boundaries of all kinds of window and clears the counters only of those whose local
  boundary had passed before it (`claude_code_state/chat.rs:554-589`). Where the service has ended a window that was not due here,
  or ends one during the look, and where answers were added before the first look that succeeded, the counters of the old window stand under the new
  boundary. Nothing in the repository promises otherwise.
* A client that leaves while the Cookie actor prepares a reply stops the actor (`services/cookie_actor.rs:407`),
  and no Cookie is handed out until a restart. Nothing in the repository promises otherwise.

## Proofs

Every module with state has its theorems in a module of proofs, except `StatusCache`, whose one property the code
does not have, and `SerialOperations`, which is itself a specification that `OperationLock` is proved against. They hold for any values of the constants that the named assumptions allow: sentinels
are none of the values they stand beside, bounds are natural numbers, modes are Booleans. The
assumptions that say more are named below.

| Theorem | Property | Holds |
|---|---|---|
| `OperationLockProofs!TypeCorrect`, `MutualExclusion`, `ReplaySound`, `CompleteStays` | `TypeOK`, `OneOperation`, `ReplayFromConcurrentTwin`, `CompleteIsFinal` | for any calls and fingerprints |
| `OperationLockProofs!LockRefinesSerial` | `RefinesSerial` | likewise |
| `ExplicitSessionProofs!SessionTypes`, `HoldersChangeRecords`, `FailuresAreOwn` | `TypeOK`, `OnlyHolderChanges`, `FailsOnlyByOwnFault` | for any requests, resets and faults |
| `ExplicitSessionProofs!ReusedIsKnown`, `AnswersAreDurable` | `ReusableIsKnown`, `AnsweredIsDurable` | likewise, and any cancelled writes |
| `StagedFilesProofs!StagedTypes`, `LiveObjectsStay`, `LeasedObjectsStay`, `MappedFilesAreReferenced` | `TypeOK`, `NothingLost`, `LeasedStays`, `MappedIsReferenced` | for any files, sessions and faults |
| `CookiePoolProofs!PoolTypes`, `CookiesHaveOnePlace`, `ConfigurationCoversPool`, `RequestsTakeTurns`, `CookiesRest` | `TypeOK`, `OnePlace`, `ConfigCovers`, `TakesTurns`, `RestsUntilDue` | for any Cookies, keys, saves and restarts |
| `TurnPlanningProofs!AnswersAreAsAsked`, `RecordsArePaths`, `PlansAreLastPlaces`, `EchoesContinue` | `AnsweredAsAsked`, `RecordIsPath`, `PlansLastPlace`, `EchoContinues` | for any digests and lengths |
| `TurnPlanningProofs!ContentIsWhole` | `SentAsAWhole` | for any blocks, payloads, names and numbers of messages |
| `ImplicitChatProofs!AnswersAreInContext`, `CacheIsReal`, `FailuresAreNotContinued` | `AnswersInContext`, `RecordsAreReal`, `FailedNotReused` | for any requests, also of one key at once, Cookies, retries and faults |
| `CodeClientProofs!UsageIsCounted`, `WindowsAreOne`, `FailuresAreFaults` | `UsageCounted`, `OneWindow`, `ServedUnlessFault` | for any requests, tokens, windows and faults |
| `ResponseStreamProofs!AnsweredFromCommit`, `OutputIsCounted`, `TurnsAreAsShown`, `StopsAtFirst`, `StreamsAreWellFormed` | `AnsweredIsCommitted`, `CountedOnce`, `RecordedAsShown`, `ShownUpToFirstStop`, `WellFormed` | for any texts, stop sequences, deltas and blocks |

No theorem assumes that a fault stays away or that clients wait for each other. Where the code does not have a
property outright, a history variable says of what not, and the property excepts just that: snapshots put over later ones
(`overtaken`), leases dropped before they were counted and resets cut short (`uncounted`, `torn`), Cookies given up by a late
copy (`relapsed`), turns recorded out of place (`misplaced`), usage of unknown or unnoticed windows (`blind`,
`outrun`), regenerated first turns (`first`). Each exception is needed: without it TLC finds the property violated. The bounds of
the instances (`MaxCrashes` and so on) are arbitrary in the theorems.

### `OperationLock`

Assumption `CallAssumption`: requests are calls, the sentinel is not a call.
All rests on the inductive invariant `IInv` at the end of the module. Mutual exclusion alone is not
inductive: that the slot of *a* lock state is free says nothing if there could be two states.
`StateInv` says that all calls in progress keep the one state that the registry names, which is
why upgrading the weak pointer under the registry's mutex is enough; `SlotInv` that a slot is
filled exactly by the call that holds a permit on it. For replays, `WitnessInv` says that a
generation a call watches, if it is a twin's, ran during the call's wait, and `OutcomeInv` that an
armed handle has not completed, so that the drops cannot withdraw a response. The refinement
maps the waiting labels to `"waiting"`, the holding labels to `"holding"` and outcomes to
responses; the watch-channel steps stutter, `ReadOutcome` is `Share`, `Install` is `Grant` and
`DropGuardSlot` is `End`.

### `ExplicitSession`

There are two invariants, because memory and the snapshot fail in different ways. `SafeInv` is about memory,
and holds with late writes and all: one call holds the operation (`Lock!OneHolder`), a request that
is past the lock is that call (`HoldsInv`), what it planned, staged or committed is what the record says
(`RecordInv`), and without a fault of its own it fails its first attempt at most, the second of which
starts without a record (`FaultInv`). `At(r)` is where a request is or will be when its write lands: the
request that waits for a write relies on the same facts as the one that has been woken. `DurableInv`
is about the snapshot: what is being written is what is in memory; what a roll-back would restore, and what
a cancelled write that was not passed may still bring, is known, that is of no conversation with a completion of unknown end that
an overtaken snapshot has not brought back; and no other is offered by either copy. `DiskInv` has the step that matters: a completion is posted only
after a write of its request has landed, and with that every cancelled write still on its way has been passed. So what lands
after the conversation has become doubtful is noticed in `overtaken`.

### `StagedFiles`

`ObjectInv` says what a task has in hand at each of its steps (`TaskInv`): the object it has placed is not yet
live, what it removes is dead in the index *and* in its file, what it has moved aside it can still bring back; and that the lock
on files has one owner (`LockInv`). `LeaseInv` counts: the leases of a file are the requests that use it and the drops that have not run, so that
zero means what `evict` takes it to mean. Of an uncounted file they are at most as many; that is enough to see that when
the last one is dropped none is left, and counting is exact again. `ReferenceInv` says that what a record maps is backed, that is referenced and live in the
index and in its file, or can be again while a reset is under way, and that `mapNew` and `mapOld` write no mapping that is
not backed, unless its file was uncounted and has gone.

### `CookiePool`

`PoolInv` is `TypeOK`, `OnePlace`, `ConfigCovers` and `StoredApart`. `OnePlace` is not inductive: `Submit` asks the
configuration whether a Cookie is new, so it needs `ConfigCovers`, for the Cookies given up as well, and a restart makes the
pool of what was stored, so it needs that whatever was stored has no Cookie twice but the relapsed (`StoredApart`), also in
the files that save tasks have yet to write. The two action properties follow from it, step by step.

### `TurnPlanning`

Assumption `RolesDiffer`: no digest is both of a user and of an assistant.
`Inv` adds to the two properties that the record is typed (`RecordTyped`: its turns name answers that
exist, its system prompt is the one every answer was asked for under). Its core is `RecordIsPath`: the timeline
before a turn is the path upstream to the turn's parent. From it `ParentIsTimeline` concludes that whatever
`PlanTurns` selects, the messages upstream up to the selected parent are those of `ParentTimeline`; `validate_timeline` says that the
request is that timeline and the suffix; so what is sent after the parent completes the request. `PlannedIsValid`
needs of `PlanTurns` only where its result points. `PathsStay` carries all paths over to the next state, because answers are only added,
and the two lemmas about `WithTurn` carry the turns before the new one.

Which place is chosen among several is another matter, and `Inv` says nothing about it. `PlanTurns` compares the user
messages of the request with those of the turns and never looks at an answer; `PlansLastPlace` and `EchoContinues`
are about whole timelines. What connects the two is `TurnsInv`: for every turn, the timeline before it is
the request of the turn before and its answer (`TimelineTo`), its own request is that timeline with user
messages added, unless it is the first, and the user messages of its request are those of all turns up to it (`UsersTo`). Neither
property is inductive, as they say nothing of the turns that a later fork lays bare; `TurnsInv` speaks of
each turn, so that `WithTurn`, which keeps a beginning and adds one turn, keeps it too. From it the
argument goes: a place after turn *i* that a request can be continued at implies that the request has the user messages up to *i*, which
`plan_turns` cannot miss, since it takes the first turn that differs; so no later place exists than the planned one. Conversely
the planned one is a place because `validate_timeline` said so. The lemmas are about `FlattenSeq` over a
filter: what it makes of a concatenation, of an appended element, of a beginning.

### `MessageContent`

Assumption `ContentIsTyped`. `SentAsAWhole` compares all of what was said with all of what was got, and is
not inductive: `SendIncrementalFork` sends the last turn again, so one must know which messages that turn
was. `ContentInv` has it (`OneEach`): every turn after the first says one message, and the first those before, so that
*each* beginning of the turns says a beginning of the messages (`Says`). A turn is dropped from
the end of the one and the other, and a turn is added that says what was dropped. What remains is about a single
block (`BlockSaid`): the two readings make the same piece of it, but for the padding of an id
(`SaidAlike`), and `Said` is what the piece stands for. That the pieces of one type, picked from many
messages, are those picked from each is where sequences of any length come in: `FlatMap(f, s)` is what
the function `f` makes of every element, and `FlatMapConcat`, `FlatMapTwice`, `FlatMapEach` and `FlatMapUnless` (two functions
that differ only where one makes a bad element agree on a sequence of which none is made: the exception
`Untrimmed`) are proved by induction, once. `SaidOtherwise` is `Repeat`: messages with the same digests have the same pieces.

### `ImplicitChat`

Assumption `RequestsAreNotEmpty`. `ChatInv` says that a record, cached or stored or copied, is `Real`: the message
each turn names was answered after the user messages of the turns up to it, as long as none of them is misplaced (`Clean`). The
plan of `diff_messages` is right because the turns before the chosen one are the request up to the suffix (`Continues`), which is
an induction over the turns of the record. A commit need not find the record that was planned on, perhaps not even one of the
same conversation; but if what it keeps are the planned turns (`PlacedTurn`), there is at least one of them, and the message it names says which
conversation both records are of. What an attempt failed in is not offered (`poisoned` in `RecordInv`), since `invalidate` comes
before any other handler of the key plans, and no commit makes a record valid again but that of a new
conversation, of which `OwnInv` says that nobody else knows: neither a record nor another attempt, so none can have failed in it.

### `CodeClient`

`ClientInv` says of a record what stays true of any copy while the rest of the system goes on (`Good`): it counts at most what was
answered, the boundary of each kind of window has begun, its counters have nothing from before it, and its token was issued. That is
why a copy may come back at any time. `ExactInv` says of a Cookie that no two requests have had at once
that all its records agree, and that the request that has it still has the pool's record to add to.

### `ResponseStream`

Assumption `TextAssumption`: links and stop sequences are not empty (what the
trie of `stop_stream` does with an empty one is its library's business, and not modelled). `SearchInv`
says that the partial matches `stop_stream` keeps are exactly the prefixes of stop sequences that end the text
read so far (`Begun`), of which `SearchedOne` is the step by one letter; so a match is noticed at
the letter that completes it, whatever deltas it is spread over. `ShownInv` says that what the client has
and what is on its way to it are together what `transform_response` has gathered; `TurnInv` and `UsageInv` follow
a session through `settle` and the count. The texts of events are joined by `FlattenSeq`, and the layers
run over the events of a step with recursive functions; `NormalizedTexts`, `ConvertedTexts` and `SearchFinds`
say what these do.

For `WellFormed` there is a second invariant, `FormInv`, on top of the first. A position (`Positions`) is all
that matters of a stream of the service: its next block, what is open, which blocks of thinking have
stopped. `Takes` is one event, `Path` a run of them, and `Follows` relates a position to what the
client has been sent and to the sets that `normalize_stream` keeps. The invariant says that some position follows what
the client has, and that what is on its way is a path from there to where the service stands. The links keep to it because
`transform_response` knows the open block and the next one (`ReaderInv`), the stop layer because the
events it ends with close the block the match was in, and `NormalizedFollows` is the step of the last layer,
on any event. So the properties of `WellFormed` follow from one place in each layer and not from the
whole stream, which is where a bounded run could miss a long one.

The library's induction theorems cannot be used here (see below). `Induction` in `ImplicitChatProofs`,
`ResponseStreamProofs` and `TurnPlanningProofs` is for a *set* of numbers, and is proved from the least element of its
complement (`NatLessThanWellFounded`, `WFMin`), which is all that these need.

### What is only model-checked

What eventually happens: `EveryCallResolved`, `EveryRequestEnds`, `ReferencesReconciled`. And the two violations,
which are behaviours of an instance by nature. Every invariant and action property that a passing run checks is a theorem.
TLAPS does not do liveness under fairness or `ENABLED`, induction with an operator as parameter, or
`RECURSIVE` operators; no module here needs the last.

## Not modelled

Authentication, startup and self-update, the frontend, and the parsing of wire formats: they keep no state
that requests share. Of the parts that are modelled: the capacity of the session cache and the retention of tombstones;
principals, sizes and names of staged files; request preprocessing (`middleware/claude/request.rs`), tool
calls and parameters; the download handler; the settings of the configuration other than the Cookies.

## Plan

1. `StagedFiles`: the references a guard preserves against the maintenance of the hour
   (`chat.rs:477`; the test at `chat.rs:1903` describes what a rebuild keeps).
2. Capacity and retention of session records.
3. The download handler of `api/protocol.rs`, which holds the operation lock and a Cookie while it streams.
