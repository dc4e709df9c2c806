# A TLA+ project for webchat2api

webchat2api puts one OpenAI-style HTTP API in front of web accounts of several
AI services (ChatGPT, Grok, Gemini, CatPaw, CodeBuddy, Qoder, JoyCode). The
accounts live in a pool that many request threads share; image requests take
*slots* of an account, long image requests run as background *tasks*, identical
deterministic chat requests share one *computation*, and answers of seven
upstream protocols become the streams of five client protocols. These modules
model the parts of the program that keep state and meet concurrency, failures or
restarts, and the streams, whose state is the order of what a client is told.
Every definition follows the Python code (`PROJECT.json`, "map", names the
lines); names in the modules are the names of the code where TLA+ allows it.

## 1. Inventory

The program is one process: FastAPI runs handlers in a thread pool or on its
event loop, background threads run tasks, imports, researches, refreshes and
backups. State is in memory, guarded by one lock per service, and written to
JSON files, a database or a git repository after changes. Components interact
through direct calls (an image task calls the image handler, which calls the
account pool), through callbacks (generators that are closed when a client hangs
up) and through files read again at the next start.

| Component | State | Operations | What is hard | What makes it correct |
| --- | --- | --- | --- | --- |
| Image account pool (`services/account_service.py`) | accounts by token, slots counted per token | take and release a slot, probe, charge, fail, import, update, delete, replace | the probe runs without the lock; accounts disappear and come back while slots are held; threads wait on a condition | slots are conserved, an account is not overcommitted, late answers revive nothing, nobody waits for ever |
| Image request loop (`services/providers/gpt/runtime.py`) | tokens refused, images still to produce | acquire, generate, mark the result, retry | generations are abandoned by timeouts and clients; marking a result may itself fail | a slot is given back exactly once, refused tokens are not used again |
| Image tasks (`services/image_task_service.py`) | tasks in memory and in a file, one thread per unfinished task | submit, poll, run, recover, clean up | crashes between any two steps, failing writes, repeated submissions, an answer that reads the task without the lock | a task is run once, what a client was told survives, every task ends |
| Account checks (`api/support.py`, `account_service.py`, `codebuddy/client.py`) | one watcher thread, the status of accounts | refresh the limited accounts, try CodeBuddy keys daily, renew CatPaw tokens | one thread for all; its calls, writes and accounts fail or change | a limited account that is served again does not stay limited |
| Completion cache (`services/protocol/chat_completion_cache.py`) | entries with an expiry, computations in flight | get or compute | waiters of a shared computation, errors, eviction, settings that change | one computation for identical requests, no expired answers, nobody is left waiting |
| Image storage (`image_storage_service.py`) | local files, WebDAV copies, an index | save, list, delete, synchronise, expire | three stores updated one after the other, crashes in between | a stored image can be found again, a deleted one cannot, no copy is forgotten |
| API keys (`services/auth_service.py`, `services/storage/json_storage.py`) | keys in memory and storage | create, update, delete, authenticate | the delayed write of `last_used_at`, loads that fail, saves that fail or break off in the middle of the file | a deleted key stays deleted, an issued one stays |
| Import jobs (`cpa_service.py`, `sub2api_service.py`) | one job record per source | start, progress, finish, edit the source | read-modify-write in several lock sections, restarts | counters are exact, jobs end |
| Remote account sources (`remote_account_service.py`) | the job of a source, who owns an account | synchronise by merging or replacing | overlapping synchronisations | accounts of administrators are not taken away |
| Backups (`backup_service.py`) | running flag, state file, remote objects | schedule, run, rotate | two schedulers, failing writes | one backup at a time, the reported one is kept |
| Deep research (`gemini_deep_research.py`) | interactions in memory | create, run, poll, purge | threads that die, items that expire | an interaction ends, final answers stay |
| Grok (`providers/grok/client.py`, `accounts.py`) | console quotas, account states | reserve, refund, refresh, validate; chats over several accounts | refunds after resets, streams that break | units are conserved, one account answers |
| Interactive logins (`api/account_flows`) | jobs in memory | start, poll, cancel, expire | overlapping polls | a login that is over adds no account |
| CatPaw (`providers/catpaw`) | pairs of tokens, conversations by dialogue | refresh, renew, log in; remember and evict | every refresh makes the last token useless | the stored pair works, dialogues keep their conversation |
| ChatGPT client (`openai_backend_api.py`, `gpt/runtime.py`) | the session of a backend, the state of a conversation | prepare and post a text request, read its stream; draw, poll and download images | retries inside retries renew the session; ids mean different things | tokens of one session, words told once, no reference is taken for an image |
| Protocol adapters (`services/protocol`) | what was told so far | sieve tool calls, make chunks, content blocks and response events | a tag split over deltas, producers in threads, failures in the middle | text is told once, blocks are paired, a completed response tells all |
| Call log and content filter (`log_service.py`, `content_filter.py`, `api/ai.py`, `api/gemini.py`, `utils/helper.py`) | log lines | filter, answer, stream, log, prune | an `except` clause and a `finally` that both log; routes that answer outside `LoggedCall.run`; writes that break off | one line per logged call with what the client was told |
| Model catalogue, settings, storage backends, routes, web console, browser bridge | little or none | read, write, present | | not modelled |

`PROJECT.json` lists all components with their status, and under "hazards" what
is hard to test in each, with the line where it bites and the properties that
cover it.

## 2. Modules

The account pool that every image request goes through came first, then what
clients see of it, then the services around it, then the protocols.

| Module | Models | Abstract specification | Theorems |
| --- | --- | --- | --- |
| `ImagePool` (with the request loop) | `account_service.py`, `gpt/runtime.py` | `ImageSlots`: a bank of slots | slots conserved, refused tokens skipped, overcommitment bounded, no resurrection, refinement |
| `ImageTask` | `image_task_service.py` | | one thread per task, reports survive crashes |
| `ChatCache` | `chat_completion_cache.py` | | one computation per key, no stale answer |
| `ImageStorage` | `image_storage_service.py`, `config.cleanup_old_images` | | acknowledged images found, index truthful and matching the server, deletions last |
| `AuthKeys` | `auth_service.py`, the keys of `json_storage.py` | | issued keys survive, revoked secrets stay out |
| `RemoteSync` | `remote_account_service.py` and `account_service.py` | | manual accounts stay |
| `Backup` | `backup_service.py` | | one backup runs, the reported one is kept |
| `GrokConsole` | console quota in `account_service.py` and `grok/` | | units conserved, exhausted accounts are planned to come back |
| `ImportJob`, `DeepResearch`, `AccountChecks` | threads of `cpa_service.py`, `gemini_deep_research.py`, `api/support.py` | | import counters exact, research polls final |
| `GrokAppChat`, `LoginFlow` | chats of `grok/client.py`, `api/account_flows` | | one account answers, logins that are over add nothing |
| `CatPawTokens`, `CatPawConversation` | `providers/catpaw` | | the stored pair works, dialogues keep their conversation |
| `GptEvents`; `GptText`, `GptImage` extend it | `gpt/runtime.py`, `openai_backend_api.py`, `network/retry.py` | | tokens of one session, the answer told once, drawn images told |
| `ToolCalls`; `ChatStream` and `ResponseStream` extend it, `AnthropicStream` extends `ChatStream` | `services/protocol` | | the sieve holds nothing back, completed responses tell all, blocks of messages are paired |
| `Selections` | sequences filtered by place, which several modules need | | |
| `GeminiNative` | `gemini_native.py`, `api/gemini.py` | | |
| `CallLog` | `log_service.py`, `content_filter.py`, `api/ai.py`, `api/gemini.py`, `utils/helper.py` | | a log line tells what the client was told |
| `MCImagePool`, `MCImageTask`, `MCThreads`, `MCServices`, `MCChatCache` | instances for TLC | | |

Every module takes its sets and bounds as CONSTANTS, has one action per lock
section (or per handler where one handler is one section) and declares no
RECURSIVE operator. `ImagePool` contains the request loop instead of composing two
modules, because the two share the program counter of the thread:
`get_available_access_token` is a call of the loop, and the slot it returns
is a local variable of the loop. `AnthropicStream` composes the converter with
the chat stream it reads from, which a thread produces ahead of it.

Services that share no state are checked side by side: `MCServices` (requests
and their data) and `MCThreads` (background threads) have one more variable,
`active`, that the initial state sets to the service that moves. TLC then
explores the sum of their behaviours; the product would contain nothing
new, because no action of one reads or writes a variable of another.

## 3. How the modules correspond to the code

### ImagePool: account pool and request loop

State. `accounts` is `AccountService._accounts["gpt"]` reduced to status and
image quota (`Gone`: no entry; `abnormal`: 异常 or 禁用; quota `Unknown`:
`image_quota_unknown`). `inflight` is `_image_inflight`. Per request thread,
`pc` and `tok`, the set `tried` (`attempted_tokens` inside
`get_available_access_token`), the set `attempted` (the one of
`stream_image_outputs_with_pool`) and `todo` (images left of `n`).
`drift` is a history variable: what `_image_inflight` counts beyond the slots
requests hold. No action reads it.

Actions. A section under `AccountService._lock` is one action; what runs between
two sections (the upstream call of a probe, the generation) is the time
between two actions.

| Code | Actions |
| --- | --- |
| `stream_image_outputs_with_pool`, begin of a request | `Start` |
| `_acquire_next_candidate_token` | `Exhausted`, `Take`, `Wait`, `WaitExpires` |
| `get_available_access_token`, around `fetch_remote_info` | `ProbeAnswers`, `ProbeFails`, `ProbeInvalid`, `ReleaseProbed` |
| generation ends; `mark_image_result` up to its second section | `GenerateEnds` |
| generation ends without `mark_image_result` | `Abandon` |
| `mark_image_result`, second section | `Charge`, `Fail` |
| the same when `_save_accounts` raises, and the `except` clause that follows | `VerdictUnsaved`, `ReleaseAgain` |
| `remove_invalid_token` and the next round of the loop | `Retry` |
| `add_accounts`, `add_account_items` | `Import` |
| `update_account`, and `refresh_accounts` through it | `Update` |
| `delete_accounts`, `delete_limited_accounts`, `replace_account_items_for_remote_source` | `Delete`, `DeleteLimited`, `Replace` |

Abstractions. Which free account is taken (dict order, rotated by `_index`) is
left open, so the properties hold for every order. A payload that replaces
accounts yields accounts with status normal and no quota, the default of
`_normalize_account`. `remove_invalid_token` takes the lock once for its decision
and once for its change; both read the same account and the switch only, so they
are one step. A failing save is modelled where it has an effect beyond an
error message: in the verdict of a generation, which the loop repeats.

### ImageSlots: what callers rely on

The abstract specification: a token has `Limit` slots; `Grant` only while fewer
than `Limit` are held or lost; `GiveBack`; `Lose`. `ImagePool!Slots` maps a
request that holds a slot to `holds` and `drift` to `lost`.

### ImageTask: background tasks

State. `mem` is `_tasks`, `disk` the file, both reduced to status and to whether
`updated_at` lies beyond the retention period. `pc` and `job` are the daemon
threads (and, until it is started, the place of the submission that starts one);
`up` says whether the process runs; `asking` holds the keys whose submission has
started its thread and has yet to answer. Three history variables: `reported` is
the status a client was last told within the retention period, `early` the keys
of which it was told ahead of the file, `faulty` the keys whose task met a failing write
or a thread that did not start.

| Code | Actions |
| --- | --- |
| `_submit`, new id: the lock section | `Submit`, `SubmitFails` |
| `thread.start()`, after the lock is given back | `StartThread`, `StartFails` |
| the return of `_submit`: `_public_task(task)` without the lock | `AnswerSubmission` |
| `_submit`, known id; `list_tasks` | `Poll`, `PollFails` |
| `_run_task`: status running; handler returned; `except` clause | `Begin`; `Succeed`; `HandlerFails`, `Fail` |
| `_update_task`: the change in memory, then the write of the file | `Change` (in `Begin`, `Succeed`, `Fail`), then `Save` or `SaveFails` |
| the retention period ends (`_cleanup_locked` acts on it) | `Age` |
| the process dies; `__init__` with `_load_locked`, `_recover_unfinished_locked`, `_cleanup_locked` | `Crash`, `Restart` |

The update of a task is two actions although one lock section holds it, because
two things look past the lock: the answer of a submission, which reads the task its thread
shares, and a crash. So a submission may be answered "running" or "success"
before the file says so, and a crash may take that answer back; `Kept`
has this as its one exception (`early`), and says that it ends with the write:
until then the thread is in the middle of the update, and after a crash the task is an error.

Abstractions. The file is replaced by a rename, so it holds the old or the new
contents; power loss is not modelled. The period is at least one day, hence no
thread is still between its last two updates, and no submission unanswered, when its task grows old. A restart
whose own write fails is a process that does not start, which is a
longer crash.

### ChatCache: shared computations

State. `entries` and `inflight` are `_entries` and `_inflight`; per request `pc`,
`key`, `cfg` and `now` (settings and time read on arrival, before the lock),
`call` (whose computation it waits for) and `answer`. `settings` and `clock` are the
configuration and the time. An `InflightCall` is named by the request that owns it, which owns one
at a time.

| Code in `get_or_compute` | Actions |
| --- | --- |
| settings and `time.time()` are read | `Arrive` |
| cache switched off | `Bypass` |
| first lock section | `Lookup` |
| `compute` raises, `_inflight.pop` | `Raise` |
| `compute` returns, entry stored, pruned, `_inflight.pop` | `Store` |
| the call's condition is notified | `Publish` |
| the result is returned or the error raised | `Return` |
| `config.update`, time | `Configure`, `Tick` |

Abstractions. Waiters receive the outcome in `Publish`, not when they wake up:
the call object does not change after it is done. Copies of results do not fail.
`clear()` is called by tests only and left out. Which of several entries with the same
expiry is evicted is left open.

### ImageStorage: files, copies and the index

State. `local`, `old` and `remote` are the images with a file, with a file past
`image_retention_days`, and with a copy on the WebDAV server; `index` is the
index file, reduced to "no entry", "entry without copy" and "entry with
copy" (the entry's `local` flag is derived from the files whenever it is
used). `saving` and `plan` are the threads in `save` with the mode they read; `target`, `stage` and
`cut` the deletion in progress; `syncing`, `todo` and `newItems` the thread in
`sync_all`. Histories: `acknowledged` (images whose client got an address, minus
those deleted or expired without a copy), `asked` and `gone` (deletion begun,
succeeded), `leaked` (copies that a fault or a stale mode left without an entry).

| Code | Actions |
| --- | --- |
| `save`: cleanup, mode | `Begin` |
| `save`: `write_bytes`, `put`, entry | `Write`, `Upload`, `Index`, and each with `...Fails` |
| `cleanup_old_images` | `RemoveOld` in `Begin` and `Cleanup` |
| `list_items` | `List` |
| `delete`: file, copy, entry | `Unlink`; `ForgetCopy`, `ForgetRefused`, `ForgetBroken`; `Unindex`, `UnindexFails` |
| `sync_all` | `SyncBegin`, `SyncFile`, `SyncFileFails`, `SyncEnd`, `SyncEndFails` |
| time, `config.update`, the process dies and is started again | `Age`, `SetMode`, `Crash` |

Abstractions. `list_items` and `delete` run on the event loop, so one at a time,
and `list_items` is one step: each file is examined on its own, and what is
decided of it is what a look at that moment gives. A path contains the second and the hash
of the image, so no path is saved twice. A path is deleted only once somebody
can know it. There is one WebDAV server. The index is replaced atomically and can
always be read. The removal of the empty directory of a day while another thread is about to write
into it is one of the reasons of `WriteFails`. Thumbnails and tags are changed on the event loop
only and left out.

### AuthKeys, RemoteSync, Backup, ImportJob: services with one lock

| Code | Actions |
| --- | --- |
| `list_keys`, `create_key`, `update_key`, `delete_key`, `authenticate` | `Reload`, `CreateKey`, `UpdateKey`, `DeleteKey`, `Authenticate`; each with a load and a save that may fail |
| `sync_source`: mark, fetch, inject, end | `BeginSync`, `FetchPayload`, `FetchFails`, `Inject`, `EndSync`; `EditRemoteSource`, `DeleteRemoteSource` |
| accounts imported and deleted meanwhile; a restart | `ImportAccount`, `DeleteAccount`, `SyncRestart` |
| `run_scheduled_backup_if_needed`; `run_backup`, `_run_backup_once`, `_apply_rotation` | `Check`; `BeginBackup`, `UploadBackup`, `Rotate`, `DeleteNext`, `Succeed`, `Fail`, `Release` |
| `delete_backup`; a restart | `DeleteBackup`, `BackupRestart` |
| `start_import`, `_run_import`, `_update_job`, `_append_error` | `StartImport`, `Fetch`, `Peek`, `Read`, `Write`, `AddAccounts` |
| `update_pool`, `delete_pool`; a restart | `EditSource`, `DeleteSource`, `Restart` |

Histories say what the properties speak of: `issued`, `dropped`, `blinded` and
`revoked` keys; accounts `listed` by a source or imported by hand (`manual`);
`mixed` for a job that two imports wrote; `wedged` and `halted` for a
beginning whose write failed. A key is its secret and whether it is
enabled; secrets are random, so a new one has never been used. Objects of a backup
bucket are numbered in the order of their upload, which is their age.

The keys are in the default backend, a JSON file that `save_auth_keys` overwrites in
place. A save that raises therefore leaves the file as it was or cut off; a file
that is cut off cannot be parsed and counts as empty at the next load (`torn`
remembers the keys that were in it, until a list that has them in memory is
written again). This is so for every save, the flush of `authenticate`, whose failure is
ignored, included. A process that dies in the middle of a write is a save that breaks off
followed by a `Reload`, which is what the next process does.

### GrokConsole and GrokAppChat

`GrokConsole` reduces an account to its status, the units left and the planned
reset. `Reserve` and `NoAccount` are `get_grok_console_access_token`, which applies
the resets that are due to all accounts it looks at; `Settle` is
`mark_grok_console_used`. A refresh reads the account (`BeginRefresh`), writes the
limits it is told (`CheckLimits`, in `validate_rate_limits`) and writes them once more,
over what the account has become (`EndRefresh`). `spent`, `refunded` and `base` count
what happened since the units were last filled or overwritten.

`GrokAppChat` follows a chat or an image request through `Select`, `Post`,
`Bridge`, `Event`, `StreamError`, `Finish` and `Leave` over up to
`_APP_CHAT_MAX_ACCOUNT_ATTEMPTS` accounts, with the state each answer gives
the account (`Classified`) and the retries after a 403, which are part of the step that posts.

### LoginFlow, DeepResearch, AccountChecks

A login is `StartLogin`, polls of three steps (`BeginPoll` up to the upstream,
`Answered`, `Import`, `EndPoll`), `Cancel` and `GrowsOld`; what differs between the four
kinds is which of them drops its job, and when. A research is `Create` or
`OpenStream`, then `Plan`, `Research`, `Synthesis` or `ModelFails`, then `Finish`;
`Poll` and `Create` purge what is older than the time to live, which
may be any item, running ones included.

`AccountChecks` is the watcher of `api/support.py`: `ListLimited`, one
`AskRefreshed` and one `Refreshed` per GPT account, `RefreshDone`, `RenewTokens`,
and once a day `StartDaily`, `AskChecked`, `Checked`, `CheckDone` for CodeBuddy.
`truth` is what the provider would answer. Of the three replies behind an answer
the first that failed decides (`UserInfo`), and the answer is applied later. Others refresh
too (`OthersAsk`, `OthersApply`), calls end, administrators set, import and delete.

### CatPawTokens and CatPawConversation

A pair is the number of its login and of its refresh. `latest` is the number the
upstream accepts. A thread chooses a pair, posts, renews before the end of its
life or after a refusal, reads the pair under the lock (`ReadPair`), asks (`Rotate`,
`LoseAnswer`, `RefreshFails`) and writes (`WritePair`); threads that wait for
the lock find the pair already changed. Of a conversation, `OpenDialogue` and
`ContinueDialogue` are `conversation_id` with its pruning, renewal and eviction at
the time `t` that the request read before the lock.

### The streams

`ToolCalls` writes a text as a sequence of atoms (words, halves of a tag, calls
that fit the request's tools or do not, ends that stay open) and has one
operator per parser of `tool_calls.py`, in the order in which the code tries
them. `ChatStream` has one action per way an upstream delta is treated
(`PassOn`, `Collect`, `Sieve`, `Produce`) and one per end
(`SendCollected`, `SendWhole`, `SendSieved`, `RetrySieved`, `EndOfStream`,
`UpstreamFails`), for the nine generators that `handle` chooses from.
`AnthropicStream` converts the chunks of a thread to events about content blocks
(`TakeChunk`), sends keepalives when the queue is empty, and has the
other converters of chunks: Qoder's answers and text completions.
`ResponseStream` has one action per answer and per output of an image generation.
`GeminiNative` has the route that takes the first event of a stream
(`TakeFirst`), and what becomes of it.

### GptEvents, GptText, GptImage

`UpdateConversationState` is the one of `gpt/runtime.py` on payloads reduced to
words, ids and what they say of the turn. `GptText`: the steps in which the
tokens of a request are fetched (`StepDone`, `Finalized`), each remembered with
the session it came from; calls that are `Refused` (a new session with new
device ids), `Retried` or failed, at either level of the retries; the stream with
a replayed history; and the next account (`AttemptFails`) when nothing was told yet.
`GptImage`: uploads, the stream, the decision on its ids, the polled
document, addresses (`Resolve`: attachments are not asked for when a file has one) and
downloads (`Download`: images whose bytes are empty are left out of the result by
`format_image_result`, and when all are, neither a result nor the text is told), beside an upstream that draws meanwhile and
that echoes the references before it says what the turn does, the order in
which `docs/upstream-sse-conversation.md` shows the events.

### CallLog

A call is `Filter`ed, and what follows depends on its sender. `HandlerFails`,
`CallReturns` and `TakeFirst` are `LoggedCall.run` with the first item of a stream, which it
takes to see whether the call fails; `SendItem`, `StreamFails`, `StreamEnds` and
`ClientLeaves` are `LoggedCall.stream` inside the two SSE senders. Each of these ends
writes a line (`Logs`), whose write may raise, and may leave a line begun; the next line
is then joined to it, and neither can be read (`cutOff`).

Other routes use `LoggedCall` for the filter only and run their handler outside `run`
(`Silent`): streams of images (`_sse_image_keepalive`), the branch without a stream beside it, which `/v1/images/edits`
takes, the submission of image tasks (whose thread logs the outcome of the task itself, when it is known), interactions, and the native streams of Gemini.
`SendUnlogged` and `EndUnlogged` are all of them: an answer, an error before or in the
stream, a stream that the handler's exception breaks off, a client that leaves, each without a line.
A call begins where its `LoggedCall` is made; what is refused before, for its key or
its body, is none. A handler that returns a failure as its answer (an interaction that reports
"failed") has answered.

`ReadLines` and `RewriteLines` are the deletion of lines, which rewrites the file in place;
when that raises, the file may keep only the first of them.

## 4. Runs

All bounds are constants of the instances. Each is the least at which the
interleaving a property is about exists; the theorems of section 6 remove the
bounds for the properties they cover.

| Run | Checks | Bounds and why they are enough |
| --- | --- | --- |
| `image_pool` | `Inductive`, `SlotAccounting`, `BoundedOvercommit`, `SkipsRefused`, `DeletedStaysDeleted`, with every switch on | 2 requests, 2 accounts, one slot each, one image: one request holds a slot while the other waits for it or takes the other account, and an account is deleted and imported again under both. Quotas 0, 1 and unknown are the ones the code tells apart. |
| `image_pool_slots` | `ImplementsSlots`, without deletions and failing saves | the same with 2 images per request, so that a second image starts with the slot of the first given back or lost |
| `image_pool_drains` | `Drains` under `FairSpec`, without abandoned generations, with deletions and failing saves | 2 requests, 2 accounts, 2 images: waiting, being overtaken, and a pool that empties meanwhile |
| `image_pool_limit` | violation of `ConcurrencyLimit` | 2 requests, 1 account: delete and import again while a slot is held |
| `image_pool_abandon` | violation of `Drains` when generations may be abandoned | 2 requests, 1 account |
| `image_tasks` | `Attended`, `Kept`, `Settles`, with faults and crashes without bound | 2 tasks, 3 threads: one thread more than there are tasks, so that a second thread for a task could exist, and one task's update while the other is answered |
| `background_threads` | `TallyExact`, `JobsEnd`; `InteractionsEnd`, `PollsAreFinal`; `LimitedComesBack` | 2 imports of at most 2 names together and 1 failing write: one import overwrites the job of the other between any two of its sections. 1 polled and 1 streamed research, 2 questions (the code keeps 5): a question that is not the last. 1 GPT and 1 CodeBuddy account, 1 trouble (a failing request or write, or a restart): accounts are asked one by one, so that a second one adds only that the first may fail. |
| `chat_cache` | `SharedFlight`, `Fresh` while time to live, size and the cache itself are reconfigured | 3 requests (owner, waiter, newcomer), 2 keys with a size of 1 or 2 (eviction happens), clock up to 2 with times to live of 1 and 2 (expiry at the boundary happens) |
| `chat_cache_ends` | `Ends` while deduplication is switched on and off | 3 requests for one key, clock up to 1 |
| `chat_cache_dedupe` | violation of `SharedFlight` when deduplication is switched on and off | as above |
| `gemini_native_stream` | violation of `StreamTellsText` | answers of up to 3 words in chunks of 2: one chunk and more than one |
| `services` | the properties of each of fourteen services, below | below |

The services of `services`:

| Service | Properties | Bounds and why they are enough |
| --- | --- | --- |
| keys | `KeysSurvive`, `RevokedStaysOut` | 2 ids, 3 secrets: a second key, and a secret replaced by a third; loads and saves fail, and files are cut off, without bound |
| backups | `RunningIsReal`, `LastBackupKept` | 2 schedulers and 1 administrator, 3 uploads, 1 kept: an object between the reported and the newest one |
| synchronisations | `ManualAccountsKept` | 2 overlapping synchronisations, 2 accounts |
| Grok console | `QuotaConserved`, `ExhaustedComesBack` | 1 account of 2 units and a window of 1 until time 2, 2 requests: accounts share nothing but the request that chooses one |
| Grok app chat | `OneAccountAnswers` | 1 request, 2 accounts, 3 attempts as in the code |
| logins | `SettledLoginsImportNothing` | 1 login, 2 overlapping polls |
| chat and Anthropic streams | `SieveTellsAll`, `BlocksPaired` | answers of 4 atoms: text, both halves of a tag and its body; 1 keepalive; the thread is at most 2 chunks ahead |
| Responses | `CompletedTellsAll` | 3 outputs of an image generation |
| CatPaw pairs | `PairUsable` | 2 threads, 2 logins of 2 refreshes each, 1 lost answer, write or process |
| CatPaw dialogues | `ConversationsKept` | 2 sessions with the same first question, one of which branches; lifetimes of 1 and 2 until time 2, 2 entries, 3 ids |
| call log | `VerdictsTrue` | 2 calls, so that one is logged while the lines of the other are deleted, or lost to what the other left in the file; 2 frames; 1 failing write |
| ChatGPT text | `SessionWhole`, `AnswerTold` | 2 accounts, 2 tries and 2 passes (3 and 3 in the code), 2 sessions: a renewal within a pass and one between passes |
| image storage | `Found`, `Truthful`, `NoOrphans`, `StaysDeleted` | 2 images: all steps are about one image but for the index, which they share, so that two show every lost update; faults, crashes and changes of mode without bound |
| ChatGPT image | `ImagesTold` | 1 reference, 2 images of which one has two ids |

What they show. A slot of an account is given back exactly once on every path of
the request loop, whatever is deleted, imported or refreshed between its lock
sections, but for the four steps that `SlotAccounting` names. A late
answer never revives a deleted account. A request ends when no generation is
abandoned, although nothing orders the waiting threads. A background task is never run twice; what a client was
told about it holds after a crash, but for the answer of a submission that was read in the
middle of an update; it gets an end unless a write failed. Imports,
researches and limited accounts come to an end too, each with the exception its property names. Waiters
of a shared chat computation always wait for a live one of their own key, and nobody
gets an answer that had expired when the question arrived. An image whose client
got an address is found until it is deleted or expires without a copy, and a copy
on the server is never forgotten but for the cases `NoOrphans` names; one of them
needs no fault: the mode is changed and `sync_all` runs while a save is between its
file and its entry, and the save writes "no copy" over the copy. Likewise a deletion
of an image that is still being saved is undone by the save; `StaysDeleted` is
therefore about images whose save has ended. Keys (but for a file that a write broke off), accounts, units, pairs of
tokens, backups and dialogues survive the interleavings listed with them; and the streams tell
what the upstream said once and in order, however it is cut, however it fails,
and whatever runs beside it.

### Where the code and what is said of it disagree

* `image_pool_limit`: `delete_accounts` forgets the slots in use. Imported again,
  the account serves more requests than `image_account_concurrency`.
  `BoundedOvercommit` says by how much.
* `image_pool_abandon`: a poll timeout, a client that hangs up or a backend that
  cannot be constructed leaves the slot counted for ever. Once all slots of the
  ready accounts are lost, requests wait for ever instead of finding the pool
  exhausted.
* `chat_cache_dedupe`: `get_or_compute` unregisters whatever call is registered
  for its key, also when it registered none because deduplication was off.
* `gemini_native_stream`: the route takes the first event of a stream to see
  whether the request fails and passes it on as if it were the whole response; a client gets the
  first 120 characters and a STOP.

### What the models contain and no property forbids

Behaviour that no document rules out, noted because a reader of the code may not expect it:

* An edit of a source marks its running import failed, and two imports of one
  source write over each other's job. An exception outside the `try` block of an
  import, of a synchronisation, of a backup's beginning or of a research leaves it "running"
  until a restart or its purge.
* `create_key` after a failed load replaces all stored keys by the new one. A write of the keys that
  breaks off leaves a file that counts as empty, so the next load forgets all keys; the
  write may be the flush of an `authenticate` that succeeds.
* The answer of a new image task's submission is read after its thread was started, without the
  lock: it may say "running" or "success" before the file does, and a crash makes an error of it.
* `classify_app_chat_upstream_error`, a success, `validate_accounts` and a GPT or CatPaw
  refresh overwrite the status of an account, a disabled one's too. A Grok refresh
  writes the quota twice and forgets reservations made in between; when the reset
  it read is due meanwhile it writes the old status back.
* A direct Grok stream that breaks after events were passed on falls back to the browser
  bridge, which begins the answer again. (`test/test_grok_provider.py` covers the retry
  with another account, which `OneAccountAnswers` is about.)
* A Gemini login keeps its cookies, so every poll adds the account again until it is cancelled;
  a poll under way when a login is cancelled still adds the account.
* Plain text of a CatPaw answer that does not begin with what was streamed, after white space
  is stripped, is told twice. A whole answer keeps markup that a stream would strip.
* A refresh of an old CatPaw login that ends late replaces the pair of the new login. Two
  dialogues with the same root share the first conversation of the second.
* A client that leaves a stream is logged as a success, and as nothing before the first
  item. Streams of images, image edits without a stream, submissions of image tasks, interactions and native
  streams of Gemini leave no line, whether they succeed or fail, unless the filter refuses them.
  Deleting lines of the log loses lines written meanwhile, and all that follow
  the point where its rewriting breaks off.
* An image whose downloaded bytes are empty is left out of the result; when all are, the client is told
  neither of an image nor the text of the turn. Attachments are not asked for as long as one file has an
  address, even when its download is empty.
* A ChatGPT answer that begins with what the assistant said before, or whose beginning is one
  of the answers before, is taken for its repetition: words of it are lost or told again.
  The run's answer does not, and the theorem `AnswersTold` assumes it.
* A refused ChatGPT token is replaced in an image request but not in a text request whose
  first call it is refused in. An anonymous text request may mix tokens of two sessions.
* An image turn that shows text first is answered with the text unless the
  request is an edit or its metadata already named the images; once some ids are shown the rest
  are not waited for.
* A process that is started again every day after three o'clock, before the watcher's round,
  never tries the CodeBuddy keys.

## 5. Fairness

* `ImagePool!FairSpec`: weak fairness of each request thread's next step. A
  thread can always move: upstream calls have timeouts, `Condition.wait` returns
  after a second, the lock is released at the end of each section. Nothing is
  assumed between threads: `notify_all` promises no order, and a thread may be
  overtaken as long as others have slots to take. Starts and the steps of
  administrators have no fairness.
* `ImageTask!FairSpec`: strong fairness of each thread's next step and weak fairness of `Restart`. A
  thread that updates its task waits for the service's lock, which others take and give back; nobody keeps it
  longer than one write of the file, and it is not assumed that the lock stays free until
  the thread takes it, only that the thread, woken again and again, gets it in the end. The image
  handler returns because its upstream calls have timeouts and, as `Drains`
  shows, because it gets a slot or an error as long as no generation is
  abandoned; after `image_pool_abandon` a task may wait like any
  other request. A crashed process is started again by its supervisor
  (`docker-compose.yml`, `restart: unless-stopped`). Clients and time have no fairness.
* `ImportJob` and `DeepResearch`, in `MCThreads!ThreadsSpec`: weak fairness of each import's and each
  polled research's thread. Downloads and the model's answers have timeouts. Starts,
  polls, edits and restarts have none.
* `AccountChecks`, in `ThreadsSpec`: weak fairness of the watcher, a thread that waits with
  a timeout between rounds, and of `DayPasses`, which is time. The provider, administrators, other requests and
  restarts have none; troubles are bounded, because a provider that
  never answers again keeps its accounts limited in the code too.
* `ChatCache!FairSpec`: weak fairness of each request's next step; a waiter that was
  not notified has no step, so `Ends` is about the notification. The
  clock and the administrator have no fairness.

## 6. Proofs

TLAPS checks the following for all values of the constants that satisfy the
named assumptions (`PoolAssumption`, `TaskAssumption`, `CacheAssumption`,
`StorageAssumption`, `ImportAssumption`, `DrawableAssumption`, `ConversationAssumption`,
each evaluated by TLC in the runs of its module, and the hypotheses that the
theorems about `Backup`, `GrokConsole` and `GptText` state).

**ImagePoolProofs.** `Inductive` is the conjunction of `TypeOK`, `RequestShape`,
`SlotAccounting` and `SkipsRefused`. None of the four is inductive alone:
that a release finds a count above zero follows from the accounting only if the
thread that releases is one of the `Holders`, which needs the shape; and that a
refused token is skipped needs `attempted \subseteq tried`, which makes `Take`
choose outside `attempted`. The argument for `SlotAccounting` is that every step
changes `inflight[t]`, `Cardinality(Holders(t))` and `drift[t]` together; a few
lemmas say how `Holders` changes when one thread enters or leaves, and the rest
is arithmetic over finite sets.

* `PoolInvariant`: `Spec => []Inductive`.
* `SlotsConserved`: `Spec => []SlotAccounting`.
* `RefusedSkipped`: `Spec => []SkipsRefused`.
* `OvercommitBounded`: `Spec => []BoundedOvercommit`, from the accounting and
  `inflight <= Limit`.
* `NoResurrection`: `Spec => DeletedStaysDeleted`. Every step of a thread or an
  update writes an account through `Updated`, which leaves an absent one absent.
* `PoolImplementsSlots`: with `~DeletionsHappen`, `~AutoRemoveInvalid` and `~SavesFail`,
  `Spec => ImplementsSlots`. These are the steps that make the drift
  negative; without them it is a count of lost slots, and each step of the
  pool is `Grant`, `GiveBack`, `Lose` or a stutter of the bank.

**StoredDataProofs**, about what the program keeps in files.

API keys: `RevokedStaysOut` is inductive as it stands. `KeysSurvive` is not: `authenticate`
writes back whatever list is in memory, so `KeysRemembered` says that a list that
accepts a secret somebody knows is complete. The empty list of a failed
load accepts nothing, and the list of a create that could neither load nor
save accepts only a secret that was told to nobody. What is lost with a
file that a write broke off is in `torn` until it is written again, by a list that has it in memory; so
the list is complete up to `torn`, and the invariant says of every issued key that it is stored or which of
the two failures took it.
Synchronisations: `ListedOnly`: what a replacement may take away, and what a payload
still to be injected will make the source's, the source has listed.
Backups: `OneInProgress` ties the flag to the thread that set it; `OwnObjectSafe`
says that the object of a backup that rotates is the newest one, hence not among
those to delete, and that no success is reported before the rotation is over.
The call log: `VerdictsTrue` speaks of the lines the file holds; a deletion writes back
lines it read before, so `LinesTrue` speaks of every line ever written: it is of
a call that is over, which is told nothing more, and the only one of its call.
`ErrorsAccounted` says that nobody is told of an error before that, but by the routes that log
nothing, whose calls end "quiet". A line that is joined to one cut off is not in
the file, and its call is among the `missed`, as are those that a deletion overwrites or a rewriting
that breaks off cuts away.
Images: `Inductive` adds to the properties what each thread in
the middle of its work may rely on. `SavingShape`: a thread about to write the
entry has written file and copy, and only a deletion takes them away; before
that nobody knows the image. `DeletionShape`: under the lock, the image being
deleted has neither a file nor a copy that would be forgotten with its entry.
`SyncShape`: what `sync_all` is going to write is the index as it is, because it
holds the lock, plus the copies it has made.

* `IssuedKeysSurvive`: `AuthSpec => []KeysSurvive`.
* `RevokedSecretsStayOut`: `AuthSpec => []RevokedStaysOut`.
* `ManualAccountsStay`: `SyncSpec => []ManualAccountsKept`.
* `OneBackupRuns`: `BackupSpec => []RunningIsReal`.
* `ReportedBackupKept`: `BackupSpec => []LastBackupKept`, for any number to keep.
* `LogTellsTrue`: `LogSpec => []VerdictsTrue`.
* `StorageInvariant`: `StorageSpec => []Inductive`.
* `ImagesFound`: `StorageSpec => []Found`.
* `IndexTruthful`: `StorageSpec => []Truthful`.
* `IndexMatchesServer`: `StorageSpec => []NoOrphans`.
* `DeletionsLast`: `StorageSpec => []StaysDeleted`.

**ProviderProofs**, about the accounts of Grok and CatPaw. `Sound` relates, for one
console account, the units left to the ones it had, reserved and
refunded, and a planned reset to the time; every write of a quota (reservation, refund,
overwriting) keeps it, and what a refresh remembers is a number of units within the total.
App chat (`ChatInv`): whatever was said was said by the account in use, and a request that
selects another account has said nothing. CatPaw pairs (`TokenInv`): a pair that a thread is
about to write is the last of its login and the only copy of it (what is stored is
older, and whoever else has a pair of the login in hand has an older one and has yet to
refresh it, which fails), so that no older pair is written over it. CatPaw conversations
(`ConversationInv`): a branch that was promised an id and has not idled is remembered as promised,
because the time a request read is never ahead and no two entries are of one branch;
and every id was made for one root (`RootsTold`). What a filtered store holds is a
lemma about ranks (`SelectedElements`, of `ListLemmas`): the places selected have each rank below their number once.

* `UnitsConserved`: `GrokSpec => []QuotaConserved`.
* `ExhaustedIsPlanned`: `GrokSpec => []ExhaustedComesBack`.
* `OneAccountSpeaks`: `ChatSpec => []OneAccountAnswers`.
* `PairsStayUsable`: `TokenSpec => []PairUsable`.
* `DialoguesKeepIds`: `ConversationSpec => []ConversationsKept`.

**JobsProofs**, about the jobs that requests and threads share. A login: a poll on its way
to adding the account began before the login was over. A research: what was reported as its end
is the end its item has, or the item is gone. Imports: `SoleWriter` says, for a job
that one import writes alone, where its counters are between the sections of an
update: the download that ended last is not counted yet, or counted
as an error only, and what the thread has read and is about to write (`ReadsRight`)
is still so, because edits of the source leave the counters alone. `Tallies` keeps the same of the
job in the file, which a restart brings back. (The model first forgot whether the job *in
the file* had been written by two imports; the proof failed at `RestartImports`, and TLC
found the restart after a start that could not be saved with three imports, one more than the run has.
The model now keeps it, as `mixedFile`, and the invariant holds for any number.)

Image tasks: `Inductive` is the conjunction of `TypeOK`, `RunnerShape`,
`Attended`, `Kept`, `InStep` and `Ahead`. `Kept` speaks of the file; that the next
write keeps it is a fact about memory, hence `InStep`: memory and file agree but for
tasks that met a fault, wait to be cleaned up, or are being written, of which the file
does not hold the end yet. `Ahead` says for the answers what that is good for: memory is
never behind what was reported, so the write that an early answer waits for confirms it, and a crash before it
finds an unfinished task in the file, of which `Restart` makes an error. `RunnerShape` ties a thread's
place to the status of its task, which excludes that a thread overwrites an answer
already given, and puts at most one thread into an update.

* `TaskInvariant`: `Spec => []Inductive`.
* `TasksAttended`: `Spec => []Attended`.
* `ReportsKept`: `Spec => []Kept`.
* `SettledLoginsStay`: `LoginSpec => []SettledLoginsImportNothing`.
* `FinalPolls`: `ResearchSpec => PollsAreFinal`.
* `TalliesExact`: `ImportSpec => []TallyExact`.

**GptProofs**, about the requests to ChatGPT. Text: the tokens collected so far come
from sessions since the preparation began, so that one which ends in the session it began in has
only tokens of that session; and a post prepares again only in a session later than the one it
prepared for, so that half a preparation never counts as one. Answers
(`AnswerInv`): the client was told just the words sent so far, which are also the text read so
far; what is stripped of a text is every copy of the history at its beginning
(`StrippedOf`), and a part of the history is not longer than all of it (`HistoryIsText`,
by the least counterexample).
Images: the ids
remembered are those of images drawn, and the placeholder, because the references are
echoed before the turn is known to be a tool's; what is sought covers what
is remembered; and what is sought has an address, has none or nothing at it (`dead`), or is an attachment passed
over for a file.

* `TokensOfOneSession`: `TextSpec => []SessionWhole`.
* `AnswersTold`: `TextSpec => []AnswerTold`, for all texts of which `AnswerIsNew` is true: the
  answer begins neither with the whole history nor with a part of it. The code does not
  make it so, and without it the property is false (section 4).
* `DrawnImagesTold`: `ImageSpec => []ImagesTold`.

**ChatProofs**, about answers to clients of the OpenAI protocols.

The completion cache: `Inductive` is the conjunction of `TypeOK`, `RequestShape`,
`OwnerComputes`, `WaitsForOwner`, `FreshForAll` and `Fresh`. The heart is
`OwnerComputes`: whoever is registered for a key is still computing it, because
the lock section that ends a computation unregisters it. Hence a request
that joins a call joins before its outcome exists, so it arrived before the
time the outcome is stamped with (`FreshForAll`), and it is still there when the
owner publishes (`WaitsForOwner`). The stray unregistration behind
`chat_cache_dedupe` only removes entries and disturbs none of this.
Responses: the events about one item end with its only `done` (`EndsAt`), events about other items
before and after change nothing of that, and the items are told one after the other, however
many calls the answer has; the list begins with `created` and closes with the completion.
The sieve (`SieveInv`): as long as it works, what was told is what is in front of the
first tag of the text so far (`Sieving`). That only grows with the text, because a tag never
moves and a mark that may become a tag is held back (`StreamableGrows`); so the client's text is always
a beginning of it, and what is left to tell at the end continues it, or is the whole text
without its markup.

* `CacheInvariant`: `Spec => []Inductive`.
* `WaitersAttended`: `Spec => []WaitsForOwner`.
* `NoStaleAnswer`: `Spec => []Fresh`.
* `SingleFlight`: if all settings have deduplication on, `Spec => []SharedFlight`.
  It needs one more fact, `ComputersOwn`: whoever computes is registered.
* `CompletedResponses`: `ResponseSpec => []CompletedTellsAll`.
* `NothingHeldBack`: `StreamSpec => []SieveTellsAll`.

**MessageProofs**, about answers to clients of the Anthropic protocol. A list of events *goes
on* (`Goes`) with the sets of blocks it has started, stopped, and told arguments of, and with its text; a few lemmas say
which events may come next and what they add. `BlocksInv` names these sets by the
converter's variables: started are the blocks below `blockIndex` and the open one; of those below, all are
stopped but the calls'; and the text is that of the chunks taken. The end
stops the calls one after the other, whose number is not bounded (`PartsGoOn`: pieces that each go on, joined,
go on). It needs `ChunksInv`: chunks are of the kinds the converter knows and only become more,
while it takes them.

* `MessagesWellFormed`: `MessageSpec => []BlocksPaired`.
* `ChunksUnderneath`: `MessageSpec => StreamSpec`, so that `NothingHeldBack` holds whatever
  protocol the client has.

**ListLemmas** has what several of these need: the least number of a set, what `FlattenSeq` joins
(its recursion is that of a function, which exists for every length by the least counterexample), and
what `Selected` leaves.

**Only model-checked**: `Drains`, `Settles`, `Ends`, `JobsEnd`, `InteractionsEnd` and
`LimitedComesBack`, which are liveness under fairness and out of the prover's
reach; and the four disagreements of section 4. Every other invariant and
action property of the passing runs is stated by a theorem.

## 7. Not modelled

* Routes, web console and model catalogue: routing, validation, presentation. The browser
  bridge is a process of its own; `GrokAppChat` models what a request sees of it.
* Storage backends: load and save of the whole list of accounts or keys. Their
  failures enter the modules as loads and writes that raise. What a write of the default JSON backend
  leaves behind when it breaks off is modelled for the keys (`AuthKeys`); the accounts, which the
  same backend writes the same way, are read from memory only, so the next save repairs them unless the process
  ends first. The database and git backends are left out. Several servers on one
  storage are not modelled: every module is about one process.
* The settings store: the settings are constants of the modules, or, in
  `ChatCache` and `ImageStorage`, a variable an administrator changes.
* Payloads, headers, signatures, challenges and prompts of the upstream protocols: data without state.
  The parsing of a request's messages and schemas likewise.
* Selection of accounts for chat requests of the other providers: a choice without slots;
  the refusal of a token uses `remove_invalid_token`, which `ImagePool` models.
* Thumbnails and tags of images: changed on the event loop only, one request at a time. An image index
  that cannot be read counts as empty, and the next save writes that back; the
  model's index can always be read.
* The login token that `sub2api_service.py` caches: a race costs a second login, no state.
