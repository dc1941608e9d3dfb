# VassilStudio: a TLA+ verification project

TLA+ models of the VassilStudio backend (`backend/vvoice`) and of the Studio, the React client that
talks to it (`frontend/studio-react`), the TLC runs that check them on small instances, and theorems
that TLAPS proves for every value of the constants. Every definition is written from the code;
`PROJECT.json` maps each one to its lines.

## 1. Inventory of the system

| Component | State | Operations | How it interacts | What must hold |
|---|---|---|---|---|
| **ASR jobs** `domains/asr/jobs.py` | one directory per job (`input.wav`, `metadata.json`), `_accepting`, `_pending_job_ids`, the executor's queue and threads | create (two critical sections), cancel, revise transcript, delete, cleanup, list/get (quarantine), shutdown, the worker's attempts, recovery at start | called by request threads; its worker calls the ASR engine; files through `shared/jobs` | one job per idempotency key, bounded queue, terminal records final, attempts bounded, nothing stranded |
| **TTS jobs** `domains/tts/jobs.py` | as above with `reference.wav`, `output.wav.tmp`, `output.wav` | as above; creation freezes the voice | takes the voice store's lock inside its own | as above; audio only of a succeeded job, the voice as it was at acceptance |
| **Job record storage** `shared/jobs` | files | atomic write (temporary file, rename), quarantine, delete file by file | used by both job services and the voice store | a record is read back as written or not at all |
| **Voice store and intake** `domains/voices` | one directory per voice | analyse, commit, update, delete, snapshot | TTS jobs take snapshots | no duplicate audio; text validated for the language it is stored with |
| **Realtime session** `domains/realtime` | sample buffer, sequence number, configuration per socket | configure, append, drain chunk, flush, clear, close | one socket per browser tab; calls the ASR engine | no sample lost, bounded buffer, answers in order |
| **Engine services** `domains/{asr,tts}/service.py` | recognisers and runtimes loaded lazily, one lock per language | load, warm up, transcribe, synthesise | called by job workers, requests and realtime sessions | each model loaded once, calls on one model one at a time |
| **Authentication** `app/auth` | owner account, sessions, rate-limit windows | set-up, login, logout, change password | guards every route | one owner, no session outlives its expiry, revocation or the password it was opened with |
| **Transcript editing and exports** `domains/asr/{transcript,exports}.py` | none | revise text, render cues | ASR jobs, routers | timing and order of segments kept |
| **System, configuration, audio** `app/system`, `core`, `shared/{audio,validation}` | configuration, log records | diagnostics, warm-up, decode | everybody | bounds on decoded audio |
| **Studio API client and polling** `studio-react/src/lib/{api,job-polling,job-runtime}.ts` | query cache, browser API key, `ownerSessionActive` | fetch, poll, invalidate, submit with a retry key, keep and forget a key | HTTP to the backend; every view goes through it | a resubmission is never a second job; a poll shows how a job ended; the key is not sent during an owner session |
| **Generate view** `features/generate` | script, voice, settings, submit lock, retry request, mutation state | edit, import, choose, generate, show notice and output | TTS jobs, voices, scripts left by other pages | one render per effort, none whose text comes back as sent asked for twice, its end is shown |
| **Jobs view** `features/jobs` | inspected job, two dialogs, submit lock, retry request | inspect, cancel, delete, clean, run again, refresh | both job lists | run again once per effort |
| **Transcribe view** `features/transcribe` | staged file, language, accepted job, retry request | stage, queue, cancel, review, send to Generate | ASR jobs | an accepted upload is the staged one, once |
| **Transcript review dialog** | draft, revision, close warning | edit, save with the expected revision, reload, close | the job list of its page | no revision is overwritten unseen |
| **Voices view, intake dialog, recorder** `features/voices` | selection, panel, staged file, draft with its report, microphone | select, edit, delete, record, analyse, trim, acknowledge, create, reuse | voice store and intake | a voice is what was reviewed, once; the microphone is let go of |
| **Realtime view** `features/realtime` | refs to socket, microphone and timeout, screen state | start, stop, clear, leave | one WebSocket per session | nothing left open, finalisation confirmed |
| **Settings, sign-in pages, gate** `features/{settings,auth}` | status query, API key form, forms | poll the status, sign in and out, set up, change password, keep a key | authentication | the gate follows the session |
| **Studio shell** `app/*.tsx` | the route | navigate, sign out | mounts one view at a time | leaving a page lets go of what it held |
| **Product pages, legacy studio, scripts, contracts, docker** | - | presentation, build and release tooling | - | - |

The service runs as one process per workspace (`docs/architecture.md`), so the concurrency of the backend
is between threads of that process: request threads, executor threads and the constructor at start. In a
tab one handler runs at a time, and what interleaves are handlers, answers on their way, other tabs and
the server.

What is hard here, and what the properties are for (the full list with lines is under `hazards` in
`PROJECT.json`):

- in the job service, creation drops the lock to decode audio; cancellation meets a worker at any of its
  steps; two saves of the worker do not ask whether the job is already settled; cleanup works from a stale
  list; any read may quarantine a record under a running worker; every write may fail, also in the
  exception handlers; the process may die between any two steps;
- between the realtime page and the server, messages of two directions cross, the permission for the
  microphone may come when nobody wants it any more, and events of an earlier socket arrive during a later
  session;
- between the other pages and the server, a request may be lost or only its answer; a list fetched before
  a change may land after it; a call outlives the page that made it; other tabs change what a page has
  read; the page that shows an answer may hold a newer draft than the one that was sent;
- in authentication, handlers check first and write later, the cookie is shared by all tabs, and a page
  load forgets what was in memory.

## 2. Plan

Modules in order of importance. A module marked *done* is described in section 3.

1. *done* `JobRecord`, `AsrJobs`, `JobLifecycle`: the ASR job service and the lifecycle it promises.
2. *done* `AsrJobsProofs`, `OwnershipProofs`: its invariants as theorems; `LifecycleProofs`: that it
   implements `JobLifecycle`.
3. *done* `RealtimeSession` (server, any client), `RealtimeView` (the Studio page as its client), and
   their theorems in `RealtimeSessionProofs` and `RealtimeViewProofs`.
4. *done* `QueryCache`, `StudioJobs`: the cache of the Studio, its calls, and a job queue as its clients see it.
5. *done* the pages over it, each with the module that composes it with queue and router: `GenerateView` in
   `StudioTts`, `JobsView` in `StudioQueue`, `TranscriptReview` in `StudioReview`, `TranscribeView` in `StudioAsr`.
6. *done* `VoiceStore`, `VoiceRecorder`, `VoicesView`, composed in `StudioVoices`.
7. *done* `AuthSessions`, composed with the tab in `StudioAccount`; theorems about these compositions in
   `StudioProofs` (the job pages), `StudioVoicesProofs` and `StudioAccountProofs`.
8. Open: `TtsJobs` over `JobRecord` with voice snapshots (promotion of `output.wav`, frozen and legacy
   references, lock order), `ModelCache` (double-checked loading, the shared random generator).
9. Open, proofs: every safety property a run checks is a theorem. What is left are statements no run
   checks yet, above all about a composition of realtime page and server seen from the transcript, and
   whatever item 8 adds.

## 3. What is modelled

### JobRecord and AsrJobs (`backend/vvoice/domains/asr/jobs.py`)

`JobRecord` is the metadata record and the pure updates both job services make to it (`_replace_job`
with its arguments). `AsrJobs` is the service.

| Variable | Code |
|---|---|
| `job`, `input`, `issued` | `<job_id>/metadata.json`, `<job_id>/input.wav`, the uuids drawn; they survive a crash |
| `phase` | inside the constructor (`_mark_interrupted_jobs`), or serving |
| `accepting`, `pending` | `_accepting`, `_pending_job_ids` |
| `queue`, `pc`, `holds` | the `ThreadPoolExecutor`: its work queue, where each thread is and its job |
| `request` | request threads between the two critical sections of `create_from_audio` |
| `sweep` | ids a `cleanup()` has listed and not yet deleted |
| `crashes`, `ioFaults` | counters that only bound the model |

One step is one critical section of `self._lock` (an `RLock`), or what a thread does between two. A
worker's program counter names the statement it executes next:

    start -> check_input -> load -> check_audio -> stage_model -> model -> check_result
          -> stage_final -> complete -> done -> idle
    failures: cancelled | retryable | fatal -> failing | backoff -> start

so a cancel, delete, cleanup, quarantine or crash can fall between any two of them. `CreateFails`,
`DeleteFails`, `SaveFails` and `Quarantine` are the disk failing at the write, unlink or read the code
does; `Crash` keeps the disk and loses everything else; `Recover` and `Serve` are the constructor.
Timestamps, messages, language, file names and transcript text are left out: a transcript is its
revision number. A replay of an idempotent request and a refused request change nothing and are the
absence of a step.

### JobLifecycle

The abstract specification: the state machine of one job that `docs/architecture.md` describes (queued,
running, cancelling, succeeded, failed, cancelled; interruption by a restart; removal), with the number
of attempts and no queue, thread or disk. `AsrJobs` implements it with `LifecycleState` as refinement
mapping (`ImplementsLifecycle`).

### RealtimeSession (`domains/realtime/service.py`, `router.py`)

One coroutine per socket. It takes a message only when the chunks and the reply of the message before are
dealt with (`Busy`), which is the order of the `await`s in `realtime_asr`; while it awaits the engine or a
send, everything else may move.

| Variable | Code |
|---|---|
| `session[s]` | the handler and its `RealtimeAsrSession`: `config`, `buffer` (`_buffer`), `due` and `piece` (the chunks `append_binary` or `flush` returned, not answered yet), `reply` (the `flushed` or `closed` still to be sent), `sequence` |
| `up[s]`, `down[s]` | the two directions of the websocket, in order and without loss until it breaks |
| `gone` | sockets whose client has closed the connection or lost it |
| `mic[s]` | how far the client has spoken; a `clear` starts a new take |

A sample is `<<take, n>>`, its place in what the client has sent, so that a lost, repeated or reordered
sample shows; values, loudness and text are left out. Durations are abstract numbers with a monotone
conversion `SampleCount` to samples that is at least one; `MCRealtimeSession` uses halves of a sample
period, so that the rounding of `round()` and `max(1, ...)` is exercised. A message that fails to parse, or
whose single fields are out of range, is `malformed`. `Client(s)` is any client: it sends what it likes
while the socket is accepted, hangs up, or the connection breaks and cuts off what was on its way.
`ServerCloses` is the web server shutting down. In `RealtimeSession` alone nobody reads `down`, so it is
the history of what was said, and the properties are about that history.

### RealtimeView (`features/realtime/RealtimeView.tsx`)

The page as the client of the same server: it extends `RealtimeSession`, takes over its `Serve` and
`ServerCloses` steps, and puts the page's handlers in the place of `Client`. One step is one handler, as
the browser's event loop runs them.

| Variable | Code |
|---|---|
| `screen` | `sessionState`, or `away` while the page is not mounted |
| `current`, `finalizing`, `alarm` | `websocketRef`, `finalizingRef`, `stopTimeoutRef` (with the socket its closure names) |
| `ready[s]` | `readyState` |
| `asking` | sockets whose `startMicrophone` waits for `getUserMedia()` |
| `capture` | `streamRef` and the audio processor: the socket they feed |
| `shown[s]` | the audio whose transcripts are on the page |

`Release` is `cleanupRealtimeResources()`. A socket whose `close()` was called delivers no more messages
(the browser drops them), so its `down` is emptied; the server still receives what was sent before.
`Closing` and `Closed` are the two moments of a server-initiated close: `readyState` changes first,
`onclose` runs later. A socket is never reused, and `asking` survives the session and the page. The
microphone denied, no Web Audio, and a page that cannot open the socket are the error paths.

### QueryCache and StudioJobs (`lib/api.ts`, `lib/job-polling.ts`, `app/providers.tsx`, the job routers)

`QueryCache` is one query of TanStack Query as the Studio uses it: the data shown, and at most one fetch that
the server answers at one moment and that lands at a later one. `StudioJobs` is what the job pages share.

| Variable | Code |
|---|---|
| `page` | the view that is mounted |
| `jobs` | the server's records in the order of creation, a deleted one as `gone` |
| `list` | the query `['tts-jobs']` or `['asr-jobs']` |
| `calls` | mutations on their way: `sent`, then `answered` or `refused`; `held` while the page that made them is mounted, `latest` while its observer follows them |
| `lock`, `retry` | `submitLockRef`, `retryRequestRef` of the pages that submit |
| `drawn` | idempotency keys drawn; a key is its number |
| `effort` | the submissions as the user made them, a second account of `retry` that only the properties read |

An error on the page is a request the server refused, one it never saw, or one whose answer was lost: the
page cannot tell (`Errs`). `Submit` is the part of the three submit handlers that takes the lock and chooses
the key. The server (`Queue`) is reduced to what a client observes: creation by key, cancel, delete, cleanup,
revision, and how a job may end; why it ends so is the matter of `AsrJobs`. `Navigate` drops the state of a
page and lets its calls run on for nobody.

### The job pages

| Module | Code | State of its own |
|---|---|---|
| `GenerateView` | `GenerateView.tsx` | `form` (script with its line ends, voice, language, and mode and speed as one), `voices`, `render` (the mutation and the job as created), `told` (for a property) |
| `JobsView` | `JobsView.tsx`, `JobInspector.tsx` | `inspected`, `target`, `cleaning` |
| `TranscriptReview` | `TranscriptReviewDialog.tsx` | `reviewing`, `draft` (editing, changed, valid, the revision taken over), `warned` |
| `TranscribeView` | `TranscribeView.tsx` | `staged`, `language`, `accepted`, `preference` |

A form is not what its job comes back with. `createTtsJobWithVoice` puts the text in a `FormData`, whose
encoding ends every line with CRLF, and the server keeps that; `findActiveRenderJob()` compares it with
the text of the page, whose lines end in LF when they were typed (`Typed`) and in whatever the file had when it
was imported. `Posted` is that conversion, `ReturnsAsSent` the forms it leaves alone: scripts of one line, or
imported with CRLF. The `strip()` of `validate_text_field()` finds nothing more to remove, because the page
trims first; the few control characters that Python counts as space and JavaScript does not are left out, and
so are files whose lines end in several ways, which behave like typed ones.

What React does in an effect after a render belongs to the step that caused the render: the selection of a
voice (`Selection`), and the effect of the review dialog that drops a draft when another revision is listed
(`DialogEffect`, part of every step that changes the list). A job that is no longer listed closes inspector
and dialog by not being shown. `StudioTts`, `StudioQueue`, `StudioReview` and `StudioAsr` put a page beside
the queue and the router, and state the fairness. The two queues behave alike, so the Jobs page is
modelled over one.

### VoiceStore, VoiceRecorder, VoicesView, StudioVoices (`domains/voices`, `features/voices`)

| Variable | Code |
|---|---|
| `library`, `version` | the profiles of `VoiceStore`; what each file holds now (a file in the server's folder may be replaced) |
| `calls` | requests; a creation is `judged` (router: source unchanged, no duplicate, quality accepted) and later stored (service: duplicates again, under the lock) |
| `recorder`, `asked`, `open` | `VoiceRecorder.tsx`: its state, `getUserMedia()` requests and streams, by the generation that asked |
| `shown`, `list`, `selected`, `panel`, `staged`, `editing`, `target` | the state of `VoicesView.tsx` and the voice in `localStorage` |
| `draft` | the review dialog: clip, cut, the report it shows, acknowledgement, `dirty` |

A recording is a clip of which a cut is taken. The verdict of the signal analysis is the constant `Quality`
(ready, review, blocked); text and language of a profile are judged and edited like the cut and go with it.
Other tabs store, and files are replaced, between any two steps.

### AuthSessions and StudioAccount (`app/auth`, `lib/api.ts`, `features/auth`, `features/settings`)

| Variable | Code |
|---|---|
| `required`, `owners`, `cookie` | `security.auth_required`, rows of `accounts`, the session of this browser (`over` when expired or revoked) |
| `calls` | requests of the tab; set-up and login are `checked` before they write |
| `page` | login and set-up page, Settings, and `studio` for all others (`return_to` leads there) |
| `status`, `failed`, `stray` | the query `['auth-status']`, its last failure, a dropped fetch that still sets `ownerSessionActive` |
| `active`, `key`, `kept`, `stored`, `form` | `ownerSessionActive`, `browserApiKey`, its persistence, the copy in `sessionStorage`, the form in Settings |

Every change of address is a full page load (`Loads`), which forgets memory and takes the key of the tab.
The effects that redirect (`AuthGate`, `AuthPage`) follow the landing of a status. Passwords, the attempt
limit and lost requests are refusals at any time. The server is taken to accept API keys.

## 4. Runs

| Run | Bounds | What it shows |
|---|---|---|
| `asr_safety` | 2 jobs, 2 threads, 2 clients, 1 key, queue limit 1, 2 attempts, 1 revision, 1 crash, 1 disk failure | all safety properties and the refinement |
| `asr_liveness` | 2 jobs, 1 thread, queue limit 2, no crash, 1 disk failure | every job settles, every queue place comes back |
| `rt_session` | 1 socket, 4 samples per take, 2 takes, 6 requested configurations, 2 messages on their way, history of 4 answers and up to one message's more | limits, audio and final answer against any client; a close request is served (237 thousand states) |
| `rt_view` | 2 sockets, 2 samples per take, 2 takes, chunks of 2 | the refs of the page over successive sessions, audio, clear, finalisation and its end |
| `rt_view_idle` | 1 socket, 3 samples | *violated*: see below |
| `studio_tts` | 1 script of two lines, typed and imported with CRLF, 2 voices of 2 languages of which 1 configured, 2 jobs, 3 keys, 1 call | Generate over the queue (595 thousand states) |
| `studio_jobs` | 3 jobs, one there at the start, 2 keys, 1 call | Jobs page over the queue (983 thousand states) |
| `studio_review` | 1 transcript, 2 revisions, 2 calls, other tabs revise and delete | transcript editor (73 thousand states) |
| `studio_asr` | 2 recordings, 2 languages, 2 jobs, 2 keys, 1 call | Transcribe over the queue (1.05 million states) |
| `voices` | 1 uploaded and 1 local file, 2 cuts, 2 profiles, 2 versions, 1 call | Voices page, recorder, library and other tabs (3.3 million states) |
| `voices_selected` | as `voices` | *violated*: see below |
| `account` | 2 keys, 1 call beside the status | tab, session and key (325 thousand states) |

**ASR jobs.** Two clients and one key are enough for the creation race, two jobs for one that waits behind
another or takes its place; with a limit of one the capacity race is visible, and two threads attempt two
jobs at once. Two attempts give one retry, and one failing disk operation is placed by TLC at each point in
turn. Fingerprints are one value: a conflicting request and a replay are both refusals in this model. Job
ids, clients and threads are interchangeable, so the safety run uses symmetry; the liveness runs do not.
`CHECK_DEADLOCK FALSE` everywhere: the service may be shut down, all ids or keys of the bounded model drawn,
a session over, and then nothing remains to do.

**Realtime.** Sockets share nothing on the server, so one is enough for the session's properties. Four
samples against chunks of one, two (4 halves) and four (7 halves, rounded to even) give frames that complete
a chunk, cut several and leave a remainder; the requests shrink and grow chunk and buffer, change the
encoding, and exceed the limits. For the page, an event or a permission of the first socket may meet the
session of the second. `MaxWaiting` bounds what a client sends before the server reads it, `MaxAnswers`
stops a client that has been answered that often from asking for more; answers to what was asked are never cut.

**Studio.** `MaxCalls` bounds the requests on their way. One is enough for the properties of a submission,
because each page has at most one creation it waits for, and with it a list on its way, a worker, and in
`voices` and `account` other tabs move freely; the editor has two, for a save that was let go of and the
next. Three keys in `studio_tts` are a first attempt, another request, and the first request again; the two ends
of lines are a form that comes back as it was sent and one that does not. A job
deleted by another tab, or that ends while its creation is still unanswered, needs one job; two efforts
need two. `MaxVersions` and `MaxRev` allow a source or text to change between review and use. In `voices`
the constraint `OneForm` keeps other things from going on while the form of a profile is open: the page
allows it, but form and intake share no state but the list.

### Fairness

`asr_liveness` assumes weak fairness of each executor thread (`Take`, `Step`) and of the constructor. Threads
are preemptively scheduled, `time.sleep` ends, and a model call returns or raises; nothing is assumed of
clients, failures or shutdown. Both properties except a service that was shut down: its queued futures are
cancelled, and that their records are settled by the next start is `NoJobStranded`, without liveness.
`EverySettles` also excepts a job whose thread left it because a save in
an exception handler failed, which the code does (`_mark_failed` at line 436): such a job stays live until
the next restart while its queue place counts as taken.

`rt_session` assumes that each coroutine's own steps (`Serve`) are taken: asyncio runs ready coroutines, and
the engine call in the thread pool returns or raises. `rt_view` assumes only that timers fire, and
nothing of the server, so `StopEnds` is what the timeout alone guarantees.

`studio_tts` and `studio_review` assume that intervals fire (weak fairness of `Poll`) and that a server which
is asked again and again answers some time and the answer lands (strong fairness of `AnswerList` and
`LandList`: a fetch may fail or be dropped any number of times, but not for ever). That is the page in a tab
that is visible: TanStack Query pauses a `refetchInterval` while the tab is hidden. `account` assumes the same
of the interval of Settings (`PollStatus`, `AnswerStatus`, `LandStatus`). Nothing is assumed of the user,
the worker, other tabs or the calls themselves, and the properties let go when the page is left.

### What was found

`rt_view_idle` is a disagreement between document and code. `docs/operations.md` says the Studio waits for
the final `closed` acknowledgement and reports an incomplete result otherwise. `stopSession()` does so only
while `readyState` is `OPEN`. When the server closes (shutdown, an unexpected engine exception) and Stop is
pressed before `onclose` runs, the page becomes idle with unconfirmed audio and without the message.
`StoppedIsConfirmed` is what does hold: a session that was being finalised becomes idle only with all its
audio on the page.

`voices_selected` is another. After a creation the page says that the voice "is selected for Generate"
(`VoicesView.tsx:163`) and `onSuccess` selects it, but the effect at 269 judges that selection by the list
from before the creation, does not find it, and selects the newest of the old profiles, in `localStorage` too.
With an empty list, or none, the new voice stays selected.

The third has no run of its own, but the model of `studio_tts` shows it. `docs/qa/2026-08-24-end-to-end-product-audit.md:222`
says that "Generate remains disabled while an equivalent voice/text/language/steps/speed job is active". A typed
script of several lines comes back with other line ends, so `findActiveRenderJob()` (`GenerateView.tsx:1094`)
does not know its job, `retryRequestRef` was cleared by the answer, and the same form is submitted again under
a new key while its first job is active. With the condition `ReturnsAsSent(form)` left out of `NoSecondRender`,
TLC refutes it on this instance. The server takes it for a new request, as it should.

Behaviour that no document denies and no property is about, but which the models show: text typed while a save
of the transcript is on its way is dropped by the answer (`Saved`); a sign-out that fails clears
`ownerSessionActive` although the session may still be open, and Settings goes on to show the key as saved
(`SignOutFailed`); one failed status request unmounts the page behind the gate (`FailStatus`); a login that
verified the old password just before a password change opens its session after the others were ended
(`VerifyLogin`, `ChangePassword`, `OpenSession`).

Every property has a mutant of a mapped definition (a dropped terminal check, the key lookup only before
decoding, a retry key drawn anew for every attempt, polling only while something is active, a stale report
accepted, the key left in the tab ...) under which TLC finds it violated.

## 5. Proofs

For any sets of jobs, threads, clients and keys and any bounds, from the assumptions named in `JobRecord`
and `AsrJobs` (bounds are natural numbers, `NoJob` is not a job, `NoRecord` not a record, the set of jobs
is finite, at least one attempt and one queue place).

`AsrJobsProofs` proves `TypeCorrect` (inductive with `Held`: a thread holds a job exactly when it is not
idle). `StoreStep` then says once what any step can do to the store: create a job, write one record by
one of the listed updates, erase one, or leave it alone. From it follow, each by its own induction,
`CancelFinal`, `KeysUnique`, `InputSafe`, `QueueBounded` (a job that is live after a step was live before
or was created by it) and `SweepSafe` (with `Known`: whatever is stored or to be swept was issued).

`OwnershipProofs` is about threads. `Ownership` is the inductive invariant: queue entries and threads are
for distinct jobs that were issued (`Entries`), nothing runs while the constructor recovers
(`RecoversAlone`), and what a thread knows at its label is true of the record (`AllFit`). It is needed
because the two unguarded saves are safe only if the record is the running one at the expected stage, and
that is so only if no other thread can hold the job, which depends on ids entering the queue once. Its
preservation splits into the steps of others (`Outside`, `FitsKept`) and the thread's own (`OwnFits`).
`AttemptsOwn`, `SettledSafe`, `AttemptsLimited` and `NoneStranded` follow.

`LifecycleProofs` proves `LifecycleImplemented`: every behaviour of `AsrJobs` is, job by job, one of
`JobLifecycle`. Its invariant `Refining` is `Ownership` with `AttemptsLeft`, `CancelIsFinal`, `ReasonsFit`
and `AllTold`: the two unguarded saves of a worker map to steps of the lifecycle only because the record
is known to be the one the worker left, and a reason or number of attempts could otherwise differ. One
step moves at most one job; all others stutter (also under `Recover`, which settles one record at a time).

`RealtimeSessionProofs` is for any sockets, settings, requests and any monotone `SampleCount` of at least
one sample. `Moves` lists what one step can make of a session; `ReceiveTyped`, `ServeTyped` and
`ClientTyped` show that every action moves at most one session that way and sends only typed messages.
`TypeCorrect` follows. `BufferBounded` is inductive relative to it (`MovesBounded`): appending leaves less
than a chunk, which fits the buffer because the configuration is valid and the conversion monotone;
reconfiguring keeps the bound because `apply_config` asks it of the retained audio; flushing moves the
buffer to `due`, which is empty whenever a message is taken.

Three more are about what a socket was sent. `ClosedLast`: "closed" is the last event of a socket, because
a session that has said it is finished and serves no message (`Quiet`, `LastWord`). `NoneLost`: the
samples of every take are transcribed in order and none twice. Each sample has a take and a position
(`Placed`); what was transcribed of a take, what is due and what the buffer holds, one after the other,
are the samples 1, 2, 3, ... of that take (`Line`, `Gapless`), so a flush can only put the end of the
line in its transcript. `ClearForgotten`: what was answered after a "clear" holds no sample from before
it, because takes are counted by the clears that were answered. The lemmas about `Flatten`, a recursive
function, are inductions over the number of transcripts, done by the smallest counterexample
(`NatLessThanWellFounded`), since a theorem that takes an operator cannot be instantiated.

`RealtimeViewProofs` proves `MicrophoneConfined` and `NoSocketLeaks` for any number of sockets. `PageInv`
is inductive: every reachable socket is the current one, a page at rest refers to none, the microphone feeds
the current, listening, not finalizing session. `Release` establishes all of it at once
(`ReleaseLeavesNothing`, `NothingIsFine`); it is enough because a handler that finds its socket replaced
changes nothing but that socket's state. Only `NoSocket \notin Sockets` is assumed.

The same module proves what the page and the server promise together, over the invariants of the session
(`RealtimeSessionProofs`). `ViewTypeCorrect` is the type invariant. For the others `PageActs` says what a
page's step is to the server (open, one message, nothing), and `Story` says of each socket what has been
said on it: the server is quiet before and after its time, its last word is the last, every word has its
cause, and they are in order. `Unheard` and `Matched` follow a "clear" up the socket and its answer
down: counted back over the answers still on their way, the page's take is the server's. Hence
`ClearsStick`, that nothing from before a "clear" is shown after it was answered. For
`StopConfirmed`, `Complete` adds up what is shown, what is on its way and what the server still has (`Trail`
and the sample that is coming) to an unbroken chain of the current take. When "closed" is heard
nothing else is on its way and nothing is due, so what is shown is the whole take.

`StudioProofs` is about the four job pages, for any contents of jobs, scripts, voices, recordings,
languages and any number of jobs, keys and calls. `StudioStep` lists what a step of any page can do to
the part they share, and `StudioInv` is kept by each of these: what the page remembers (`retry`, the key
of an unanswered request) and what the user did (`effort`) agree by number, every creation on its way and
every job carries that number twice, as key and as effort, no two jobs have one effort; a list names jobs
that were made; what a call was told of its job is old, never wrong (`Past`); a submission the page waits
for has the lock and is the only one. Each page then shows that its steps are such steps and adds its own:

- `EffortsMakeOneJob`, `RunsAgainOnce`, `UploadsOnce`: one job per effort from Generate, Jobs and
  Transcribe. The property alone is not inductive: a second job could come from a call sent long before,
  so the calls must be known to fit.
- `NoRenderTwice`, for forms whose text comes back as it was sent (`ReturnsAsSent`), since only then does the
  page know its job again (`GeneratesFresh`): a job the page was told of is `Visible` in its list, and in the answer that is on its way,
  for as long as it is active. `onSuccess` establishes that, because it puts the job in the list and drops
  the fetch on its way (`AfterCreate`); every later answer is from after the creation.
- `UploadsTakeTheirOwn`: while an upload is on its way the page stages what was uploaded, because staging
  waits for the latest upload and by `LockInv` there is no other.
- `OverwritesSeen`: what is being edited was taken from the revision that is listed now (`DraftInv`), at
  every step that changes the list (`EffectKeeps`); so the base a save names is the text's own.

Assumed: `NoRetry` is no remembered request, `NoData` no list, jobs end as succeeded, failed or cancelled
(`Outcomes`), the forms, what they are posted as and the uploads are among what a job can be made from, voice
lists are sequences of voices, each voice has a native language, there is a mode to start with, at least
one job fits the queue (`NoRetryAssumption`,
`NoDataAssumption`, `OutcomesAssumption`, `ContentsAssumption`, `RequestsAssumption`,
`RecognisedAssumption`, `VoiceListsAssumption`, `FormAssumption`, `BoundsAssumption`).

`StudioVoicesProofs` has three. `MicrophoneLetGo`: `RecorderInv` adds that a request of the mounted recorder
is open only while it asks, so one that is answered late belongs to a recorder that is gone and is released.
`RecordingsUnique`: the only step that adds a profile checks for a twin in that same step, and no edit changes a
profile's source. `ReviewedOnly`: `ReviewInv` ties the draft, the analysis on its way and the creation
to the report they were made from; a draft that was edited is dirty until a new report replaces it.
Assumed: `"whole"` is a cut, the bounds are natural numbers.

`StudioAccountProofs` has three. `OwnerAlone`: `OwnersMove` shows that no step changes the number of owners except
from none to one. `KeysForgotten`: `KeyInv` adds that no more keys were forgotten than entered, so a new
key is newer than all forgotten ones. `KeyWaits`: `HeardInv` says the module variable
`ownerSessionActive` is what the tab heard last and that the query holds no data before it was answered.

Only model-checked are the liveness properties, which are outside the prover's reach: `EverySettles` and
`SlotComesBack` of the job service, `CloseEnds` and `StopEnds` of the realtime session, `RenderShown` and
`SettledShown` of the job pages, `SessionEndLeaves` of the account.

## 6. Not modelled

See `components` in `PROJECT.json`.

- **TTS job service, inside.** Its queue, attempts, recovery and cleanup have the structure of `AsrJobs`; what
  is its own, the promotion of `output.wav` before the record is saved and the voice frozen at acceptance, is
  not modelled, and two hazards stay without a property.
- **Two failures at once in the store.** When a record cannot be read and cannot be moved away either
  (`storage.py:126-127`), the code treats it as absent for that call only; `Quarantine` always removes it.
  It takes two failing disk operations, and the runs have one.
- **Storage of the browser that fails in part.** `Forget` takes the key out of `sessionStorage`;
  `api.ts:125-134` also goes on when the removal is refused. Such a storage is taken to refuse writing too.
- **Engines, tokenizers, audio.** Numerical inference and signal processing are steps that may fail, their
  verdicts constants. The caches of models keep no state a client observes.
- **Data.** Layout of transcripts (`_revised_segments`), cues, exports, file names, wording, progress labels,
  levels and elapsed time. A transcript is a revision, a script its wording (a value) and its line ends, a key its number.
- **Reads without state.** Diagnostics, configuration, path containment, API key checks of single requests.
- **Presentation.** Search, filters, players, downloads, clipboard, layout, product pages; and the legacy
  studio (`frontend/studio/app.js`), kept as a fallback during the transition (the repository's `README.md:28`).
- **Settings** beyond account and security: warm-up, diagnostics bundle and storage cleanup are single
  requests without state of their own.
- **Attempt limiter and passwords.** A refusal at any time; the windows and hashes themselves are left out.
- **Update of a voice.** Text and language are one with the cut of a recording, so the unlocked check of
  `update_voice()` (`router.py:247`) shows no combination; listed as a hazard without a property.
- **Scripts, packaging, contracts.** Build and release tooling.
