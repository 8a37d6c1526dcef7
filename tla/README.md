# A verification project for SpotiDownloader

SpotiDownloader is a Wails application: a Go backend (`*.go`, `backend/`) and a
TypeScript/React frontend (`frontend/src/`) in one process. The user fetches
the metadata of Spotify albums and playlists, queues their tracks, and the
program downloads, tags and files them; a track whose length looks wrong can be
downloaded again from YouTube. This directory models the part of the program
that is concurrent and that can lose work: queues, stops, publication of files,
the metadata cache, session tokens, and the installation of Deno.

Contents: 1 inventory, 2 modules, 3 runs, 4 fairness, 5 proofs, 6 what differs
from the documentation, 7 what is not modelled, 8 plan.

## 1. Inventory

| Component (code) | State | Operations | What is hard |
|---|---|---|---|
| Dynamic scheduler (`lib/download-queue-manager.ts`) | queues of jobs, rotation cursor, slot counter, latest job per track, promises that run | enqueue, stop a queue, clear, reset, dispose, settling of promises | promises settle in any order and after stops; a counter kept beside the statuses; retries against jobs in flight; fairness between queues |
| Executors and sessions (`hooks/useDownloadQueues.ts`, `lib/batch-download.ts`) | requests per job, `resetting`, idle callbacks | run a Spotify or a YouTube job, retry after a 401, stop all, start a new session, dispose | the abort signal is read between awaits; the item in the backend must get the outcome the scheduler shows |
| Backend registry (`app.go`, `app_queue_history.go`, `app_download_helpers.go`, `app_metadata_update.go`, `backend/progress.go`) | list of items, registry of running calls with cancellable contexts, wait group, `shuttingDown` | add, start, settle items; download, redownload; stop a queue or all; clear; shut down | each call is a goroutine; a call may replace another one; stops sweep the registry without the lock; a write outlives its call |
| History (`backend/history.go`) | an open handle of `history.db` | open on demand, write, close | a write after the close opens the file again |
| Track pipeline (`backend/track_pipeline.go`) | four goroutines, their channels and budgets, a staging directory | audio, cover, metadata and lyrics in parallel, finalize, publish | time-outs against answers, cancellation anywhere, cleanup under running branches |
| Publication (`track_pipeline.go`, `track_metadata_update.go`, `fileops.go`, `download_validation.go`) | the music library | existing-file check, rename or copy, move aside, YouTube transaction with rollback | no lock over the library; partial failures; cancellation between the steps |
| Metadata cache (`backend/metadata_cache.go`) | entries, dirty flag, wake-up channel, file, flights | look up, load once for all callers, write behind, close, restart | lost wake-ups, failing writes, crashes, callers that give up a shared load |
| Session token (`lib/token-manager.ts`, `backend/spotidownloader.go`, `token_fetcher.go`) | the token the page caches and its shared fetch; the token the backend remembers and its shared refresh | get, force a refresh; remember, refuse, replace | a refresh joins a fetch that is older than the failure; a caller that is stopped shares its refresh with others |
| Deno (`deno.go`, `deno_lock_*.go`) | executable, backup, a lock of the process and one on a file, daily marker | lock, recover, check, download, replace, roll back | a crash or a failure between two renames; stops while waiting for a lock |
| yt-dlp (`ytdlp.go`) | executable, install gate, daily marker | install or update, run | the marker precedes the download |
| Page logic (`hooks/useDownload.ts`, `lib/batch-summary.ts`) | the summary of a queue with its generation, requests for redownloads, paths and playlist files, callbacks of idle queues | prepare and enqueue, summarize an idle queue, redownload rows from YouTube, write the playlist file | a callback waits behind the write of an earlier one while jobs are added, stopped, cleared or replaced |
| The rest (metadata page and previews, tags, lyrics, covers, Spotify and link services, FFmpeg, analysis, file manager, settings, UI) | little or none beyond a call | requests, conversions, rendering | data rather than control |

How they interact. The UI calls the harness of `useDownloadQueues.ts`; that
calls the scheduler, which calls an executor for every job that gets a slot;
the executor calls the backend through Wails, where each call is a goroutine.
`DownloadTrack` registers itself, runs the track pipeline, which asks the cache
for metadata and publishes the file, settles the item in the list and starts a
history write. When the last job of a queue has settled, the scheduler calls
the page's idle callback, which makes the summary and the playlist file of what
it finds listed. A refused token comes back as the error of a download: the
executor asks the page's token manager for another one and calls again, and a
worker of the backend first asks for one itself. A download from YouTube has
Deno installed or updated before it runs yt-dlp. A stop travels twice: as an
abort signal in the frontend and as `CancelDownloadQueue` or
`CancelActiveDownloads` to the registry.

What makes each part correct is the list of properties below; the hazards the
properties are for are listed, with their lines, under `hazards` in
`PROJECT.json`.

## 2. Modules

Names are those of the code where TLA+ allows it. Definitions called "Mutant of
..." are faulty versions of the definition that follows them. No specification
uses them: they are kept to see that a property does notice the mistake they
stand for.

**DownloadScheduler** (abstract promise: **SlotPool**; proofs:
**DownloadScheduler_proofs**). JavaScript runs each handler to its end, so each
method with the `pump` it ends in is one action: `EnqueueMany`, `Fulfil`,
`Reject`, `LateSettle` (a promise of a job that dispose settled),
`CancelQueue`, `BackendCancelled`, `ClearCompleted`, `Reset`, `Dispose`. `pump`
is three rounds of `PumpOnce`, which suffice since the program has three slots
(`ConcurrencyAssumption`); its search for the next queue is `Runnable`, its
loop body `StartJob`. A job is a ticket, the number under which `addJob`
considered it. `attempted` and `passedOver` are history variables. Left out:
`backendItemId`, titles, time stamps, `peakActive`, subscribers, the text of
errors, job ids (UUIDs, so the renaming of duplicates is never needed), and
that the memoized answer of `cancelBackendQueue` may be a rejection.

**BackendDownloads** (proofs: **BackendDownloads_proofs**). A step is what a
goroutine does under one lock, or between two. A call of `DownloadTrack` or
`RedownloadTrackFromYouTube` goes through `Arrive`, `Begin` (`beginTrack`) or
`BeginRefused`, `CancelPrevious`, `StartDownloadItem`, `Return` (the worker),
`SettleResult` or `CheckContext` and `Report`, `AddHistoryItemAsync`,
`CancelOwn` and `Unregister` (the two halves of the cleanup). A sweep is
`CancelDownloadQueue`, `CancelActiveDownloads`, `ClearAllDownloads` or
`shutdown`: `Collect` under the lock, `CancelOne` for each cancel function,
`Swept` (the wait), then `ClearAllDownloads` or `CloseHistoryDB`. `UseHistory`
is every call of the page about the history itself (`AddFetchHistory`,
`GetDownloadHistory`, the clears and the deletes), which opens the database and
may come at any time. Phases, byte counts and warnings of an item are display
data.

**MediaJobs** (proofs: **MediaJobs_proofs**) EXTENDS BackendDownloads and adds
the executors: a job is started by the scheduler, registers its item, asks for
a token, calls the backend, retries after a 401, settles its item, and may be
aborted before every one of those steps. `executeSpotify` and `executeYouTube`
differ in how they settle an item; both are modelled. Stops and
`startNewSession` are the real sweeps of the backend. Whether an error text
counts as a 401 or as a cancellation is a nondeterministic choice, as the texts
come from outside. Since a job sends its second call after the first has
answered, `CancelPrevious` never fires here (it does in BackendDownloads). The
idle callbacks, for which `startNewSession` waits too, are in DownloadPage.

**Publication** (proofs: **Tracks_proofs**). One disk, `disk`: a place (a path,
a numbered name in the folder of suspicious files, a YouTube job's rollback
file) -> absent, half-written or a whole file, with the file's origin. A track
checks for an existing file (`force` skips it), publishes by rename or, if that
fails, by copying, and may move a suspicious result aside. A YouTube job runs
the transaction under `youtubePublicationMu`: move the original aside, move the
destination to a rollback name, publish, drop the rollback file, or roll back
in the order of the code. Any operation may fail and the context may be
cancelled between any two. Assumed: the removal of a destination whose
publication failed succeeds (the code ignores that error). `failed` stands for
cancelled results, too. A track has one path: its possible extensions are not
told apart. Jobs may share paths and names. A copy ends in one step that leaves
the whole file at its destination, also where another job has written or
replaced that file in between, which really may leave something else; such a
place is in `crowded`, a history variable that holds the places where a track
met another job, and no property claims anything of it. No step reads it, and
fairness is stated without it (`jobVars`). What the code keeps of a file, and
what it does not, is said with four definitions: a YouTube job is `Disturbed`
when one of its places is crowded; a file is `GivenUp` when a forced download
has begun at its path, a job that moves it is disturbed, or a YouTube job with
another original took its place; a place is `Spoiled` when it is crowded or a
YouTube job that has begun may move its file; and `Endangered` while a forced
download that has begun there is not complete.

**TrackPipeline** (proofs: **Tracks_proofs**). The four branches with their
channels of capacity one, the deadlines as events that may come at any time,
the order in which `RunTrackPipeline` takes the results, every select as a
choice between the cases that are ready, warnings as a set of omitted results,
and the deferred cleanup. `wanted` is what the request asks for; all eight
requests are initial states. Publication is one step here.

**CachePersistence** (abstract promise: **DurableCache**; proofs:
**MetadataCache_proofs**). The content of the cache is a number that grows with
each change. `Change`, `Close`, `CloseReturns`, the writer (`Wake`, `Drain`,
`Stop`, `NothingToWrite`, `Snapshot`, `WriteTemp`, `WriteFails`, `Replace`) and
`Crash`, which restarts the process from the file.

**CacheLookup** (proofs: **MetadataCache_proofs**). One key and several callers
of `CachedLookup`; a flight is a goroutine of its own that outlives the caller
that started it. Entries hold a useful value or one that an older version
wrote; the time of access is part of the entry since `deleteRawIfEqual`
compares it.

**SessionToken** (proofs: **SessionToken_proofs**). Tokens are numbered in the
order in which the helper, a browser window, obtains them; 0 is no token.
`ensureValidToken` is `TakeCached`, `JoinFetch` or `StartFetch`, and its fetch
goes on with `HelperEnds` and `FetchReturns`. A worker of the backend enters
through `NewSpotiDownloader`, which lets the remembered token win over the one
it was passed and remembers what it chose (`ReadRemembered`, `RememberChosen`:
a lock for each, and others in between); its requests end in `Succeeds`, `Refused` or `RefusedAgain`;
`refreshSessionToken` is `Adopt` or `NoReplacement` (the check), `DoChan`,
which joins the flight that is registered or starts one, and the flight:
`RefreshObtains` (the helper), `RefreshRemembers` (under the lock of the token)
and `RefreshEnds` (singleflight forgets the flight and answers all that wait). `CacheExpires` and `TokenDies` may come at
any time, `Stop` cancels a download. Left out: the attempts and the time-outs
inside the helper, whose answer is a token or none, and the downloader without
a token that a metadata update makes.

**DownloadPage** (proofs: **DownloadPage_proofs**). Jobs are numbered as they
are enqueued. `Enqueue` and `RetryFromYouTube` add jobs, `SpotifyEnds`,
`YouTubeEnds` and `StopQueue` settle them, `OnQueueIdle` is the callback of an
idle queue, `M3U8Written` the answer it may wait for, `ClearCompleted`,
`SessionBegins` and `SessionEnds`, and `Navigate` (another metadata page) are
the user's. Which jobs run is DownloadScheduler's subject: here a job is live
until it ends. Promise callbacks run before the next event, so nothing else
happens while a callback is ready to run (`Quiet`). `reported`, `disturbed` and
`forgotten` are history variables. Calls of the backend succeed except
`CreateM3U8File`; the awaits before an enqueue, `handleUpdateAllMetadata`,
selections, marks, times and suspicious results without a file are left out,
and a row's track is that of its job.

**DenoInstall** (proofs: **DenoInstall_proofs**). A file holds the number of a
release or is absent. A job of some process calls `Ensure`, takes the lock of
its process and then the one on the file (`EntersProcess`, `LocksFile`, or
`GivesUp`), recovers from a backup (`Recovers`, `JudgesBackup`, `Restores`,
`Confirms`), looks at what is installed and at the daily marker (`Checks`),
asks for the latest release (`Fetches`), downloads and validates it (`Stages`),
and replaces the executable (`MovesAside`, `PutsInPlace`, `Validates`, with
`RollsBack`). Every operation on a file may fail, `deno --version` may fail for
a file that runs, a release may not run on this machine, jobs may be stopped
anywhere (`Stop`) and a process may crash between any two steps (`Crash`),
which frees its locks. A validation and the file operation it decides about are
one step. `committed`, the release last reported as installed, and `misjudged`,
the files recovery found broken although they run, are history variables. The
request for the release, the download, its checksum and its extraction are one
answer: they touch temporary files only. What is staged is the latest release,
and a validation that succeeds finds that version.

Modules `MC...` give constants their values for TLC.

## 3. Runs

| Run | Instance | Result |
|---|---|---|
| `scheduler_slots` | 2 queues, 2 tracks, 2 slots, 3 candidates; batches with unavailable and repeated tracks; results that are final, not final, or make the classifier throw | 102,582 states. No track runs twice, no slot idles beside a waiting job, a playlist fetched again downloads nothing twice, queued jobs settle, and the scheduler implements SlotPool |
| `scheduler_rotation` | 3 queues (symmetric), 1 slot, 4 candidates | 539,158 states. While a queue waits no other is served twice |
| `backend_downloads` | 1 item, 2 calls, 2 queues, 1 sweep of any kind | 225,925 states. No running call escapes a sweep, after shutdown no download is left that could write to the history, stopped downloads and the shutdown end |
| `media_jobs` | 1 item of either kind that may call twice, 3 sweeps | 227,932 states. No ghost items, scheduler and backend agree on the outcome of first attempts that nobody stopped, no stop hides a completed download, a new session starts with an empty list and no running call, a stopped job sends no download and settles |
| `publication_jobs` | 3 tracks, 2 of one path, one of them forced; 3 YouTube jobs that share originals and destinations with each other and with the tracks, one of them in place; any 2 of the 6 jobs (`TwoJobs`), 2 paths, 3 names in the folder of suspicious files | 154,305 states. The original survives, announced files are whole, a failed transaction restores what was there, all jobs end |
| `publication_forced` | 1 forced track whose file exists | `ExistingFilesSurvive` is violated: see section 6 |
| `pipeline` | 1 track, all requests | 32,736 states. Staging outlives the branches, what is missing from the file is reported, the pipeline ends |
| `cache_file` | 4 changes | 1,245 states. No wake-up is lost, a clean Close has flushed, the cache implements DurableCache, changes reach the file |
| `cache_lookup` | 2 callers, 2 access times | 10,329 states. A lookup is cancelled only by its own context or its flight's owner, good values stay, lookups end |
| `session_token` | 2 downloads, 3 tokens | 644,999 states. A forced refresh brings a newer token, a stop cancels nobody else, all downloads end |
| `page` | 2 queues, one of them a playlist with a file; 3 tracks, one unavailable; 3 jobs, 2 waiting callbacks, 1 new session | 458,545 states. Every listed job of an idle queue was summarized, its playlist file names the newest files, offered rows have their request, sessions share nothing, what was replaced stays so, sessions start |
| `deno_install` | 2 processes, one with 2 jobs; 3 releases, the second of which does not run | 275,010 states. A release that was reported as installed is not lost, a stopped job ends and frees its locks |

Why the bounds suffice. Scheduler: two jobs fill two slots and the third waits,
so every path that frees a slot is seen with somebody waiting; three queues are
the least in which a queue can be appended behind the cursor while another
waits. Backend: two calls of one item replace each other at every step; a
second queue exists so that a sweep may miss. More items or sweeps multiply
states but meet in no variable that one item does not have. Media jobs: a job
calls at most twice, and three sweeps are what a stop, a stop-all and a new
session need. Publication: two jobs are the least in which a transaction
finds its original gone or a track finds a file announced; the six are there so
that every pair of kinds meets, at one path, at one original or at one name, one
after the other or at once. Three jobs at one time are left to the proofs.
Persistence: four changes put one before, during and after a write, and one
more in a later one. Lookups: two callers are an owner and one who joins, or
the owner of a flight and of its successor. Token: of two downloads one starts
a fetch or a refresh and the other joins it or finds its result; three tokens
are the first one, the replacement of a refused one, and one that is later than
either. Page: three jobs are a first download, its retry or redownload, and a
redownload of that, or two queues of which one is summarized after the other;
with two waiting callbacks one waits behind the write of another; one session
is enough to compare its rows with those of the session before. Deno: two jobs
of one process and one of another wait for either lock; three releases are one
that is installed, one that has to be rolled back, and one that replaces the
first.

`CHECK_DEADLOCK FALSE` is set where calls, sweeps or jobs are bounded and all
of them end.

## 4. Fairness

* Scheduler: `WF(Settle(j))`. A promise of `execute` settles, since each await in
  it is a call that the backend answers. Nothing is asked of the user or of
  the cancel call.
* Backend: goroutines go on, and a worker *whose context is cancelled* returns.
  A download that nobody stops may take for ever, so `ShutdownCompletes` and
  `StoppedDownloadsEnd` rest on cancellation alone.
* Media jobs: only the steps of an executor, the short calls it makes, and
  the late cancel a stopped job leaves behind. Downloads, sweeps and the user's calls are
  asked for nothing.
* Publication and pipeline: the steps of a job go on, and operations of the file
  system end. In the pipeline the audio arrives or fails some day, the budgets of
  the other branches expire, and a branch whose context is done returns.
* Cache: the writer goes on; callers and flights go on. The source may leave a
  request unanswered, so `LookupsEnd` says what it assumes.
* Session token: downloads go on, and the helper and the requests end, since the
  code gives both a time-out. Tokens need not die or expire, and nobody is stopped.
* Page: jobs end, playlist files are written or fail, and callbacks run (one weak
  fairness condition over all of them, as each step leaves fewer to be done).
  Batches, stops and new sessions are the user's.
* Deno: a job that was stopped goes on, since its requests and its child processes
  are cancelled with it and the wait for a lock looks at the context. Whoever is
  not stopped may hold the locks for ever.

Weak fairness is enough everywhere: no step that has to happen is disabled
again and again by others.

## 5. Proofs

Eight modules hold proofs; `theorems` in `PROJECT.json` lists the results. Each
rests on an inductive invariant, because what a reader wants to know is seldom
inductive alone. Every proof has one step per action. What is assumed of the
constants are the named ASSUMEs of the modules: model values differ from the
values they stand beside, bounds are natural numbers, and the scheduler has one
to three slots.

`DownloadScheduler_proofs`, for any queues, tracks, batches and results and any
number of candidates. `IInv` gives `TypeCorrect`, `SlotsAreAccountedFor`,
`NoTrackRunsTwice`, `StoppedQueuesStartNothing`, `StopsReachTheBackend` and
`DisposedStaysQuiet`: the types of the counter rest on `activeCount` being the
number of active jobs, which rests on every execution belonging to an active
job or to one that dispose settled, and on tickets below `nextTicket` being the
only ones in use; that one job per key is alive rests on `latestByKey` naming
it. `pump` is handled once: lemmas show what one round keeps, and the actions
cite the lemma for three rounds. `BookedInv` adds that the index forgets no
attempt, that it names only tickets given out for their keys, that listed jobs
are in the rotation, and that three rounds of `pump` exhaust the slots; from it
follow `NoSlotIdles` (WorkConserving), `OutcomesAreFinal`, `RepeatsAreForced`,
and `PoolIsImplemented`: under the refinement mapping the initial state is one
of SlotPool and every handler is a step of it or a stutter. A third invariant,
`Rotation`, measures how far ahead of the cursor each queue is: a queue that
was served while another waited is now further away than that one. It gives
`RotationIsFair` (RoundRobin).

`BackendDownloads_proofs`, for any calls, items and sweeps. `Registered` says
which calls the registry may name, `CallsOK` what a call in each phase has
done, `SweepsOK` what a sweep holds: `WaitGroupIsExact`, `NobodyEscapesAStop`
(a call that is in progress and not registered is cancelled or about to be) and
`ClosedAfterTheLastWrite` (when shutdown has closed the history no download is
left that could write to it).

`MediaJobs_proofs`, on top of the former. `Expected` says what the backend may
list for an item at each point of the executor, `Listed` that the list has it,
`CallOK` how the calls of an item relate to its job: `NoGhosts`, `Agreement`
and `StopsAreHeeded`. `SessionOK` adds that when a new session begins to wait
the jobs it waits for are all that execute, that none starts then, and that an
emptied list stays empty: `NewSessionsAreClean`.

`Tracks_proofs`, on the pipeline: the staging directory is there exactly while
the pipeline is started (`Staged`), a result that was asked for has a branch or
a warning (`Asked`), and one whose turn is behind was taken or warned of
(`Settled`): `StagingIsKept`, `NothingIsOmittedSilently`.

`Tracks_proofs`, on publication, for any number of tracks, YouTube jobs, names
and places, which the jobs may share in any way. No lock keeps a track away
from the places of another job, so the invariant has to say what holds even
where two jobs interfere, and what holds as long as they do not. Always: every
job is where its steps lead and only the holder of the mutex is in the
transaction (`Courses`), and where a track is at work together with another job
is crowded (`Met`). Of a YouTube job that is not disturbed: its place in the
code says where the two files it has found are (`Undisturbed`, `Holder`): still
in place, moved aside, one of them replaced, or put back in part. So a failed
job ends with what it found, `FailuresRestore`, an action property. What a track
has published is whole unless spoiled (`PlacedFiles`), and a path with an
announced file is worked at by forced downloads only (`LeftAlone`), since
others begin only where no whole file is: `AnnouncedFilesStay`. For
`OriginalsSurvive` the danger are the jobs that are not the file's own: a
disturbed transaction that moves what it does not know, or one that deletes its
rollback file. `Homes` says where a whole copy of a file that is not given up
can be at all: in its place, in the rollback file of a job that is to replace
it, or under the name such a job gave it. A step that would move it elsewhere
or take it away is one of a job of its own, which either is not disturbed, and
then keeps it, or has given it up. Each action is first shown to have one of a
few shapes (`TrackShape`, `RedoShape`); the invariant is proved over these.

`MetadataCache_proofs`, on the file, for any number of changes. The invariant
says where the newest content is: what the cache holds is in the file, or in
the snapshot that is being written, or the dirty flag is up; and that file,
temporary file and snapshot are ordered while a write is under way. It gives
`WriterIsWoken`, `CloseFlushes`, `FileIsWhole` and `CacheIsDurable`. The last
shows that the file implements DurableCache, which knows only what is held and
what is stored: `FileStep` maps a successful rename to a step that stores
something held since, `CloseReturns` to the end of a Close, which may only be
called flushed if nothing is left behind, a crash to the return to what is
stored, and every other step of the writer to a stutter. That the file grows,
is whole and survives a crash are consequences.

`MetadataCache_proofs`, on the lookups, for any number of callers. A flight
that has not ended is the registered one, a caller waits only for a flight that
was started, and a cancelled result belongs to a cancelled owner:
`FlightsDoNotOverlap`, `OwnersCancel`. `SeenUseless` adds that a caller about
to delete has read a useless value: `GoodValuesAreKept`, since the deletion
compares.

`SessionToken_proofs`, for any downloads and tokens. `Issued`: every token in
use was obtained; `Grows`: a fetch that has returned brings a token younger
than the cached one, which is as young as any that was passed before;
`OneFetch`: all that wait await the one fetch. They give `FetchIsShared`,
`RefreshBringsNewer` and `CancelIsPrivate` (the context of a download ends
nothing but its own requests and waits).

`DownloadPage_proofs`, for any queues, batches and numbers of jobs, callbacks
and sessions. Everything the page keeps names jobs from the first of this
session on, and the rows of the summary belong to its queue:
`SessionsStaySeparate`, `OffersAreBacked`. `Snapshots`: of the callbacks that
wait for a queue, a later one holds every job of an earlier one that is still
listed, and the rows shown; hence `ReplacedForGood`.

The two remaining properties of the page rest on a second invariant, `Account`.
The page passes over a callback that has as many jobs as it counted last,
without looking which ones. `Counted` says that these are then the same jobs: a
queue's listed jobs only grow until the history is cleared, which sets the
count to nothing unless a callback still waits with cleared jobs (`disturbed`,
which the property excludes for that reason). `Waiting` says that the jobs of a
queue that no longer runs were reported or are in its newest callback:
`EveryJobIsReported`. For the playlist file the danger is a callback that
brings an older file of a track than one reported before. `OneLive` excludes
it: `addJob` gives a track a new job only when its newest is over, so that the
jobs clearing leaves are newer than all that was reported of their tracks. With
`Newest` (the collected paths are those of the newest reported jobs) and
`FileOf` (the file on disk, or the one that is being written, lists these) it
gives `FilesAreCurrent`. That a batch adds each of its tracks once needs that
ranks in a finite set of naturals are a bijection (`Ranks`).

`DenoInstall_proofs`, for any number of processes, callers and releases, with
crashes. One call at a time is past the file lock (`OneInside`), so that what
it knows of the executable and the backup stays true until it acts on it
(`At`): nothing is moved away before the backup is absent or the executable
runs, and while the new one is validated the backup is what a rollback needs. A
crash changes no file, and each of these states is one recovery starts from:
`InstalledStays`, which `Keeps` carries over each step.

`OutcomesAreFinal` states a property that no run checks: its proof covers every
instance.

Every invariant and every action property that a passing run checks is proved.
Model-checked only: the eleven liveness properties, since the prover has no
ENABLED and no rule for fairness. The counterexample of `publication_forced` is
a behaviour of one instance, and no theorem is about it.

## 6. Where code and documentation differ

One run ends in a counterexample to a sentence of the repository, which
`findings` in `PROJECT.json` quotes: in `publication_forced` a stop just after
the rename withdraws the new file when the old one is already gone
(`backend/track_pipeline.go:600`; `ROADMAP.md:9` says existing files are
protected).

Noticed while modelling. The models take the code as it is, so these are no
counterexamples; a property that would trip over one says so in its statement.

Queues and stops:

* After a 401 the item is already failed, and `StartDownloadItem` and
  `CompleteDownloadItem` leave a terminal item alone: a job that the retry
  rescues completes behind a failed row, and the failed-download report lists a
  file that was downloaded (`backend/progress.go:286`, `app.go:276`; the design of
  2026-08-23, line 29, calls the backend authoritative for the terminal result).
  `OutcomesAgree` speaks of first attempts for this reason.
* A job that is stopped is cancelled in the page, while its row may say failed or
  skipped already, or be made so by the executor (`useDownloadQueues.ts:266`).
  Of stopped jobs `OutcomesAgree` claims only that none with a completed row is
  reported as cancelled, failed or skipped.
* A stop reaches the calls that are registered; one that was sent but has not
  reached `beginTrack` runs on unless the frontend's abort masks it
  (`app_queue_history.go:76`).
* A stop of a queue that is reopened before the backend has answered cancels
  downloads of the new generation (`download-queue-manager.ts:394`).
* A rejected `cancelBackendQueue` stays memoized, so a second stop does not try
  again (`download-queue-manager.ts:402`); only a failing bridge rejects it.
* The calls about the history itself look at neither `shuttingDown` nor the wait
  group: one that arrives after `shutdown` opens `history.db` again, and nothing
  closes it (`app_queue_history.go:180` to `210`, `backend/history.go:47`).
  `NoDownloadWritesAfterClose` speaks of downloads only.
* A stop that is pressed while `handleDownloadAll` prepares a batch finds no
  queue, and the batch is enqueued afterwards (`useDownload.ts:917`).

Page:

* Clear History while a queue is busy removes finished jobs before the idle
  callback sees them: they are missing from the summary and the playlist file
  (`useDownloadQueues.ts:571`, `download-queue-manager.ts:343`; tested as
  intended in `useDownload.session.test.tsx:64`). `NoJobIsMissed` therefore
  speaks of the jobs that are listed.
* A callback that waits behind a write and runs after such a clearing stores a
  count that a new batch can equal, and the batch is not summarized
  (`useDownload.ts:651`, `656`). `disturbed` excludes the queue.
* A row that YouTube replaced comes back as failed, and is offered again, when
  another queue's summary was opened in between (`useDownload.ts:711`, against
  the design of 2026-08-23, line 138); a result that arrives after its summary was
  closed is dropped. `ReplacedStaysReplaced` speaks of one generation.
* Opening another metadata page clears the requests while the summary still
  offers its rows (`App.tsx:176`, `useDownload.ts:1072`). `forgotten` excludes it.
* A metadata update that outlives New Session opens a summary of the old one
  (`useDownload.ts:1024`); when it fails, the old summary stays without requests.
* Tracks recovered from YouTube never enter the playlist file: `OnQueueIdle`
  lists paths of Spotify jobs only.

Pipeline, files and cache:

* A cover or metadata answer that came in time may be dropped when its budget
  has expired by the time it is taken, as select picks at random among ready
  cases (`backend/track_pipeline.go:397`, `417`; the design
  `2026-08-20-download-pipeline-performance-design.md`, line 109, keeps what came).
* Two tracks whose names sanitise to one path share it. If both run at once, both
  find it free (`backend/track_pipeline.go:183`), the second replaces the file of
  the first, and when it is stopped it withdraws the file the first has announced
  (design of 2026-08-20, line 266). In the same way a track may take the place of
  a file that a YouTube job is moving, as only YouTube jobs take the mutex. The
  properties of Publication exclude the places in `crowded`; they hold for
  downloads of one path that follow each other.
* `CollisionSafePath` looks and the move comes later; two suspicious tracks with
  one name can collide (`backend/download_validation.go:42`).
* A lookup that joined a flight fails when the flight's owner is stopped (plan
  of 2026-08-23, line 1149, wants other queues unaffected). `CancelledByOwner`
  states what the code does.

Token:

* Between its check and `DoChan`, `refreshSessionToken` can miss the end of a
  flight and start a second helper, although the comment at
  `backend/spotidownloader.go:861` has such a worker adopt the new token.
* The flight remembers its token (line 879) before singleflight forgets it. A
  worker that takes the new token in between and is refused with it passes the
  check (line 869), joins the flight that is still registered (line 873), and is
  given the token it was refused with. So nothing is claimed of the token a
  request is repeated with.
* `NewSpotiDownloader` reads the remembered token and remembers what it chose
  under two locks (`backend/spotidownloader.go:148`): a token that a refresh has
  replaced meanwhile is put back, and is refused again. The page's fetch and the
  backend's refresh are separate groups, too: two windows can be open at once,
  and the older token can be remembered last.
* A refusal with status 400 ("jwt expired") is not among the errors
  `isUnauthorizedDownloadError` knows, so the page does not retry it.

Deno:

* The replacement is two renames, so that for a moment, and after a crash until
  the next recovery, there is no executable (`backend/deno.go:787`, `795`; the
  design of 2026-08-23, line 112, has it replaced atomically, the plan of the
  same day, line 752, by these renames).
* Recovery takes a `deno --version` that fails to start for a broken file. A
  backup it happens to is deleted, even when it is the only file that runs; an
  executable it happens to is deleted for an older backup that runs
  (`backend/deno.go:277` to `290`). `CommittedStays` excludes both by `misjudged`.
* When the rollback fails after an update, `denoUpdateFailure` still reports the
  old version as installed with a warning, although its file is only the backup
  (`backend/deno.go:244`, `796`); the next call recovers it.
* A request that runs into its own time-out counts as a cancellation, so the job
  fails although an older Deno is installed (`backend/deno.go:245`).
* A crash leaves the files it has staged.

## 7. Not modelled

`components` in `PROJECT.json` lists every part with the reason. In short:
external services, parsing, tags, images, lyrics, audio analysis and external
programs are data, answers of the environment or calls of the operating system;
settings and UI render state; the content blocker is vendored and makes up
nearly all lines of the repository.

One part has control of its own and is not modelled: the installation of yt-dlp
(`backend/ytdlp.go`: one update a day, marked at line 258 before the download
has succeeded). Its hazard is listed without a property. It touches the rest
only in that a YouTube download fails when the executable is missing, which is
one of the outcomes Publication allows.

## 8. Plan

What remains, in this order:

1. An abstract **Library** (a file is what somebody announced or what was there
   before) that Publication implements where jobs do not meet.
2. **YtDlpInstall**: the gate, the daily marker and a failed update.
3. The scheduler over the backend: late queue stops against reopened queues.
4. Pure functions: `latestTerminalQueueJobs`, `orderedQueueFilePaths`,
   `CollisionSafePath`, `RetryWithBackoff` against reference definitions.
