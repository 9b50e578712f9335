# A TLA+ model of bergamot

bergamot is a Usenet downloader written in Rust. NZB files name articles; a
queue coordinator hands the articles to a download worker that fetches and
decodes them over NNTP; finished NZBs are repaired, unpacked and moved by a
post-processor. This directory holds TLA+ modules of that system, the TLC
configurations that model-check them, and theorems about them that the TLA+
proof system checks.

`PROJECT.json` records, for every definition, the source lines it models
(`map`); for every run, what it checks; for every checked property, a mutation
of the modelled code that breaks it; and the hazards the properties are for.

    tlc -config Queue_download.cfg MCQueueCoordinator    # any other .cfg alike
    tlapm QueueCoordinatorProofs.tla                     # any other *Proofs.tla alike

## 1. Inventory

Paths are below `src/crates/`. "Modelled in" names the module; what is left out
of a part is in section 8 and in `PROJECT.json`.

| Component | State | Operations | Interacts by | Modelled in |
|---|---|---|---|---|
| Queue coordinator, `bergamot-queue/src/coordinator.rs` | queue, history, `next_nzb_id`, `active_downloads`, `active_per_file`, scheduler slots, `paused`, `shutdown`, strategy | ~45 commands, `DownloadComplete`, 50 ms refill tick | command channel in; assignment and completion channels out; reply channels; a watch of snapshots | `QueueCoordinator` (downloads), `RemoteControl` (commands), `StatusViews` (what it shows) |
| Server scheduler, `bergamot-nntp/src/scheduler.rs` | per server: active count, EWMA throughput, backoff | `select_server`, `release_slot`, `record_completion` | called by the coordinator | `QueueCoordinator` |
| Download worker, `bergamot/src/download.rs` | a semaphore of 64 permits, one task per article | receive, fetch, decode, write, report | assignment channel in, `DownloadComplete` out; cache, writer pool, server pool | `QueueCoordinator`, `YencDecoder`, `FileWriters` |
| Wiring, `bergamot/src/app.rs`, `main.rs` | channels and task handles | restore at start, `forward_completions`, ordered shutdown, reporters | everything | `QueueCoordinator`, `StateRecovery`, `StatusViews`, `Configuration` |
| Post-processor, `bergamot-postproc/src` | the request in hand, its stage, the files | rename, verify, repair, unpack, clean up, move, extensions | request channel in; reports out | `PostProcessor`; queueing in `QueueCoordinator`; reports in `StatusViews` |
| PAR2 engine, `bergamot-par2/src` | none | build a recovery set, verify, repair | called by the post-processor | `Par2Set` |
| Disk state, `bergamot-diskstate/src/lib.rs` | queue.json, history.json, an article state per file, NZB files | save, load, delete | flush service, orderly stop, restore | `StateRecovery` |
| File writer pool, `bergamot/src/writer.rs` | map from path to writer task | `write_segment`, `flush_file`, `flush_all` | worker, `forward_completions` | `FileWriters` |
| Article cache, `bergamot/src/cache.rs` | map, eviction order, byte count | `get`, `put` | worker | `ArticleCache` |
| Server pool, `bergamot-nntp/src/pool.rs` | per server: permits, idle connections, failure count, backoff deadline | fetch with fail-over, reuse, discard, clean up | worker | `ServerPool` |
| NNTP machine, `bergamot-nntp/src/machine.rs`, `protocol.rs` | protocol state of a connection | greet, upgrade, join group, fetch body, quit | server pool | `NntpConnection` |
| Speed limiter, `bergamot-nntp/src/speed.rs` | token bucket | acquire, set rate | protocol | `SpeedLimiter` |
| Services, `bergamot-scheduler/src/lib.rs`, `bergamot-server/src/server.rs` | task table, pause flags, server volumes, scanner, dirty flags | one tick each | coordinator commands | `BackgroundServices`, `ServerVolumes`, `StateRecovery` |
| Feeds, `bergamot-feed/src` | feeds, items seen | tick, fetch, filter | nothing: what is accepted is dropped | `Feeds` |
| RPC methods, `bergamot-server/src/rpc.rs` | none of their own | translate calls into commands, build rows | coordinator commands, configuration, trackers | `RemoteControl`, `Configuration`, `StatusViews`, `ServerVolumes`, `LogBuffer` |
| Configuration, `bergamot-config/src` | raw options and fields, the file | load, set, save, reload, edit a server | RPC, start | `Configuration` |
| Logging, `bergamot-logging/src` | ring of messages, next id | push, read since, clear | every task, RPC | `LogBuffer` |
| NZB parser, `bergamot-nzb/src` | parser state | one event at a time | ingest, restore | `NzbParser` |
| yEnc decoder, `bergamot-yenc/src` | decoder state | one line at a time | worker | `YencDecoder` |

### What is hard here, and what makes each part correct

* **Queue coordinator.** One task, so its handlers are atomic, but the world
  goes on between them: results arrive for NZBs that were removed, given up or
  brought back under another id, and the bookkeeping of a download lives in
  three places (`active_downloads`, `active_per_file`, the scheduler's counts).
  Correct: the three agree; no server beyond its connections; no article lost or
  fetched twice at a time; outcomes final; one notice per completed NZB, after
  its last article; health verdicts neither early nor missed; nothing leaves the
  queue but to the history or by command; an unpaused NZB gets done.
* **Channels.** All are bounded (assignments: four times the connections, at
  least 256; completions and post-processing: 16) and the coordinator only uses
  `try_send`. A full assignment channel is retried; a full completion channel is
  not.
* **Shutdown.** Results may have no receiver. Correct: every task comes to rest.
* **Disk state.** Files of one logical state are written one after the other, by
  a flush that works on snapshots of two moments, with the ingest of new NZBs in
  between. Correct: ids stay unique, and saved progress is neither lost nor taken
  for another NZB's, wherever the program is stopped.
* **Writer pool, cache, server pool, speed limiter, log.** Shared by many tasks,
  with look-ups and ids taken outside the lock that guards the update. Correct:
  what was accepted is in the file once it is flushed; the byte count is within
  its limit; no server beyond its connections, a targeted fetch ends, and who is
  done holds nothing; the rate is kept; a reader sees each message once.
* **NNTP.** Commands are pipelined, the selected group is remembered, a response
  may be late, missing or an error. Correct: a connection that is used again has
  nothing of an earlier request on its way, and the body handed out is the body of
  the article asked for.
* **Post-processing.** Seven stages work on one directory, each on what the one
  before has left; each may fail. Correct: a success reported for the PAR2 files
  means the files are intact; no downloaded file is lost.
* **Services, users and quotas** pause and resume one queue. Correct: a paused
  queue has somebody who will resume it or who asked for the pause; a task runs
  once for its minute; volumes count every byte once, whatever the clock does.
* **Remote calls.** Commands wait in a mailbox while the coordinator may end.
  Correct: everybody is answered, and the answer says how far the call came.
* **Views.** What is shown is composed from counters and statuses set by several
  parties. Correct: no stage of another post-processing, sizes that agree, a
  history that says what happened.

## 2. Modules

| Module | About | Checked in |
|---|---|---|
| `QueueCoordinator` | coordinator, scheduler slots, worker loop, forwarding, post-processor loop | `Queue_*` |
| `DownloadLifecycle`, `QueueLifecycle` | abstract: what the coordinator promises of an NZB and of an article; the refinement mapping | `Queue_history` |
| `QueueCoordinatorProofs`, `QueueLifecycleProofs`, `DownloadLifecycleProofs` | theorems about the queue, section 7 | |
| `ServerPoolProofs`, `StateRecoveryProofs`, `ComponentProofs`, `ServiceProofs` | theorems about the other components | |
| `SequenceLemmas` | sequences, finite sets, folds and sums: what the proofs share | |
| `Selection` | the filter of sequences that the models share, as a fold, so that proofs can follow it | |
| `ServerPool` | fetching one article from several servers | `Pool_fetch` |
| `StateRecovery` | disk state, ingest, flush, crash, restore | `Recovery`, `Recovery_stuck` |
| `NntpConnection`, `FileWriters`, `ArticleCache`, `SpeedLimiter`, `YencDecoder` | what a download uses; `MCWorker` gives their constants | `Components`, `Worker_lost_segment` |
| `Par2Set`, `PostProcessor` | verification and repair; the stages on a directory; `MCPost` | `Components`, `Post_cleanup` |
| `RemoteControl`, `Configuration`, `StatusViews`, `LogBuffer` | calls and their replies; options; what is shown; the log; `MCRemote`, `MCViews` | `Components`, `Views_restart` |
| `BackgroundServices`, `ServerVolumes`, `Feeds`, `NzbParser` | pauses and tasks; statistics; feeds; the parser | `Components` |

`MCComponents` puts the small modules into one run: `part` says which of them a
behaviour runs, the others stand still, so each is explored alone with the bounds
of its own constants.

Still wanted, the most important first:

1. The last part of `ParResultIsSound`, `FailureHasACause`, as a theorem. It names the
   recovery slices that cannot tell what is missing as a cause of its own
   (`FirstSlicesAreAmbiguous`: equal exponents, or constants whose powers fall together, a
   known flaw of PAR2). A proof needs linear algebra over GF(2^`Width`): that the
   elimination stops only where the first slices are ambiguous, and is right elsewhere.
2. The hypotheses of section 7 that a finer invariant could spare: the NZBs that a
   return brings back given up, in `RunningIsUnderWay`.

## 3. The model of the queue

`QueueCoordinator.tla` translates `coordinator.rs` and the parts of
`scheduler.rs`, `download.rs`, `app.rs` and `processor.rs` it talks to.

**Control.** `pc = "select"` is the coordinator waiting in `tokio::select!`; every
handler ends in `pc = "fill"`, `try_fill_download_slots`, because `run` calls it
after every message. The loop of that function is one step per article
(`DispatchArticle`), since the worker sees each `try_send` at once, and one step
to leave it (`FillDone`), which is also where `run` tests for the end. Commands
are received in the order sent from one FIFO channel; a user command is modelled
at the moment it is handled, results keep their order in `results`.

| Code | Model |
|---|---|
| `try_fill_download_slots`, `next_article*`, `count_runnable_files` | `DispatchArticle`, `FillDone`, `NextArticle`, `Runnable`, `FileCap`, `Passes` (the four strategies) |
| `ServerScheduler::select_server`, `release_slot` | `SelectServer`, `ReleaseSlot` |
| `handle_download_complete`, `update_health`, `check_health_failure`, `check_file_completion`, `check_nzb_completion` | `HandleDownloadComplete` and the operators below it |
| `download_worker`, `fetch_and_decode` | `StartFetch`, `FetchDone` |
| `handle_command`, `edit_queue`, `move_nzb`, `history_*` | the action of the same name |
| `forward_completions` | `ForwardTake`, `ForwardSend` |
| `PostProcessor::run`, its reporter | `PostTake`, `UpdatePostStage`, `FinishPostProcessing`, `FinishUnreported` |

**State.** `active` is `active_downloads` (with the server of each entry),
`nzb[n]` the record of an NZB wherever it is, `queue` and `history` the ids, in
`nzb[n].segs` the status of each article. `fetching` are the worker's tasks,
`completions`, `forwarding`, `post_requests` and `post_current` the places a
completion notice passes through.

**Abstractions.**

* All articles have one size, so sizes are counted in articles and health is
  exact; the `f64` quotient of the code agrees on the values used.
* The scheduler's EWMA weights and pending bytes: a server without pending bytes
  has ratio 0 and wins in its level; among busy ones any may be chosen.
* Whether an added NZB is a duplicate is a free choice wherever another NZB
  exists; its id is spent in either case, as in `ingest_nzb`.
* One id per edit command: the code loops over the list it is given.
* Returning a server's slot when `try_send` finds the channel full undoes the
  reservation of the same step, so `FillDone` leaves the counts alone.
* The post-processor's stages are `UpdatePostStage`, any number of times.
* The coordinator is modelled with a scheduler and a completion channel
  attached, as `app.rs` does; `new` without them is used by tests only.
* `Backoff` of the scheduler is never set by the program; the assignment channel
  is not closed while the coordinator runs. Neither is modelled.
* `MoveToMissing` is the `?` in `move_nzb` after the NZB was taken out. The RPC
  layer (`rpc.rs`, Top, Bottom, Up, Down only) never issues it.
* `AssignmentCap` counts the assignment the worker holds while it waits for a
  permit with those in the channel. In the program the channel exceeds the
  connections and never fills; the small instances do make it fill.

Every constant is restricted by `CoordinatorAssumption`, which TLC evaluates in
every run. `MaxNzbId` bounds the ids ever allocated and is the only bound on
behaviours; `UserCommands` selects the commands an instance issues.

## 4. The other models

### Fetching: `ServerPool`, `NntpConnection`, `SpeedLimiter`, `YencDecoder`

`ServerPool` follows `fetch_article_targeted` and what it calls. A fetch is
`targeted` (one server after the other; its target is waited for, the others only
taken when free) or a `blast` (all at once). `att[f, s]` is where the attempt of a
fetch on a server stands, from the queue for a permit to the result. The semaphore
hands a permit given back to its first waiter, as tokio's does. The lock on the
idle connections is held by the cleanup across its awaits (`cleaning`); the three
stores of `record_failure` are steps of their own.

`NntpConnection` is the machine (`state`, outputs, the pending and the selected
group), the driver that moves outputs to the socket and lines back, and a server
with commands and lines on their way in both directions. The server refuses, errs,
closes and answers late at will; where the connection breaks, the last line may come
in part (`torn`), which both ways to read a line take for a whole one. A body is a
sequence of lines that may begin with a dot.

`SpeedLimiter`: one task owns the bucket and hands out delays; who got one sleeps
by the clock while `set_rate` changes the rate. `YencDecoder`: line by line, the
byte counts of `=ybegin`, `=ypart`, `=yend` in three-bit integers, so that the
subtraction in the length check wraps as the code's does in 64 bits.

### Writing: `FileWriters`, `ArticleCache`

Look-up, creation and insertion of a writer are three steps, as between the awaits
of `get_or_create`; a task takes all that is in its channel as one batch, which it
sorts, so both are sets; tokio writes in the
background, so a write may be on its way when the next is issued. Any number of
segments may be between look-up and insertion. `SegmentsReachTheFile` is about the
files that one task had open (`Sole`), the others lose segments
(`Worker_lost_segment`). `ArticleCache` has the look-up before
the lock, so that two puts of one article count it twice.

### Post-processing: `Par2Set`, `PostProcessor`

`Par2Set` is the arithmetic of GF(2^`Width`) built from its polynomial as `tables`
does, the recovery set made of the packets, `native_verify` and `native_repair` with
its elimination. Width 4 and slices of two words keep the algorithm; a checksum is
the slice itself. `Xor` goes bit by bit, so that proofs can reach it. `PostProcessor` runs
the stages over a directory (file names to contents); `Downloads` lists what a
download leaves: whole, damaged, cut short, too long, renamed or missing files,
with no recovery slices, good ones, spoilt ones, two of the same exponent, or two (0 and
5) whose exponents cannot be told apart by some pairs of slices. Unpackers answer as they
like.

### Disk: `StateRecovery`

One set of NZBs in memory, `queue.json`, `history.json`, the NZB files and article
states on disk. Ingest is queue, save, rename; the flush takes a snapshot, then the
article states, then writes queue, states and history; `Crash` may come between any
two; `Restart` is `restore_queue`, `restore_history` and `seed_state`. An NZB carries
the run that took it as a ghost, so that progress of one is told from another's that
was given the same id.

### Services: `BackgroundServices`, `ServerVolumes`, `Feeds`

Each service is a task whose awaits are step boundaries. The pause flag of the web
server and that of the queue are two variables, set in the order of the code.
`ServerVolumes` has rings of two slots for the 60, 60 and 24 of the code, days of
three seconds and a clock that may be set back once. In `Feeds` documents are
sequences of XML events; three feeds have a filter with every kind of rule, one of
options only, and one that cannot be read; `Considered` is what the loop over the items
of a document does with one of them.

### Clients: `RemoteControl`, `Configuration`, `StatusViews`, `LogBuffer`, `NzbParser`

In `RemoteControl` a call turns into commands, each sent, queued, handled and
answered in steps of their own; two clients,
either of which may stop the program, share a mailbox of two places. `Configuration` keeps the text of the file as lines
and resolves references in the order of the code's sorted keys; saving empties the
file first; reload reads before it locks. `StatusViews` follows one NZB under the ids
it is given: downloads of the old id, reports of the post-processor in the
coordinator's inbox, the poller's reports between them; the rows are the `build_*`
functions. `LogBuffer` has threads that hold an id and no lock yet, and a page that
asks for what follows the last id it saw. `NzbParser` gets every document whose tags
match, cut off anywhere: any element in any place, with or without content, text
anywhere. The ghosts `plain` and `written` say whether every element so far stood where
the format has it, and which files were written until one did not.

## 5. What is checked

Each property is stated, with the code it is about, in the module of its component.

| Run | Instance | Checks |
|---|---|---|
| `Queue_download` | two NZBs of a data and a PAR2 file, two articles each; two servers of different level, one connection each; any failures; NZBs removed at any moment | `SlotAccounting`, `InFlightConserved`, `ConnectionLimit`, `CountersMatch`, `HopelessIsGivenUp`, `OutcomesAreFinal`, `HealthVerdictIsSound` |
| `Queue_order` | two NZBs, two priorities, priority changes and moves, default strategy | `ForceIsFirst`, `NoNzbIsLost` |
| `Queue_pause` | one NZB, all strategies, every pause, blocked downloads | `RunningIsTracked` |
| `Queue_history` | three ids for new and returned NZBs, every history command, a failed move; a completion channel of one place | `TypeOK`, `ActiveIsRunning`, `IdsAreUnique`, `PostProcessedOnce`, `NoticesAreKept`, `ImplementsLifecycle` |
| `Queue_liveness` | two NZBs, removals, second downloads, shutdown at any moment, fairness | `EventuallyInHistory`, `ShutdownDrains` |
| `Pool_fetch` | two servers of one connection, two fetches, one may be aimed at a server; failures, timeouts, backoff, cleanup of one server | `ServerLimits`, `ReturnedHoldsNothing`, `TargetedFetchEnds` |
| `Recovery` | two NZBs of two articles, three ids, two runs, a crash anywhere | `IdsAreUnique`, `ProgressIsKept` |
| `Components` | section 4, each module alone | one property, for the connection two and for post-processing two, of each module |

| Property of `Components` | What it says |
|---|---|
| `ConnectionStaysInSync`, `BodyIsTheArticle` | a connection that may be asked again has nothing left of an earlier call and knows the selected group; the body returned is that of the article, unstuffed, unless the connection broke after the first of two dots |
| `SegmentsReachTheFile` | what was accepted is in the file after the flush, if one task had the file open |
| `CacheStaysWithinLimit` | what is held stays within the limit and is never counted short |
| `RateIsKept` | no more than rate times time and a burst of two seconds since the rate was set |
| `YencStaysInPart` | a part with a sensible range writes within it; with a checksum it is intact |
| `ParResultIsSound`, `FilesSurvive` | PAR2 success means intact files, a failed repair has a spoilt slice, a file that ends inside a good slice, or first slices that do not tell what is missing; renames and moves lose no file |
| `TaskRunsOncePerMinute`, `PauseHasAnOwner` | across failures, late ticks and clocks set back; in every order of pauses and resumptions |
| `VolumesAreExact` | rings are windows, counters and rows add up to what was received, the day within the month |
| `AcceptedOnce` | an item of a feed is handed out once |
| `NzbIsReadRight` | the files of the document, each with its own groups and segments, if every element stands where the format has it, and if not, those that were complete before; never a file that lacks something or has another's name |
| `CallsAreAnswered` | nobody waits for ever, and the answer tells how far the call came |
| `ConfigReloadsAsSaved` | the options in memory are those a restart would read, when nobody saves |
| `ShownAsItIs` | stage, sizes and history of an NZB are those of its present download |
| `LogIsReadOnce` | a page sees each message once, but for those whose ids raced |

*Refinement.* `ImplementsLifecycle` says that every step of the coordinator is a
step of `DownloadLifecycle` or a stutter. An id of NZB is unborn, queued,
post-processing, in the history or gone (`PhaseOf`: from `queue`, `history`, the
`post` flag and `next_nzb_id`); an article is in flight while it is in `active`
and settled once its status is terminal. The order of the queue, pauses, slots,
servers, channels, health and every record are hidden. What the abstract
specification rules out: an outcome for an article that was not on its way (but
see after a shutdown), a second fetch of a settled one, post-processing before
the last outcome, an id used again. `Queue_history` checks it with every way back
from the history.

*Bounds of the queue.* Two NZBs are the least with an order, with one NZB leaving while the
other's results arrive, and with a lone runnable file against several (the file
cap changes there); three ids let an NZB come back twice or come back while
another is new. Two articles per file make one file's count exceed one; one data
and one PAR2 file make the strategies and the health arithmetic differ.
Two connections over two levels make the scheduler overflow to the second server
and let results overtake each other. An assignment channel of one place is full
while a slot is free, the completion channel of `Queue_history`, one place too, while
an NZB is post-processed. `RepairDivisor` is 10 in the code; with four articles a tenth
rounds to zero, so `Queue_download` and `Queue_pause` use 2, with which some
losses are repairable and some are not.

*Other bounds.* `Pool_fetch`: two fetches on one connection are the least that wait
for each other, two servers the least to fall back to; `FailCap` 1 for the code's cap
makes the unlocked count overshoot. `Recovery`: two runs are the least in which an
id of the first comes back in the second, three ids let one be burnt. `Components`:
four segments of two files; five puts of three articles over a limit that holds two;
three sleepers and two changes of rate; ring, day and month lengths that go round
within the horizon; a queue, a mailbox, a log and an inbox of two places, all of which
fill; two clients, either of which may stop the program. A document may weigh three
(`Weight`): three files with their first group and segment; or one or two files and
unknown elements, further groups and segments, files without a name; or one file and an
element out of place, which weighs two. The protected files have three slices of two words, so
that up to three are missing, and a field of 16 words, in which exponents 0 and 5 make
a singular matrix; one file ends in a zero and may lack it. All of `Components` is a million states.

*Deadlock* is checked wherever `Shutdown` is not issued: the refill tick always
comes again. After a shutdown the system stops; so do the small modules when their
bounded inputs are used up, and the runs on them allow it.

*Fairness* (`FairSpec`). Weak fairness of the coordinator's own loop, of the
worker's receive loop and of forwarding: tasks of a running executor. Strong
fairness of `HandleDownloadComplete` and `FinishPostProcessing`: the coordinator
is "in select" again and again, the messages wait in a FIFO channel, and
`select!` is biased towards it, so a message is not passed over for ever. Weak
fairness of each `FetchDone`: the pool bounds a fetch by a timeout. A request to
the post-processor ends. User commands have no fairness; `EventuallyInHistory`
is about instances in which nobody pauses.
`Pool_fetch` has weak fairness of each fetch's own steps (`Proceed`): permits are waited
for with a timeout and reads have one. It is not assumed that a server answers or
that a cleanup ends. `Recovery_stuck` has weak fairness of downloads, post-processing,
flush and restart: nothing else could finish the NZB.

## 6. Where code and documents part

Four runs expect a violation; each checks a sentence of the documents.

| Run | What the code does |
|---|---|
| `Worker_lost_segment` | two segments that find no writer create two; one writes on past the flush, and `set_len` of the later cuts the file |
| `Recovery_stuck` | an NZB restored with every article done is never post-processed and stays in the queue |
| `Post_cleanup` | archives are deleted although unpacking them failed |
| `Views_restart` | par, unpack and move status and the user's mark of a history entry are lost by a restart |

What follows was met while modelling; the models have the code's behaviour.

*Queue.* The notice of a completed NZB is dropped when the completion channel is
full (`coordinator.rs:1128`) and the NZB stays in the queue: `NoticesAreKept` says
that a notice is lost in no other way. An NZB given up with articles in flight and
returned keeps them Running (`:1579`): `RunningIsTracked` is checked without a
return. A second download starts with the PAR2 failure count of the first
(`:1638`): `HopelessIsGivenUp` is checked in a first download. Under Balanced,
Rocket and Aggressive the kind of file goes before the priority (`:608`):
`ForceIsFirst` is checked under Sequential. At most a tenth of the data articles
counts as repairable however many PAR2 articles there are (`:2060`). Shutdown does
not wait for downloads in flight (`:920`).

*Fetching.* What came of a line before the connection broke is read as a whole line
(`protocol.rs:215`): broken after the first of two dots it is the end of the body, and
the lines so far are the article. The test of a body that breaks off (`protocol.rs:867`)
breaks after a line. STARTTLS never succeeds as the machine is driven. Servers that are
busy are skipped, not waited for, and if all are in backoff the article fails for
good, though 03-download-flow.md speaks of all servers tried. Background write
errors of tokio surface at the next write or are lost at the last flush.
`DeflateStream::poll_write` compresses again what it could not send. Two puts of one
article leave bytes counted that nobody holds. A yEnc part whose end is before its
begin passes any length in a release build and panics in a debug one.

*Disk.* A duplicate uses up an id, fails the scan at every tick and keeps later
entries from being looked at. A crash between queue and NZB file, or file and
rename, loses the NZB's file or queues it again; between the saves of queue and
history an NZB is in both. Ids handed out by history commands have no NZB file, so
`restore_queue` skips them, or finds one of an earlier NZB of that id. Parameters,
PAR2 counters and `temp_dir` are not restored (the worker writes to `nzb-{id}`,
post-processing reads `temp_dir`). NZB files are never deleted. A queue.json that
cannot be parsed is an empty queue, and ids begin at 1.

*Post-processing.* Extensions are told `SUCCESS` for unpacking and run in the working
directory after it was emptied. A file without checksum packet is good if its length
is. A missing description shifts the slices of the files after it. The first k
recovery slices are taken, so a spoilt one, equal exponents or a singular choice fail the
repair even if other slices would do. A file
that ends inside a good slice cannot be repaired. The move overwrites files of the
same name. A verification that errs still shows SUCCESS in the history.

*Services.* A task whose parameter cannot be parsed stops the later tasks of its
minute, at every tick. Commands for servers and scripts do nothing as wired. The
pause flags of the web server and the queue are set in different orders by different
parties and can disagree; a resume of the disk monitor or the quota overrides a
user's pause. A quota that is set to zero while it pauses leaves the pause. Volumes are
not saved, though 07-scheduler-services.md:372 says so; a quota start day above 28
resets twice in some months; a clock set back beyond the first day of the history
makes a count of days negative. Feed items that pass are discarded by the tick
(`bergamot-feed/src/coordinator.rs:207`), though 08-feed-system.md:3 says they are
enqueued; nothing is purged, and items without link share one key.

*Clients.* Commands without reply are acknowledged when sent and lost behind a
shutdown. Calls with several ids stop at the first that is refused. Merge and Split
answer Ok and do nothing. Two appends of one file name share a temporary file. Reload
reads the file before it locks and may install what a save has replaced; it drops the
options of the command line, which are otherwise saved as written, unresolved. A save
that is interrupted leaves an empty file, that is the defaults. A reference to a later
option is an error, though 06-configuration.md:33 says otherwise. A gap in the numbers
of servers or categories hides those after it. A group's remaining size counts failed
bytes; listfiles shows no active downloads. The poller may report the progress of a
stage that is over. Messages get their ids before the lock, so the page may miss or
repeat raced ones. A truncated NZB is accepted with the files it has. The parser passes
over an element without content (`parser.rs:78`), so a segment written `<segment/>` is
missing from a file that is accepted; a child element in a text drops what came before it
(`:97`); known elements inside unknown ones are taken; an `nzb` closed inside another ends
the reading of both.

## 7. What is proved

The theorems hold for every value of the constants that the `ASSUME` of the module
admits: types, sets that are finite, numbers that are positive. Where a theorem needs
more of them, the hypothesis is in its statement and named below.

### The queue

For every number of servers, levels, connections, files, articles and ids, any
capacity of the channels, any strategy and commands, from `CoordinatorAssumption`.

*`QueueCoordinatorProofs`.* `TypeCorrect` is `Spec => []TypeOK`, with one lemma per
action. `SlotsAreCounted`, `InFlightIsConserved`, `ConnectionsAreBounded`,
`IdsStayUnique` and `ActiveStaysRunning` are `SlotAccounting`, `InFlightConserved`,
`ConnectionLimit`, `IdsAreUnique` and `ActiveIsRunning`. The five follow from one
invariant, `IInv`; none is inductive by itself. A result takes its article out of
`active` and counts down its file and its server; the counts stay right only if the
article was active, which is `FlowIsExact`: what is active is exactly what is assigned,
being fetched or reported, each once. A dispatch keeps that only if the chosen article
was not active; it is Undefined, so `ActiveIsRunning` says so. `ActiveIsRunning`
survives the commands that replace or blank a record only if ids are unique and no
article is active under an id not yet allocated (`IdsAreUnique`, `ActiveIsAllocated`).
The server's limit follows from the capacity test because its count is exact. All this
is void after a shutdown, which forgets the active downloads at once (`StopInv`).
Steps fall into classes with a lemma each: those that leave slots and worker alone
(`SlotsKept`), those that leave active articles Running (`ListsStep`), an NZB leaving
(`DropStep`) or joining the queue (`JoinStep`), a slot taken or given back
(`SlotTaken`, `SlotReleased`), a result (`ResultLists`).

*`QueueLifecycleProofs`.* `LifecycleIsImplemented`: the coordinator implements
`DownloadLifecycle`, step by step (`Spec => ImplementsLifecycle`). That an article has no outcome after
post-processing began needs more than `IInv`: `StayInv` adds what records say of their
articles (`RecordsInv`), that no result that counts meets an NZB in post-processing
(`TransitInv`), that the pipeline knows each NZB once (`NoticesInv`) and that a Running
article is on its way (`TrackedInv`). The hard case is an NZB given up with articles in
flight: it comes back with them Running, and would be completed a second time were it not
given up again by its next result. So the argument rests on the verdict of the health
check being monotone in the losses (`DivMonotone` and the lemmas after it). From the same induction:

* `AnnouncedOnce` (`PostProcessedOnce`) and `NothingIsWrittenLate`, which is
  `NothingArrivesLate` of the abstract specification for the coordinator;
* `OutcomesStayFinal` (`OutcomesAreFinal`), `NzbsLeaveKnowingly`, and `NoNzbLeavesUnseen`
  (`NoNzbIsLost`) for instances without `MoveToMissing`, by which the code does lose one;
* `RunningIsUnderWay` (`RunningIsTracked`) without `HistoryReturn`, since an NZB that
  returns given up keeps its Running articles;
* `NoticesArrive` (`NoticesAreKept`): an NZB in post-processing is known to the pipeline
  from its notice to the history, or found the channel full;
* `ForceGoesFirst` (`ForceIsFirst`) under Sequential, the only strategy that puts
  priority before the kind of file, with Force the highest of the priorities.

What a step may do to a record is `Keeps`, four action formulas shown once per handler.

*Counters* (same module). `CountersStayExact` (`CountersMatch`): the counters of a record,
kept one result at a time, equal the cardinalities they stand for (`RecordOk`). Without
`HistoryRedownload`, which leaves the PAR2 counter of the first download.
`VerdictsAreSound` (`HealthVerdictIsSound`) and `HopelessLeave` (`HopelessIsGivenUp`)
compose that with the arithmetic of `update_health`. They are about files whose name
tells whether they are PAR2 files (`ParFiles = ParNamed`): the code goes by the name. The second is
also without the two commands that bring a hopeless NZB back.

*`DownloadLifecycleProofs`*, of the abstract specification for any ids and articles:
`PostProcessingComesLast`, with `FlightInv` (what is on its way is unsettled and its id
allocated, so that neither a completed NZB nor an id given to a returning one has any),
and `IdsAreNeverReused`: the phases of an id only advance.

### The other components

*`ServerPoolProofs`*, for any servers, permits, fetches and targets: `LimitsAreKept`
(`ServerLimits`), `NothingIsLeftBehind` (`ReturnedHoldsNothing`), `PoolTypeCorrect`. A new
connection fits because its fetch holds a permit and the permits add up; a permit goes to
the first waiter, so the queue has to name exactly who waits; nothing is left behind
because a call tries a server once and records one result at a time. These are the parts
of `IInv`.

*`StateRecoveryProofs`*, for any number of ids and runs, a crash anywhere:
`IdsSurviveCrashes` (`IdsAreUnique`) by `IdInv`: memory, disk and the save under way are each
sound, and the next ids of each exceed what it names. `ProgressSurvivesCrashes`
(`ProgressIsKept`) adds that a state belongs to one NZB (`OwnersInv`) and that disk, save
and memory are ordered: what is saved is never ahead of what is about to be saved, nor
that of what was done (`StatesInv`).

*`ComponentProofs`*:

| Theorem | Property | Invariant |
|---|---|---|
| `PartsStayInRange` | `YencStaysInPart` | until it has failed the decoder has no more bytes than its range; for any width of the integers |
| `PausesAreOwned` | `PauseHasAnOwner` | the property itself is inductive, with the type of the flags |
| `TasksRunOnce` | `TaskRunsOncePerMinute` | the times a task ran are in order of days, and the last of them is what the table holds; for any calendar |
| `CacheKeepsItsLimit` | `CacheStaysWithinLimit` | what is counted includes the article about to be inserted, and all of it can be evicted; for any sizes |
| `ConnectionIsInSync`, `BodiesAreWhole` | `ConnectionStaysInSync`, `BodyIsTheArticle` | `NntpInv`: the connection is over, or machine, driver and both directions of the socket are in one of six phases: idle, a plain command, a body, GROUP and BODY on their way together, reading the body, upgrading; what is left in the socket is all of an answer, or its beginning and a piece of the next line |
| `AcceptedIsWritten` | `SegmentsReachTheFile` | a segment sends to a task of its file, and the flush waits for one task of each file; a task that has the file for itself never cuts it, and a segment is in its channel, its batch, the background or the file |
| `TheRateIsKept` | `RateIsKept` | a schedule: the bytes let through have times of their own, one byte each, between two seconds before the change of rate and the clock; so there are no more bytes than times |
| `EveryCallIsAnswered` | `CallsAreAnswered` | the record of a call fits what was served of it, and who waits has one command in the mailbox that will be replied to, nobody else any |
| `DocumentsAreReadRight` (`NzbInvCorrect`) | `NzbIsReadRight` | the parser is of one piece wherever it is; while every element stands where the format has it, the open elements took it from state to state (`IsPlace`), it has the complete files of the document, and of the open one what is written of it but for the element it is in; after one out of place it still has the files that were complete before |

`DocumentsAreReadRight` is for documents of any length, subjects and numbers, with any
elements in any places, nested as deep as they may be. The sort puts
each segment after those that are not after it (`SortedByNumber`). The names differ because
a name is given only if it is not in use, and everything in use is on record
(`NamesInUse`); one of as many suffixes as there are files, and one more, is free
(`FreeSuffix`).

*`ServiceProofs`*:

| Theorem | Property | Invariant |
|---|---|---|
| `LogsAreReadOnce` (`LogInvCorrect`) | `LogIsReadOnce` | the buffer is the newest of what was pushed; an id is in the buffer, held by a thread or lost; what the page has seen and not seen is told by the place of the last id, unless ids raced |
| `DownloadedFilesSurvive` (`PostInvCorrect`) | `FilesSurvive` | by stage: before unpacking the contents found at the start are in the directory, later they are there or at the destination, and entries still to be moved are untouched |
| `ViewsAreTrue` (`ViewInvCorrect`) | `ShownAsItIs` | one inbox and one job: its reports are of the present id, in the order of the stages, and counters are those of the articles of that id |
| `RepairsTellTheTruth` (`RepairInvCorrect`) | the parts `SuccessMeansIntact` and `NeededMeansTooFew` of `ParResultIsSound` | until the repair the directory holds files of words; then the result is told by the files |
| `ItemsAreAcceptedOnce` (`FeedInvCorrect`) | `AcceptedOnce` | what was accepted is on record under its key; within a document the loop goes on from what it has marked |
| `ConfigIsReadBack` (`ConfigInvCorrect`) | `ConfigReloadsAsSaved` | the file, where it is whole, reads back as the options that were saved; who holds the lock wrote it last |
| `VolumesStayExact` (`VolumeInvCorrect`) | `VolumesAreExact` | for each server its volume is `Tallied` (counters add up to what was received), `Dated` (the history has a day once) and, until the clock is set back, `Timed` (the rings are windows) |

`DownloadedFilesSurvive` has the hypothesis `ArchivesBringNewNames`: the file that an
archive brings has no name that a download uses. It is needed: `unrar x -y -o+`
(`unpack.rs:63`) overwrites. `ConfigIsReadBack` has `OverridesAreResolved`: the options of
the command line refer to nothing. The code saves them as written and reads them back
resolved, so that without it the property fails (the run's options fulfil it).
`RepairsTellTheTruth` is for any field, slice size, damage and recovery slices. A content
is told by its length and its padded slices, so that verification says Ok just when the
files are what they were (`AllOkMeansIntact`), after a repair as before it; the elimination
need not be right for that, since the code verifies what it wrote. A slice found missing is a
slice that was lost, by an injection (`MissingAreLost`), so that too few recovery slices is
never a false alarm. `VolumesStayExact` holds for rings, days and months of any length: a slot is told from the
next round's by remainders (`SameResidue`), the emptied slots are exactly those entered
(`WindowsMove`), and the sums over days, slots and servers are taken apart by lemmas on
sums over finite sets (`SumByGroups`, `DaysAddUp`).

The assumptions are those the modules state: `LogAssumption` (a buffer with room),
`PostAssumption` (an obfuscated file gets a name with its own extension; a slice has a
word at least, the protected files have different names; contents are sequences),
`ViewAssumption`, `FeedAssumption`, `ConfigAssumption` and `VolumeAssumption` (types,
finite sets, positive lengths; a file that users write is a text of lines), `NzbAssumption`
(names are sequences, numbers of segments are natural).

`SequenceLemmas` states what the modules share: the elements and the range of a sequence
after a removal, insertion or concatenation, distinctness, cardinalities; induction over
numbers and finite sets, stated for a set instead of an operator; and with it what the
folds that the models use come to, place by place: the filter of `Selection`, sums.

### Checked by TLC only

* Liveness (`EventuallyInHistory`, `ShutdownDrains`, `TargetedFetchEnds`): the prover has
  no support for fairness, that is for ENABLED.
* `FailureHasACause`, the third part of `ParResultIsSound`: see the list at the end of
  section 2.

## 8. Not modelled

* Login, sessions and TLS, and the encodings (XML-RPC, JSON, packet bytes, text of
  responses): they keep no state that other parts read.
* `testserver`, templates, system information, registration of methods:
  answers without effect.
* The SIMD variants of the yEnc and Galois loops: same results by their own tests.
* The messages of extensions: parsed and dropped by the code.
* `extract_feeds` and argument parsing: run once at start.
* The test server, the tests and the web interface, but for its page of messages
  (`LogBuffer.PagePolls`).
* `bergamot-yenc/src/cache.rs`, statistics and feed files of the disk state, Backoff of
  the server scheduler: the program never uses them.
* A task that panics. Failures of the disk other than those the code handles.
