# PeanutButter: a TLA+ verification project

PeanutButter is a self-hosted media catalogue: a Rust backend keeps a catalogue of
titles, finds sources for them and mirrors app updates; apps on Android TV and the
desktop browse it and stream from torrents on the device itself. This directory holds
TLA+ models of its stateful parts, the TLC configurations that check them on small
instances, and TLAPS proofs of what holds for every instance.

Run in this directory:

    tlc -workers 2 -config Maintenance.cfg MCMaintenance     # one run
    tlapm CatalogSyncProofs.tla                              # one proof module

`PROJECT.json` lists the components, the runs with their properties, for every property
a mutation of the model it catches, the source lines behind every definition, findings,
hazards and theorems.

## 1. The system

| Component | State it keeps | Operations | Who it interacts with |
|---|---|---|---|
| Catalog sync (`backend/src/ingest/mod.rs`) | atomic `syncing`, database row `sync_state`, titles | sync thread: claim, phases, release, final row | cron, boot task, `triggerSync`, the console's start/flush/wipe/status |
| App update mirror (`updates.rs`) | data volume: `releases/<tag>`, `.staging-<tag>`, `current`; a mutex; a status | `check`, `prune`, `latest`, `file` | GitHub releases written by CI, the apps' updaters |
| GraphQL response cache (`cache.rs`, `main.rs`) | map from (device, query, variables) to an answer, 30 s | lookup, insert, invalidate one device, invalidate all | all resolvers; background jobs that write behind it |
| Devices and tokens (`auth.rs`, `pin.rs`) | device rows, 60 s session cache | pair, resolve, revoke | every request |
| Console sessions, rate limit (`admin.rs`, `ratelimit.rs`) | session rows and cache, counters per address | login, sign out everywhere, change password | console requests |
| Stremio add-ons (`providers.rs`, `addon_catalogs.rs`) | settings in database and memory; lists per add-on, atomic `SYNCING` | add, toggle, remove, refresh; sync of the lists | the console, add-on servers |
| TMDB ingest, paging, search index (`ingest/tmdb.rs`, `omdb.rs`, `search/`) | titles and credits, list pages, documents | download, merge, refresh, delete, reindex; page on demand | sync, requests, TMDB, OMDb, Meilisearch |
| Watch progress (`graphql/mutations.rs`, `db/mod.rs`) | progress per title and per episode, bookmarks, favourites | update, set watched, resume point | players, Continue Watching |
| Stream search (`graphql/queries.rs`, `sources/`), Jackett (`jackett.rs`) | stored lists per title, 24 h, 2 h or 20 min by what is in them; the enabled sources | search, merge, probe, rank | Jackett's indexers, add-ons, swarms |
| On-device torrent (`LocalTorrentEngine.kt`, `TorrentService.kt`, `TorrentClient.kt`) | one torrent, alert-driven latches, window of wanted pieces | start, stop, seek, stats over a Messenger between processes | libtorrent4j alerts, `StreamHttpServer.kt`, players |
| On-device stream server (`StreamHttpServer.kt`) | request generation, read position | serve a range, wait for pieces, note a jump | the player, the engine |
| Server-side streams (`stream.rs`) | sessions, a torrent each, a folder each: none is ever made on this commit | probe a swarm, list files | the stream search |
| Download budget (`DownloadBudget.kt`) | downloads on disk | trim | the engine's start |
| Server self-update (`server_update.rs`) | atomic `busy`, the Auto-update switch in database and memory, last attempt, dumps of the database | update now, Auto-update, back up, prune | Watchtower, the update mirror, the registry |
| Settings (`config.rs`, `admin.rs`, `graphql/mutations.rs`) | row `app_settings`, its copy in memory, the environment | the console's and the devices' saves, the start | whatever reads a setting |
| Release screening (`jackett.rs`) | none | filter hits, screen what add-ons found | Jackett's hits, add-ons |
| Subtitles (`subtitles.rs`) | rows per file and per title | ensure for a file, fetch for a title, search, download | OpenSubtitles, Wyzie, sidecar files |
| Library scanner (`media/scanner.rs`) | rows of files, a channel of events | scan, watch | file system, the catalogue, settings |
| Jackett scan (`ingest/jackett.rs`) | atomic `jackett_syncing`, checked titles | scan | Jackett |
| Flutter app, TV app, CI, packaging | user interface state | | the backend |

What makes it hard: the backend is tokio, so every `.await` in a handler is a point where
others run and where the handler is dropped when its client goes away; catalog syncs are
OS threads; the process is restarted by Docker at any time (it even updates itself); the
database and the data volume outlive it, the atomics and caches do not; the on-device
engine is driven by alerts of a native library and by messages between two processes.

What makes each component correct:

* Catalog sync: one sync at a time; the flag is given back; what the console shows
  settles to what is true after crashes, lost races and dropped requests.
* Update mirror: what is on offer is whole, was published, and never goes back; the
  previous offer survives while apps may still download it; the newest release gets there.
* Response cache: nobody sees another device's rows; stale answers only where an
  invalidation is known to be missed, and never for longer than 30 seconds.
* Devices and console: revoked means refused, but for lookups that were under way; a
  password change ends the sessions of the old one; the limiter limits.
* Add-ons: confirmed changes are what is in use; the lists are those of the add-ons.
* Titles: a row's ids are those of one title; credits once; what is stored is found and
  what is gone is not; every title that nothing else updates is refreshed in
  turn; scrolling brings in all there is.
* Progress: title, episodes and bookmarks agree; what was finished is not offered again.
* Stream search: what was found alive reaches the viewer; giving up early costs nothing.
* Release screening: what is kept for an episode holds it; packs of its season are not lost;
  it does not matter which source a release came from.
* Subtitles: what was downloaded is answered, and not downloaded again.
* Server self-update: one update at a time; no pull without a whole backup; with
  Auto-update on, the newest version does get installed.
* Settings: what is in use is what a restart would bring back.
* Library scanner: a video whose title is known is listed under the best match, and plays.
* On-device torrents: what plays is what was asked for; nobody else's stop ends it;
  nothing keeps running after the last player; no request waits for a piece nobody wants.

## 2. Modules

| Module | Models | State |
|---|---|---|
| `CatalogSync` | the sync's life cycle | `flag` (the atomic), `row` (`syncing` in the database), `sync[s]` and `request[r]` (positions of threads and console requests), `boot`, `up`, `key` |
| `UpdateOffer` | the promise of the mirror, abstractly | `published`, `offer`, `best` |
| `AppUpdates` | the mirror down to each change on disk, CI, an app | `dirs`, `staging`, `current` (disk), `github`, `lock`, `check[c]`, `busy`, `app` |
| `ServerUpdate` | the server's own update, up to Watchtower's pull | `released`, `image`, `latest`, `running`; `busy`, `row` and `auto`, `lastAuto`, `caller[u]`, `task[u]`, `backups`, `pulling` |
| `GqlCache` | `graphql_handler` and the cache | `cache`, `req[r]`, `own[d]` and `shared` (versions of the rows) |
| `DeviceAccess`, `ConsoleAccess` (extends it) | devices, pairing, credentials; password, sessions and what the console does to devices | rows (`device`, `owner`, `opened`, `password`), caches (`signed`, `known`), requests (`app`, `browser`), `failed` |
| `AddonSettings`, `AddonLists` (extends it) | the settings' document and its copy; the refresh of the lists | `table`, `memory`, `request`; `lists`, `asked`, `sync` |
| `CatalogPaging` | pages of shelves and of filtered lists, fetched while somebody scrolls | `remote`, `row`, `progress`, `titles`, `job`, `lock`, `client` |
| `TitleStore` | titles, credits and search documents under concurrent downloads | `row`, `order` and `old` (`updated_at`), `cast`, `docs`, `task`, `offer` |
| `WatchProgress` | one title on one device: player, queue of saves, page, rows | `title`, `episodes`, `bookmarks`, `page`, `player`, `queue`, `step`, `marks` |
| `LibraryScan` | the scans of the media folder, their watcher, the rows of files | `media_path`, `watched`, `library`, `titles`, `entry`, `rx`, `watcher`, `scan[k]` |
| `LiveSettings` | the settings in database and memory and all that saves them | `environment`, `table`, `memory`, `save[s]` |
| `ReleaseScreen` | what a release may be to be offered | `want`, `hit`, and the verdicts `jackett` and `addon` |
| `Subtitles` | loading, fetching and storing subtitles of one title and file | `subtitles`, `title_subtitles`, `viewer[v]`, `keys`, `there` |
| `JackettSearch`, `StreamSearch` (extends it) | the three passes over the indexers; all sources at once, merging, the stored list | `jack`; `on`, `cache`, `search` |
| `TorrentSession` | players, `TorrentClient`, `TorrentService`, the start's coroutine, libtorrent | `player`, `conn`, `messenger`, `inbox`, `outbox`, `job`, `run`, `torrent`, `alerts`, `engine`, `listening`, `disk` |
| `StreamServer` | the server's threads and the window of pieces | `request`, `newest`, `paused`, `moving`, `readaheadFrom`, `wanted`, `have` |
| `MC*` | bounds, symmetry, fairness and compositions for TLC | `part` where components run side by side |
| `*Proofs` | the proofs | |

Correspondence to the code: an action is what runs between two points where somebody
else may come in (an `.await`, a database statement, an access to an atomic, a message, a
thread's wait), in program order and with all it changes. Variables that the comments
call history appear in no guard and in no other variable's next value; properties use them to
name their exceptions, and TLC's bound on `torrent_session` counts them.

* **CatalogSync.** `Claim` is the compare-exchange, `Release` the unconditional store at
  its end, `Finish` the row update after it. `SyncStart`, `ForceReset`, `Prepare` and
  `SpawnSync` are `sync_start`; `FlushOrClear` and `ClearCatalog` are `sync_flush` and the
  form action `clear_catalog`; `ReadRow`, `LoadFlag` and `Heal` are
  `build_sync_status_json`, at the end of all of them. `Disconnect` drops a request
  wherever it awaits. A crash loses threads, requests and the atomic. `Update` is a statement
  on the row whose error the code ignores: progress, announcements, the last update of a sync, the
  reset of the boot task, the heal. It may fail (`MaxErrors`), and its caller goes on; a failed
  `ReadRow` ends the request, a failed wipe too. The phases of a sync are reduced to those whose
  errors are handled differently.
* **AppUpdates.** `check()` is cut at every change on disk; `remove_dir_all` is two steps,
  because a crash may leave part of a directory, and its ignored errors leave one too.
  A release is its tag, its build and whether it has the optional macOS installer.
* **ServerUpdate.** `Claim` is the compare-exchange of `busy` in `update_now`, `SpawnUpdate`
  the spawn after the `.await` of `status()`, where a request may be dropped. A dump is two
  steps, because a crash leaves what there is of it; `Pruned` is `prune_backups`, which counts
  half a dump as one. `Replace` is Watchtower's: it pulls what the registry has and starts it.
* **LiveSettings.** A save is settled when it begins, is written in one statement (`Write`,
  `COALESCE`) and then applied to memory (`Apply`). Fields that are handled alike are one.
  `Overlay` is `overlay_saved_settings`.
* **LibraryScan.** Receiving, the two seconds, draining the channel and scanning are the
  watcher's steps; `Match`, `Insert` and `SetUrl` are a file's in a scan. Names are what they
  match: a title just so called, or one that contains it.
* **ReleaseScreen.** A name is the marks of seasons and episodes its expressions find, in
  order, and a few words; a size is the bounds it lies between. Verdicts are one step.
* **Subtitles.** A request waits at each statement and download. A text is known by its
  language and by what it was asked for.
* **GqlCache.** A request waits at each `.await` of the handler. Rows are version numbers;
  an answer carries the versions it read.
* **DeviceAccess, ConsoleAccess.** Requests wait at each statement; a request that hangs up
  between a `DELETE` and the emptying of the cache is recorded in `cut`. Codes and keys
  are names; expiry of a cached session is an action.
* **AddonSettings, AddonLists.** Every change reads the document whole, changes it and
  writes it to the database, then to memory. A refresh asked for while one runs is skipped.
* **CatalogPaging.** A page of TMDB and one of the client hold one title each. The
  request's wait of six seconds ends whenever it likes. Known titles of a page get the shelf's
  tag, an update of their rows: this is `Mark` in `TitleStore`.
* **TitleStore.** A title stands for its TMDB id, IMDb id and name. Looking for the row,
  writing it, replacing credits and sending the document are steps of their own. The trigger
  `titles_set_updated_at` is `Touch`: every statement that updates a row sends it to the back of
  `order` and makes it young. `Age` lets seven days pass for a row; `ToRefresh` are the rows
  `refresh_stale_titles` selects, those in `old` and those that are incomplete. `Mark` is what
  updates a row and leaves it as it is: the nightly `jackett_mark_checked`, the shelves' tags.
* **WatchProgress.** Positions are those the code tells apart: 2 s, 60 s, 85 %, 90 % of the
  length (of at least five minutes). A save is two mutations, the first of two statements,
  each of which can fail; marks of the page go to the server beside the queue, in any
  order. `Real` saves are those of more than the first minute, which take a mark back. Episode rows hold positions only
  to be shown. A television resumes an episode only
  if the title's row names it. A "Play next" that fails clears `markedComplete`, so that
  leaving right then parks at the end (`unseen`). The page is reloaded after up to three
  seconds of waiting for saves.
* **JackettSearch, StreamSearch.** Time is a counter against the budgets; it also goes by
  outside of the passes (capabilities, indexers, links). A release is its torrent, the
  indexer and the state of its swarm. A ranking leaves out links to `.torrent` files beside
  magnets, dead torrents beside others, and what is beyond the best `MAX_RESULTS`, any of them:
  the score is not modelled. `Probe` is what the search uses of `stream.rs`.
* **TorrentSession.** One action per message, per stretch of `start()` between two waits,
  and per alert. A cancelled start at work goes on to its next wait. `late` records which of
  six kinds of things came too late (`Late`, section 5); what the code does after them is modelled
  as all else.
* **StreamServer.** Positions are pieces; a priority is whether a piece is wanted at all. A
  pause is only heard of while a request is answered; the time for the index is told only
  where it matters; a stop drops the torrent.

## 3. Runs

| Run | What it asks | Instance |
|---|---|---|
| `maintenance` | sync: overlap only after an override, the flag has a holder and is set while a sync runs undisturbed, a quiet system does not show a sync; mirror: the offer is whole, the previous one is kept, the mirror implements `UpdateOffer` | 2 threads, 2 console requests, 1 crash, 2 failed statements on the row; 3 tags, 3 CI runs, 2 checkers, 1 crash, an app |
| `catalog_sync_interrupted` (violation) | does a status poll only repair what a restart left behind? No | 1 thread, 1 request, no crash |
| `updates` | mirror: the newest release ends up on offer; server: no pull without a whole backup, the newest version gets installed | 2 tags, 2 CI runs, the timer, 1 crash; 3 versions, 1 console, Auto-update, 2 dumps kept, 2 clicks, 2 troubles |
| `app_updates_mac` (violation) | does an installer CI adds later reach the apps? No | 1 tag |
| `sync_and_cache` | cache: own answers only, stale only if an invalidation was missed, all answers become current; sync: a row that says "syncing" settles | 2 devices, 1 query, 2 requests, 1 write; 2 threads, 1 polling console, 1 failed statement on the row, 1 crash |
| `console` | revocation, sign-out and password changes take effect but for the named exceptions; the limiter; confirmed changes of add-ons hold; the lists follow | 2 devices, 2 codes, 1 key, 1 app, 2 browsers, 2 tokens, 1 password change, 1 restart; 1 address, 2 requests, 2 add-ons |
| `catalog` | ids agree, credits once, ghosts only if missed, titles are found, refreshed and, if explicit, go; pages that count are complete, scrolling brings all in | 2 titles, 4 row ids, the sync and a client, any number of marks and days, 1 event; 2 pages, 2 jobs, 1 event |
| `progress` | resume points, Continue Watching and marks; files are listed; settings in use are the saved ones | a movie and a season of 2, 2 torrents, 2 saves waiting, together 4 plays, marks and faults (3 for the season); 2 files in folders of their own, 2 changes, 1 error; a console, a device, 2 saves, 1 trouble |
| `stream_search` | an early end of the wait costs nothing; alive torrents arrive; the right releases are kept; subtitles are kept | 2 indexers, 3 passes, 1 add-on, 2 torrents, 1 link, lists of 2 at most, 1 search, which has Jackett at work while a source was switched or a list of before is there; 3 searches by releases unusual in 3 ways at most; 2 requests for subtitles, 2 languages, 1 trouble |
| `stream_search_sources` (violation) | is a stored list made with the sources that are on? No | 1 indexer, 1 add-on |
| `torrent_session` | each plays its own, keeps its torrent, and nothing is left behind | 2 players, 1 crash or time away, or 1 kind of thing that comes too late (`Followed`) |
| `stream_server` | every request ends; a pause fills what comes next | 2 requests, 3 pieces |

The runs with parts (`maintenance`, `updates`, `sync_and_cache`, `console`, `catalog`,
`progress`, `stream_search`) hold components that share nothing, or whose product is out of
TLC's reach: `part` chooses one at the start and the others stand still. A property of such a
run may join promises that one cause would break: `FlagGoesWithSyncs`, `CachesFollowTables`,
`NewPasswordCounts`, `EntriesAreRight`, `RowsAreRight`, `RightReleases` and `SubtitlesAreKept`
are conjunctions of named parts. In `console`, devices and sessions are explored
apart, with what they share (cookies, restarts, counters) in both; the full interleaving
is what `ConsoleProofs` proves. In `catalog` the same holds for the parts of `TitleStore`
and `TitleStoreProofs`: namesakes with searches and restarts, requests by id with hang-ups and new
kinds of titles, and the console with opened titles and marks. Rows grow old there just before the
refresh looks at them (`Late` of `MCCatalog`), nothing else reads their age. `stream_search` has one
search at a time and leaves out swarms of
unknown state; `StreamSearchProofs` has them. What is around Jackett's search (the switches and
the stored list) it neither reads nor writes, so that `Apart` does not combine all of it while
it is at work: a source was switched, or there is a list of before. Searches that do not get
to Jackett have both. In `sync_and_cache` states that only differ in what was overridden or
abandoned count once (`WithoutHistory`): nothing but those two histories depends on them.

Why the bounds are enough. Two sync threads race for the flag and a third would repeat
the second's role; two requests give a forced start against a poll and a flush against a
start. Three tags are the offer, the one kept for rollback and one to prune; the third CI
run may also move a tag that is already mirrored; two checkers contend for the mutex. Two
GraphQL requests are a query in flight across a mutation's invalidation. Two browsers are
a login across a password change or a sign-out; one app is a lookup across a revocation.
Two titles meet on one row by name or by id. Two episodes are one before and one after;
three plays, marks and faults are finishing, marking or losing a
save, and coming back, and a movie has one more. Two saves of settings
overlap; two requests for subtitles race to store the same text; a console's request
races Auto-update for `busy`, and of three versions one is skipped; a scan of the boot meets
one of the watcher over the same file. Marks of a release come in two seasons and two episodes,
so that another one is there to be mistaken for the one wanted. Two players are one that
leaves while the next one starts. For most safety properties the proofs do away with the
bounds; where they did not (liveness, `StreamServer`) the second of each kind
is where the hazards of `PROJECT.json` bite.

`torrent_session` was too small in one respect, and its proof showed it: a binding that
two interleaved calls of `start()` leak needs a third player to do harm (section 5).
The exception it needs is now part of `Overdue`, and the theorems hold for any number.
Its cfg has a CONSTRAINT, `Followed`: TLC follows a behaviour as long as the properties promise
something of it, and to its second trouble or kind of thing that comes too late. `Next` has no such
bound, and what is proved is proved of all of it.

Deadlock is checked but in `stream_server`, `catalog` and `updates`, where all there is to do
can come to its end: requests are answered, the client has scrolled to the end, and the bounds
on events are used up. `MCTorrentSession` says where a session may rest. In `progress` and
`stream_search` the parts that can come to their end may rest there, too (`Over`).

Assumptions on constants of modules that are instantiated (`AddonSettings`, `AddonLists`,
`CatalogPaging`, `ServerUpdate`, `ReleaseScreen`, `Subtitles`, `LibraryScan`, `LiveSettings`) are
definitions there; the `ASSUME`s of the MC modules have TLC evaluate them.

### Fairness

* `CatalogSync`: a thread that exists is scheduled (weak; TMDB requests time out after
  30 s and a phase has finitely many titles). The boot task runs. For `RowSettles` a
  console must be open: `/sync/status` is polled and not every poll is cut off (strong). The
  container restarts. The database fails finitely often (`MaxErrors`).
* `AppUpdates`: the 6-hour timer (`spawn_background`) starts checks for ever; a step that
  needs GitHub or the disk succeeds sometimes if tried again and again (strong); what needs
  neither goes on (weak). No fairness for CI, for console requests or for failures.
* `ServerUpdate`: CI builds the image of what it released and the mirror sees it; the loop of
  Auto-update and the expiry of `AUTO_RETRY` go on; handlers and tasks are run; Watchtower
  answers (all weak). `MaxTroubles` bounds failures, so that one of the retries is left alone.
* `GqlCache`: handlers finish and entries expire (weak); nothing is assumed of clients.
* `MCConsole`: requests under way go on, cached sessions expire (60 s), tasks that were
  spawned run and the schedule for the lists goes on (weak). Nobody has to sign in.
* `MCCatalog`: tasks go on and the sync's turn comes round (the cron job); pages go stale
  (12 h) and somebody keeps scrolling (weak). Failures are bounded by `MaxEvents`, so that
  a download succeeds in the end. Seven days without an update of some row pass again and again
  before a refresh, as long as there is a row that is not old yet (strong: it is only looked at
  then). Marks are not assumed to end; the properties name the row that is marked for ever.
* `StreamServer`: threads and the main thread go on, and the swarm sends what is wanted for
  long enough (weak). No fairness for the player.
* None in `WatchProgress`, `LibraryScan`, `LiveSettings`, `StreamSearch`, `ReleaseScreen`,
  `Subtitles` and `TorrentSession`: their properties are safety.

### Findings

* `catalog_sync_interrupted`: `sync_start` and `sync_flush` announce a sync in the row and
  then spawn its thread. A status poll between the announcement and the thread's claim
  meets "row syncing, atomic clear" and records "Previous sync was interrupted (server
  restarted)", with no restart. The code that writes it says it heals a flag "left behind
  when the process restarted mid-sync" (`admin.rs:455`). The sync's own last update
  corrects the row later.
* `app_updates_mac`: the workflow says that a re-run of a failed macOS job "then adds it to
  this same release" and that servers mirror the release. The re-run keeps its run number,
  hence its build, and `check()` answers "Up to date" for an equal build
  (`updates.rs:337`): a server that had mirrored the first upload never gets the installer.
* `stream_search_sources`: the key of a title's stored list ignores its `query` argument,
  the only one that holds the enabled sources (`db/mod.rs:1648`), for a search that names a
  title. The comment at `queries.rs:527` says "The enabled sources are part of the key, so
  switching one on or off doesn't serve a list made without it."

## 4. Proofs

Proved for any values of the constants, from the named `ASSUME`s of the modules alone:
bounds are naturals, `None` is a new value, sets that are counted are finite, there is a
device. Each module proves `Spec => []Inv` for an inductive invariant and draws the
theorems from it; what the invariant adds to the properties is the interesting part.

* `CatalogSyncProofs` (`TypeCorrect`, `SyncsOverlapOnlyWhenOverridden`, `FlagAlwaysHasHolder`,
  `FlagHeldWhileRunning`, `FlagAndSyncsAgree`, `RestingRowIsQuiet`). The flag invariants are
  inductive together: overlap needs that an undisturbed running sync holds the flag, so that
  nobody else's exchange succeeds, and this that the flag is cleared only by the one running sync
  or with `overridden` set. For the row, `RowHasResetter` says who will reset it: a sync before
  its last update, a request before its status, the boot task, unless one of them has come since
  and its statement has failed (`unwritten`), or a request ended first (`abandoned`).
* `AppUpdatesProofs` (`MirrorTypeCorrect`, `OfferAlwaysStays`, `PreviousOfferStaysForApps`,
  `MirrorImplementsOffer`). `MirrorInv` adds that one checker at most is inside the
  mutex (`OneAtATime`), what its copies of GitHub's release and of `current` still say
  (`CopiesAgree`), that the offer is the best so far (`OfferIsBest`), where a directory
  stands before it is pointed to (`InPlace`), that a prune's list spares the offer and the
  release before it (`PruneSpares`), and what an app has been told (`AppLeftBehind`). The
  refinement of `UpdateOffer` follows step by step: a check either stutters or offers a
  newer published build.
  For `ServerUpdate` (`UpdateTypeCorrect`, `OneUpdateAtATime`, `PullsAreBackedUp`) `ServerInv`
  says that of all claims and tasks there is one at most, and that `busy` is set exactly for it
  or for a request cut off after its claim (`OneHolds`); that the dump being written is the
  last file and of the running version (`DumpIsLast`), so that no prune takes it; and that a
  task comes to ask Watchtower with a whole backup (`AsksWithBackup`).
* `GqlCacheProofs` (`CacheTypeCorrect`, `AnswersStayWithTheirDevice`,
  `StaleEntriesMissedTheirInvalidation`, `EntriesStayRight`). `StaleOnlyIfMissed` is not
  inductive, since an entry is inserted from the state of a request: `InsertsStaleOnlyIfMissed`
  says the same of the answers about to become entries, `EntriesInScope` and `AnswersInScope`
  carry `OwnAnswersOnly` from query to cache to the next reader.
* `ConsoleProofs` (`AccessTypeCorrect`, `RevocationReachesCache`, `SignOutReachesCache`,
  `CachesGoWithTables`, `OldSessionsEnd`, `NewPasswordStands`, `PasswordIsTheLast`,
  `LimiterHolds`). `AccessInv` says what a lookup
  under way vouches for (`Vouched`), that a token not yet given out is nowhere
  (`TokensFresh`), where a hash of the old scheme may still come from (`OldHash`), and why
  a session of an old password is still there (`Excused`). For the limiter, attempts under
  way count as failed already.
  For the add-ons (`ConfirmedChangesHold`, `ListsFollowSettings`) `SettingsInv` says that a
  change under way which no other one crossed is a change of the settings in use (`Meant`), and
  that what the last one to write is about to publish is the table (`LastWritten`); `SyncInv`
  says that a refresh which nothing was asked for since works from the settings in use, and
  that what it has stored or tried and what is left are together the lists that are on.
* `TitleStoreProofs` (`StoreTypeCorrect`, `GhostsAreMissed`, `RowsAreOfOneTitle`,
  `CreditsStayOnce`, `RowsStayRight`). `StoreInv`: a document on its way is of a row, or its row
  is missed (`Traced`); tasks hold ids of their own title (`OneTitle`); copies of credits are
  counted with those about to be inserted (`Counted`). For `CatalogPaging` (`PagesAreKept`)
  `PagingInv` says that every title of a page that counts as fetched is stored, turned away, lost
  by a named failure, or in the hands of a job that is storing it (`Carried`).
* `WatchProgressProofs` (`ProgressTypeCorrect`, `NoTitleStaysParked`, `TheNextIsOffered`,
  `MarksStand`, `ResumesAtThePlace`). The promises hold once nothing is waiting;
  `ProgressInv` says that they hold at every moment if the waiting saves are counted in
  (`EndsAreFinished`, `MovesOn`, `Watched`, `HalfSaved`, `HasEpisode`, `Agree`). That a mark stands
  needs that no save which could undo it is in the queue (`Undisturbed`).
  For `LibraryScan` (`FolderTypeCorrect`, `FilesGetListed`) `FolderInv` says where a scan can be
  (`ScansFit`), and that a scan at a file which was not missed, and the row once it has stored
  it, say what the catalogue says now (`FindsFit`). For `LiveSettings` (`SettingsTypeCorrect`,
  `SavedIsInUse`) `LiveInv` says that a save alone with a field is the only one about to change
  it and has the table say what memory will (`AloneHolds`), that a save not alone leaves its
  fields unsure (`OthersAreUnsure`), that what is written is what is applied (`WritesAgree`), and
  that until the table is written memory is what a start would make of it (`MemoryHolds`).
* `StreamSearchProofs` (`SearchTypeCorrect`, `EveryPassHasItsTurn`,
  `NothingIsCutForNothing`, `AliveIsAnswered`, `AliveIsKept`). `Timely` bounds the time
  spent by what the passes so far may take; `Worthwhile` keeps, of a search that stopped
  waiting, enough good results through merging and probing; `CarriedOn` keeps each alive
  torrent in some list still to be merged, or the answer full of others that are not dead;
  `Unrefused` is for the links. The attempt to prove
  `AliveKept` as it first stood failed on swarms of unknown state, where it is false:
  `merge_ranked` keeps the copy that was listed first.
  `ReleasesAreRight` holds for every search and any releases a name of two marks can make. What
  it needs of names is that the first mark without an episode, or with one apart, is always seen
  (`NamedAre`): then a release that passes as a pack of the season is one, or has its episodes
  written in a form that is not told from a pack. For `Subtitles` (`SubtitleTypeCorrect`,
  `SubtitlesStay`) `SubsInv` follows a downloaded text to the tables and the answer (`Carries`),
  has a request for what was fetched before find it (`Knows`), and has rows go with their title
  alone (`Lasting`).
* `TorrentSessionProofs` (`SessionTypeCorrect`, `EachPlaysItsOwn`, `TorrentsStay`,
  `NothingStays`). Each player asks for one start, whose START, coroutine and replies
  follow one another (`Once`). One start at most goes on uncancelled, the one the service
  started last (`OneRun`); it has removed what was there before it adds its own (`Fresh`), so
  what a server serves is its own start's torrent and nothing else is alive (`Own`): while no
  cancelled start went on and no stop missed a torrent (`Orderly`), the one case in which the
  properties say nothing more. A
  player that waits or has its URL has its START as the last word on its way, or is the one
  being served with nothing on its way (`Kept`). Nobody is left behind because the client has
  a messenger exactly when its last word was a START (`Sends`), then somebody is there who
  will send a STOP (`Answered`), after a STOP nothing is there (`Clean`), and pieces without
  a responsible player are only those the STOP on its way deletes (`Wiped`). These last ones also
  hold after stops for players long gone. TLC checked this invariant on two players before it was
  proved.

Only model-checked:

* Everything with fairness (`AnswersCatchUp`, `RowSettles`, `NewestGetsOffered`,
  `NewestIsInstalled`, `RemovedStaysOut`,
  `StrayListsGo`, `ListedArrives`, `StoredIsFound`, `BlockedGoes`, `RefreshComesRound`,
  `EveryRequestEnds`, `PausedFills`): TLAPS proves neither liveness nor ENABLED.
* In `TitleStore`, who comes next in `order` (lengths of sequences without duplicates).

No module of the project declares a RECURSIVE operator.

## 5. What the code does not guarantee

These are the exceptions that the properties name, met while modelling. Where a comment of the
repository promises otherwise, it is quoted: at the settings and at the torrents.

* Sync: a forced start, a flush or a wipe lets two syncs run together. The errors of the last
  update of a sync (`ingest/mod.rs:121`, `155`), of the boot task's reset (`main.rs:171`) and of
  the heal (`admin.rs:457`) are ignored: after a failed one the row says "syncing" with nothing
  running (`unwritten`) until a later poll of the console, sync or restart resets it.
* Cache: a query in flight during an invalidation stores an answer from before it.
* Access: a login verified before a password change opens a session after it; rehashing a
  hash of the old scheme can restore the old password; a revocation cut between its
  statement and the cache leaves the session for up to 60 seconds; concurrent attempts pass
  the limiter by as many as were under way.
* Add-ons: overlapping saves lose changes or bring back what was removed; adding twice at
  once installs twice; database and memory differ after a hang-up between the two writes;
  a refresh due while one runs is skipped until the schedule's next.
* Titles: `upsert_title` merges by name and year into rows that have another TMDB id;
  credits, genres and trailers are replaced without a transaction; a document on its way
  survives the deletion of its row; a title stored by a search in another language is never
  refreshed; a row made an anime whose title has a series row too keeps its place in every
  batch of the refresh (`Shadowed`). The refresh takes complete titles that nothing has updated
  for seven days (`tmdb.rs:1183`), and the trigger counts every update: with Jackett configured
  its nightly scan marks all titles that were not marked for 24 hours (`db/mod.rs:1512`), so a
  complete title is never seven days old and is not refreshed, and one TMDB comes to call
  explicit stays; titles that stay on a shelf get its tag with every sync (`Marked`).
  `enrich_missing_from_imdb` and the backfill look at
  the newest rows and never move on. Deleted titles leave rows of `stream_progress`.
* Server update: a request dropped after its claim and before its task leaves `busy` set until
  the next restart (`cut`), and nothing is updated until then; Watchtower goes on after the
  15 minutes the server waits for it; a prune counts the half-written dump of a crash as one.
* Settings: saves of one field that overlap, a save cut off between its two writes, and keys a
  device blanks leave table and memory different until the next start (`unsure`). Saving the
  form of a Jackett that was switched off switches it on, whatever was typed
  (`jackett_configured` is false while it is off), where the comment (`admin.rs:1040`) speaks of
  saving "for the first time". An address or a key of Jackett from the environment is never
  used: the row that migration 003 creates overlays them with nothing, where `.env.example:48`
  says that they "overlay at boot if set". Both are in `LiveSettings` as the code has them.
* Library: nothing looks at a file again when its title arrives after the scan; a new
  `media_path` leaves the watcher on the old folder until the next start; a scan that was at a
  file when another one stored it writes back the older match.
* Subtitles: a movie that is asked for as an episode has its text stored as the movie's, and is
  looked up as the episode's every time; a sidecar counts as being in the language asked for.
* Releases: another episode written "S01 E03" or "Season 1 Episode 3" passes for a pack of the
  season; "Title.2019.S01" counts as junk for a series; the expression for a bare "S01" has a
  look-ahead, which the crate `regex` refuses, so that such packs are dropped above 10 GB.
* Paging: a shelf's page is recorded before its titles are stored, and a wipe keeps these
  records, so that what was lost is not fetched for 12 hours; an error while filling a
  page answers that there is no more.
* Jackett: requests for capabilities, indexers and links run outside of the passes' budgets
  but inside the limit of the whole search; "enough" counts duplicates and links not
  checked; a release listed first with an unknown swarm keeps that copy. What was found alive is
  lost to an answer that is full (`MAX_RESULTS`, 24), within a pass also to a list with a magnet of
  any release when it is a link to a `.torrent` file (`rank.rs:37`), and to the copy of an earlier
  pass. The first of these may cost the viewer's list the torrent, the others a copy: `AliveKept`
  and `AliveReachesAnswer` name them.
* Progress: marks under way can arrive in any order, so that the server may keep an earlier one.
  A save of more than the first minute that was queued before a mark and arrives after it sets
  `watched` to false again (`mutations.rs:462`), whatever the user has just chosen.
* Torrents (`Late`): a start cancelled while at work in blocking code adds its torrent, or
  starts its server, after the stop ("run"); a stop between `download()` and the alert that
  tells of it removes nothing ("handle"); the old player's late `onDestroy`, the watchdog or
  a blocked `start()` stops the new player's session ("call"), and a `start()` whose player
  is gone still binds and has the service play for nobody ("bind"); the wipe in the app's process
  races the service ("wipe"). A hand-over to a direct link leaves the old torrent running
  ("direct"), and this takes no race: `playNextEpisode` sets `handedOffToNext` before it starts
  whichever player (`PlayerActivity.kt:1482`), the new one has no torrent and calls no
  `TorrentClient`, and `onDestroy` leaves the old torrent alone (`2129`), where its comment says
  "Closing the player always stops the torrent" (`2125`). Without "Clear cache on exit" it then
  downloads until the next torrent is started, some player of one is closed, the user goes
  Home or the service ends. `NothingLeftBehind` promises nothing after "run", "handle", "bind"
  and "direct". Going Home stops the torrent under a player that stays.
  Two interleaved calls of `start()` (`stop()` and `bindService` are not atomic, and calls run
  on a pool of threads) overwrite `connRef` and leak a binding; after a crash of the
  service it reconnects and sends its START again, for a player that was handed over long ago
  and stops nothing when it is destroyed. This takes three players; the proof of
  `NothingStays` found it, and TLC then showed it on three.
* Stream server: generations are numbered by threads, not by the order of requests; an older
  request's late `noteJump` can move the window past the reader, so that a pause does not
  fill what comes next; a stop between two chunks closes like an end of file.

## 6. Not modelled

User interfaces, packaging, vendored native code, SQL that only reads, HTTP clients that map
fields (TMDB, OMDb, AniList, TVMaze, YTS, Jikan, Jackett parsing), text matching (parsing of
file names, source ranking by title, picking a file of a torrent), trackers and artwork: they
keep no state whose order of changes matters, or are input and output of strings. The sessions of
`stream.rs` are never made on this commit (`start_stream` always answers with an error); of the
rest the stream search uses the probes, which `StreamSearch` has, and `torrent_probe` and
`torrent_files` answer from it and change nothing. The desktop
engine runs the protocol of the Android one over a C++ bridge. `DownloadBudget` is one pass over a
directory; the Jackett scan stores no torrents, it marks titles as checked and thereby moves their
`updated_at` (`Mark` of `TitleStore`); what Watchtower does
is seen from the server alone. Favourites are an insert and a delete. Notes on each are in
`PROJECT.json`.

## 7. What is left

Every safety property and every action property of a passing run that is not about liveness is
a theorem. Left to do: lengths of `order` in `TitleStore` as a theorem, the desktop engine should
it come to differ from the Android one, and the liveness properties for a prover that has them.
