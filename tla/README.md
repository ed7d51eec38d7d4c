# Formal model of MedgeNet

MedgeNet replaces the online services of *Mirror's Edge*: a Go server speaks the
game's FESL protocol (accounts, friends, leaderboards) and serves ghosts over
HTTP; a DLL loaded into the game redirects it to that server and repairs a few
things in the process; a launcher injects the DLL.  This directory holds TLA+
models of these programs, their TLC configurations, and theorems checked with
TLAPS.  There are no unit tests in the repository, so the models are read from
the source alone.

## 1. Inventory

| part | source | state it keeps | operations |
|------|--------|----------------|------------|
| FESL connection | `server/fesl/server.go` `Session.run`, `packet.go` | receive buffer, time of the last MemCheck, account and persona of the session | read, decode, dispatch, answer, challenge, end |
| accounts, tokens, personas | `fesl/server.go`, `storage/storage.go` | tables `accounts`, `personas`, `login_tokens` | NuAddAccount, NuLogin/Login (password, token), NuLoginPersona, NuAddPersona, NuGetPersonas, NuLookupUserInfo |
| associations | `fesl/associations.go`, `storage.go` | table `friends` | AddAssociations, DeleteAssociations, GetAssociations |
| leaderboards | `fesl/rank.go`, `storage.go` | tables `stats`, `historical_players`, `historical_runs`, `historical_account_links` | UpdateStats/SubmitStats, GetStats, GetRankedStats, the two ...ForOwners, GetTopNAndStats; import, link, unlink |
| FileLocker | `locker/server.go`, `xml.go` | a directory with ghosts and their metadata | put, get, dir, nfo, editorial pages |
| server process | `server/main.go`, both `Listen` | context, two listeners, sessions, the database file | start, migrate, listen, stop on a signal or a listener's return, crash |
| configuration, log | `config/config.go`, `mlog/log.go` | settings; the log files | load; open, remove old files, write |
| client: tick detour | `client/dll/MedgeNetClient.c` 1328-1585 | `g_in_process_tick`, tick counters, last state of the locker | hooks on FeslConnection::Tick and ProcessTick |
| client: restart hook | the same, 905-1181 | guard, resolved functions, attempts | hook on ProcessEvent |
| client: start | the same, `DllMain`, `apply_patches`, `patch_heap_thread`, `log_*` | patched code, `g_process_event_trampoline_addr`, `g_log`, the session's host | patch, wait for the session, log |
| client: URLs | the same | a buffer of the game | rewrite a URL |
| launcher | `client/launcher/MedgeNetLauncher.cpp` | `g_waiting`, the worker, its handle, the status line | wait for the game, inject, wait for its end, show |

How they interact:

* One goroutine per FESL connection and one per HTTP connection.  A goroutine
  handles one request at a time; goroutines share only the SQLite database and
  the ghost directory.  No handler takes a lock and, apart from the migration at
  the start, none opens a transaction.  So the unit of interleaving is one SQL
  statement, or one file operation, together with the Go code up to the next.
* The locker reads `stats` (the ghost tags uploaded with UpdateStats) to find a
  ghost under the name of its stretch.
* A failed statement or a panic-free error is answered with errorCode 1;
  nothing that earlier statements wrote is undone.  The process may end between
  any two statements; the tables stay and every connection is gone.
* `main` migrates the database before any listener exists, and ends with the
  first listener that returns; it waits neither for the other nor for sessions.
* The hooks of the client run on the game's threads, inside its call stack, and
  are re-entered through the functions of the game they call.  They are put in
  place by `DllMain` while the game runs, and share one log handle with it and
  with the heap thread.
* The launcher knows the game by a process id and a handle; its worker talks to
  the window through posted messages only.

What is hard: races between handlers that check and write in different
statements, batches that fail half-way, answers put together from several
statements, files that are written in steps, an upgrade or a rotation cut short,
TCP framing, sessions that must end although nobody speaks, re-entrant hooks
that guess from counters what the game is doing, code that is patched while it
runs, and a game that may end or be replaced between any two looks at it.  The
list, line by line, is `hazards` in `PROJECT.json`.

What makes each part correct:

* accounts: what was acknowledged stays true; nobody becomes an account or a
  persona without having proved to be its owner;
* associations: a connection that plays as a persona changes no other persona's
  list, rows are valid, an answer promises only what is in the table;
* leaderboards: all queries see one ranking; a time is shown with its own ghost,
  unless the run changed under the answer;
* FileLocker: a download is the ghost that was uploaded last, is found, and is
  what the listing showed;
* connection: requests are answered in order and once, sessions end;
* server process: an upgrade and a rotation lose nothing wherever they are cut;
  settings come from the right source; the process ends when it should;
* detour: ProcessTick keeps running, is never re-entered by the detour's own calls
  and in frames of UE3 only when they are long; a callback is delivered again at
  most once, and only for an upload that succeeded;
* restart hook: a restart in a race is redirected, once;
* start of the client: a call of the game crashes only in the place being patched;
  the log tells what happened; a session that stays gets the server's host;
* launcher: its status is true until the user's own "saved" overwrites it, and
  every game that is ready gets the DLL.

## 2. Modules

| module | models | atomic step |
|--------|--------|-------------|
| `Identity` | what accounts and personas promise: a request is one step | - |
| `Accounts` | the handlers of `fesl/server.go` over three tables | one SQL statement |
| `Associations` | `handleAddAssociations`, `handleDeleteAssociations` | one SQL statement |
| `Leaderboard` | `rank.go` and its queries, imports, links, time | one SQL statement |
| `Locker` | put, get, dir and nfo of `locker/server.go` | one file operation; a listing |
| `FeslConnection` | `Session.run` and `Decode` on a byte stream | one read, decode or write |
| `Config` | `config.Load` as a function of file and environment | - |
| `Server` | `main`, `mlog.New`, `storage.Open` with the migration, both `Listen`; extends `Config` | one file operation, statement or return of a blocking call |
| `TickDetour` | `detour_FeslConnUpdate`, `diag_locker_state`, `capture_ProcessTick` | a call, a return, or the code between |
| `RestartRace` | `detour_ProcessEvent`, `ue_resolve_restart_functions` | a call, a return, or the code between |
| `ClientStart` | `DllMain`, `apply_patches`, `patch_heap_thread`, `log_*` | one system call, one access to `g_log`, half a patch |
| `Launcher` | `injector_thread`, `inject_dll`, `wait_for_process_exit`, the window | one system call |
| `AccountsProofs`, `LeaderboardProofs`, `LockerProofs`, `ServerProofs`, `TickDetourProofs`, `RestartRaceProofs` | theorems about the module of that name | - |
| `FeslProofs` | theorems about `Associations` and `FeslConnection` (whose `CInit`, `CNext`, `CSpec` and `at` are so named to stand beside those of `Associations`) | - |
| `LaunchProofs` | theorems about `ClientStart` and `Launcher` (whose `LInit`, `LNext`, `LSpec` are so named to stand beside `ClientStart`'s) | - |

Each `MC...` module instantiates the module of that name for TLC, with the sets
and the symmetry its configurations use.  `map` in `PROJECT.json` names the
lines behind every definition.

State and code.  In the server's handlers `pc[s]` is the statement that the
handler of connection `s` executes next, `req[s]` the parsed request, and the
remaining local variables are those that live across statements (`account` in
handleNuLogin is `row`, the ranked value is in `found`).  `Session.accountID` and
`Session.personaID` keep their names.  A table is a sequence where rowids matter
(`accounts`, `personas`: INTEGER PRIMARY KEY, nothing is deleted, so the rowid is
the position), otherwise a function or a set over the primary key.  A query is an
expression over the tables (`Candidates`, `BestRows`, `Page` are the common table
expressions of TopN).  In `TickDetour` and `RestartRace` `stack` is the call stack,
and the globals are variables of their own.  In `Server` `pc` is where main is and
`lpc` where each Listen is; `files` and `db` are the disk, `work` the table inside
the open transaction.  In `FeslConnection` `at` is where
the loop of Session.run is.  In `ClientStart` `at[w]` is where a thread is inside
log_open/log_str/log_close or its own code, and `stranded`, `aimed` and `spoiled`
are what the machine would know: threads stopped inside a place, whether the
session the heap thread saw still exists, memory it overwrote.  In `Launcher` `worker` is where
injector_thread is, `posted` the window's queue.  Variables marked *history* are
never read by an action; they remember what clients were told.  `moved` in
`Leaderboard` has the owners that changed under each request, `steady` in `Locker`
the gets under which nothing did; both only feed properties.

Operators whose comment begins with *Deviation* are not part of a specification:
each is the definition before or after it with one plausible mistake, and every
property of every run is shown to fail with one of them (`mutants`).

Abstractions that matter: a password hash is the password it was made from plus
the scheme; random tokens and times are distinct model values; a run is
identified by its time, so that a ghost tag can be compared with it; a file's
content is its size; requests that a validator rejects touch nothing and are
left out; formatting and logging are left out.  `FeslConnection` tells bytes
apart by packet and position only, and handlers appear there as one step that
returns something.  `Config` has one textual and one numeric setting for all of
them.  In `ClientStart` a log line is what it reports, a place is half written or
not, and crashes differ by how and where they come about; its instance has two
places, ProcessEvent, which needs a trampoline, and one that needs none.
`Launcher` has one game at a time, and Windows gives a process id away only when
no handle to its process is open; posting a text and allocating it succeed.

## 3. Runs

| run | configuration | question |
|-----|---------------|----------|
| `accounts_names` | 2 connections, 2 nuids, 1 password, 2 names, no tokens | who owns what when requests race, fail and restart; refinement of `Identity` |
| `accounts_tokens` | 2 connections, 2 nuids, 2 passwords, 2 tokens, no names | tokens issued, revoked and used at once; is the account entered the one that was proved |
| `associations` | 2 connections, 2 personas, batches of 0 to 2 | validity, ownership, promises of friend lists |
| `leaderboard_ranks` | 1 writer, 1 reader, 2 personas, 1 player, values -1, 1 and 2, requests for one owner and pages | do stats, ranks and pages agree; what links may do |
| `leaderboard_uploads` | 2 writers, 1 reader, 1 persona, 1 player, week board, requests for one or both | does a time show its own tag, on the page and in the stats |
| `locker` | 2 connections, 2 personas with a common prefix, 4 different uploads, 3 different gets, listings of 1 | is a download the last upload, is it found, is 404 true, is the listing |
| `fesl_connection` | streams of up to 3 packets, 2 or 3 bytes each, a socket of 1 message | is the answer independent of how TCP cuts; answers, challenges, shutdown |
| `server` | files of up to 3 lines and every environment, 5 log stamps of which 2 are kept, 1 link, 1 session per listener | settings, migration and rotation under crashes, and the end of the process |
| `tick_detour` | threshold 3, 6 ticks in a frame, 3 uploads | nesting in short and long frames, replays; does ProcessTick keep running |
| `restart_race` | 2 threads, 3 nested calls, search every 4th of 8 counts | redirection, guard, throttle |
| `client_start` | 2 patches, 2 threads of the game, 2 handles, 2 attempts, 2 sessions | crashes while patching and later, the log, the heap patch |
| `launcher` | 2 process ids, 3 messages on their way | is the status true, is every game served |

All of them pass.  What they show beyond the definitions:

* `PersonaOwnedByLogin` speaks of the accounts a connection *has been*, not of
  the present one: NuLogin on a connection that plays as a persona replaces
  accountID and keeps personaID (server.go:235).
* `OneTokenPerIssuer` is per connection: two logins that overlap leave two valid
  tokens, because IssueLoginToken deletes and inserts in two statements.
* `GrantedNamesAgree` counts acknowledgements of connections that are logged in.
  NuAddPersona before the login is answered with success, too, and writes no row
  (server.go:325-340): the name may then go to somebody else.
* `RevocationIsFinal` speaks of logins that arrive after the revocation.  One that
  has read the token's row before it is deleted (storage.go:290-293) still
  succeeds: the code does not look whether the row it touches is there.
* `OnlyOwnList` needs a connection that plays as a persona.  One with personaID 0
  passes the check at associations.go:287 and may change anybody's list.
* `RankedAnswerMatchesBoard` compares the times of owners that do not change under
  the request (`moved`); each owner that does can shift their rank by one, for
  RankedStats counts in a later statement than it reads.  UpdateStats accepts any
  number (rank.go:407).  One that is 0 or less is on no page, but RankedStats takes
  it for a value, so that a linked run is not used and the persona is shown
  unranked (0) or first (below 0): the property states these cases.
* `GhostBelongsToTime` excludes personas whose uploads overlapped, broke off or
  brought the time or the tag alone (`torn`): there the code leaves mixtures.  It
  also excludes a persona that uploads while it is being answered: TopN reads the
  tags after the page (storage.go:775), so that a complete upload in between puts
  its tag beside the older time.  It says what GetStats does with a linked run
  that is faster than the persona's own: the time is the linked one and the tag
  that of the slower run (storage.go:559), unlike on the page, which shows no tag.
* `DownloadIsLastUpload` excludes uploads of one ghost that overlapped or broke off
  (`Unknown`), and names the one instant in which a get sees a short body:
  between the truncation and the write inside os.WriteFile (locker/server.go:181).
* `OwnGhostFirst` and `NotFoundIsTrue` assume that nothing changes during the get
  and that its reads succeed; a failed read is answered with the same 404
  (locker/server.go:156-163).  A persona whose name and an underscore begin
  another's may get that one's ghost instead of its own (locker/server.go:272), but
  nobody else's; `ListingIsTrue` does not speak of it.
* `RotationKeepsNewest` holds although the clock may be set back, so that the log
  in use is among the oldest: it is skipped (mlog/log.go:98), and a log more than
  `maxLogFiles` stays.
* `ServerEnds` needs no session to end and no second listener to return: main
  leaves with the first, and what handlers still do on the closed database is a
  cut at any statement, which `Accounts` and `Locker` have as Restart.
* `CallsCrashOnlyWhilePatching` states the window for calls: a place half written,
  or ProcessEvent between the last byte and the address of its trampoline
  (MedgeNetClient.c:1174).  Three more ways to crash are in the model and left open
  by the property, as the code leaves them open: a thread that was stopped among
  the bytes (404-405) goes on in the middle of new instructions; the copied `je`
  (828-836) is not relocated and, when taken, leaves the trampoline; the heap thread
  copies to a session that has ended (1838).  What excludes nothing is the second
  half: no call, thread or jump crashes in a place reported as skipped or failed.
* `LogTellsUnlessShared` excludes writers that have the log at once (`shared`):
  then lines are lost and the handle may leak, because the second CreateFile fails
  and overwrites `g_log` with INVALID_HANDLE_VALUE.  Even then the log never says
  that the patches are in place when one is missing.
* `StatusIsEarned` allows a game that is held to lack the DLL when LoadLibrary
  refused it, for inject_dll does not look at the exit code (line 675).  While a
  game is held the text may be that of save_config instead (587-589), which uses the
  same line, until the game ends.  While no game is held the text may be stale
  ("preparing" after that game has ended): the property only says that it is never
  "running".
* `ReentersOnlyLongFrames` and `PumpsOnlyWhenStale` count the ticks since UE3 last
  began a frame.  Nothing in the detour tells a pause from a frame that takes more
  than Threshold ticks: inside such a frame it calls ProcessTick again, as the run
  shows.  The busy flag is no obstacle, nor does clearing it help if the game sets
  it again in the same tick, in ProtoHttpUpdate or a replayed callback.

Bounds, and why they are enough.  Two connections suffice for a race between a
check and a write; in `leaderboard_uploads` a third reads while two write.  Two
nuids, names and personas give a stranger to every owner.  A batch of two has a
first entry that stands and a second that fails.  Two times give ties and a
strict order, and the value below 0 what is no time (0 is left to the theorem).  `MaxRows`, `MaxList` and `CutoffRank` are small
(100, 150 and 500 in the code) so that the cap and the empty page
are reached.  Two uploads of one ghost have different sizes, so a short one can
end up over a long one.  Packets of 2 and 3 bytes with a header of 2 can be cut
inside the header, between header and payload and between packets.  `Threshold`,
`ResolveEvery` and `Width` stand for the constants of the code scaled down: the
properties depend on their order and divisibility only, which the modules'
assumptions state.  Three lines of a file give a section, a value and another
value or section for it; five stamps leave several logs to remove, with the
current one anywhere among them.  Two attempts give a first and a last one; two
sessions give one that ends while its host is copied and one that may come in
its place.  Six ticks in a frame are twice the threshold.  Two process ids give a
later game with the same id and with another.  Random tokens run out
(`FreshTokens`); the module says so at the guard.

CHECK_DEADLOCK is off for `FeslConnection`, where a connection ends, and for
`ClientStart`, where the game crashes and the DLL's threads end.

Fairness.  `FeslConnection`: the loop runs, for Read has a deadline of 500 ms, and
the client takes what is sent to it; that last assumption is needed because
writes have no deadline (server.go:134).  `TickDetour`: the transport tick keeps
coming between frames (strong, for the game may be in a frame now and then), as the
comment at MedgeNetClient.c:98-100 says of the DirtySock timer, and functions that
were called return; nothing makes UE3 start a frame.  `Server`:
main and the goroutines that close the listeners run, binding returns, and Accept
returns on a closed listener; nothing makes sessions end.  `Launcher`: the worker
and the window run (weak), and the snapshots of a ready game, of processes and of
modules, and an injection into it do not fail at every try (strong, for the worker
comes back to them); nothing
makes a game start, get ready or end.  `ClientStart`: the threads of the DLL are
scheduled.  The other specifications are safety only.

Assumed of the game, which is not in the repository: no transport tick inside a
locker callback, and a result field that only a PUT sets.  How long its frames are
and where it sets its busy flag is left open.

## 4. Proofs

Proved for every value of the constants that the modules' assumptions allow:

| module | theorem | property |
|--------|---------|----------|
| `AccountsProofs` | `TypeCorrect` | `TypeOK` |
| | `Ownership` | `PersonaOwnedByLogin` |
| | `AcknowledgedAccounts` | `AcknowledgedAccountVerifies` |
| | `GrantedNames` | `GrantedNamesAgree` |
| | `PasswordsStay` | `PasswordsNeverChange` |
| | `Refinement` | `ImplementsIdentity`: every step of a handler is a step of `Identity` or invisible |
| | `TokensBelong` | `OneTokenPerIssuer` |
| | `RevokedForEver` | `RevocationIsFinal` |
| | `LoginsAreEarned` | `LoginMatchesCredentials` |
| `FeslProofs` | `FriendsAreValid` | `FriendsValid` |
| | `AcceptedStands` | `AcceptedEntriesHold` |
| | `ListsBelongToPersonas` | `OnlyOwnList` |
| | `AnswersFollow` | `ResponsesFollowRequests` |
| `LeaderboardProofs` | `AnswersMatchBoard` | `RankedAnswerMatchesBoard` |
| | `PagesShowRanks` | `PageRanksAreRanks` |
| | `LinksRegroup` | `LinksOnlyRegroup` |
| | `GhostStays` | `GhostBelongsToTime` |
| `LockerProofs` | `DownloadsAreWhole` | `DownloadIsLastUpload` |
| | `OwnGhostsGoFirst` | `OwnGhostFirst` |
| | `MissingIsMissing` | `NotFoundIsTrue` |
| | `ListingsAreTrue` | `ListingIsTrue` |
| `ServerProofs` | `UpgradeIsSafe` | `LinksSurviveUpgrade` |
| | `RotationIsSafe` | `RotationKeepsNewest` |
| | `SettingsAreByPrecedence` | `SettingsByPrecedence` |
| `LaunchProofs` | `CallsAreSafe` | `CallsCrashOnlyWhilePatching` |
| | `LogTells` | `LogTellsUnlessShared` |
| | `StatusIsTrue` | `StatusIsEarned` |
| `TickDetourProofs` | `ReentersLongFrames` | `ReentersOnlyLongFrames` |
| | `PumpsWhenStale` | `PumpsOnlyWhenStale` |
| | `ReplayedOnce` | `ReplaysAreCompletions` |
| `RestartRaceProofs` | `GuardIsHeldOnce` | `NoRedirectInRedirect` |
| | `RestartsInRaces` | `RestartsAreRedirected` |
| | `SearchComesInTime` | `FoundSoonAfterLoading` |

**Accounts.**  The inductive invariant is `IInv == Typed /\ TablesOK /\ \A s :
LocalOK(s)`.

* `Typed` adds to `TypeOK` what the handler holds at each statement (`RequestOK`):
  for instance that a persona statement is only reached logged in.
* `TablesOK`: nuids and names are unique, which is the UNIQUE of the tables kept
  by INSERT OR IGNORE; references lead to rows; every acknowledgement has its row.
* `LocalOK(s)`: the connection has been the account it is; its persona belongs to
  an account it has been; between the statements of a handler what it read is
  still true (the password compared before UpgradeHash, the row inserted before
  SelectNewAccount).

None of the safety properties is inductive alone: `PasswordsNeverChange` needs
that the password written is the one compared a statement earlier, which needs
that no other step changes it meanwhile.  The argument is split the same way:
`TablesGrow` shows that a step adds rows and changes no name, owner or password;
`LocalKept` that LocalOK of the other connections survives growth; `OwnLocal`
handles the connection that moves, one statement at a time; `TablesStep` the
tables.  The refinement then needs only that two statements are visible in the
tables (the two inserts) and two kinds of answer in the sessions.

**Tokens.**  `TokenInv` is inductive relative to `IInv`.  It adds to `OneTokenPerIssuer`
what a handler knows between its statements: the token it is about to insert is
drawn for its account and by nobody else, and its connection has left no other one
to that account (`InserterOK`); the account it has read for a token is the one the
token was issued for (`ReaderOK`); a password it has compared is still that
account's (`VerifierOK`, where `IInv` keeps the names and passwords).  Only the two
statements of IssueLoginToken write the tokens (`TokenWriters`), so every other step
is dealt with once.  `StaleInv` is about logins whose token was revoked before they
came: such a login is still at its SELECT, and the token has no row and nobody left
who could write one (`Dead`), because whoever comes to the insert has just drawn
another (`InsertersDraw`).

**Associations.**  `ListInv` joins the two safety properties with `Checked`: at each
statement, what the handler has checked of its entry (it may be changed by this
connection, owner and member exist) is still true.  It is, because personas are
never deleted and the fields of a session change only between its requests.

**Connection.**  `ConnectionInv`: the loop has taken the first `k` packets from the
stream, all of them good, and has answered, or is answering, the requests among them
in order (`TakenOK`).  `ResponsesFollowRequests` alone is not inductive, for it does
not say that buf begins where a packet begins.  `OffsetIs` is the induction over the
stream (each packet begins where the one before it ends); from it and from
`OffsetGrows` the packet at the front is the next one (`NextAtFront`), however the
bytes came.

**Leaderboard.**  `BoardInv` is the types of the tables and, for each connection,
`RequestsOK`: what its handler holds between two statements, and the answer it gave,
are what the tables say of every owner that did not change since the request came
(`Fresh`, `AnswerRight`).  So each query is first shown to compute what it should,
from the tables alone (`BestExists`, `BestUnique`, `RankIs`, `PageIs`).  A rank is a
count of faster rows; the rows of owners that stayed are counted by every rank, and
the others add at most one row each (`PlacedBounds`), which is where the bound on
the shift comes from.  These proofs are about finite sets and maps between them, and
about least members of sets of naturals, which stand in for an induction over the
data.  `LinksOnlyRegroup` needs one such map: the rows faster than a persona after a
link are sent to different rows that were faster before.  `GhostInv` says of a
persona and a period that is not `torn` what the rows hold while an upload is under
way: if it has both keys or none left to write there, time and tag are of one run,
and if one, the other row already holds the new run.

**Locker.**  `LockerInv` has three layers over the types, each of which needs the one
before.  `UploadInv`: as long as the uploads of a ghost have not overlapped, its one
writer finds the file as it left it, so that a reader sees the last body before the
truncation, nothing between it and the write, and the new body afterwards; and the
file is there before its metadata is.  `LookInv`: a path that a get holds
between its search and its read is still one that the persona's own ghost allows,
and a persona's own files among which it was not found are still without it, unless
something was written meanwhile (`steady`).  `AnswerInv` says the same of the last answer.  All of it rests on
what a listing is: `EntriesAre` (each file that matches, once) and `ListingsAre` (the
entries, then one alias for each new name), from which `FindIs` computes where the
first entry of a name leads, and `ListingShows` that for a persona whose files are
nobody else's every entry leads to itself.  The loops over the files are recursive
functions (`Only`), and `OnlyIs` is the induction over their length.

**Server.**  `MigrationInv`: the committed table always has the rows of the
beginning (`Committed`); at each statement of the transaction the table inside it
has come as far as the statements before brought it (`InTransaction`); main waits
for listeners only with the new form (`Progress`).  A crash falls back to what is
committed, so that only Commit has to be shown to keep the rows.  `RotationInv`:
each log still to be removed is not the one in use and has `KeepLogs` newer ones that
will stay, so that removals can stop anywhere.  `SettingsByPrecedence` needs no
step of main but Load: reading one line more either leaves a setting or gives it
that line's value, so that after any number of lines it is the last one's
(`LastLineWins`), over which the environment and under which the default are laid
(`FirstOfThree`).

**Launcher.**  `StatusInv` speaks of the text the window *will* show, the last one
posted (`ShownIsEarned`), for the queue may still hold others; and `Held` relates
the handle to the game: while it is open and its game lives, that game is the one
running now, since its process id is not given away.  Saving settings puts its text in the place of
the one shown, never of one on its way.

**ClientStart.**  `PatchInv`: a place half written is the one DllMain is at, the hook
on ProcessEvent lacks its trampoline only at the step that stores it, and the
places whose turn has not come have their old code.  With `MissingInv`, a place
reported missing has its old code for ever and nobody was stopped in it.
`LogInv` is about the time before `shared`: one writer has the log, `g_log` is the
handle that is open from his assignment to his close, and nobody else opens one.
`SummaryInv`: every patch that DllMain has passed is in place or has its line, and
after the summary it patches nothing.

**TickDetour.**  `PauseInv` says which shapes the call stack can have: a tick or a
frame the detour runs, between the frames of UE3 or inside one; a call of the detour
inside another would need one more, which the guard rules out.  That it runs one
inside a frame of UE3 only when that is long is arithmetic, for any length of a frame:
the stale ticks the detour has counted lag behind the ticks since UE3 last began a
frame (`quiet`), by two while a tick is on its way, for a frame that begins lets
the next tick see its counter moved.  `DetourInv` relates `prev` (g_locker_prev_state), the
number of the last PUT and the PUTs that were stored: the detour remembers a PUT
only before it has replayed it, except while the replayed callback runs.

**RestartRace.**  `GuardInv` adds the types of the call stacks to the property
itself, which is inductive then: a call enters the guarded code only when the
guard is free, when no other call is in it; and a call that is in it is the
innermost of its thread unless it runs RestartRace.  `RestartsAreRedirected` needs
in addition that no more is found than there is (`FoundInv`): then a call that
passes the hook with both functions found and a race running has met the guard.
`FoundSoonAfterLoading` follows from `LateInv`: the calls that came after loading
and did not find are fewer than the attempts since the last multiple of
`ResolveEvery`.  That survives the overflow of the counter because `ResolveEvery`
divides its width (256 and 2^32 in the code), an assumption of the module.

Only model-checked: the seven liveness properties (`EveryRequestAnswered`,
`SilentClientChallenged`, `ShutdownEndsSessions`, `ProcessTickKeepsRunning`,
`ServerEnds`, `GameIsServed`, `SessionIsRedirected`), which need fairness and ENABLED.
Every invariant and action property of the runs is a theorem.  No module declares a RECURSIVE
operator, so that all of them can be proved about.

The assumptions on the constants are those of the modules, which TLC evaluates on
every run; they say no more than the code does: that ids of different tables and the
value for "none" can be told apart, that limits and times are numbers, that there
are finitely many periods, personas and ghost names, that no persona has the empty
name (locker/server.go:352), that a file of settings is unreadable or a sequence of
lines.  No theorem has a hypothesis besides.

## 5. Not modelled

* Constant answers (Hello, GetLockerURL, NuGetTos, ...) keep no state.
* HTTP framing and validation of the locker (locker/server.go 68-93, 361-402), its
  editorial pages, the XML text, the FESL key-value text: pure conversions whose
  result the properties do not distinguish.
* URL rewriting: one substitution in a buffer of the game.
* Profiles of the game's executables and the bytes that are patched: the binary is
  not here.  Installing the hooks fails or succeeds, place by place.
* The window of the launcher, its dialog and settings file: GUI code.
* Lines of the server's log, and the memory a large packet occupies.

## 6. Plan

Done, in this order: `Accounts` with `Identity` and the proofs (the heart: who is
who), `Associations`, `Leaderboard`, `Locker`, `FeslConnection`, `TickDetour`,
`RestartRace`; then `Leaderboard` with GetStats and the ...ForOwners requests,
`Locker` with listings, `Config` and `Server`, `Launcher`, `ClientStart`, and proofs of
all safety properties.

Next: abstract specifications worth stating and refining, beside `Identity`: a register per ghost that `Locker` implements outside
overlapping uploads, and a FIFO of requests that `FeslConnection` implements.
