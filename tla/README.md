# shani-cassini: a verification development in TLA+

Cassini is the settings application of Shanios: a GTK 4 window over some seventy
pages, a notification agent that a systemd timer starts, a tray icon, and a
session with a fleet server. Everything it does to the machine it does through
other programs - `pkexec`, `shani-deploy`, `shani-fleet-agent`, `fprintd`, the
keyring - that take their time, are dismissed, time out, or die. The modules
here model that: the state each component keeps, one action per handler,
callback or thread step, the programs around it as external actions, and the
interleavings of all of them. TLC checks the modules on small instances; TLAPS
proves theorems about nine of them for every instance.

Source lines below are of `src/src/shani_cassini/` unless another directory is
named.

## 1. The system

| part | state it keeps | operations | what is hard |
|---|---|---|---|
| Config engine, `config_io.py` | the target file, a temp file, the backup directory | `read_document`, `stage`, three writers, put-back, read-back | atomicity on three routes, processes that die or outlive a timeout, an editor beside it |
| `set_config_value`, `system_status.py:2744-2818` | none | reads, edits, stages, writes, confirms | every path has to answer the page once |
| Config documents, `config_io.py:96-546`, `config_edit.py` | lines of a file | parse, set, unset, add, replace | what an edit may touch |
| Drop-in page, `tabs/access.py` | rows, a generation, the last answer | refresh, add, remove, save in a thread | two saves at a time, stale rows, answers out of order |
| Twelve pages that write a file (`sharing.py`, `smb.py`, `hosts_env.py`, ...) | the entries as read, a busy flag, a note | refresh, set or remove an entry, save | the base of the new text, indexes of rows, a second save, a writer that raises |
| Fifty-eight pages that read the system, `tabs/*.py` | answers, a generation, a counter, what is drawn | refresh, one callback per tool, a command of the page | answers of an older reading, chains of questions, tools that fail, a button that stays grey |
| Session, `auth.py` | tokens in memory, tokens in the keyring | start, log in, log out, refresh, expiry | keyring calls that take effect after their timeout |
| Agent, `agent.py` | `agent.json`: what was said | decide, notify, save | dies between two notifications; a timeout races a click |
| Updates page, `tabs/updates.py` | last status, `_busy`, what is sensitive, banners | check, update, prefetch, roll back, channel | overlapping questions, an action beside them |
| Fleet page, `tabs/fleet.py` | `_busy`, membership, findings | show, health, drift, enroll, remove | one latch for overlapping calls |
| Fingerprints, `tabs/biometrics.py` | the attempt being enrolled | claim, start, scans, stop, release | asynchronous answers that find another attempt |
| Runners, `system_status.py` | none; a process each | `run_json`, `run_json_tool`, `run_stream_tool`, `run_streaming_raw`, `_gather` | a timer racing the end, a callback called twice |
| Parsers, `system_status.py` | none | some fifty readers of tool output | text |
| API client, `api_client.py` | none | HTTP requests | nothing that is not in the session |
| Application, window, notebook, tray | built pages | activate, `--show`, build, select | lazy building, aliases |
| AppState, `state.py`, `update_state.py` | data handed to pages | load, save | nothing concurrent |
| Small pages (`attachment.py`, `cron.py`, `device.py`, ...) | rows | look up tools, one question per card | nothing follows from an answer |

How they meet: a page calls a runner or starts a thread, the runner starts a
process, and the answer comes back as a callback on the GLib main loop. There is
one main loop, so two callbacks never overlap; between any two of them anything
else may run. A page guards itself with a flag (`_busy`, `_pending`) or with a
generation number, and many of the properties below ask whether the flag or the
number does what its comment says.

Modelled in a module each: config saving, the drop-in page, the session, the
agent, the updates page, the fleet page, fingerprint enrollment. The pages that
read the system share one discipline (`Readers`) and the pages that write a file
another (`EditPages`); each page is a record that says how it keeps it. Section 7
lists what is not modelled.

## 2. The modules and the code

Every module has the same shape: CONSTANTS with named assumptions, VARIABLES
with a comment each, one action per handler, external
actions for what is not in this repository, `Next`, `Spec`, a fair specification
where there is a liveness property, and the properties last. `Faults` is what may
go wrong; in all modules that have it but `ConfigSave` the variable `faults` picks a
subset of it at the start and keeps it, so one run covers every combination and a
property can say under which of them it holds. Definitions marked `(mutant)` are the
plausible bugs each property was seen to catch; no specification uses them.

**ConfigSave** - `set_config_value` over `read_document`, `stage` and the writers
`write_staged_unprivileged` (route `own`), `write_staged_privileged` (`install`)
and `_write_via_helper` (`helper`). A text is the set of settings in it; save `s`
adds setting `s` to the text it read. `pc[s]` is the line of the worker thread:
`new`, `read`, `staged`, `temp`, `replaced`, `waiting` (for pkexec), `stuck` (the
kill of the timeout was refused), `restoring` (the put-back), `confirm`, then
`done` with a `report`, `raised`, or `dead` with the application. `child[s]` is
the pkexec process, which asks, runs, and writes the whole text, a part of it
(`torn`), or nothing. `kept` and `stamp` are the backup directory, trimmed by
name to `Keep`. The pages of this route start a save only when none is pending
(`Idle`). Beside it run an editor, the clock, and a crash.

**SavePromise** - what a save promises, whatever the route: at most one pending,
an effect in one step or none, and an answer that says which, or that says to
look at the file by hand, or no answer when the save dies with its application or
its thread. It promises this as long as the save is alone with the file; the
refinement mapping says when that ends (`Alone`): somebody edits the file beside a
save, a process of root is left behind by a death or a timeout, or the fsync of
the directory fails after the replace. A part of a text in the file is not yet
what the settings are (`Settings`): the page still has to put the backup back, or
to say that it could not.

**ConfigSaveProofs**, **FleetProofs**, **AgentProofs**, **DropinPageProofs**,
**UpdatesPageProofs**, **FprintEnrollProofs**, **ReadersProofs**, **EditPagesProofs** -
the theorems (section 5). `FleetProofs` is about both halves of the fleet client,
`AuthManager` and `FleetPage`, and extends the two.

**DropinPage** - `AccessTab`: `_redraw`, the remove dialog, `_add_rule`, `_remove`,
`_save`, `_save_worker`, `_on_saved`. The file is a sequence of lines, of which
the model tells apart the rule of an account, a rule that begins like a comment
(`#1000 ...`), a comment, an empty line, and one the page cannot read. A row keeps
the index of its line, as the code does. Unlike the pages behind `ConfigSave`,
nothing refuses a second save; each has its thread (`phase[s]`), its text, and
the generation of its start.

**AuthManager** - `_keyring_call` gives a call of the keyring two seconds and then
forgets it, not the call: `late` holds the effects still to come. A session is
the number of the server's answer it came from.

**Agent** - `decide` and `main`. An event is a record of a kind, a boot and a
version, as its key is. `disk` is `agent.json`, `said` the state of the run, `left`
what is still to tell; `Show`, `Closed`, `Refused`, `Ignored` are the ways of
`notify-send --wait`. Days of events that are said once are not kept apart, and
the locals of a run end with it.

**UpdatesPage** - `refresh`, `_on_status`, the render functions, `_run` and what
follows it. A question is a number; what it reads, it reads at some moment
between its start and its answer. `on` is the set of sensitive controls.

**FleetPage** - `_load`, `check_health`, `check_drift`, the two dialogs, `_begin`,
`_run` and the callbacks. Its specification is `PageSpec`, so that it can stand beside
that of `AuthManager`. A call is a record in `calls` until its callback is
dispatched; `attached` says whether the Status group still is on the page.

**FprintEnroll** - `_start_enroll` to `_enroll_finished`. The page has at most one
attempt; an answer finds the attempt of its moment. `stray` counts the timers and
subscriptions whose attempt was overwritten. `sent` and `inbox` are D-Bus in
the two directions; a Claim may wait for the user's authorization and be
overtaken, every other call is served in order.

**Readers** - how a page reads the system. `Begin` is `refresh()` or `load()`: a new
generation, what is read from files on the spot, the first questions. `Answer` is
the callback of one tool: it is dropped if its generation is over, else stored,
counted, perhaps followed by more questions, and the page is drawn. `Act` and
`Acted` are a command of the page and what it does after it; `acting` counts the
commands under way, since nothing in the pages' callbacks waits for the one before
it. (Some pages switch their button off until a command is over; for them the
model allows more than the code does.) The constants are
operators that give, for each page, its plan, its questions, its line on top and
its rows; a behaviour is about one page, chosen at the start. `timers.py` is the
pattern of the pages that keep their answers (`Refreshes`), `_gather` that of the
readers that hand over a payload at the end (`Gathers`); both are in **Plans**,
with the two orders of asking, `AtOnce` and `InTurn`. What a page does with its rows
and its button when a reading begins is `on` in its plan; `cleared` is a page that
takes its rows down and has nothing to press until they are back
(`inbound_access.py:277-280`).

**AskedOnce** - what the questions of the pages have in common, and what the theorems
about `Readers` rest on: whichever way the answers of a reading come, no question is
asked twice, and the other named assumptions. They are stated over every set of
answers a page of `PageTable` can have been given, so they are conditions on the
tables and not on a run; TLC evaluates them for every page. `Tidy` is the set of
pages they are about: those that compare every answer with its generation and store
it under its own question, sixty-six of the seventy-five readings.

**ServicePages**, **SecurityPages**, **StoragePages**, **NetworkPages**,
**SystemPages**, **IdentityPages**, **DevicePages** - the readings, by subject. For a
page with prefix `P`: `PAnswers`, what each tool or file can say, by what the page
tells apart, the usual answer first; `PFollow`, what is asked at the start and
after an answer; `PLevel`, the line on top as a function of the answers; `PRows`, what
the rows say; `PPlan`, the record. An answer `none` is a tool that is missing,
failed, or printed nothing that can be read. A row's word is its kind (`ok`, `off`,
`unread`, `warning`, `empty`, `no row`), not its text. A page with several readings
that do not meet (its boots and its search, say) has one entry for each.

**PageTable** - the seventy-five readings as the parameters of `Readers`, and
`PageExcused`: for each property the pages, lines on top or rows that are known not
to have it. Section 6 explains every entry; a new one cannot come in unseen,
because the run fails without it.

**EditPages** - the pages that write a file. The file is a sequence of lines: of a
name, a comment, an empty one, or one that cannot be read. A line gives its name a
value for each of its clients (an export of `sharing.py` has several, a line of
another page is one value), and a name may be there twice. There is an action for
each way to change it: `Add` is a form or a dropdown, `SetRow` the dialog or the
switch of a row, `RemoveRow` the button of a row, `RemoveName` a removal that looks
the name up. Each takes the text it starts from (`TextBefore`: the file read again,
the entries the page holds, or nothing) and makes the new one: `Added` looks the
first line of the name up, merges into it, or appends without looking; `Put` places
the line as it was drawn, changed, at the index of its row; `Without` and
`WithoutName` empty a line or leave it out. All four end in `Save`, which refuses what
the engine refuses, starts the writer, and sets what the page sets. `Install`,
`EndWithout`, `TimeOut` and `Raise` are the writer, `Answer` the callback on the main
loop; `EditFile` is a terminal, which adds a line, removes one, or changes in place
what one gives. What happens inside the writer is `ConfigSave`; here it installs the
text or not, in time or late. `PlanOf` has one record per page: it says which of the
actions the page has, what its text is built from, and what keeps a second save away.

The `MC*` modules declare the model values and definitions the `.cfg` files use.

## 3. The runs

| run | instance | checks |
|---|---|---|
| `ConfigSave_faults` | 3 saves, 1 edit, room for 1 backup; editor, torn writes, failing backups | `CommittedKept` `FailureMeansUntouched` `BackupLives` |
| `ConfigSave_answers` | 2 saves, 1 edit; every fault, fair | `ImplementsPromise` `EverySaveAnswered` |
| `DropinPage_any` | 2 saves, an account and a numbered one, 1 edit; every set of faults, fair | `AnswerIsTrue` `RemovesTheConfirmed` `ChangesOneRule` `SavingEnds` |
| `DropinPage_confirmed` | 1 edit | `RemovesTheNamed` is violated |
| `AuthManager_any` | 3 sessions, 3 starts; every set of faults | `TypeOK` `LoggedOutStaysOut` `KeyringFollows` `SureLogoutIsFinal` |
| `Agent_any` | 1 version, 2 boots, 2 days; every set of faults, fair | `OncePerEvent` `SaidWasTold` `FailureTold` |
| `UpdatesPage_any` | 2 channels, 3 questions; every set of faults | `BusyDisables` `CheckComesBack` `SettledIsTrue` |
| `FleetPage_any` | 5 calls; a hasty user or one who waits | `LatchOpens` `MembershipIsTrue` `FindingsDrawn` |
| `FprintEnroll_any` | 2 attempts; every set of faults, fair | `ReaderGivenBack` `StoredIsTrue` `StoppedBeforeRelease` `AnswersItsOwn` `EnrollmentEnds` |
| `Readers_any` | 75 readings, 2 generations, 2 unusual answers, an action between; fair; the assumptions of `AskedOnce` | `PendingIsOpen` `ComesBack` `DrawnIsHeld` `OwnAnswers` `VerdictIsEarned` `RestIsSaid` `FailedReadSaysSo` `Fresh` `ReadingEnds` |
| `EditPages_any` | 12 pages, 2 names, 2 clients; any 3 of 2 saves, 1 refresh and 1 edit | `SavedStays` `ControlsComeBack` `OthersKept` |
| `EditPages_line` | the exports; 1 save, 1 edit | `OthersOnTheLineStay` is violated |

What the properties say is written above each of them. The bounds, and why they
are enough:

- *Saves.* Two overlap, a third trims the backup of the first. With `Keep = 1`
  every save but the first trims, which is when a backup can be lost; a larger
  `Keep` needs more saves for the same step. `MaxStamp` is the number of saves, so
  that each can have a name of its own and two can share one.
- *Lines.* Two rules are enough for one to be mistaken for the other.
- *Sessions and starts.* One session to lose, one after it, one more for the
  answer that arrives between; three starts let a session be stored, logged out
  of, and loaded.
- *Boots and days.* One boot to fail, one to forget it; two days for a reminder.
- *Questions.* `MaxAsked` bounds the clicks; the refresh that ends an action is
  allowed beyond it, so that no action is left without its end.
- *Calls.* Show, two checks, a change and a Show after it.
- *Attempts.* An answer can only reach an attempt later than its own, so two.
- *Readings.* An answer is dropped or not by comparing its generation with the
  present one, so an older and a newer reading are enough for the answers; an action
  of the page falls between them. Two commands that overlap each start a reading
  beyond the one whose rows they were given on, which is a third: that is beyond the
  run, and is what the theorems of `ReadersProofs`, for every number of readings, are
  for. `MaxOdd = 2` answers that are not the usual one: one to go
  wrong, and one more for a verdict that looks at two (a service that is off and
  a list that could not be read). Every single answer, and every pair of answers,
  of every page is covered.
- *Edits of a file.* Two names and two clients, so that one can be mistaken for the
  other or lost with it, and a name twice in a file; two saves, so that one can
  overlap or undo the other; one refresh and one edit in a terminal, each of which can
  come anywhere between. `MaxMoves = 3` leaves out only behaviours with all four; the
  theorems of `EditPagesProofs` have no bound. Names and clients are alike to the code
  (`SYMMETRY`), and the `VIEW` leaves out the records of saves that are over and whose
  writer has ended, which no guard, action or property reads.

`CHECK_DEADLOCK FALSE` is in every run: with the bounds used up a user does
nothing more, and a page that waits for a click is not stuck.

## 4. Fairness

Only what the scheduling gives. A worker thread runs on and `subprocess.run`'s
timer fires (`ConfigSave`, `DropinPage`: weak fairness of the thread's steps); a
process that runs as root ends (weak fairness of the helper's); the main loop
dispatches what is queued and its timers run out, and D-Bus answers a call or
gives up on it (`FprintEnroll`); the systemd timer starts the agent, `notify-send
--wait` ends, and a desktop that is asked again and again to show one kind of
notification shows it in the end (`Agent`: strong fairness of `Show` per kind,
because refusals and the death of the agent disable it again and again). Nobody
owes a password dialog an answer, nobody has to touch the fingerprint reader,
nobody has to close a notification before its timeout: those actions have no
fairness. That is why `EverySaveAnswered` leaves the route `install` out - its
`pkexec` has no timeout (`config_io.py:897`).

`Readers`: every tool and every command of a page ends (each runner answers when
its process exits, and a process that only reads does). The specification says
so as `[]<>Quiet \/ []<><<Ended>>_vars`: as long as something is open, again and
again an answer arrives or a command ends. It is weak fairness of those two
actions with their enabling condition written out, as an answer can always come
while something is open. Nobody has to press Refresh. `EditPages` has safety
properties only: a password dialog may stay open for ever.

## 5. What is proved

`ConfigSaveProofs`, for every number of saves and edits, every bound, every
`Keep` and every set of faults the theorem does not exclude:

- `TypeCorrect`: `Spec => []TypeOK`. By induction; one step per action.
- `BackupsLive`: if the clock is never set back, `Spec => []BackupLives`. The backup
  of a save is kept because its name is the greatest when it is written and, by
  `Serial`, no other save writes one while it is in flight; so the induction
  carries `Serial` with it, which says that the page's guard works.
- `SaveIsAtomic`: `Spec => ImplementsPromise`, the refinement of `SavePromise`, under
  every fault. `BackupLives` and the read-back cannot carry it, because neither says
  what the file holds in the middle of a save. The strengthening is `AtomicInv`: as
  long as `Alone` holds, `pc[s]` and `child[s]` tell the contents of the file - the text
  read, the text with `s`, or a proper part of the latter while a process has just
  torn it or its put-back is under way (`AtomicFor`, `ChildInv`). `Alone` itself is not
  assumed anywhere: `AloneStep` shows that once it is over it stays over, which is
  when `SavePromise` stops promising, and `Started` has what must hold whether it
  does or not. Each action is then a step of the promise or changes nothing the
  promise sees: the replace or the child's write is `Commit`, the answer is `Succeed`,
  `Fail` or, for "check it by hand", `GiveUp`; a crash or an exception is `Lose`; a
  torn write and a put-back do not show.
- `WhatIsSavedStays`: `CommittedKept`, for every set of faults without a crash and
  without `slow` and `torn` together. `CommittedKept` is not inductive: a save that is
  under way writes the text it read, so what must stay has to be in `base[s]` of
  every save in flight, and in the file until its process has run (`HeldFor`). What
  the process leaves is looked at by the thread that waits for it, which is what
  `ProcessInv` says: no process runs without one. A crash leaves the process
  without a reader, and a helper that outlives its timeout and writes a part does
  so after the answer; TLC shows that each breaks the property, so the two
  hypotheses are exact.
- `FailureIsNoChange`: `FailureMeansUntouched`, for every set of faults without `crash`,
  `slow` and `no_dir` - so with an editor, torn writes and failing backups. `FreshFor`
  says that the setting of a save that has not begun is nowhere, so that a text
  with it in the file comes from this save; `SeenFor` that a text that was written is
  still there when the thread compares. Each excluded fault leads to one of the
  divergences below (`config_io.py:843`, 926).

The assumptions are those of the module: saves and edits are different settings,
the routes are among the three, `Keep` is positive.

`FleetProofs`, of the session, for every number of sessions and starts and every set of
faults:

- `TypeCorrect`: `Spec => []TypeOK`.
- `LogoutIsFinal`: `SureLogoutIsFinal`. That memory and keyring are empty is not
  inductive: a call left waiting could store a session later. `FinalInv` adds that
  what may be waiting only deletes (a `LoginFails` after the log out can leave a
  deletion waiting); the actions that store a session clear `sure`.
- `LogoutStays`: `LoggedOutStaysOut`. `EndedInv` adds that the keyring holds no ended
  session, that nothing waits, that the keyring is there while the application
  runs, and that the ended sessions are among those issued.
- `StoreFollows`: `KeyringFollows`, with `FollowInv`, which adds that nothing waits.

and of the page (`PageSpec`), for any number of calls:

- `LatchReopens`: `LatchOpens`, from `LatchInv`: whatever is off has a call in flight,
  of a kind whose callback puts it back. The latch alone would not do, as any
  callback clears it while calls of other kinds go on.
- `MembershipStaysTrue`: `MembershipIsTrue`. The page lies between the end of a change
  and its callback; `WaitingInv` says that this is the only time it does, that the
  call then in flight is that change, and that a status answer still to be drawn
  is about the device as it is.
- `FindingsAreDrawn`: `FindingsDrawn`, whatever overlaps. `FindingsInv` adds that a page
  that names no check has none in flight, so that the answer of a check always
  finds the name it belongs to; `FindingsLast` is that rows are drawn below.

`UpdatesPageProofs`, for every set of channels and any number of questions:

- `BusyIsHeld`: `BusyDisables`, and `CheckReturns`: `CheckComesBack`, both from
  `ControlInv`: the channel row is on unless the page is busy, and Check is on
  unless it is busy or a question is open. An action ends with Check off, and that
  is not lost only because its end opens a question.
- `PageSettlesTrue`: `SettledIsTrue`. `QuestionInv` numbers the questions;
  `PatientInv` says that for a user who waits no question is open while an action
  runs, so that the system does not change between a reading and its answer.

`DropinPageProofs`, for any number of saves, every file and every set of faults:

- `AnswersAreTrue`: `AnswerIsTrue`. `ThreadInv` ties what a thread has read of its
  helper to whether the text was installed, `QueueInv` says that the idle queue holds
  the answer of each ended save once, and `ErrorInv` that an error is said of a save that
  is over, so nothing can install its text afterwards.
- `TheConfirmedGoes`: `RemovesTheConfirmed`, and `OneRuleChanges`: `ChangesOneRule`, both
  about a user who waits for each save and is alone at the file. The file, the rows
  and the text of a save are three copies of one thing, read at different times;
  `AloneInv` says when they agree: the rows are those of the file while no save is
  under way, an open dialog is about one of its rows, at most one save is under way,
  and its text is the file and one rule more or one line less (`OneLine`). The dialog
  is part of it because its index is applied to a document read after it was
  answered. `FirstAssumption` names what the first line of a new file is; TLC
  evaluates it.

`FprintEnrollProofs`, for any number of attempts:

- `StoredStaysTrue`: `StoredIsTrue`, under every set of faults. The callbacks look at the
  attempt of their moment, so the answers of one attempt do reach the next; what
  must be shown is that a "completed" does no harm there. `TokenInv` follows the reader as
  a token: it is fprintd's (`FreeInv`), in an answer on its way (`GrantedInv`), held by
  the attempt (`HeldInv`), or on its way back (`UndoneInv`), and in each of these it says
  what may be in the two queues. `HeldInv` is what the theorem needs: no attempt that
  holds the reader hears a "completed" of a finger that is not stored for it. The rest
  is there because a granted Claim overtakes calls that wait, and a call that was given
  up is served all the same.
- `ReaderComesBack`: `ReaderGivenBack`; `StopsFirst`: `StoppedBeforeRelease`;
  `AnswersEndTheirs`: `AnswersItsOwn`; the three for `Patient` behaviours. `OrderlyInv` adds
  that a Claim or an EnrollStart not answered yet belongs to the attempt under way, which
  waits for it and for nothing else (`ClaimInv`, `StartInv`), that a reader that is ours is
  never without an owner (`TokenThere`), and that what is being given back has no scan
  (`StoppedInv`). Section 6 lists what happens without patience.

`AgentProofs`, for every set of versions and any number of boots and days:

- `ToldOnce`: `OncePerEvent`, and `NothingLost`: `SaidWasTold`. `decide` marks an event as
  said before it is told and `main` writes the whole state after each delivery, so
  during a run the file may hold events that are still to be told or were taken
  back. `ToldInv` and `OnceInv` say what it holds then, and that the end of the run
  writes it anew exactly when it must: if nothing of the run was delivered, the file
  is still the one the run began with. `DecideOnce` shows that what is due is live,
  news and without repetition.

`ReadersProofs`, for every set of pages, every plan, every rule of what follows an
answer, and every number of readings:

- `AnswersStayHome`: `OwnAnswers`. A page that compares each answer with its
  generation and stores it under its own question never holds a foreign one. The
  named assumption `OwnAssumption` says that the exceptions are exactly the pages
  with an unchecked or misfiled answer; TLC evaluates it for the seventy-five
  readings on every run, so the theorem applies to the pages as they are.

and, for the pages in `Tidy`, less each time the exceptions of the property itself
and, where the property is about what is drawn at rest, those of `DrawnIsHeld`. They
hold for every table that meets the assumptions of `AskedOnce`, for any number of
readings and of overlapping commands; that the tables of `PageTable` meet them TLC
evaluates with up to two unusual answers in a reading, the bound `MaxOdd`:

- `CountersAreRight`: `PendingIsOpen`, from `ReadingsInOrder`. A counter is right only if
  no question is asked while it is open and none is answered that was not asked, so
  the induction has to know what a reading has been told and what that has made it
  ask. `InOrder` says so for each reading that is not replaced: what is open is what
  its answers have asked (`Asked`) without what was answered, and the counter is its
  size. That an answer only asks what is new is `AsksOnce`, a condition on the table of a
  page and one part of `ReadingAssumption`; `TypedIsTold` and `TypedIsCoherent` show that
  the answers a behaviour can reach are among those it quantifies over.
- `RefreshComesBack`: `ComesBack`. `ReturnInv`: a Refresh that is off has a question of the
  newest reading open; a dropped answer cannot be the last, as it belongs to an
  older one.
- `NewestIsDrawn`: `DrawnIsHeld`. `DrawInv`: the newest reading is drawn as far as it was
  told, or one of its questions is open. For pages whose readings have answers of
  their own this needs that two readings never overlap (`OneAtATime`), which is a
  condition on the plan: such a page does not read after a command, and its Refresh is
  off meanwhile.
- `RestsOnFresh`: `Fresh`, with `ActedInv`: the newest reading began after the last command
  ended, however many overlapped.
- `VerdictsAreEarned`: `VerdictIsEarned`, `RestSaysWhatItIs`: `RestIsSaid`, and
  `FailuresAreAdmitted`: `FailedReadSaysSo`. What a line on top and the rows make of the
  answers of one reading is a matter of the table of a page, and is what the other parts
  of `ReadingAssumption` (`Deserved`, `Settled`) say of each set of answers a reading can be
  given; no general fact implies it. What is proved is that a page never draws
  anything else: `ShownInv` says that what is drawn is the answers of one reading, and
  a complete one on a page that is not drawn while it asks, and `RestIsOneReading` that
  at rest it is complete and the page does not say that it is busy. So no mixture
  of readings, dropped answers and commands adds to what the tables allow.

The proof of `NewestIsDrawn` and `RestsOnFresh` does not go through for the inbound
access page, and two readings are too few for TLC to see why: there the reading after
one command can be overtaken by the reading after another. With `MaxGeneration = 3` and
that page alone, TLC finds the behaviour once the page is taken from the exceptions
(section 6); in the run, `DrawAssumption` is false without them.

`EditPagesProofs`, for every set of the twelve pages, of names, and all bounds:

- `ControlsReturn`: `ControlsComeBack`. That the controls are back when every save is
  over is not inductive: one must know that a busy page still has a save in
  flight, that it is the only one, and that its answer will not be dropped.
  `Patient` says so for a user who waits for each answer (a second click or a
  Refresh in between sets `hasty`); `Shape` relates the two lists. The lemma
  `OthersCatch` shows that a page whose writer raises has the handler that turns it
  into an answer, but for the UPS page.
- `OnlyTheEntryChanges`: `OthersKept`. The invariant (`TextInv`, `Carries`) says of every
  save under way that its text differs from the text it read in what it gives its own
  name and client only, under the conditions of the property (`Built`). It rests on
  what each way of changing a line does to any file, with names in it twice and with
  any set of clients on a line: `FormText`, `SetText`, `WithoutText`, `WithoutNameText`,
  and below them `LinePut`, `LineAdded`, `LinesDropped` and `EntriesSay`, which say what
  each name gives each client afterwards and how many comments are left. The two
  conditions that carry it are `aimed` (the row is the only one of its name and at the
  place of its line) and `fresh` (the line as drawn is the line of the file); without
  `fresh` it is false, which is `EditPages_line`.
- `InstalledStays`: `SavedStays`, with `StaysInv`: for a user who waits one save is under way
  at most, what is due is in the file, in the entries the page holds between two
  saves, and in the text of the save under way.

  Removing lines is a recursive function (`Picked`), and what it returns is proved for
  every file (`PickedIs`, `PickedStep`, `PickedLines`). The induction theorems of the
  library cannot be instantiated by the provers at hand, so the induction is made
  by hand: `LeastNumber` and `UpTo` show, from the well-foundedness of the naturals,
  that a set of numbers that holds 0 and with each number the next holds them all,
  and the lemmas take for that set the lengths for which the claim is true.

Only model-checked, with the reason:

- every liveness property: fairness and ENABLED are outside the prover's reach.
- what `Readers_any` checks of the pages outside `Tidy`, but for `OwnAnswers`. Each of
  those has an answer that is not compared or is filed elsewhere, and where it has
  a property nevertheless, that is a matter of its own questions. And the named
  assumptions themselves: facts about seventy-five tables, which TLC enumerates.
- `RemovesTheNamed` and `OthersOnTheLineStay`, which are false.

## 6. Divergences

Two disagreements between the code and its own words are runs (the findings in
`PROJECT.json`): the remove dialog of `access.py` that empties another rule than it
named, and the dialog of `sharing.py` that takes back what happened to the other clients of
a line, which it says keep their options (`tabs/sharing.py:1252`, 1153-1154, 1187-1188:
the line is made from the drawing and put in the file read anew). The others
came up while modelling, are steps the modules can take, and are why the
properties above carry the conditions they do. First the modules with a state
machine of their own:

- `config_io.py:670`: backups are trimmed by name, and names begin with local
  time. After the clock is set back the backup just written is unlinked
  (`BackupsLive` assumes otherwise).
- `system_status.py:2814`: an OSError of the backup leaves `set_config_value`, which
  "never raises" (2808); the page's pending flag stays set (phase `raised`).
- `config_io.py:702`: the temp file is written outside the try, and stays after a
  full disk (697-699 say it does not).
- `config_io.py:926`: a directory that cannot be opened for the fsync is reported
  as a failed save of a file that was replaced (fault `no_dir`).
- `config_io.py:843`: a helper that runs as root cannot be killed; the refused
  kill is reported as "could not run" of a helper that installs the text (fault
  `slow`).
- `tabs/access.py:838`: a second save is built from the file before the first one's
  text is in it, and takes its rule out again; 851: its answer shares the first
  one's generation and is painted over; 877: a Refresh drops the answer and
  "saving" stays (fault `impatient`).
- `tabs/access.py:312`: the rule of a numbered account has no row; 799: an account
  added twice is not revoked by removing one rule; 843: an index beyond the end
  is an IndexError in a GTK callback.
- `auth.py:44`: a keyring call that outlived its two seconds takes effect after
  the log out, and the next start loads the session.
- `agent.py:143`: a notification that timed out on the screen counts as refused and
  is shown again; 174: the first delivery saves the second as said, and an agent
  that dies between them has lost it.
- `tabs/updates.py:178`: an old answer that arrives after a new one hides a waiting
  update; 306: "the update server did not answer" is said of a server that was
  not asked.
- `tabs/fleet.py:432`: any answer clears the latch, so a second enrollment can start
  beside the first; 270: the rows of the last report are drawn again beside those
  of the new one; 663: findings outlive the change; 452: after a change the
  Status group has no parent, and no later Show is drawn.
- `tabs/biometrics.py:563, 672, 656, 585`: a Claim granted after D-Bus gave up keeps
  the reader; a cancel before EnrollStart is answered releases under a running
  scan; a cancel after the last scan says nothing was changed; an old answer's
  timer ends a later attempt early.
- `tabs/updates.py:464`: an action makes the Restart button insensitive and nothing
  makes it sensitive again, though the refresh after a deploy shows it because the
  group "says it with a button attached" (276-277).
- `tabs/biometrics.py:669`: `_end_enroll` of an attempt whose Claim is not answered
  makes no call, and the answer finds no attempt: the reader stays claimed, though
  "every path out of enrollment must call this" (`system_status.py:2061-2064`).

The pages that write a file (`EditPages`):

- `smb.py:1717`: `_ours` is never filled, so the second share erases the first; `kvm.py`
  writes its drop-in from nothing too, which there is what is meant
  (`Overwrites`). `hosts_env.py:284-299` and `ssh_keys.py:949-961` append without looking,
  so a host or a key can be there twice; a row then stands for one line of two, and to
  remove it leaves the name in the file (`aimed`). `hosts_env.py:303` and `modules.py:397` write the file anew from the
  entries of the page: comments and blank lines of `/etc/hosts` go (`Rebuilds`), and
  what a terminal added since the last reading goes with them (`fresh`). A drop-in
  of `modules.py` that could not be read is taken for an empty one.
- `remote_access.py:986`, `sharing.py:1292`: a second save starts beside the first, from
  the text before it, and takes its entry back; a Refresh during a save drops the
  answer and "saving" stays on the page (`hasty`).
- `remote_access.py:957`, `sharing.py:1255`, `ssh_keys.py:963`: the index of the row is applied
  to the file read anew, and another line is emptied (`aimed`), or an IndexError
  ends the callback.
- `kvm.py:1008`: an answer of an older generation is dropped before `_busy` is cleared.
- `config_edit.py:170-174`: `stage` hands the record arguments it does not take, so
  every save through it raises. `irqbalance.py:780` reports it as a failed save, and
  the thread of `ups.py:281` dies with the entries insensitive.
- `system_status.py:2831`: the second half of a sentence is a statement of its own behind
  the return of the first.

The pages that read the system, by the property they are excused from in
`PageExcused` (a line number is where the page decides):

- *`OwnAnswers`, an answer that lands in another place.* `services.py:84`: there is
  no generation, and the list of the scope shown before may arrive last;
  `smartcard.py:218`, `encryption.py:371`, `app_versions.py:917`, `biometrics.py:398`,
  `avahi.py:1375`: the answer of an older click replaces that of a newer one;
  `smart.py:304`: the schedule of smartd of the reading before; `btrfs.py:717`: the
  compression part is settled by any of its answers, and the maintenance list is
  stored under the wrong unit, `system_status.py:5828` (one question on).
- *`PendingIsOpen`.* `btrfs.py:717`: an older compression answer lowers the counter of the
  new reading, and the answer of findmnt is in no counter.
- *`ComesBack`.* `timers.py:466`: the details of a timer are counted but their answer
  draws no button, so Refresh stays insensitive when one comes last.
  `journal.py:304-353`: a search that fails hands None to the page, which raises
  before the busy flag is cleared; Search is off for ever.
- *`DrawnIsHeld`.* `journal.py` as above; `compression.py:588`: the version of compsize is not
  waited for and may come after the payload was drawn; `inbound_access.py:249`: each of two
  switches starts a reading of its own a second after its systemctl ended, the
  readings are not compared, and the one that answers last is drawn, though "the re-read
  after the call is what corrects the switch" (225-226). It takes a first reading that
  outlasts the second, and stays until the next.
- *`RestIsSaid`, "checking" that never ends.* `smart.py:460-499` when no disk answers;
  `smart.py:256`, 311-318: without smartctl smartd is not asked, and the schedule row stays at
  "Reading…" (the model has its two halves, the unit and the file, apart);
  `compression.py:1010`: the rows of a file system say that compsize is being asked
  when it is not installed; `printers.py:443`: scanners stay pending without CUPS;
  `virtualization.py:528`: unpacking the list of guests raises and the page keeps the
  reading before (541-545 say otherwise); `journal.py` as above.
- *`Fresh`, an action after which the page does not read again.* `smb.py:1763` after a
  share; `secureboot.py:433` after gen-efi; `firmware.py:350` after installing updates;
  `userspace_crypto.py:1020`: `adw` is no name there, so the callback raises before
  `load`; `inbound_access.py:249` as above.
- *`VerdictIsEarned`, a line on top that rests on a question nobody answered.* "Off" or
  "not running" when the unit could not be asked: `ananicy.py:789`, `irqbalance.py:825`,
  `smb.py:1460`, `dns.py:338` (dnscrypt), `audit.py:489`, `inbound_access.py:132` and
  `wireguard.py:139` ("0 of n up"). "There is none" when the list could not be read:
  `ups.py:312`, `userspace_crypto.py:1108`, `compression.py:873`, `smart.py:460` (while the scan
  runs), `dns.py:396`, `directory.py:360`, `containers.py:609`, `sbctl.py:547`, `totp.py:709`,
  `printers.py:633`, `kerberos.py:272`, `hosts_env.py:184`, `security_keys.py:458`,
  `drivers.py:533`. "All is well" without the answer that would say so: `privileges.py:1167`
  (a directory that cannot be listed), `raid.py:571` (an array that is not running),
  `timers.py:496` (units not read: "None has failed"), `outbound_mail.py:125` (the queue),
  `health.py:148` (coredumpctl), `avahi.py:1023` (addresses that cannot be classified).
  `btrfs.py:609-630`: "No monthly checks are set up", "are passing" or "have not run yet"
  when `systemctl` did not answer for some of them; `system_status.py:3947-3952`: a
  /dev/dri that cannot be listed has no node.
- *`FailedReadSaysSo`, a row that a failed read is seen in and that does not say so.* A row
  is under this property when the answer that failed could have changed it: if some
  real answer to the question, the others as they are, would draw another word. These
  are the exceptions among the rows the model has (a page may have more rows, which the
  tables do not tell apart):
  - The unit or the tool was not asked or did not answer: `btrfs.py:648-650` with
    `system_status.py:5730` ("Last run FAILED (, exit None)" of a unit that could not be
    shown), `irqbalance.py:877-892` ("reports the unit as None at boot"),
    `ups.py:332-335` ("Not installed"), `dns.py:353` (dnscrypt), `dns.py:427-440`
    ("no local resolver", "No resolver service is active"), `inbound_access.py:166`
    (units off), `system_status.py:1210` (Bluetooth inactive), `cloudflared.py:194` ("No
    tunnels" of a list that failed), `cloudflared.py:104` ("No credentials"),
    `containers.py:559` (the meter counts what was listed), `outbound_mail.py:143` ("Nothing is
    waiting"), `printers.py:829` (options "None set") and 443 (a queue without its
    scheduler), `health.py:170` (no crashes), `journal.py:379` ("No boots are listed").
  - A file or directory that could not be read: `dns.py:468` (resolv.conf "Empty") and 490
    (resolved.conf "None configured"), `userspace_crypto.py:784-787` ("Set up,
    but protecting nothing" after a failed `fscrypt status MOUNT`) and 797-829 (no FUSE,
    no ecryptfs in the kernel, nothing mounted), `smart.py:351-352` ("no scan directive
    found" in a smartd.conf that cannot be read), `ananicy.py:1023-1037` (a file that cannot
    be read counts as no rules in the row of its directory; its own row says so),
    `privileges.py:1435` and 1576-1582 ("Every file here is a .rules file", of the
    directories that could be listed), `compression.py:926` (files shown as empty) and 1093
    ("compsize was not run" of one that printed something else), `modules.py:323` (a
    drop-in passed over), `sharing.py:872` and `remote_access.py:543`, 827-832 (kept lines
    "None"), `smartcard.py:333` (mapper "none defined"), `totp.py:767`, `kerberos.py:298`
    (PAM "not used"; realm and settings "not set"), `hosts_env.py:207`,
    `security_keys.py:474`, `sbctl.py:625` ("No lockdown parameter").
  - Something the kernel or the firmware was asked for: `drivers.py:452` (no driver, 0
    modules), `system_status.py:3947-3952` (no node), `kvm.py:902` ("absent") and 566 ("the
    kvm group does not exist" when the group database did not answer),
    `secureboot.py:538` (keys "0", "Not installed", and the state by the next probe's
    word), `raid.py` (an array without its slots is listed without "degraded").

Met while reading, and outside the properties: `setup.py:355` calls `set_text` of a
text view, so re-provisioning never runs; `system_status.py:62` calls a callback
that raises ValueError a second time; `ups.py:355`, `outbound_mail.py:143` and
`modules.py:490` append rows at each load; `containers.py:559` counts running twice;
`system_status.py:5207` cannot be reached; `password_policy.py` says "wired" of a module
that is not there; a Refresh of `backup.py` during a snapshot makes Create sensitive.

## 7. Not modelled

- *Parsing and wording.* How a line of a config file or of a tool's output is cut
  into fields, and how a sentence is put together: text in, text out, tested by
  the repository's fixtures. The page modules have what the readers tell apart.
- *Inside the runners.* Pipes, partial lines, `run_json`'s callback that raises and is
  called twice (`system_status.py:62`), the timer of a streamed tool
  (`system_status.py:1630`). `Readers` has one answer per question.
- *Pages that look up tools or ask one question per card* (`attachment`, `cron`, `device`,
  `overview`, `system`, ...). No answer follows from another and nothing is read again
  beside it.
- *Application, window, notebook, tray.* Lazy building and no concurrency.
- *AppState, charts, translations, the command table, the API client.* No state that
  two steps share.
- *restore_backup* (`config_io.py:874-894`) and *Document.unset* (479-488). Nothing calls
  them.

## 8. What could come next

1. Weaker conditions for `ReaderComesBack`: of the ways section 6 lists in which a reader
   stays claimed, which would remain if a Claim granted to an attempt that is over
   were answered with a Release.
2. The runners as components, with a promise (one answer, once) that `Readers` relies
   on.
3. The counters of the pages outside `Tidy`, by asking of each question, and not of
   each page, that it is asked once.

## 9. Running

    tlc -workers 2 -config ConfigSave_faults.cfg MCConfigSave
    tlc -workers 2 -config Readers_any.cfg MCReaders
    tlapm ConfigSaveProofs.tla     # and the other *Proofs modules
