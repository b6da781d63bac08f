# Verification of Cypheria

TLA+ models of Cypheria, the runs that model-check them with TLC, and proofs of
their main properties that TLAPS checks.  Cypheria is a desktop password vault: a
Tauri window whose JavaScript (`dist/js`) calls commands of a Rust backend
(`src-tauri/src`), which keeps at most one vault open and stores it in one
encrypted file.

The backend runs on a multi-threaded tokio runtime: every command is a task of
its own, next to the auto-lock loop, the lock-on-blur tasks and the tasks that
clear the clipboard.  What is hard in it is what happens between two awaits of
one task, what a crash or a failing write leaves behind, and what reaches the
window late.  That is what the models are about; the cryptography is modelled by
what it does (a ciphertext opens under its key and under nothing else).

## 1. The system

| component | source | state it keeps | operations |
|---|---|---|---|
| session manager | `session/manager.rs` | `RwLock<SessionState>` (Locked, RateLimited, Unlocked), attempt counter, reveal window | `unlock`, `lock`, `with_session`, `with_session_mut` |
| vault persistence | `vault/store.rs` | the vault file and its `.tmp` sibling | `load_and_unlock`, `persist_vault` |
| password change | `commands/auth.rs` | header, key store | `change_master_password` |
| unlock rate limit | `session/manager.rs` | counter, `RateLimited` deadline, attempts file | two gates in `unlock`, `read/write/clear_persisted_attempts` |
| clipboard | `commands/clipboard.rs` | one JoinHandle slot, spawned tasks, the system clipboard | two copy commands, `clear_clipboard`, `overwrite_and_clear_clipboard` |
| auto-lock | `session/autolock.rs`, `lib.rs`, `commands/settings.rs` | two atomics, the polling loop | `bump_activity`, `set_timeout`, the loop, the blur task |
| reveal tokens | `commands/reveal.rs`, `commands/entries.rs` | token store, reveal counter | request, consume, evict |
| entries, notes | `vault/entry.rs`, `vault/notes.rs` | lists in `VaultStore`, per-entry wrapped keys | add, update, delete, toggle, search |
| vault management | `commands/vault_mgmt.rs`, `commands/auth.rs`, `commands/vault_path.rs` | files other than the open one | create, export, open, metadata, last path |
| file format | `vault/format.rs` | none | parse, serialize |
| generator, scores | `commands/generator.rs`, `commands/entries.rs` | none | pure functions |
| frontend | `dist/js` | screens, timers, cached lists | unlock, lock, every call of a command, debounced saves |
| cryptography, shell | `crypto/`, `lib.rs`, `error.rs` | none that outlives a call | library calls, registration |

How they interact.  Commands and the auto-lock loop share the `SessionManager`;
whoever holds the write side of its lock excludes everyone else, over the awaits
of `persist_vault` too.  `unlock` is the exception that makes it interesting: it
reads the file and derives a key, which takes about a second, without the lock,
then installs what it read.  `save_settings` goes through `with_session_mut` and
tells the auto-lock timer afterwards.  A copy command takes the secret from the
session and leaves the session before it touches the clipboard.  The backend
emits an event for a lock, but the window installs no handler for it (`app.js:12-13`
looks for a listen function that is not there), so the window learns of a lock from the
error of its next command; the window also calls `clear_clipboard`.  Saves, creations and
exports are writers of files that can share a temporary name, and an export can replace
another vault.

Hard behaviours, and the properties that make each component correct:

* **Saving.**  The file is replaced by write-then-rename, the mutation is made in
  memory first, and both a crash and an I/O error can come at any await.
  Wanted: a file always opens, with one password; what was reported Ok stays;
  what was not stored was reported; a started command returns.
* **Password change.**  Eight header fields, the key store and the KDF
  parameters change together; the save may fail and a later save carry them.
  Wanted: the keys of file and session always belong together, and the password
  in force is one somebody can account for.
* **Rate limit.**  Counter, state and file are reset one by one while other
  callers run, and every error of the file is dropped.  Wanted: no guess during a
  lockout, a bound on guesses between lockouts, and lockouts that end.
* **Clipboard.**  A task can be aborted between two of its writes, by a command
  that takes its handle from a slot another task may have emptied.  Wanted: a
  secret always has somebody who will overwrite it.
* **Auto-lock.**  The loop reads timeout, activity and session one after the
  other; every save stores the settings the session has, only `save_settings` tells
  the timer.  Wanted: the saved timeout is in force, an idle vault gets locked,
  losing the focus locks when it is set to.
* **Reveals.**  The quota is two atomics that every caller at the edge of a window,
  and `lock`, store one by one; a password waits under a token after the session was
  released.  Wanted: a bound on what one window lets through, one use per token, an
  end to what a lock should end.
* **Contents.**  Every edit draws a key, seals with it and wraps it; a failed save
  leaves session and file with different items.  Wanted: everything opens, no key is
  used twice, and the vault is the map of what was put into it.
* **Files.**  Three commands write and rename, two of them outside the lock.  Wanted:
  whole files under final names, nothing acknowledged replaced that the user did not
  have replaced, exports that hold and open with what they should.
* **Window.**  An answer can be overtaken by the lock that followed it, and nothing tells
  the window of a lock of the backend.  Wanted: a window that shows a vault that is locked
  finds out, at the latest with the next call.

`PROJECT.json` lists every hazard with its line and the properties aimed at it.

## 2. The modules

| module | models |
|---|---|
| `VaultPromise` | abstract: stored contents per vault, one view, what was read and not yet used |
| `VaultSession` | the session, the vault files, `unlock`, `with_session_mut`, `change_master_password`, `lock`, I/O errors, crashes |
| `VaultMap` | abstract: an unlocked vault as a map of what was put into it |
| `VaultContents` | entries, notes, settings, their keys and ciphertexts, every command on them |
| `VaultFiles` | abstract: vaults that are created, saved and exported as a whole |
| `FileWriters` | saves, creations and exports as writers of named files |
| `UnlockGate` | the gate in front of `unlock` |
| `Reveal` | the reveal quota and the one-use tokens |
| `Clipboard` | copies, clears and auto-clear tasks |
| `AutoLock` | the timer, lock-on-blur and the commands that feed them |
| `Frontend` | lock screen and app of the window, against the session of the backend |
| `Passwords` | the arithmetic of the generator and of the password score, as functions |
| `VaultSessionProofs`, `VaultContentsProofs`, `FileWritersProofs`, `UnlockGateProofs`, `RevealProofs`, `ClipboardProofs`, `AutoLockProofs`, `FrontendProofs` | proofs about the module each is named for |
| `MCVaultSession`, `MCVaultContents`, `MCFileWriters`, `MCUnlockGate`, `MCReveal`, `MCClipboard`, `MCAutoLock`, `MCFrontend` | instances for TLC: symmetry sets, the timeouts of `AutoLock`, the temporary names of `FileWriters` |

The modules meet in the session.  `VaultSession` has the steps of a save and opaque
contents; `VaultContents` has the contents and a save in one step, which
`VaultSession` justifies (a mutation, its save and the answer happen under one write
lock).  `FileWriters` has one step for an unlock and several writers outside the lock.
`UnlockGate`, `Reveal`, `Clipboard`, `AutoLock` and `Frontend` keep of the session
whether it is open.

### VaultSession

Each member of `Req` is one invocation of a command; `pc` is the await it is at.
`holder` is the owner of the write lock.  `disk[p]` and `tmp[p]` are the vault
file and its temporary sibling, `session` is the `SessionState`.

| action | code |
|---|---|
| `UnlockStart`, `UnlockRefused` | `unlock` up to and including its two gates |
| `UnlockRead` | `tokio::fs::read` in `load_and_unlock` |
| `UnlockInstall`, `UnlockFail` | the key derivation ends; the state is replaced, or an error returned (perhaps with RateLimited set) |
| `Mutate`, `ChangePassword` | the closure of `with_session_mut` under the write lock |
| `Refused` | the not-unlocked arm, or a closure that fails before it changed anything |
| `WriteTmpBegin`, `WriteTmpEnd`, `Rename`, `Reply` | `persist_vault` and the Ok |
| `PersistFails` | its error paths: the lock is released, memory keeps the change |
| `Lock`, `Crash` | `lock`; the process ends and a new one starts |

Data is abstract.  A vault's contents are the set of changes it includes; random
values are named by who drew them; a ciphertext is the record of the key it
needs.  A header carries the salt, KDF parameters, both wrapped copies of the
vault key and the encrypted name, which is what a password change can get out of
step.  Two history variables state the properties: `told` (the password last
reported as set) and `stale`, the vaults on which a session was opened from bytes
that were no longer those of the file.  The latter is a real race of the code:
two overlapping `unlock` calls, a save in between.  It loses the acknowledged
save, so the properties that would be false because of it except such vaults and
say so.

The mapping to `VaultPromise` is at the end of the module: `StoredNow` is the
contents of the files, `ViewNow` the unlocked session, `SnapNow` what an
invocation has read and not yet installed.  The promise allows views to begin
only as a whole of what was stored and stored contents to be replaced only by
the whole view.

### VaultContents

`session` is the unlocked key store and vault data or `Locked`, `stored` the same as
the file has it.  A blob is a record of what it opens under and what it opens to
(`Seal`, `Unseal`).  An item is a key sealed under the vault key and a payload sealed
under that key.  A drawn key is any key not in use, in the session or in the file.

| action | code |
|---|---|
| `AddEntry`, `UpdateEntry`, `UpdateEntryKeepPassword`, `ToggleFavorite`, `DeleteEntry` | the commands in `commands/entries.rs` with what they call in `vault/entry.rs` |
| `AddNote`, `UpdateNote`, `DeleteNote` | `save_note` without and with an id, `delete_note` |
| `SaveSettings`, `ChangeMasterPassword` | the settings, and nothing: a password change saves the vault data as they are (its header and keys are in `VaultSession`) |
| `Commit` | the end of `with_session_mut`: saved, or `PersistFailed` with the change kept |
| `Lock`, `Unlock` | the session ends; all of what was stored comes back |

The reads are operators: `EntryView` (no password), `EntryPassword`, `NoteShown`,
`ReadSettings` (the default when the blob does not open), `Listable` (one item that
does not open fails the list).  `Shown` puts them together to the map a user sees, which
is the refinement mapping to `VaultMap`.  An id is drawn from those the session does not
have: a UUID that was deleted may come back, which no property looks at.

### FileWriters

Names lead to inodes (`file`, `tmp`); a writer keeps the inode it opened, a rename moves
the name.  An inode's `data` are whole, `Torn` (truncated or incomplete) or `Mixed` (two
writers).  `SaveStart` is a closure of `with_session_mut`, `CreateCheck` the test of the
path in `create_vault`, `ExportVerify` and `ExportPath` the two visits of `export_vault` to
the session.  Then all three write alike: `OpenTmp`, `WriteEnd`, `Rename`, `Reply`, and the
errors `WriteFails` (the temporary file stays), `RenameFails`, `Cleanup`.  `Stem` says which
name's temporary file an export uses: `with_extension` replaces the last extension of the
destination, `persist_vault` appends to the whole name.

A destination may be a vault file: `ExportPath` refuses the path of the open vault and nothing
else, so a `Rename` may replace another vault, or the file of a session that is opened after
that.  What is reported of the name is then what was reported of the vault that was copied,
when the export was asked for.  `shared` remembers the names at which two jobs were at work at
a time, and destinations an export renamed over while somebody relied on them (`InUse`: the open
session, or an export that has yet to copy) or with what came from a shared name.

The mapping to `VaultFiles` is at the end of the module: a vault is what its file holds, an
export has taken what it writes until it is renamed; what is shared is `Unknown` from then
on.  Below the promise a save is six steps and can fail at each; above it is one that happens
at the rename.  `VaultFiles` lets `Deliver` replace a vault: that the user asked for.

### UnlockGate

Callers are clients that call `unlock` repeatedly.  The model splits `unlock` at
every atomic access and every file access, since other callers run in between:
the counter is reset (`Trip`) before the lockout is written (`PersistLockout`)
and before the state is set (`Limit`).  Deadlines are the seconds that remain, so
time needs no bound.  Every access to the attempts file can fail, and the code goes on
as if it had not: `Write` writes, leaves the old file or tears it (`fs::write` truncates first),
`CheckFile` may read nothing, `ClearFile` may leave the file, `Restart` may come in the middle of
a write.  `failures` counts the wrong guesses since the last success,
lockout or start of the program, `imposed` is what remains of the lockout last imposed,
`overlap` whether two calls were ever under way at a time, `faulty` whether the file failed to
keep or to give back this lockout, `forgotten` whether the memory lost it to a lock or a
restart.

### Reveal

A client is a caller of `request_reveal_token`, `get_entry_password`, `get_note_content`
or `get_password_scores`.  `CheckWindow`, `ResetCount`, `StampWindow` and `Count` are the
atomics of `check_reveal_rate_limit`; `lock` holds the write lock over `LockBegin`,
`LockCount` and `LockStart` (`reset_reveal_rate_limit`); `Store` and `Consume` are the two
operations on the token map, each under its mutex.  `left` and `life` are seconds that remain,
`lag` how long ago a caller read the clock.  `granted` counts what the present window has let
through, `reveals` how often each token gave its password, `dark` how long the session has been
locked.  Two timing assumptions: no second passes between a read of the session and the insertion
of its token, and less than a window passes within one rate-limit check.

### Clipboard

`slot` is the `Option<JoinHandle>` of `ClipboardTimer`, `task` where the task
spawned by each copy is.  `abort` ends a task at an await (`Parked`); in the
middle of a poll (`Polled`) it takes effect at the next await that has to wait.
Code under the slot's mutex holds no await and is one step.  Sleeps end at any
time.  Any clipboard write may fail, and `leaked` remembers the secrets that were
left by a failing last write, an error the code ignores.

### AutoLock

`timeout` and `idle` are the two atomics, `timer` and `armed` the loop between
its reads, `blur` the task of a focus loss, `held` the settings an unlock has read
or a `save_settings` was given.  `settings` is the vault in memory, `stored` the file: a
failing save changes one and not the other.  A client calls one command after the other.
`Edit` stands for the closure of every command that changes entries, notes or the master
password: it stores the whole vault, and so the settings in memory, and does not call
`set_timeout`.  `UnlockInstall` brings back the settings the file had at `UnlockRead`.  `raced`
and `carried` remember when one of these left file and timer with different timeouts.  Seconds
are counted up to `MaxSecs`.  There is one vault: opening another one, which keeps the timeout
of the previous one in force as well, is not in the model.

### Frontend

`try`, `call` and `locking` say where each run of `tryUnlock`, `vaultCall` and `lockVaultUI`
is: sent, answered (by what), or idle.  The
backend's side is `Decide` and `LockDecided` (the loop or the blur task), `Unlock`, `Answer`
(a command, with the errors it can give) and `LockVault`.  The window's side is
`TryUnlock`, `TryFailed`, `CooldownEnds`, `AfterUnlock` (the app is shown, the
loads are sent), `Loaded`, `PageCall`, `VaultCall` (which turns "Vault is locked" into the lock
screen), `LockVaultUI`, `LockShown`.  No action handles a lock event: `app.js:12-13` installs the
handlers only if it finds `__TAURI_INTERNALS__.listen`, which Tauri 2 does not have, or `__TAURI__.event.listen`, which
needs `app.withGlobalTauri`, and `tauri.conf.json` does not set it.  `silent` remembers that the
loop or the blur task has locked the session the window shows; `overlapped` remembers a try that
began before another had its answer: the button is disabled meanwhile, the Enter key is not.

### Passwords

`CharsetLen`, `Accepts`, `MaxValid` and `Drawn` are `generate_password`, with a character as its
index in the set; `Score` is `compute_pwd_score`.  The facts about them are assumptions of
the module that TLC evaluates with the run `VaultContents`: each character comes from equally
many bytes in all fifteen character sets, more than half of all bytes are used, each byte is used
independently of the others, and a score is a monotone percentage that only the best password
has in full.

## 3. What the runs check

| run | question | bounds |
|---|---|---|
| `VaultSession` | do saves, failures, crashes and overlapping unlocks keep files, keys, acknowledged changes and passwords right? (`DiskSound`, `SessionSound`, `AckedOnDisk`, `UnsavedIsReported`, `PasswordAsTold`) | 4 commands, 1 vault, 2 passwords, 2 KDF sets |
| `VaultSessionPromise` | does the session implement `VaultPromise`, and does every started command return? (`PromiseKept`, `Returns`) | 3 commands, 2 vaults |
| `VaultContents` | does everything open, is no key used twice, and is the vault its map? (`EverythingOpens`, `OneKeyOnePlaintext`, `MapKept`) | 2 entries, 1 note, 4 item keys, 2 passwords |
| `FileWriters` | do writers that share names, an export over another vault among them, keep files whole and acknowledged work in them; what is in an export?  Do they implement `VaultFiles`? (`WholeFiles`, `AckedKept`, `ExportCurrent`, `ExportOpens`, `FilesKept`) | 1 password change, 2 creations of a second vault, 1 export to its file |
| `FileWritersBeside` | *violated*: does an export leave its source whole? | the same, destination `p1.bak` beside `p1.qvault` |
| `UnlockGate` | how many guesses can overlapping callers make, is a lockout respected when the attempts file fails, does it end? (`GuessesBounded`, `NoGuessInLockout`, `LockoutEnds`) | 3 callers, 2 attempts, 2 s |
| `UnlockGatePersist` | *violated*: does the file keep the lockout? | 2 callers |
| `Reveal` | how much does a window let through, is a token used once, what does a lock end? (`QuotaKept`, `OneUse`, `LockEndsReveals`, `WindowEnds`) | 2 clients, 2 tokens, 2 reveals, 2 s |
| `Clipboard` | is a secret on the clipboard always covered, and does it leave it? (`SecretCovered`, `SecretCleared`) | 3 copies, 1 clear, 1 noise write |
| `AutoLock` | is the saved timeout in force; do an idle vault and a blurred window lock? (`SavedInForce`, `IdleLocks`, `BlurLocks`) | 2 clients, timeouts 0 and 1, blur on and off |
| `AutoLockNever` | *violated*: is a vault configured never to lock left alone? | 2 clients, timeouts 0 and 2 |
| `Frontend` | does the window find out about every lock, although no event reaches it? (`LockNoticed`, `LockReachesWindow`) | 2 tries, 1 page, 1 list, 1 lock button |

Every module's type invariant is checked by its run too (`VaultSession`'s once).

Why the bounds are enough.  A lost update in `VaultSession` takes two unlocks, a
save between them and one after: four commands.  Two passwords tell an old key
from a new one, a second KDF set makes "old salt, new parameters" visible.  Two
vaults only matter to the mapping (a save must go to the vault of the view).  In
`VaultContents` a second entry and a note are what an edit must leave alone, and
the keys suffice for an item to be different in session and file while another is
edited.  In `FileWriters` one save, two creations and one export, which goes to the file that is
created, give every pair of kinds at one name, and a vault that is created, opened or saved
before, while and after an export replaces it; a third writer of the same name adds no new
outcome of a write, since `Mixed` is already any mixture.  In `Clipboard` the interesting case
is a third copy that finds the slot emptied by the first one's task while the second sleeps; the number of noise writes does not
matter to who writes, and one makes an overwrite three steps with an abort
possible between them.  In `UnlockGate` and `Reveal` two callers already use a counter up
twice, a third one resets it in between; `MaxFailures` (7) is above the bound the
property states (6), so the guard on the history does not hide a violation.  In `Frontend` two
tries are what can overlap, and locks of the backend are not bounded.  In `AutoLock` clients are
not bounded in what they do one after the other; two are what can overlap, and a timeout of one
second against a clock of two values gives idle and active, armed and off.

Deadlock checking is on, except in `FileWriters`, whose jobs each run once.  Elsewhere
it says little by itself, since a lock of the session, a crash or the clock is always
possible; that commands do not wait for each other forever is `Returns`.

### Fairness

The fairness is the runtime's: a task that was spawned is polled, a sleeping task
is woken, tokio's RwLock serves its waiters in order.  So `VaultSession!FairSpec`
is weakly fair for the next step of each started invocation, `Clipboard!FairSpec`
for each started command and each task, `AutoLock!FairSpec` for started calls,
the polling loop, a blur task and the clock, `Reveal!FairSpec` for started calls, `lock`
and the clock, `UnlockGate!Spec` for the clock only.  `Frontend!FairSpec` adds the
delivery Tauri promises for a command: what was sent is answered, and an answer is
handled.  It says nothing of events, which have no handler.  Nothing makes a user call a
command, lose the focus or lock the vault, and no fairness says a write succeeds or fails.

### Where the code and its words differ

Three runs show the code doing something else than a comment says.

* The lockout is persisted "so restart doesn't reset it" (`session/manager.rs:212`),
  but a caller below the limit overwrites it with none (`UnlockGatePersist`).
* "When inactivity exceeds the configured timeout" (`session/autolock.rs:5`): the
  timer starts with 300 s and learns the vault's setting from `save_settings` only
  (`AutoLockNever`).
* An export is kept from "truncating the source file mid-write"
  (`commands/vault_mgmt.rs:91`) by refusing the vault's own path; an export of
  `p1.qvault` to `p1.bak` writes `p1.qvault.tmp`, which is what a save of the vault
  writes and renames (`FileWritersBeside`).

The models also show the following, which no run states as a property.

* A failed save warns that "locking the vault will discard these in-memory
  changes" (`session/manager.rs:302`); the next successful save of any other command
  stores them, a failed password change included.  A caller that retries after
  `PersistFailed` adds its entry a second time, or toggles the favourite back.
* The count of failed attempts is persisted "so restarts don't reset the counter"
  (`session/manager.rs:221`), but what is read back is dropped.
* Activity is noted after the session is installed (`commands/auth.rs:27`), so a poll
  in between locks a session that was just opened.
* `clear_clipboard` says it cancels the pending timer (`commands/clipboard.rs:110`);
  two overlapping copies leave a sleeping task the slot does not hold.
* An expired reveal token, with its password, stays in memory until it is asked for or
  the next token is stored (`commands/reveal.rs:28`).
* A comment derives the settings key from the master key (`vault/format.rs:129`); the
  code derives it from the vault key, without which a password change would lose the
  settings, silently, since what does not open reads as the default.
* A vault's `updated_at` is to change "on every mutation" (`vault/entry.rs:68`);
  `toggle_favorite` and `save_settings` leave it alone.
* The lock events have no handler in the window (`dist/js/app.js:12-13`, and `catch` at 30
  hides it), although `session/autolock.rs:6` says they are emitted to the frontend and
  `dist/js/modules/ui.js:527` that the backend handles a lost focus.  After a lock of the loop or
  of the blur task the window goes on showing what it had, until its own countdown ends or the
  user makes a call (`silent`).
* A failed `save_settings` leaves its timeout in the session; the next edit of anything stores it,
  and `set_timeout` is not called: the file has one timeout and the timer another.  An unlock that
  overlapped a save of the settings does the same with the old ones (`carried` in `AutoLock`).
* Every error of the attempts file is dropped (`session/manager.rs:51,74-76,82,87`).  If the write of
  the lockout fails, the lockout is in memory only, and `lock()` or a restart ends it (`faulty` and
  `forgotten` in `UnlockGate`).
* An export refuses the path of the open vault only (`commands/vault_mgmt.rs:93-104`), and the dialog
  offers every `.qvault`: it replaces another vault, with all that had been reported of that one.  If
  the vault that is replaced is opened while the export copies, the next save of that session
  overwrites the copy, and both commands report Ok (`InUse` in `FileWriters`).
* In the window, tries that overlap can leave the app shown over a session the second
  one has rate-limited: `vaultCall` reacts to "Vault is locked" and "Session expired"
  only.  That is why the properties of `Frontend` except `overlapped`.
* Answers on their way when the vault is locked fill the list again behind the lock screen.
* `dist/js/modules/vault.js:206` asks a score for `has_password`, while the scores are kept
  with `hasPassword` (line 348); line 428 counts empty passwords as duplicates of each other.

## 4. What is proved

TLAPS checks the following for every value of the constants; TLC checks the same
properties on the instances above.

| theorem | module | statement |
|---|---|---|
| `TypeCorrect` | `VaultSessionProofs` | `Spec => []TypeOK` |
| `DiskAlwaysSound`, `SessionAlwaysSound` | | `Spec => []DiskSound`, `Spec => []SessionSound` |
| `AckedAlwaysOnDisk`, `UnsavedAlwaysReported` | | `Spec => []AckedOnDisk`, `Spec => []UnsavedIsReported` |
| `PasswordAlwaysAsTold` | | `Spec => []PasswordAsTold` |
| `SessionKeepsPromise` | | `Spec => PromiseKept` (refinement) |
| `ContentsTypeCorrect` | `VaultContentsProofs` | `Spec => []TypeOK` |
| `EverythingAlwaysOpens`, `KeysNeverShared` | | `Spec => []EverythingOpens`, `Spec => []OneKeyOnePlaintext` |
| `ContentsKeepMap` | | `Spec => MapKept` (refinement) |
| `WritersTypeCorrect` | `FileWritersProofs` | `Spec => []TypeOK` |
| `FilesAlwaysWhole`, `ReportedAlwaysKept` | | `Spec => []WholeFiles`, `Spec => []AckedKept` |
| `ExportsAlwaysCurrent`, `ExportsAlwaysOpen` | | `Spec => []ExportCurrent`, `Spec => []ExportOpens` |
| `WritersKeepFiles` | | `Spec => FilesKept` (refinement) |
| `GateTypeCorrect` | `UnlockGateProofs` | `Spec => []TypeOK` |
| `NobodyGuessesInLockout`, `GuessesAlwaysBounded` | | `Spec => NoGuessInLockout`, `Spec => []GuessesBounded` |
| `RevealTypeCorrect` | `RevealProofs` | `Spec => []TypeOK` |
| `TokensUsedOnce`, `LocksEndReveals`, `QuotaAlwaysKept` | | `Spec => []OneUse`, `Spec => []LockEndsReveals`, `Spec => []QuotaKept` |
| `ClipboardTypeCorrect`, `SecretAlwaysCovered` | `ClipboardProofs` | `Spec => []TypeOK`, `Spec => []SecretCovered` |
| `AutoLockTypeCorrect`, `SavedAlwaysInForce` | `AutoLockProofs` | `Spec => []TypeOK`, `Spec => []SavedInForce` |
| `FrontendTypeCorrect`, `LocksAlwaysNoticed` | `FrontendProofs` | `Spec => []TypeOK`, `Spec => []LockNoticed` |

Assumptions: those named in the modules (`SessionAssumption`, `NoViewAssumption`,
`ContentsAssumption`, `WritersAssumption`, `GateAssumption`, `RevealAssumption`, `ClipboardAssumption`,
`AutoLockAssumption`, `FrontendAssumption`): the markers such as `NoReq` are no members of
the sets they are apart from, there is a password, the limits are positive, the callers
finite.  No assumption keeps the destinations of exports apart from the vaults.  TLC evaluates
them in every run.

**VaultSession.**  None of the properties is inductive.  The argument has four
invariants:

* `Steps` = `TypeOK`, `WriterInv` (who is between the mutation and the reply holds the
  write lock, works on the vault of the session and has its own change in it) and
  `PlaceInv` (what an invocation has read and written at each place: at the rename
  the temporary file is the image of the session, at the reply the vault file is).
  Everything else depends on it: a save stores the session because nobody changed
  the session since the mutation.
* `Keys`: files on disk, files an unlock has read and the image of the session are
  `Sound`.  A password change keeps the name because the name was encrypted under
  the key the session still has when the closure reads it.
* `Changes`: what was reported Ok is on disk and in the session; what the session has
  beyond the file belongs to the holder of the lock or was reported as failed.
* `Explanations`: every password that opens a file or is in the session was told, or
  belongs to a change that is on its way, failed, or was lost in a crash.  The set of
  places a change can be on its way at is wider for the session than for the file;
  `Rename` is where one becomes the other, which needs that there is one writer.

The refinement needs `Steps` only: `UnlockRead` is `Peek`, `UnlockInstall` is `Open`, a
failed unlock is `Forget`, both mutations are `Edit`, `Rename` is `Save`, `Lock` and the
rate limit are `Close`, a crash is a crash, the rest stutters.

`Steps`, `Keys`, `Changes` and `Explanations` were also model-checked as invariants, with
three commands, before they were proved.

**VaultContents.**  The invariant is `Sound` (each item's key is wrapped under the vault key
and is the one its payload is sealed under, the settings are sealed under the settings key) and
`Apart` (two items with one key are one item), both of the session, of the file and, `Apart`, of
the two together, because a failed save leaves them different.  Each command makes a vault of the
present one by `WithEntry`, `WithNote` or the settings, and one lemma per form shows that it keeps the
invariant when the key is fresh.  For the refinement, `Plain` reads off what was sealed
without opening anything; a `Sound` vault shows its `Plain`, and each command changes `Plain` at
one place.

**FileWriters.**  The argument has two layers.  The lower one is about names and does not
look into files: where each job is and what it has there (`Places`; a save in the middle has
the session to itself), that two jobs under way on one name or temporary name are known
to be (`Claimed`), and `Links`:

* `Unique`: an inode has one name.
* `Unused`: the inode a job is going to make has none yet, and nobody writes to it.
* `Grip`: the inode a job is writing is under no final name, or under one whose temporary
  file was shared; and if the job's own was not, the temporary name leads to its inode, which is
  `Torn` until the last byte and the job's image from then on, past the rename, unless something
  else has replaced what it renamed.

From these a name whose temporary file is not shared changes only by the rename of one job,
and to all that job had to write (`FileStep`).  The upper layer (`Contents`) is about what
that is: a save writes the session (`Images`), which has what its file has
(`SessionCurrent`), a creation finds its path still free at the rename (`Vacant`), although it
looked a second before; and an export's source keeps the reports (`AskedThen`) and the
password (`PasswordStays`) it had when the export was asked for until it is copied
(`Copied`).  `JobsStay` is the heart: a whole vault keeps what it has through every step but the
rename of an export onto it (`Replaces`), and after that it has the copy, which holds `asked`; a
session, or another export, that relied on what was there makes the name shared.  `WholeFiles`
and `AckedKept` are part of that induction.  All of it was model-checked with two exporters and
with other choices of `Stem` before it was proved.

The refinement follows from both layers.  `SaveStart` is `Change`, opening the temporary file of
an export is `Take`, `Rename` is `Save`, `Create` or `Deliver`, a failed export is `Drop`, an
unlock is `Open`; every other step stutters, or makes `Unknown` what it has begun to share.

**UnlockGate.**  For `GuessesBounded` each caller that is on its way to the lockout
accounts for the guesses made before it reset the counter: `failures` is at most
`MAX_UNLOCK_ATTEMPTS` per caller that has reset it (`Tripped`), one per caller that is
about to (`Tripping`) and what the counter shows below the limit.  The bound follows with
a little arithmetic, and needs that the last of all callers to reset the counter left
nothing on it.  For `NoGuessInLockout` the invariant is `Kept`: until two calls overlap, what
remains of a lockout is in the file unless an access to it failed (`faulty`), and in memory
(`Remembered`) unless a lock or a restart took it (`forgotten`); a refusal by the file gives it
back to the memory.  So who is past the first gate while a lockout lasts owes it to the one, and
who is past the second to both.

**Reveal.**  `OneUse`: a token that is in the map, or not drawn yet, has not been used.
`LockEndsReveals`: what a token has left and the time the session has been locked are
together at most `TOKEN_TTL` (`Fading`).  `QuotaKept`: the count of a window is begun again
by each caller that saw the old one, so `granted` is bounded by the count, plus the limit
for each caller that has begun the count and may have done so again (`Restarts`), less the
callers that are counted and not yet let through (`Budget`).

**Clipboard.**  `SecretCovered` is made inductive by: a copy that has not spawned its
task has none and none that was aborted (`SpawnInv`), and whoever does noise writes has
one left (`NoiseInv`).  Each step that ends a task leaves its actor with a task to spawn
or an overwrite to do.

**AutoLock.**  As long as saves do not overlap, the one save between file and timer
carries the timeout that is in the file (`Handover`), unless an edit has stored another one since
(`carried`).

**Frontend.**  Unless tries overlap there is one at a time and none in an open window
(`OneTry`), so no try limits the session of an open window (`NotLimited`).  The session of an open
window then ends by the window's own lock, whose answer is on its way; by a call that finds it
ended, whose answer shows the lock screen; or by a lock of the loop or the blur task, which
nobody tells the window (`silent`).  If it ended before the window opened, the loads that
`AfterUnlock` sends find out.

**Model-checked only.**  The liveness properties (`Returns`, `SecretCleared`,
`LockoutEnds`, `WindowEnds`, `IdleLocks`, `BlurLocks`, `LockReachesWindow`): liveness
under fairness is out of this prover's reach.  So is what a recursive definition computes for
every input, which no theorem here is about.  The facts of `Passwords` are evaluated over all
character sets and the lengths where the score changes.

## 5. What is left out

Not modelled, or not whole:

* **Cryptography** is opaque: a key opens what was made with it.  Timing, zeroing of
  memory and randomness are not modelled.
* **Power loss.**  A crash ends the process; what was renamed stays renamed.  The code
  does not sync the temporary file, so a loss of power may undo more, and what the file
  system then keeps is not in the source.
* **The clocks.**  The attempts file has wall-clock time and the memory monotonic time; in the
  model they run together.
* **A second vault in `AutoLock`** (it would keep the timeout of the first one in force).
* **The layout of the file** (`vault/format.rs`): versions, lengths and the order of the
  errors of the parse are left to its unit tests; a file opens or it does not.
* **Vault management**: `open_vault` and `get_vault_meta` only read; the file with the last
  path has one writer and no reader that depends on it.
* **Entries and notes**: the order of the lists, the timestamps and the search, which filters
  what the list shows.
* **Generator and scores**: entropy and strength are floating-point formulas.
* **Window**: what the pages show, the debounced save of the settings (dropped by a lock on
  purpose) and the setup screen.
* **One focus loss at a time** is handled in `AutoLock`.
* `AutoLockTimer::stop` and `get_timeout` have no callers.
* **Application shell**: registration and start-up keep no state.

Properties that make an exception of what the code does, so that they do not catch it, and where
the exception is stated: `AckedOnDisk` and `UnsavedIsReported` (`stale`: an unlock that installs
what a save has replaced meanwhile), `PromiseKept` (a rate limit may end a session with what it
had not saved), `WholeFiles`, `AckedKept`, `ExportCurrent`, `ExportOpens`, `FilesKept` (`shared`
names; `unsure` for the password), `NoGuessInLockout` (`overlap`, and `faulty` with `forgotten`),
`SecretCleared` (`leaked`: the last write failed), `SavedInForce` (`raced`, `carried`),
`LockNoticed` (`overlapped`, `silent`).  But for `PromiseKept` each is a history variable, so it
says exactly when the code does it; the hazards concerned name no property in `PROJECT.json` or
say what is excepted.

What would come next: a second vault in `AutoLock`, the parse of `vault/format.rs` as an
operator, and the cached lists of the window with the answers that arrive late.
