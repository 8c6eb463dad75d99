# pvault in TLA+

A verification project for pvault, an offline password vault in C. The vault is
one encrypted file; every change writes a complete new snapshot and renames it
over the old one. What can go wrong is concurrency between processes, crashes
between system calls, signals, children that do not answer, error paths, and the
edges of the formats. These are what the modules model.

File names and line numbers refer to `src/` of the repository.

## 1. The system

| part | source | operations | hard behaviours | modules |
|---|---|---|---|---|
| encrypted store | `store.c` | create, open, save, restore; automatic backup, pruning | several processes, open without the lock, crash at every call, failed fsync, retry after failure | `VaultStore`, `SnapshotRegister` |
| copies | `store.c`, `cli.c` | backup, rescue recover, rescue rollback | a source that changes between two reads, two commands with one output, crashes | `SnapshotCopy` |
| credentials | `cli.c`, `crypto.c`, `recovery.c` | init, passwd, recovery rotate, restore | two files that must agree, uncertain commits, crash between the two | `Credentials` |
| clipboard | `clipboard.c`, `clip_main.c` | prepare, send, cancel; worker loop | three processes, lost peers, timeouts against late answers, an owner that ignores signals | `Clipboard` |
| rofi | `cli.c` | pick with an external chooser | a child that closes, answers anything, ends or hangs | `Chooser` |
| shell | `shell.c` | list, show, copy, lock | idle timeout, a job used once, lines in parts | `Shell` |
| secret input | `secure.c` | read secret, confirm | signals while echo is off | `SecretInput` |
| terminal picker | `ui.c` | pick | signals around curses, delivery between two calls | `Picker` |
| records, arena | `model.c`, `arena.c`, `cli.c` | add, edit, remove, open, save | an arena that fills up, failure halfway | `Records` |
| codec | `cbor_codec.c`, `util.c` | encode, decode, validate | canonical form, head widths, size limits | `Cbor`, `Utf8` |
| recovery text | `recovery.c` | encode, decode | bits across bytes, a person's copy | `RecoveryText` |
| text output | `util.c` | sanitise, print | malformed and unsafe characters | `TextOutput`, `Utf8` |
| configuration | `config.c` | load | an editor between the reads, a bad line after good ones | `ConfigFile` |

The parts meet in a few places. The commands open a vault without the lock,
change it in memory and save it once; a save takes the lock, checks that the file
is still the one that was opened, and replaces it. `init` and `recovery rotate`
write a key file and a snapshot that must not part. `pick` and `shell` hold a
prepared clipboard job while the user chooses. The password prompt and the picker
use one terminal and one set of signal dispositions.

## 2. Modules

| module | what it is |
|---|---|
| `VaultStore` | the store: processes, files, lock, crashes, and its properties |
| `SnapshotRegister` | what the store promises: a compare-and-swap register with crashes |
| `VaultStoreInv`, `VaultStoreProofs` | the inductive invariant; what a step leaves alone; `Spec => []IInv`; the meaning of an error; histories without branches |
| `VaultStoreTheorems` | the other properties, the register and what pruning keeps, from the invariant |
| `Credentials`, `CredentialsProofs` | passwords, recovery keys and key files, on top of `SnapshotRegister` |
| `Clipboard`, `ClipboardProofs` | one copy to the clipboard: client, worker, owner, timer |
| `Chooser`, `Shell`, composed in `Sessions`; `SessionsProofs` | the two commands that wait for a user with a vault open |
| `SecretInput`, `Picker`, composed in `TerminalPick`; `TerminalPickProofs` | `pick` on the terminal, from the prompt to the selected record |
| `SnapshotCopy` and `ConfigFile`, composed in `OwnFiles`; `OwnFilesProofs` | backup, rescue and rollback, and the configuration: files that others may touch |
| `Records`, `Cbor`, `RecoveryText`, `TextOutput`, `Utf8`, in `Formats`; `RecordsProofs` | what becomes of a record's bytes |
| `MC...` | instances for TLC |

`TerminalPick` is a real composition: the picker starts with the dispositions and
the terminal the prompt left. `Credentials` uses the store through its abstract
specification. In `Sessions`, `OwnFiles` and `Formats` the parts share no state;
a behaviour is about one of them, and one run covers them all.

### VaultStore and store.c

A *snapshot* is the exact bytes of a vault file. Encryption draws a fresh nonce,
so two encryptions never give equal bytes, and the comparison of hashes in
`save_locked` is the comparison of snapshot numbers. The table `snap` says what a
snapshot decrypts to (vault id, generation) and, as history, which snapshot its
writer had opened. Records, keys and the codec are not part of this model. The
name of an automatic backup is the pair of vault and generation from which
`format_automatic_backup_name` makes it; its hexadecimal digits, and the parser that
skips every other name in `backups/`, are abstracted away.

A *directory* is what processes see (`vdir`, `bdir`) and the set of contents a
power loss may leave (`vdirDisk`, `bdirDisk`). A change adds its result to the
set; a successful fsync reduces the set to what is visible; a failed fsync leaves
it. A crash picks one member. With `OrderedMetadata` a crash shows a content the
directory really had at some moment since the last fsync; without it, entries of
the vault directory may be mixed. A file carries whether its data was fsynced; if
not, a crash leaves `Torn`. A later successful fsync is taken to cover what an
earlier failed one did not write. `SnapshotCopy` and `Credentials` use the same
model of a directory.

Each process runs one command at a time (`proc[p]`), with the locals of the code
as a record: what it opened (`base`), what it installs (`new`), its temporary
file, status, `commit_warning` (`warn`) and the names left to prune.

| action | code |
|---|---|
| `Open`, `BeginCreate`, `ReadBackup` | `open_common`, the create wrappers, the start of `pv_store_restore` |
| `LockVault`, `Unlock` | `lock_vault` (non-blocking `flock`), `unlock_vault` and the return |
| `CheckCreate`, `CheckSave`, `CheckRestore` | the tests under the lock, generation limit, hash comparison, encryption |
| `MakeBackupsDir` | `make_private_directory_at` |
| `PublishBackup` (`AutomaticBackup`, `PreRestoreCopy`), `SyncBackup` | `automatic_backup`, `copy_file_exclusive_at`, `write_snapshot_exclusive_at` |
| `WriteTemp`, `Rename`, `SyncVaultDir` | `write_atomic_at` |
| `Readback` | the readback of `save_locked` and `pv_store_restore` |
| `PruneScan`, `PruneUnlink`, `PruneSync` | `prune_automatic_backups` |
| `Kill`, `Crash`, `RemoveActive`, `PlaceAlien` | the kernel, a power loss, the user |

`PruneUnlink` deletes one file per step, the oldest first (`NextVictim`, the order
of `compare_backup_candidates`), so that a pass can fail, or the machine crash,
between two deletions.

Every action that makes a system call has a branch in which the call fails.
Early returns go through the same `unlock` label as in the code. The early
returns before the lock (an open that fails, a restore of an unreadable backup)
change nothing and have no action. Temporary files that a crash or a failed
`unlink` leaves behind are names nobody reads; they are left out. The file
modes, owners and link counts that `private_snapshot_stat_issue` tests are part
of "the call may fail".

`SnapshotRegister` is one register, the set of values a crash may leave, and
clients that read it and try to swap. `ImplementsRegister` maps the register to
the active file, so a whole save, fifteen steps with three fsyncs, is one
compare-and-swap at its rename, and everything else is a stutter, a confirmation
or a crash.

### SnapshotCopy

Each command inspects the source (which may be `Unreadable`), authenticates it
(`Authenticate`), reads it a second time and compares hashes (`Reread`,
`HashMatches`), writes and syncs a temporary file, renames it without replacing
(`Rename`, `Taken`), syncs the directory and reads back. Backup and rescue take
different ways out of an error, and so do the actions. `SourceChanges`, `Meddle`
and `Crash` are the others.

### Credentials

Passwords and keys are numbers from one counter. `slot[s]` says which of them
open snapshot `s`. The vault file is `cur` and `may` of the register; the key
file has a model of its own, with every call of `pv_recovery_write_file` a step
(`CreateFile`, `WriteText`, `SyncText`, `SyncEntry`, and the undo). Before that,
`Encode` is `pv_recovery_encode`, which can fail for want of memory: after the commit
of `init`, which then reports an error with the vault in place, or before anything
happened in `recovery rotate`. Who ran that `init` keeps its password. `KeepsOutput`
is the decision whether the new key file stays after a failed save, `Heard` and
`NowInvalid` are what the command prints. The user acts on what is printed:
`Forget` and `Discard` are guarded by a report of success. `LosePasswords` makes
the recovery file the only way in.

### Clipboard

Three processes and what connects them. The *client* is the pvault command or
shell with its `pv_clipboard_job`, the *worker* is the detached `pvault-clip`,
the *owner* is xclip, which may be deaf to SIGTERM. `control` is the socket pair
with both queues and both ends, `data` the pipe of the secret, `setup` the answer
of the setup pipe, `timer` the timerfd.

| action | code |
|---|---|
| `Prepare`, `WaitForSetup` | `pv_clipboard_prepare`, `wait_for_setup` |
| `SendStart`, `WaitForOwnerReady`, `WriteSecret`, `SendDone`, `WaitForOwnerAccepted` | `pv_clipboard_send` and its helpers |
| `GiveUp`, `Cancel`, `SignalWorker`, `Forget` | `pv_clipboard_cancel` and its callers; `command_pick` without a password |
| `Boot`, `ReportSetup`, `WaitForStart`, `SpawnOwner`, `Spawned` | `launch_detached_helper`, `worker_loop`, `spawn_owner` |
| `WaitForDone`, `ArmTimer`, `CheckOwner`, `Accept`, `WaitForOwnerOrTimeout` | `worker_loop`, `wait_for_done`, `wait_for_owner_or_timeout` |
| `TerminateOwner`, `SendTerm`, `Grace`, `SendKill`, `ReapKilled`, `WorkerExit` | `terminate_owner`, with a look at the owner (`HasExited`) before each signal, and the cleanup |
| `Guard`, `Exec` | `owner_exec` |
| `ReadInput`, `ObeyTerm`, `QuitByItself`, `Expire`, `Kill...`, `StopWorker` | xclip, the kernel, the user |

Any timeout of the client may expire as soon as it waits, also when the answer is
about to arrive. A signal that reaches the worker between its look at
`pv_clip_stop_requested` and the wait sets the flag and does not interrupt the
wait (`intr`). An owner that has ended is a zombie until the worker waits for it;
that SIGCHLD is not ignored, so that nobody else reaps it, is assumed. Statuses
are OK or an error, and the two START messages are one.

### Sessions: Chooser and Shell

`Chooser` follows `command_pick --rofi`: rofi is started before the vault is
opened, gets one line per live record with a random token (`Send`,
`TokenUnique`), and answers (`Read`, `Named`); then it is waited for (`Deadline`),
and, if that fails or takes too long, looked at again, terminated, waited for and
killed (`Wait`, `Terminate`, `WaitTerm`, `Kill`). `Finish` settles the clipboard job
and destroys the vault (`opened`). The child does anything in any order, and may
ignore SIGTERM.

`Shell` is `pv_shell_run`: `Poll` with the idle timeout, `Fgets` and `Drain` on
items the terminal hands over (a line, part of a line pushed with the end-of-file
key, a line too long), every command, and `Leave`. The clipboard job is the
abstraction that `Clipboard` justifies: prepared, then sent or cancelled once.

### TerminalPick: SecretInput and Picker

`SecretInput` has every step of `pv_secure_read_secret`: handlers installed one
by one, echo off, buffers, bytes, confirmation, echo on, the flag fetched,
dispositions restored one by one, the signal raised. A signal may come between
any two steps and may stop the process. `Picker` blocks signals where the code
does; a signal is pending until the mask lets `Deliver` take it. Curses is a flag
that says who has the terminal. A record is the set of its searched texts; it matches
if one of them contains the query after `Fold`, which takes capitals to small letters.
`Finish` raises what was caught. The calls that give the terminal, the dispositions
or the mask back may fail; then `stuck` is set. `Consume` and `Pick` join the two.

### OwnFiles: ConfigFile

`ConfigFile` has the open, the validation, the reads between two `fstat` calls
(`Verify`, `Unchanged`), the parser line by line into a candidate, and the final
assignment, against an editor that writes in place or renames a new file. A
change gives a file timestamps it never had before; two writes within one tick of
the file system's clock are not told apart by the code and are not modelled. A
line is a comment, a key with a good or bad value, or junk.

### Formats

`Records` counts bytes: `Alloc` is `pv_arena_alloc` with its alignment, a record
is the lengths of its texts and lists, and the array of records doubles and
leaves its old copy behind. A command that is refused before it copies anything, by
a failed prompt, a list that is too long (`split_csv`) or a new value of the wrong
form, is `Refused`. `Cbor` is the writer and the reader item by item, with
heads of one, two, three, five and nine bytes; numbers are their big-endian bytes,
so 64-bit values need no 64-bit arithmetic. `libcbor_well_formed` is external: it
accepts at least what the encoder writes. `RecoveryText` shifts bits as
`base32_encode` does, and a person copies the text with or without a mistake; the
checksum is any function. Where the codec and the recovery text ask for secure
memory they may not get it (`Starve`). `pv_recovery_decode` then answers as it does
to a wrong checksum, PV_ERR_AUTH. `TextOutput` has the buffer and the stream version
of the sanitiser side by side, and `Utf8` the decoders of `pv_utf8_valid` and of
`decode_codepoint`, each translated by itself, as the code has them.

## 3. Runs

| run | instance | states | properties |
|---|---|---|---|
| `race` | 2 processes, 5 snapshots, 3 generations, 3 events, retention 1 | 1,033,124 | `IInv`, `PredecessorKept`, `AckedSurvives`, `ErrorMeansNotCommitted`, `SnapshotsIntact`, `ImplementsRegister`, `NoLostUpdate`, `PreservedBeforeReplaced` |
| `long` | 1 process, 5 snapshots, 5 generations, 4 events, retention 2 | 1,069,084 | `PredecessorKept`, `CollisionNeedsBranch`, `RetentionFloor`, `LockReleased` |
| `copy` | secret of 2 pieces, pipe of 1, 2 events | 59,388 | `TypeOK`, `OkMeansDelivered`, `NoOrphan`, `NoStaleSignal`, `EverybodyEnds` |
| `credentials` | 2 processes, 2 paths, 4 snapshots, 4 credentials, 3 events | 3,506,376 | `CanOpen`, `RecoveryKeyKept`, `ReplacedStaysReplaced`, `UsesRegister` |
| `terminal` | 2 signals, secrets of 1 byte, 2 lines, 3 records with texts of 2 letters, 3 keys, 2 signals sent, 1 failure per call | 1,709,373 | `EchoSafe`, `UserAnswered`, `SignalsReraised`, `TerminalAsFound`, `SignalEndsWait` |
| `sessions` | 3 records, 3 tokens, a socket of 1 line, 2 failures; 4 items typed | 802,987 | `TypesOK`, `SignalsOwnChild`, `SelectedWasPicked`, `NothingLeftBehind`, `SessionsEnd` |
| `own_files` | 2 commands on one output, 3 events; files of up to 3 lines, 2 edits | 2,177,507 | `CopiesAreAuthentic`, `StatusTells`, `LoadIsAllOrNothing` |
| `formats` | arena of 46 bytes, 3 records, 4 sessions; 8 vaults and 14 damaged bytes; 9 keys; texts of 4 bytes out of 18 | 4,710,249 | `TypesOK`, `SavedIsSound`, `CborExact`, `KeyExact`, `TextShownSafely`, `HistoryKept` |
| `unordered` | 1 process, unordered metadata | violation | `PredecessorKept` |
| `docorder` | 1 process, no events | violation | `DocumentedWriterOrder` |
| `shell_idle` | shell, 2 items | violation | `IdleLocks` |
| `records_full` | arena of 38 bytes | violation | `SavedVaultOpens` |

What the passing runs show, in words:

* `race`, `long`: no update is lost; nothing is replaced before it is preserved on
  the disk; after any crash the vault path holds a whole snapshot whose
  predecessor can be restored; `PV_OK` means durable, an ordinary error of create
  and save means not committed; pruning deletes the oldest backups first and keeps
  the newest, also when it stops between two deletions; a backup name is taken by
  other bytes only after a restore or an undone rename; the lock is always given
  back.
* `copy`: `PV_OK` means delivered and bound to expire; an owner whose worker is
  gone has a SIGTERM waiting; terminate_owner sends neither SIGTERM nor SIGKILL to an
  owner that it, or one of the waits before it, has reaped; all three end.
* `credentials`: who follows the messages always keeps a credential that opens
  every snapshot a crash may show; the recovery key of each is in a whole, durable
  file; a replaced credential stays replaced once the command said OK.
* `terminal`: echo and screen are given back before a signal takes effect; a
  signal ends either wait although nobody types; a signal taken while the input is
  hidden, or while the picker has its handlers, is raised again; only a live record
  that matches is selected. `THREAT_MODEL.md:163-164` says of signals during hidden
  input that they "are then re-raised"; when several arrive, the prompt raises the
  first. The prompt reads its flag (`secure.c:409`) before it restores the
  dispositions, and clears it afterwards: a signal that its handler takes in between
  is lost. The echo is on by then, so that nothing documented is violated, and
  `SignalsReraised` makes no claim about it. The picker blocks the signals first
  (`ui.c:341-342`) and has no such window.
* `sessions`: the selected record is the one whose line was picked; rofi is
  reaped, its descriptors closed, and never signalled afterwards; the clipboard
  job is used exactly once; no decrypted vault outlives either command; once the
  password was answered `pick` ends when rofi has closed its ends, and an idle shell
  locks, unless it waits for the rest of a line.
* `own_files`: a copy under the output's name is whole and authenticated, and the
  status says what became of it: a success is there for good, so no other command
  may put its own file in its place; a
  configuration is the meaning of one version of the file or the old one stays.
* `formats`: a failed operation leaves vault and file as they were, revisions
  move by one, deleted records keep no secret, and a saved vault can be loaded by
  an arena at most `2 * (Align - 1)` bytes larger than what the saving session had
  used (see `records_full`); what is written is read back and has one form; a
  copied key gives the key or nothing; displayed text is well-formed and has no
  control characters, where the table of the Unicode standard says what is
  well-formed.

*Bounds.* `MaxEvents` bounds failed calls, kills, crashes, restores and acts of
the user together; `MaxSnap`, `MaxCreds`, `MaxItems`, `MaxKeys`, `MaxSignals`,
`MaxEdits`, `MaxSessions` bound what their comments say; `MaxGen` stands for
`UINT64_MAX`. Two processes suffice for a stale writer: one opens, the other
saves. Five snapshots let a vault be created, saved, restored and saved again, or
a second vault appear beside the first; three generations with retention 1 make
every save prune; `long` gives up the second process for a history in which a
pruning pass has more than one victim and may stop between them: a failed pass
leaves one backup beyond the retention, and the next save finds two too many.
A secret of two pieces and a pipe of one
make the client wait in the middle of the secret.

`credentials` has a state constraint, `Scope`: behaviours in which two commands
overlap have at most one event and four credentials; those with up to three
events run the commands one after the other, over three snapshots. The property
is about states, and the states beyond the constraint are still checked when they
are reached; only their successors are not explored.

In `terminal`, one signal number stands for those that end the process and one for
SIGTSTP; a maximum of one byte makes lines too long, empty and just right; a text
distinguishes two lines of equal length. In `sessions`, three records are sent
through a socket of one line, and a token can be drawn twice. In `formats`, the
arena fills while the second or third record is added or edited, the third one
makes the array of records grow, and the vaults have a number at each head width
and its boundary, texts of two- and three-byte characters, and vaults that must be
refused, one of them with a negative time; every byte of an encoding is replaced
by each damaged value in turn. The alphabet of `TextOutput` has the bytes at both
sides of each comparison in the decoders.

Processes are interchangeable (and paths, in `credentials`), and the safety runs
use that symmetry; no run with a liveness property does.

*Deadlock* is checked except in `copy`, which follows one job to its end, and in
`credentials`, where the counters run out. In the store an idle process can
always start; elsewhere a call that has returned has an explicit step that
changes nothing, so that a stuck call would be reported.

*Fairness.* In the store (`long`), weak fairness of each process's next step: a
running process is scheduled and every call it makes returns. There is no waiting
loop (`LOCK_NB`), so nothing stronger is needed. Kills and crashes are not fair.

In `Clipboard`, the steps of a running client, worker or owner, the reaction of
xclip to SIGTERM unless it is deaf, and the timer. Client waits have timeouts, so
a waiting client always has a step. A user may leave a prepared job alone for
ever, and a worker then waits as long as its client lives. A deaf owner ends by
the SIGKILL after the grace period; one whose worker is killed, or to which
SIGKILL cannot be sent, really stays, and `EverybodyEnds` says so.

In `terminal`, the process runs, poll times out, pending signals are delivered
and a stopped process is continued; no key is ever assumed, and no failing call.
In `sessions`, the command's steps that do not fail (`Onward`), but not the step that
waits for the master password; nothing is assumed of rofi or of the user.

*What the violations show.*

* `docorder`: `docs/FORMAT.md:407-408` lists the fsync of the new snapshot before
  the preservation of the previous one. `save_locked` does it the other way
  round (1774, then 1787), which is the safer order.
* `unordered`: `make_private_directory_at` (700) fsyncs the parent only in the
  call that created `backups/`. If that fsync fails, the retry finds the
  directory and never repeats it. On a filesystem that orders the changes of one
  directory this is harmless, because the later rename cannot overtake the
  `mkdir`; this is `PredecessorKept` of `race`, and a theorem. Without that order
  a crash can show the new snapshot and no `backups/`.
* `shell_idle`: `docs/pvault.1:149-150` says the vault locks after the inactivity
  timeout. The timeout belongs to `poll`; after part of a line `fgets` waits
  without one (`shell.c:108`). `SessionsEnd` states what does hold.
* `records_full`: a vault edited until the arena is nearly full is saved, and
  cannot be opened: the decoder lays the same records out in another order, which
  may need more padding (`arena.c:37`). It takes an arena within fourteen bytes of
  its limit, which is part of `SavedIsSound` and a theorem; the test suite decodes
  what it encodes, but not there.

## 4. Proofs

The theorems hold for any set of processes, any bounds and any number of
failures, under the named ASSUMEs of the modules they extend, which TLC evaluates
on every run:

* bounds are natural numbers; retention, the number of signals, the longest
  secret and the rooms of pipes and sockets are at least one;
* `NoProc`, `None`, `Other` are no process, `Default` is no value a file can give,
  `"#"` (a comment) is no key and `"junk"` (what rofi may say besides a token) is
  no token;
* there are as many tokens as records: the code draws eight
  random bytes for each;
* the files the editor starts from consist of lines;
* the sizes of a record and of a list item are multiples of the alignment, and an
  arena has room for the initial array of records.

`PredecessorKeptHolds` also assumes `OrderedMetadata`.

| module | theorem | statement |
|---|---|---|
| `VaultStoreProofs` | `Invariance` | `Spec => []IInv` |
| `VaultStoreProofs` | `ErrorMeansNotCommittedHolds`, `CollisionNeedsBranchHolds` | the property named |
| `VaultStoreTheorems` | `TypeCorrect`, `AckedSurvivesHolds`, `SnapshotsIntactHolds`, `NoLostUpdateHolds`, `PreservedBeforeReplacedHolds`, `RetentionFloorHolds` | the property named |
| `VaultStoreTheorems` | `PredecessorKeptHolds` | `OrderedMetadata` gives `Spec => []PredecessorKept` |
| `VaultStoreTheorems` | `ImplementsRegisterHolds` | `Spec => ImplementsRegister` |
| `CredentialsProofs` | `AlwaysOpens`, `StaysReplaced`, `KeyKept` | `CanOpen`, `ReplacedStaysReplaced`, `RecoveryKeyKept` |
| `CredentialsProofs` | `RegisterUsed` | `Spec => UsesRegister`, a refinement |
| `ClipboardProofs` | `TypeCorrect`, `Delivered`, `Guarded`, `FreshSignal` | `TypeOK`, `OkMeansDelivered`, `NoOrphan`, `NoStaleSignal` |
| `SessionsProofs` | `SessionsTyped`, `OwnChildSignalled`, `PickedIsSelected`, `NothingLeft` | `TypesOK`, `SignalsOwnChild`, `SelectedWasPicked`, `NothingLeftBehind` |
| `TerminalPickProofs` | `EchoSafeHolds`, `FirstSignalReraisedHolds`, `OkMeansTypedHolds` | the property named, of `SecretInput!Spec` |
| `TerminalPickProofs` | `TerminalGivenBack`, `SignalsAreReraised`, `UserHasAnswered`, `EchoSafeInPick` | `TerminalAsFound`, `SignalsReraised`, `UserAnswered`, `EchoSafe`, of the whole command |
| `OwnFilesProofs` | `CopiesAreAuthenticHolds`, `StatusTellsHolds` | the property named, of `SnapshotCopy!Spec` |
| `OwnFilesProofs` | `FilesCopy`, `LoadedOrLeftAlone` | `FilesSpec => Spec`, so both hold of the composition; `LoadIsAllOrNothing` |
| `RecordsProofs` | `RecordsTyped`, `SavedIsAlwaysSound`, `HistoryIsKept` | `TypeOK`, `SavedIsSound`, `HistoryKept`, of `Records!Spec` |

Each inductive invariant was checked with TLC, on the instance of the run that
checks the property, before it was proved.

*The store.* None of the properties is inductive. `IInv` adds:

* `LockInv`: whoever is past the check holds the lock, hence is alone;
* `SaveInv`, `RestoreInv`, `CreateInv`: from its check to its rename, the active
  file is what the command found, and what it installs descends from it;
* `BackupInv`: from the fsync of `backups/` to the rename, every content a crash
  may leave of `backups/` holds the backup;
* `InstallInv`: after a clean fsync and readback a crash can leave only the new
  snapshot, and victims of pruning are older than the snapshot replaced;
* `FilesInv`, `TableInv`: everything visible or possible after a crash was
  fsynced and was really encrypted, and generations follow their base.

The proof has one lemma per action. `HoldingStep` and `LocalStep` carry the frame
argument once: a step of the holder cannot disturb processes outside, a step on
locals disturbs nobody. `PredecessorKept` is proved on top of `IInv`, not in it,
because it needs `OrderedMetadata` (the `unordered` run shows why).

*The refinement.* `VaultStoreTheorems` names the mapping, and has one lemma per
register action (`IsConfirm`, `IsCrash`, ...) that says which values of the mapped
variables make it that action, and one per store action that finds them. `IInv`
is needed at the rename only: the file there is still the one that was opened.

*Errors.* `ErrorMeansNotCommitted` is about a snapshot that has been encrypted and
never renamed. `FreshInv` says that such a snapshot is in no directory, now or
after a crash, and known to no other process; it is inductive together with
`IInv`, and was checked with TLC on the instance of `race` first.

*Branches.* `CollisionNeedsBranch` is about the whole history of the backups.
`LineInv` is inductive together with `IInv` and `FreshInv`: a backup, visible or
possible after a crash, is called by the vault and the generation of the snapshot
it holds (`Named`); as long as nothing was restored and no rename undone, every
backup of the active vault is the active snapshot itself or of a smaller
generation (`Straight`); and a vault being created has no snapshot but its first
(`Numbered`). So the name a save needs is free or taken by the very bytes it
preserves, however often the save was tried before.

*Pruning.* `RetentionFloor` says of every deletion of a pass that the oldest
backup goes, and counts the newer ones that stay. `FloorInv` says of a save that
is past the fsync of its backup that what is visible in `backups/` is on the disk,
and of every victim left on its list that at least `Retention` newer backups of
the vault exist and all older ones are victims, too (`OldestFirst`). A deletion
keeps this for the victims that remain because they are deleted from the oldest
on; that the scan establishes it (`ExcessHasNewer`) is a count of finite sets.

*Copies.* What a copy promises depends on where its command is. The invariant
says, for each command, what it carries from the second read on (`Carries`), the
state of its temporary file (`Prepared`), what follows if the output names or may
name that file (`Published`), and that an undisturbed name stays (`Holds`).

*Configuration.* `LoadIsAllOrNothing` compares the result with the file as it was
at the first `fstat`, several reads earlier. `Reading` says why that is possible:
as long as the open file has the stamp the first `fstat` saw, it is unchanged and
the lines read are its beginning, and a stamp is never used twice. `Loading` says
that while the lines are parsed the candidate is the meaning of the lines before
`pos`.

*Credentials.* `CanOpen` is about snapshots a crash may show, credentials the user
still has and files that may vanish, so the invariant follows each command from
the credential it makes to its report: which credentials the command has
(`Holds`), what it has done to its recovery file (`Writes`), what it has done to
the vault (`Saves`), that a credential it has drawn is nowhere else before its
header is installed (`Private`), and what is therefore kept in files (`Kept`),
opens every header a crash may show (`Openable`) and may not be forgotten
(`Remembered`). The decision `KeepsOutput`, to keep the key file when the save may
have happened, is used exactly where a failed save leaves both headers possible.
The refinement needs the invariant only at the installation, where the snapshot
opened is still the current one.

*Clipboard.* The invariant says that the worker is started by the client and the
owner by the worker (`Stages`), how many messages can be in each queue (`ToWorker`,
`ToClient`), that an acceptance is sent only when the timer runs (`Timed`), and
that nothing is lost in the pipe: what the owner got and what is inside is what
the client sent (`Pipe`). `NoOrphan` is inductive with these; it rests on the order
in `owner_exec`: the death signal is asked for before the parent is looked at.
`NoStaleSignal` is proved on top of it: an owner that is signalled may become a
zombie at every step, but leaves the process table only when the
worker waits for it, and then no step that signals follows.

*Sessions.* The invariant of the chooser says that what is in the queues is a line
handed out or junk (`Lines`), that tokens handed out are distinct (`Distinct`),
which child and which descriptors the command has at each step (`ChildKnown`,
`Closed`), where it can have a vault (`Acquired`), and what a choice stands for
(`Selection`).

*Prompt and picker.* `IInv` ties the number of installed handlers to the place in
the code and the echo to the handlers: the echo is off only where all handlers are
there, so no signal can stop or end the process. `DInv` relates the buffers to
the lines the user typed, byte by byte, for any maximal length. `UIInv` says
which signals are blocked, pending and caught at each step of the picker.
`ListInv` says what the list holds: `Found` builds it record by record, and that it
has exactly the live records that match is proved by induction on the number of
records (`LeastNumber`, from the well-foundedness of `<`). `PickInv` joins them:
before the picker starts it is in its initial state, afterwards the prompt is in
its last one.

*Records.* An edited vault lies in the arena in another order than the one the
next load gives it, so the proof compares two layouts. It first computes where
each copy ends (`TextEnd`, `ListEnd`, `RecordEnd`, `GrowEnd`), for every length,
and shows that what begins a multiple of the alignment later ends at most so much
later. Then, by induction on the records, a vault in which one record has changed
is loaded with so much more arena as the change had cost (`LoadSimilar`), and each
kind of edit costs at most what its copy took, a padding before a list included,
rounded up to a multiple of the alignment (`TitleCosts`, `TextCosts`,
`ListCosts`): at most `2 * (Align - 1)` more than the session itself had used for
it. The inductive invariant says that an open vault is what a load of the file
gives (`Opened`), that what is about to be saved follows the file record by record
and fits (`Changed`), and that what is on the disk is valid, has distinct
identifiers and fits (`OnDisk`). The inductions are on numbers, from the
well-foundedness of `<`, and the recursion in `Records` is a recursive function.

*Only model-checked:*

* the liveness properties `LockReleased`, `EverybodyEnds`, `SignalEndsWait` and
  `SessionsEnd`: liveness under fairness is out of the prover's reach;
* the other formats: `Cbor`, `RecoveryText`, `Utf8` and `TextOutput` are recursions
  and folds over bytes, and what they compute for every input takes induction over
  data, which is out of the prover's reach; `CborExact`, `KeyExact`,
  `TextShownSafely`, and `TypesOK` of the composition, are checked on the inputs of
  the run.

## 5. Not modelled, and why

* `doctor`, `list`, `show`, `find` and `config check` only read and print;
  `doctor` repeats the tests of open and of the backup scan.
* Names of files in `backups/` that are not automatic backups, which pruning skips.
* Parsing of arguments, help, error names, layout, hexadecimal and size helpers:
  no state between two calls.
* The password policy and password generation (`secure.c`) are pure tests and
  draws of random numbers; the visible line input of `tty.c` has no state.
* The ciphers (libsodium), and the byte layout of the file header. What the other
  parts rely on is modelled: fresh bytes for each encryption, and which credential
  opens which key slot.
* libcbor's own well-formedness check, beyond accepting what the encoder writes.
* Automatic backups pinned by mode 0400, which pruning skips: they only make it
  keep more.
* `pv_model_clone`, which no command calls; the Wayland clipboard code, which no
  installable build contains; the test-only fault injection, whose faults are the
  failing branches of the actions.
* Two changes of the configuration file within one tick of the file system's clock
  and with equal size, which `fstat` cannot tell apart.
* The composition of `Clipboard` with `Chooser` and `Shell` step by step: the job
  is an abstract state there, prepared, sent or cancelled, which is what
  `OkMeansDelivered` and `EverybodyEnds` establish of the real one.
