# A verification project for AURA

AURA is a necklace that records conversations, keeps them in its own flash, hands
them over Bluetooth to its owner's phone, or as archive files to a computer, and
erases a recording only when a verified copy exists. This directory holds TLA+
modules translated from the source, TLC configurations that check them on small
instances, and TLAPS proofs of what matters most for every instance. `PROJECT.json`
maps every definition to the source lines it stands for.

1. [The system](#1-the-system)
2. [Modules and their code](#2-modules-and-their-code)
3. [Runs, bounds and what they show](#3-runs-bounds-and-what-they-show)
4. [Fairness](#4-fairness)
5. [Proofs](#5-proofs)
6. [Where the code and its documents disagree](#6-where-the-code-and-its-documents-disagree)
7. [Only model-checked, and not modelled](#7-only-model-checked-and-not-modelled)
8. [What is left](#8-what-is-left)

To repeat a check, run for example

    tlc -workers 2 -config RecoveryFaults.cfg MCRecovery.tla
    tlapm ControlLedgerProofs.tla

`PROJECT.json` names the module of every configuration.

## 1. The system

### Components

Firmware paths are below `firmware/a04/` unless they start with `firmware/`.

| Component | Source | State it keeps | Operations |
|---|---|---|---|
| A04 control ledger | `src/aura_control.c` | two NAND blocks of one replaceable snapshot; a context with the elected slot | open, load, store, provision |
| A04 storage owner | `src/aura_storage.c` | capture identities reserved, release sequence, release in progress (snapshot `AST1`) | open, prepare, cancel, release request, release step |
| A04 NAND journal | `src/aura_journal.c` | state and order of the data blocks, active capture, export epoch and cursor | mount, start, append, seal, export, erase |
| A04 recorder, archive | `src/aura_recorder.c`, `src/aura_archive.c`, `src/aura_opus.c` | the capture's state, PCM and record positions | prepare, activate, push, finish, interrupt |
| A04 audio coordinator | `src/aura_audio_zephyr.c`, `radio/src/main.c` | reader thread, block queue, microphone power, cancellation, quarantine | start, read, publish, drain, stop, cut |
| A04 PDM driver | `drivers/aura_dmic_nrfx_pdm.c` | DMA buffers, slab, queue, clock request, health record | start, stop, reset, read, interrupt, clock callback |
| A04 radio link | `radio/src/aura_gatt_zephyr.c`, `radio/src/main.c` | link and its generation, subscription, one notification slot, one command slot | GATT callbacks, send work, deadlines, owner tick |
| A04 session authorization | `src/aura_session_auth.c` | phase, generation and deadline of one proof | begin, challenge, prove, invalidate |
| A04 transfer engine | `src/aura_transfer.c` | session, cached response, selected export, delivery | begin, submit, step, peek, sent, cancel |
| A04 pairing policy | `radio/src/aura_pairing_zephyr.c` | pairing window, its deadline and attempts, the selected attempt, one event to tell | open, cancel, take, the stack's security callbacks, expiry |
| A04 release authorization | `src/aura_release_auth.c` | none; parses and verifies one release command | verify |
| A04 NAND driver | `src/aura_w25n01gv.c` | fault latches of one chip | read, program, erase |
| Companion archive receiver | `archive_import.py`, `protocol_v2.py`, `capture_source.py` of `companion/src/aura_companion/` | receiver database (SQLite), published bundle files | receive, import, publish, verify |
| Companion release outbox | `release.py` there | outbox database: requests, their sequence, completions | provision, request, pending, retry, mark completed |
| Companion notes and upload | `notes.py`, `upload.py`, `files.py` there | nothing but files | transcribe, upload |
| Android transfer link | `AndroidGattConnection.kt`, `TransferConnection.kt` of `mobile/android/app/` | one GATT connection, one waiting exchange | connect, exchange, close |
| Android download store | `DownloadStore.kt` | table of downloads, archive files | open, append, finish, resume |
| Android recovery worker | `CaptureRecovery.kt` | lifecycle generation, wake, progress | start, wake, stop, recover |
| Android capture library | `CaptureStore.kt` | bundles on disk, inventory of rows | import, validate, update, reconcile |
| Portal | `portal/convex/` | notes, tokens | ingest, list, revoke |
| A03 firmware | `firmware/src/main.c`, `journal.c`, `protocol.c`, `nand.c` | capture thread, privacy interrupt, journal | capture, mount, export |

`hardware/`, `enclosure/`, `film/`, `website/`, `docs/` and the generated evidence
beside them hold no program of the system.

### How they interact

- The owner thread (`radio/src/main.c`) is the only caller of the storage owner, the
  journal, the ledger, the recorder, the session proof and the transfer engine. It
  alternates radio ticks with audio; a request to record preempts a transfer.
- The Bluetooth stack's callbacks, the system work queue and the completion callback
  share one spin lock with the owner. A *generation* ties work to the link that
  caused it; everything that unlocks must compare it again.
- The pairing policy sits beside the radio link. The stack asks it for every pairing,
  the work queue closes its window, and the owner opens windows and tells the console
  what happened. Its one connection reference must be released exactly once whoever
  comes last.
- The reader thread takes DMA blocks from the driver and publishes them in a queue
  for the owner. The privacy switch is an interrupt that may come between any two
  accesses; it cuts the microphone's power itself.
- Every storage operation goes through the journal's export epoch: whatever changes
  the journal makes the exports of open sessions stale.
- The phone's worker asks the transfer engine command by command. A command is
  repeated at most once; its transaction number makes the repeat harmless. The
  connection carries at most 65535 transactions, so the worker must *roll over* to a
  new one between the records of a source.
- A finished download is handed to the capture library, which publishes it by one
  rename and lists it in a SQLite inventory; at every start it reconciles the two.
- The companion imports archive files: a receiver database per archive says what was
  received, and a publication writes the bundle file by file with its evidence last.
- Only the companion authorizes an erase: for one finalized archive of a receiver it
  commits a request in its outbox, then signs one release command with the next
  release sequence. The recorder takes a command only in sequence, erases, and answers
  a repeat with "already done". That answer is the evidence on which the outbox's user may
  call a request completed; the outbox itself does not see it.

### What is hard

| Component | Behaviour | Properties that make it correct |
|---|---|---|
| Control ledger | power fails inside an erase or program; a page reads torn, weak or not at all; two contexts | authority reported once is never lost or rolled back; a damaged newer candidate is never hidden by an older one |
| Storage owner | two durable media updated one after the other, each may be cut off | finished recordings stay whole, only the released capture is erased, identities and sequences are used once |
| Audio | cutoff between any two accesses, driver that never settles, full queue | the switch wins, what is called complete is complete, DMA memory that is not quiescent is not used again |
| PDM driver | interrupt, clock callback and application calls on the same buffers | every buffer and the clock have exactly one owner; every stop settles |
| Radio link | completions and callbacks of a dead link arrive after the next one exists | data only to a proven phone, one fragment in flight, whole responses in order, a response ends unless the stack holds back an older one |
| Pairing | expiry, button and stack callbacks enter between the sections of each other's calls; a connection is unreferenced while a call to the stack waits | one reference for one attempt, a failed attempt ends in a hangup, events in order, no window outlives its deadline |
| Transfer and recovery | repeats, lost links, process death, journal changes, lifecycle calls from another thread | what is saved is whole and of one version, progress is never lost, COMPLETE is true, every pass ends |
| Companion | death between two published files or between the database and the files; a receiver that changes under a request; an older outbox file put back; answers lost or repeated | the recorder erases only what a receiver holds in full; the recorder can always take the outbox's next command, whatever was called completed |
| Capture library | death between rename and row, a power cut that undoes the rename, the same capture imported twice, files damaged on disk, a look at whole files that fails | what is listed is whole, what was listed stays or is hidden by a look that failed, no edited note or receipt is lost |

`PROJECT.json` `hazards` lists each of these at its source line with the property
that catches it going wrong, or with the reason why none does.

## 2. Modules and their code

| Module | Models | Actions and code |
|---|---|---|
| `SnapshotRegister` | the ledger's contract | an append-only log of snapshots and contexts that hold its end |
| `ControlLedger` | `aura_control.c` | one action per call (`Open`, `Load`, `Store`, `Provision`) and one per media operation inside a call (`EraseInactive`, `ProgramPage`, `VerifySnapshot`), `PowerCut` and failures at each |
| `ControlLedgerProofs` | – | theorems of section 5 |
| `CaptureVault` | the storage owner's contract | reserve, write, finish, permit, release |
| `StorageOwner` | `aura_storage.c` over `aura_journal.c`, `aura_release_auth.c` as a guard | `Open`, `Prepare`, recording, sealing, `Request`, `Step` of a release, `PowerCut`; a ledger store is the register `ControlLedger` implements |
| `StorageOwnerProofs` | – | theorems of section 5 |
| `Dmic` | the microphone driver's contract (`aura_dmic_health.h`) | start, stop, settle, complete, read, free, reset |
| `DmicDriver` | `aura_dmic_nrfx_pdm.c` | each section under `irq_lock` is one step: a chain of functions on the record `dev` |
| `DmicDriverProofs` | – | theorems of section 5 |
| `AudioCapture` | `aura_audio_zephyr.c`, the owner loop and interrupts of `radio/src/main.c`, `aura_recorder.c` | owner, reader, interrupts; a thread step makes at most one access an interrupt can make differ |
| `AudioCaptureProofs` | – | theorems of section 5 |
| `RadioLink` | `aura_gatt_zephyr.c`, the owner's radio tick, `aura_session_auth.c`, sessions and deliveries of `aura_transfer.c` | each section under the spin lock is one step of the stack, the work queue, a completion or the owner |
| `Pairing` | `aura_pairing_zephyr.c` | each section under its spin lock is one step; a thread that is between two sections of a call keeps what is left to do in `todo` |
| `PairingProofs` | – | theorems of section 5 |
| `Transfer` | commands of `aura_transfer.c` over the journal cursor | `Receive` takes a command from the slot, `Answer` executes or repeats it, `Confirm` frees the slot |
| `Recovery` | `CaptureRecovery.kt`, `DownloadStore.kt`, the exchange of `AndroidGattConnection.kt` | lifecycle calls, the worker's stages, one exchange as send, answer and loss, a SQLite transaction as one step |
| `RecoveryProofs` | – | theorems of section 5, about `Recovery` with the engine of `Transfer` |
| `ArchiveImport` | `archive_import.py`, `capture_source.py`, the receiver of `protocol_v2.py` | recording, `BeginImport`, `CommitReceipt`, publication file by file, `ReuseBundle`, death of the program, upgrade of the decoder |
| `ReleaseOutbox` | `release.py`, the recorder's answers | `ReadSource` and `CommitRequest` of a request, `RepeatRequest`, `Retry`, `MarkCompleted`, `Grant`, `EraseLast`, `ReplaceOutbox`, `ChangeSource` |
| `ReleaseOutboxProofs` | – | theorems of section 5 |
| `CaptureLibrary` | `CaptureStore.kt` | `Stage`, rename, synchronization and row of an import, `Validate`, `Update`, `Reconcile`, `ProcessDies`, `PowerCut`, `Damage` |
| `CaptureLibraryProofs` | – | theorems of section 5 |

How they compose:

- `StorageOwner` uses the ledger through the contract that `ControlLedger` is shown
  to implement: a store that does not return leaves the old or the new snapshot, or
  nothing that can be opened.
- `AudioCapture` is written over `Dmic` (`Mic == INSTANCE Dmic`), and `DmicDriver`
  implements `Dmic` under a refinement mapping (`ImplementsDmic`).
- `StorageOwner` implements `CaptureVault` (`ImplementsVault`).
- `Recovery` extends `Transfer`: phone and recorder run in one specification. What
  happens between them, notifications and their generations, is `RadioLink`.
- `RadioLink` and `StorageOwner` meet in the export epoch: a capture moves it, and
  the engine's guard sees that it moved.
- `ReleaseOutbox` extends `ArchiveImport`, so that one specification goes from a
  recording, over the file and the receiver, to the erase. The recorder's side takes
  one step per answer there; what an answer takes inside the recorder is `StorageOwner`.


### Abstractions to know about

*Ledger.* A snapshot is identified by the sequence of values stored up to it, which
is what the chain of parent hashes binds; two commits hash alike only if their
sequences are equal. CRC, SHA-256 and ECC status become what a page reads as: intact,
blank, weak (intact but reported corrected), torn or unreadable.

*Storage.* A block holds a capture's header, data and seal; page programming inside
one block is one step, which can be torn. A signed release exists for a receipt of a
finished capture or it does not; a forged one is rejected by a guard.

*Audio.* Samples and Opus packets are block numbers. A generation counter is modelled
by whether it moved since it was sampled.

*Radio.* A phone holds the owner's key or it does not. A deadline is live or past; time
is a step that makes it past. A completion may arrive inline, on the work queue or never.
The three handlers of the work queue share one thread (`QueueIdle`): while one is between two
of its locked sections, no other runs, but callbacks, completions and the owner do. A phone's
next frame of the proof follows what it was shown (`Follows`); frames out of turn and repeated
commands are the trouble `stray`.
The initial state has the archive open and the radio given to the link.

*Pairing.* The stack's receive thread and the system work queue are cooperative
(`CONFIG_BT_RX_PRIO` 8, work queue priority -1), so one of them runs until it waits, and
it waits only where the stack makes it: in `bt_conn_auth_cancel`. The owner is preemptible
(`K_PRIO_PREEMPT(7)`) and may be left between any two of its sections. There is one
connection object (`CONFIG_BT_MAX_CONN=1`), which can be lost and made again under a new
generation. Being bondable is having a window. Refused pairing features change nothing.
The deadline is due or not; time is a step that makes it due.

*Transfer and recovery.* An export is a row of units cut into records. A `READ` returns
at most `Chunk` units. What a capture would export is its *version*: verification of a
journal that changed finds another one. Reasons inside a status are dropped.
`PROCESSING` is merged with the report that follows it. Import into the capture library
is one step. Statuses the engine cannot send to this client (`CANCEL`, `END_OF_LIST`,
`STALE`, `FORBIDDEN`) and malformed answers are left out. A failure of the engine's
session is the hangup that `RadioLink` shows to follow.

*Companion.* An archive is a capture, the packets in it and how it ended. Its digest is
its identity. A receiver database holds an archive or does not; its live frame protocol
is one commit. A whole database that is rolled back, or provisioned again, is
`ReplaceOutbox`; the documents call it undetectable. A reader's lock on a receiver blocks
its SQLite writers, not the deletion of the file. A completion needs the saved command only,
as `mark_completed` compares no more than that (`release.py:389-409`): the caller may claim
it of a capture that was never erased. The recorder's "already done" changes no state and is
no action. An archive has one receiver database, so the path that a repeated request must
name again is that of its archive. An upgraded decoder takes over between two imports.

*Library.* A key binds the digest of its bundle, so imports of one key differ only in the
physical receipt they carry. Validation and decoding is: the bundle is whole or not. A
process death keeps renames; a power cut may also undo a rename whose directory was not
synchronized. SQLite transactions are durable. A look at a whole bundle may fail all the same
(a read error, a cancellation, a failing transaction): validation then hides its row, as does
reconciliation, where a cancellation or a database error undoes the whole instead. `missed`
remembers the rows that were hidden so; a later reconciliation or import clears them.

## 3. Runs, bounds and what they show

Every passing run finishes within four minutes on two cores.

| Run | Configuration | Bounds | Shows |
|---|---|---|---|
| `ledger_faults` | `LedgerFaults.cfg` | two contexts, two values (with no body page and with as many as fit, two), generation 3, every single-page read fault, all five residues | `LedgerInv`, `AuthoritySurvives`, `SpareSlotOnly`, `ImplementsRegister` |
| `storage_faults` | `StorageFaults.cfg` | three blocks (symmetric), two captures, two releases, a catalog of one, three failures, torn and unreadable pages | `StorageInv`, `ReportedStaysWhole`, `ReleaseNeverRefused`, `GenerationUsedOnce`, `ImplementsVault` |
| `dmic_driver` | `DmicDriver.cfg` | four buffers, queue of two, four blocks, every refusal of the hardware layer, fairness | `DriverInv`, `StopSettles`, `ImplementsDmic` |
| `audio_capture` | `AudioCapture.cfg` | one warmup block, three blocks in all, queue of one, one pending line, fairness | `AudioInv`, `SwitchCutsPower`, `FinalizedIsComplete`, `CutIsInterrupted`, `StopEnds` |
| `radio_faults` | `RadioFaults.cfg` | two connections, the second without the key, two fragments, one retry each, any one trouble, completions late or never, frames out of turn | `RadioInv`, `SentIsWhole` |
| `radio_ends` | `RadioEnds.cfg` | the owner's phone connects twice, one fragment, one refusal, completions that come late or never, and a capture, fairness | `ClosedHangsUp`, `ResponseEnds` |
| `radio_capture` | `RadioCapture.cfg` | nothing goes wrong, one capture | violates `CaptureKeepsSession`, see section 6 |
| `pairing_faults` | `PairingFaults.cfg` | two windows of two attempts, a connection lost and made again or renewed (two generations), two passkeys, one queued event, fairness | `PairingInv`, `SpoiledIsHungUp`, `ToldInOrder`, `WindowEnds` |
| `recovery_faults` | `RecoveryFaults.cfg` | two captures, one with two versions of which one is silent, a chunk of two, seven transactions, one retry, three lifecycle generations, unreadable media and failing phone storage | `RecoveryInv`, `ClaimsHold`, `WakeKept` |
| `recovery_ends` | `RecoveryEnds.cfg` | a source longer than a connection of four transactions carries, one process death, resends, drops, late and overtaking answers, fairness | `Lockstep`, `NeverShrinks`, `PassEnds`, `GivesUpForCause` |
| `companion_faults` | `CompanionFaults.cfg` | two captures of one packet, three archives, two callers, two requests, two decoders, one fault of any kind | `CompanionInv`, `ErasedIsCopied`, `NeverWedged`, `OpenIsNext`, `SignedOverCopy` |
| `library_faults` | `LibraryFaults.cfg` | two captures, two physical receipts, two store objects, two deaths, power cuts or damages, failing reads at every look | `LibraryInv`, `ListedStays`, `NothingForgotten` |

Invariants that state one thing about a component are conjuncts of its `...Inv`:

- `StorageInv`: `OpenNeverRefused`, `ReleasedStaysGone`, `ReleaseExcludesRecording`, `GrantsInSequence`;
- `DriverInv`: `OneOwner`, `ClockBalanced`;
- `AudioInv`: `PowerOffAtRest`, `Contiguous`, `QuiescentIsDrained`;
- `RadioInv`: `OnlyToOwner`, `AdmittedIsGranted`, `OneFlight`;
- `PairingInv`: `RefsBalanced`, and an attempt is selected only inside a window;
- `RecoveryInv`: `SavedIsWhole`, `OneVersion`;
- `CompanionInv`: `OutboxWhole`, `EvidenceTrue`;
- `LibraryInv`: `VisibleIsWhole`.

Why the bounds are enough to be interesting:

- Ledger: three generations overwrite both slots and write one of them twice, so a
  residue of generation 1 meets generation 3; with two values a replacement of equal
  and of different length both occur. Either context makes the other one stale.
- Storage: two captures on three blocks, one of them given to the catalog, reach a full
  device, a full catalog, and a block that is reused after a release; three failures cut a
  recovery that itself follows a cut, and the erases of a release more than once.
- Driver: four buffers with a queue of two exhaust the slab as well as the queue.
- Audio: a queue of one is full after one block; three blocks put one in the queue,
  one in the reader's hands and one in the driver.
- Radio: with two connections every callback of the first may come during the second, in
  `radio_ends` also a notification whose completion the first never got.
  Two fragments let a response be cut in half. The generation bound is the code's
  `UINT64_MAX`: reaching it is a refusal that the code handles, so runs that end at it
  are real behaviours.
- Pairing: with two windows everything that belongs to the first may come during the
  second; a second attempt exhausts a window, and a second key meets a full queue.
- Recovery: two records and a chunk of two put a read across a record boundary and
  leave a partial record behind; two captures let the worker continue after an
  unreadable one. Seven transactions save one source on one connection but not both.
- Companion: the archives are the final file of both captures and a broken-off one of the
  first; a copy that was sealed as interrupted, which the code treats as it does a
  broken-off one, is left to the proofs. Two callers
  meet between reading a source and committing the request; the second request is the
  one whose sequence depends on what became of the first. One fault at any point is
  followed by everything the code does about it; the proofs of section 5 hold for any
  number of them.
- Library: a death during an import and a power cut or damage to what that left behind take
  two faults; the proofs hold for any number.

`StorageOwner`, `Recovery` and `ReleaseOutbox` are checked with `CHECK_DEADLOCK FALSE`: a
device whose generations are used up, or whose media is damaged, refuses every call for
good, a worker after `close()` has nothing to do, and a companion whose requests are used
up has nothing left to ask. The other runs check for deadlock.

The `mutants` of `PROJECT.json` give for every property a plausible bug of the code that
violates it: a dropped guard, a missing reset, a check made too early.

## 4. Fairness

Liveness is checked only under fairness that the code's own scheduling justifies:

- `DmicDriver`: a hardware stop that was triggered raises its interrupt, and a clock
  request that was accepted calls back. Both are promises of the vendor's driver.
- `AudioCapture`: the owner loop, the reader thread and time. Not the user's lines, not
  the switch, and *not* the driver: a driver that never settles runs into a deadline.
- `RadioLink`: the owner thread (its tick, and the start of a capture that the tick asked
  for), the work queue, time, and the stack's carrying out of a disconnect it accepted.
  Nothing of the phone, and no completion. The liveness run has refused, late and lost
  notifications; refusals to disconnect are left out because the code itself gives up after
  its retries.

  Two exceptions are in the properties, because they are in the code. The one slot is kept
  for a notification that was submitted until the stack completes it, also over a disconnect
  (`aura_gatt_zephyr.c:362`, `441`, `555-557`): until then the responses of a next connection
  are held back, and its timeout closes only the old generation. `ResponseEnds` excepts
  exactly that (`Quarantined`). If the stack never completed a notification of a dead
  connection, no response would be sent until a restart. And a capture that cancels a transfer when
  the epoch is at `UINT64_MAX` closes the link without scheduling the hangup
  (`cancel_copies`, `aura_gatt_zephyr.c:501-510`); `ClosedHangsUp` excepts the last values of
  the counters (`Exhausted`), which no device reaches.
- `Pairing`: weakly, the end of a section a cooperative thread has begun, and time.
  Strongly, the owner, the work queue and the timer: the stack's callbacks preempt them
  for as long as they run, but the phone cannot keep the processor busy between them.
- `Recovery`: the worker's thread, the system's delivery of a drop, a connection that is
  dead being torn down, and the recorder's owner loop. Not the user, not the link.

The storage owner has no liveness property. Nothing in the firmware of this repository calls
`aura_storage_request_release` or `aura_storage_release_step`; `radio/src/main.c:329-330`
opens the storage without an erase function, and only the host tests supply one
(`STORAGE.md:11`). Who would repeat the step is therefore not known. What the code itself
can promise is a safety property: a durable grant is never refused by what an earlier,
interrupted attempt left, and an idle owner has an extent left to erase
(`ReleaseNeverRefused`), so that each repetition makes progress or fails in the media.

The companion has no liveness property: whether a command is sent again is up to its
user, and no code repeats it.

## 5. Proofs

### The ledger

`ControlLedgerProofs` proves, for every set of contexts, every set of values and
their sizes, every generation limit, every pattern of unreadable pages and every
residue of an interrupted erase that `LedgerAssumption` allows:

| Theorem | Statement |
|---|---|
| `LedgerInvariant` | `Spec => []LedgerInv`, the inductive invariant (with `LedgerTypes` as a corollary) |
| `AuthorityNeverLost` | some slot always holds, complete, the last reported snapshot or a successor of it |
| `OneReading` | whatever a scan cannot read, it elects the newest complete snapshot or nothing |
| `TornCandidateFailsClosed` | no slot is elected while a page of a newer generation stands on the media |
| `ReportsNeverRollBack` | what is reported to an owner extends everything reported before |
| `NewestNeverTouched` | no step changes the slot that holds the only copy of the newest snapshot |
| `LedgerImplementsRegister` | the ledger implements `SnapshotRegister` |

Assumptions: those of the model. Sequences stand for hash chains (so no two different
histories collide), a program that is cut off leaves a page blank, intact or readable as
damaged, and calls do not overlap: the contexts take turns.

The argument. That a scan elects the right slot is not inductive: it depends on what the
slot being written may look like at every moment of a store. `LedgerInv` therefore says

- `CommitsKnown`: every complete commit on the media is a prefix of the newest durable
  snapshot, so the media never disagrees with itself;
- `NewerAtMostOne`: pages that are newer than the durable snapshot belong to one slot,
  and their parent is the durable snapshot;
- `NewestHeld`: if anything was committed, a slot holds it complete;
- `RunningCall`: what the running store or provision has erased and programmed so far, and
  that its target is never the slot that holds the newest snapshot;
- `IsPrefix(acked, durable)` and `ReadyMeansElectable`: reports follow the media, and a
  ready context is either current or will notice that it is not.

The two hard steps are the commit page's program, where `durable` moves from the old slot to
the new one (`CommitCompleted`), and an interrupted erase, which may leave any mixture
of old pages and must not make an older slot electable over what is left
(`EraseInterrupted`, `ElectedIsNewest`). The implementation theorem maps `log` to `durable` and
a context's view to the snapshot it holds; a program of the commit page is `Commit`,
everything else observes, loses or stutters.

`LedgerInv` is also an invariant of the run `ledger_faults`, so TLC evaluates the same
formula that is proved.

### The storage owner

`StorageOwnerProofs` proves, for every set of blocks, number of generations and release
sequences, catalog size, number of failures and kind of damage that `StorageAssumption`
allows:

| Theorem | Statement |
|---|---|
| `StorageInductive` | `Spec => []StorageIInv` |
| `StorageInvariant` | `StorageInv`: what is released stays gone, recording and release exclude each other, grants are numbered `1 .. floor`, an open is refused for damage only |
| `FinishedStaysWhole` | `ReportedStaysWhole`: a reported recording is whole until its own release is durable |
| `IdentityUsedOnce` | `GenerationUsedOnce`: no generation is ever recorded twice |
| `ReleaseCarriesOn` | `ReleaseNeverRefused`: a durable grant can be carried on from whatever was cut off, unless a page cannot be read |
| `StorageImplementsVault` | `ImplementsVault`: every behaviour of the owner is one of `CaptureVault` |

Assumptions: those of the model, in particular that a ledger store which does not return
leaves the old or the new snapshot, which is what `LedgerImplementsRegister` proves of the
ledger.

The argument. A power cut forgets everything but the media and the ledger, at any point of any
media operation. `StorageIInv` is therefore split by what survives:

- `Durable` relates media, ledger and histories alone, and is all that a mount may rely on:
  nothing is on the media that the ledger had not reserved (`Reserved`), every capture
  that is not released is one chain of parts without a gap (`Chained`), and a closed one is
  verified with a final receipt (`Whole`), a released capture lies behind the fence
  (`Fenced`), and the running grant is the last numbered one (`Numbered`). It holds between
  *all* steps, so an interrupted operation needs no case of its own here: each result that it
  may leave on the media is shown to keep `Durable` (`Wiped`, `Rewritten`, `Grown`).
- `Volatile` says what the journal's and the owner's fields know of it: what may be programmed
  is blank, the bound generation was never opened, the active capture ends in the journal's
  last block with everything before it full (`Extended`), the extents before the release's
  progress are blank (`Erasing`).
- `Running` says what each operation in progress relies on when it comes to its end: a
  header goes to the prepared block (`Heading`), an erase to the next extent of the grant
  (`Wiping`), a store writes one of three snapshots (`Storing`).

`ReportedStaysWhole` is not inductive without all three: that an erase does not hit another
recording needs the fence to be exactly the extents of the granted capture (`Granting`), which
needs that capture to have been one chain when its receipt was checked; that a header does
not, needs free blocks to be blank. `GenerationUsedOnce` rests on the reservation being durable
before it is bound: `Bindings` makes the bound generation equal to the ledger's counter while
it was not opened yet. That the counter covers what is on the media (`OpenNeverRefused`) needs
the highest generation of a set of blocks to exist, which is proved from the well-foundedness
of the natural numbers (`Greatest`) instead of by an induction.

The implementation theorem reads a capture's status off media, ledger and grants
(`Status`). Of all operations and all their interrupted results, only a first header
(reserved to held), a page with a final seal (held to final), a stored reservation and a stored
grant move it (`HeaderMoves`, `PageMoves`, `AdoptMoves`); a release is visible at the
store of the grant, not at the erases.

`StorageIInv` was checked by TLC within the bounds of the run `storage_faults` before it was
proved.

### The companion and the erase

`ReleaseOutboxProofs` proves, for every set of captures and callers, every number of
packets, requests, decoder versions and faults that `ImportAssumption` and
`OutboxAssumption` allow:

| Theorem | Statement |
|---|---|
| `CompanionInvariant` | `Spec => []OutboxIInv`, which implies `CompanionInv` |
| `ErasureIsOfCopies` | what the recorder erases, a receiver once committed in full and final |
| `NeverStuck` | if no older outbox was put back, the recorder's last command is the outbox's at that sequence and it can take the next one, whatever the caller calls completed |
| `PendingIsNext` | if moreover only erased captures are called completed, the open request is the recorder's last or its next |
| `SignedOverWhole` | a command is signed over a receiver that holds the whole finalized archive |

The argument. The properties speak of the far ends, a receiver and the recorder; between
them lie the file, the request, the command on the air and the answer. `OutboxIInv` says of
each of them what it witnesses:

- `ReceiptsTrue`, `JobTrue`, `ShelfNamed`, `EvidenceTrue`: a receipt, an import under way, a
  published file or a bundle's evidence names an archive that was recorded as it says;
- `OutboxWhole`, `SourcesCopied`: every request, and every source that a caller is holding
  between reading and committing, names a finalized archive that was committed once;
- `ErasedIsCopied`: what the recorder granted was requested over such an archive;
- `Agreement`: if no older outbox was put back, every command that was ever sent is one of
  the outbox's rows (`SentKnown`), the recorder's floor is inside them and its last command
  is the row at that floor (`FloorKnown`), and only captures of rows up to the floor are being
  erased or gone (`ErasedInOrder`). None of it depends on what is called completed. Putting
  back an older outbox breaks exactly this part, which is why `NeverWedged` and `OpenIsNext`
  except it; the other properties do not.

`NeverWedged` says that the recorder can take the row behind its floor (`FloorTaken`,
`NextAcceptable`), completed or not: `retry` hands out completed requests too. If a completion
was false, that row is not what `pending` returns, and the user has to retry it by its
identifier. `OpenIsNext` says that with true completions (`Evidenced`) this cannot happen.

### The capture library

`CaptureLibraryProofs` proves for every set of captures, receipts, store objects and any
number of deaths, power cuts and damages (`LibraryAssumption`):

| Theorem | Statement |
|---|---|
| `LibraryInvariant` | `Spec => []LibraryIInv`, which implies `LibraryInv`: what the app shows as valid is whole on disk, or was damaged since |
| `ListedIsNeverLost` | `ListedStays`: what was listed is listed in every open library, unless its files changed by themselves, an import of it was cut before synchronization, or the last look at it failed |
| `NothingIsForgotten` | no row loses its note or its receipt |

`LibraryIInv` adds what an import may rely on between its steps: `StagedIsNew` (a staged
bundle is renamed only to where nothing is) and `Kept`, of every key that neither changed by
itself nor was left unsynchronized: outside the import of that key, what a power cut would
leave of it is what is on the disk, and a listed key loads and agrees with its row.

### A capture

`AudioCaptureProofs` proves for every warmup, queue size, number of waiting lines and number
of blocks (`CaptureAssumption`), over the driver's contract `Dmic`:

| Theorem | Statement |
|---|---|
| `CaptureInductive` | `Spec => []CaptureIInv` |
| `AudioInvariant` | `AudioInv`: power is off at rest, blocks are consecutive, a quiescent device is drained |
| `SwitchWins` | `SwitchCutsPower`: after the switch's interrupt the microphone has no power |
| `FinalizedComplete` | a finalized capture holds every block completed after the warmup |
| `CutoffInterrupts` | a capture that a cutoff hit is never finalized |

The argument. None of the properties is inductive, because owner, reader and interrupts meet
only through flags. `CaptureIInv` says what each flag witnesses while the others run:

- `Turns`: a reader runs only between the end of a start and the end of its drain, so
  start and reader never touch the same fields; what is done but not quiescent is in quarantine
  with its fault latched;
- `Powered` and `Switched`: who may have switched the power on, and that a switch which
  goes off during a start is latched, as an edge, a moved generation or a fault, before
  the locked section that switches it on looks. The generation is needed exactly between
  the sample and `Relatch`, where `ClearLatches` forgets a fault that came too early;
- `CutLatched`: the same for a cutoff, up to the fault that the owner has read at the seal;
- `Blocks`, `Consecutive` and `Tracked`: as long as no fault is latched, what the recorder has
  kept, what waits in the queue, what the reader holds and what the driver has ready are
  the blocks completed since the reset, in order and without a gap, so that a drained
  device and an empty queue leave nothing behind (`Complete`).

All its parts were checked by TLC within the bounds of the run `audio_capture` before they were
proved.

### The microphone driver

`DmicDriverProofs` proves for every set of blocks, queue size, number of blocks per reset and
set of refusals (`DriverAssumption`):

| Theorem | Statement |
|---|---|
| `DriverInductive` | `Spec => []DriverIInv` |
| `DriverInvariant` | `DriverInv`: a block has one owner, the clock's references are balanced |
| `DriverImplementsDmic` | `ImplementsDmic`: every behaviour of the driver is one of `Dmic` |

The argument. A critical section is a chain of functions on one record, so the proof goes along
the chain: for each function a lemma says what it leaves of *any* record (`FinishStopFacts`,
`StopFacts`, `ReleaseFacts`, `SuppliedFacts`, `ReclaimedFacts`), and an action is the
composition of the lemmas of the functions it calls.

- `Safe` holds at every point of a section: slab, DMA slots, queue and the application's hands
  partition the blocks, what is armed is in DMA slots without a repetition, and the clock is
  owned while it is needed.
- `Orderly` holds between sections only: what each state of nrfx says of the flags. It is what
  makes `OneOwner` inductive: a stop before the first STARTED is safe because it is deferred exactly
  while `hw_started` is false and a slot is in use, which `Orderly` relates to nrfx being armed.
- `Stoppable` is the part of it that `stop_pdm` needs, so that one lemma (`StopOrderly`) covers
  its calls from the handler, the clock's callback, a failed start and the application.
- For the refinement, an interrupt that ends a run is the contract's `Stop`, or its `Fail` when
  the block in hand was counted; one that keeps it going is `Complete` or no step at all.

The theorems about a capture are about any microphone that keeps this contract, and
`DriverImplementsDmic` says that this driver does. Capture and driver meet in the contract only:
no run and no theorem puts both in one specification.

### The pairing policy

`PairingProofs` proves for every set of connection objects and keys, number of attempts, queue
size, window limit and number of link generations, renewed while they last or not
(`PairingAssumption`):

| Theorem | Statement |
|---|---|
| `PairingInductive` | `Spec => []PairingIInv` |
| `PairingInvariant` | `PairingInv`: every reference to a connection is accounted for exactly once, an attempt is selected only with a window |
| `SpoiledHungUp` | `SpoiledIsHungUp`: a connection whose attempt ended without success is hung up before the thread that ended it has returned |
| `ConsoleGoesForward` | `ToldInOrder`: windows and attempts are told in order, nothing follows the end of a window, no key follows the cancellation of its attempt |

Assumptions: those of the model. The stack's thread and the work queue are cooperative, and a
connection object is not used again before its last reference is given back.

The argument. A call is several sections with other threads in between, so what is true of
the policy alone is not enough: each part of `PairingIInv` says what the frames that a thread
has still to execute may rely on.

- `Queued` and `Exclusive`: what stacks of frames there are. A callback is alone on the
  stack's thread and at most one cooperative thread is between two frames. Only therefore does
  a callback still see the link and the generation it read (`Informed`).
- `Policy` and `Connected`: the queue holds keys of the selected attempt, or the one event
  that ended the last, and all of the counter's window; generations are new, and an
  attempt of the current one is on its connection.
- `Barred` and `Doomed`: what was cancelled of the current generation, queued or already told,
  is spoiled, and some thread holds a frame that will hang it up (`Ending`). That the frame's
  generation is compared again just before the hangup does not let the spoiled link escape,
  because a renewed generation is not the spoiled one.
- `Forward`: neither what was told last nor the key that the owner is looking at is ahead of
  what may still be told (`Behind`), and the key may follow what was told (`Later`). Queued
  events are part of it, because the event that ends an attempt waits there after the
  attempt, and its link, are gone.
- `Balanced`: a connection's references are those of the frames that will give one back, of the
  link and of the attempt. A frame moves at most one, so each section is shown to be settled by
  itself (`Settled`, `BalancedKept`); that this count is the one of `RefsBalanced`
  is a lemma about cardinalities (`BalancedIsRefsBalanced`).

`PairingIInv` was checked by TLC within the bounds of the run `pairing_faults` before it was
proved.

### The recovery

`RecoveryProofs` proves about phone and recorder together, for every number of captures, every
set of versions and their record boundaries, chunk, transaction limit, number of retries,
lifecycle generations, process deaths and export epochs, and every set of troubles
(`TransferAssumption`, `RecoveryAssumption`):

| Theorem | Statement |
|---|---|
| `RecoveryInductive` | `Spec => []RecoveryIInv` |
| `RecoveryIsSound` | `RecoveryInv`: what is saved is whole records of one version, and finished only when it is all of it |
| `ClaimsAreTrue` | `ClaimsHold`: COMPLETE is shown only of captures that are whole in the database and in the library |
| `DeliveryInLockstep` | `Lockstep`: the recorder's selection has delivered what the phone received and the one answer on its way |
| `ProgressIsKept` | `NeverShrinks`: no step gives up committed units or a finished source |
| `WakeIsKept` | `WakeKept`: no pass swallows a wake that came during it |

Assumptions: those of the constants. A version is a positive number, because 0 stands for none
in the engine and in the worker; a connection carries `HELLO` and the whole catalog, as the
code requires. No fairness is used.

The argument. `SavedIsWhole` is not inductive: an answer that arrives late, twice, or for an
earlier command would break it. So the invariant says, along the path of a unit from the journal
to the database, what each holder may rely on.

- `Asked`, `Placed`: the command that is waited for is the one that the worker's place asks for,
  under the last transaction number given out. Since the catalog needs one command per source,
  the number also says where in the catalog the worker is, so it is never at the limit there.
- `Held`: version and key of the source at hand are the pinned ones, and the row holds the whole
  records of what was received. That `received` never passes the end of the version is what makes
  an append and a seal right.
- `Kept`, `Shown`: a source that the pass is done with is finished and imported, or counted as
  failed (`Tried`, `Whereabouts`). COMPLETE is shown when none failed, hence is true.
- `Wired`, `Proper`: whatever is in the slot was written by the worker, and an answer to the
  command that is waited for says what the current selection justifies. Answers to earlier
  commands may say anything: the worker drops them by their number.
- `Counted`: a command is written at most twice, so at most two answers to it are due, and at
  most one to an earlier one. Without it a third answer could meet a later command.
- `Paced`, `Chosen`: the engine is at the worker's command or at the one before it, and a cached
  answer is the answer that it sent. So a repeat is answered with what was delivered, and the
  cursor moves once per command.
- `Closed`: a connection that is not open carries nothing, and neither does one that a failed
  source gave up. Every answer the worker reads is thereby of the connection it is on.

The engine's steps and the worker's meet only in `Connected`; a connection that is hung up
(`Hung`) satisfies all of it, which settles every step that ends one. The lemmas about whole
chunks and boundaries (`WholeIsLast`, `SizeIsLast`, `StoreMoves`) are about any set of
boundaries with a greatest element.

TLC checked `RecoveryIInv` within the bounds of both recovery runs before it was proved.
`GivesUpForCause` is about the bounds as much as about the code (section 7).

Every proof is hierarchical: per action one step, per disturbed conjunct one below it.

## 6. Where the code and its documents disagree

Checked by a run: `docs/a04/radio-integration.md:81-83` says that a local capture during an
authenticated session cancels volatile work and *retains the authenticated session*; the
header says the same. The code retains it while the capture runs. But
preparing storage moves the journal's export epoch, and the guard at the top of
`aura_transfer_step` then answers `SOURCE_CHANGED`, which `aura_gatt_owner_tick` takes for
a failure of the engine: it ends the session and the proof and disconnects the
phone. The run `radio_capture` gives the sequence with a phone and a radio that do
nothing wrong. The phone recovers by a new connection, so nothing is lost; whether the
document or the code is right is for the maintainers to say. The host test of preemption
(`tests/host_gatt.c:300-305`) does not move the epoch and so cannot see it.

Met while modelling, and kept in the models as the code does it:

- *A deadline inside `aura_pairing_open`.* `expire_if_due` and the opening are two locked
  sections (`aura_pairing_zephyr.c:97`). A deadline that passes between them replaces the
  window without detaching its attempt, so the attempt of a window that timed out stays
  selected in the new one. `docs/a04/session-auth-v1.md:263-264` says that a timeout must
  discard the attempt; the tests (`firmware/a04/radio/tests/pairing_stub/test.c:169`) let the
  deadline pass only between calls. `INVARIANT TimeoutDiscards` added to
  `PairingFaults.cfg` gives the sequence. What the model does guarantee is `SpoiledIsHungUp`
  and that no window outlives its own deadline (`WindowEnds`).
- *A key of a cancelled attempt.* When the generation of a link is renewed between the two
  sections of `aura_pairing_take`, the key of an attempt that was cancelled can be returned
  while the next attempt on the same connection is under way. `ToldInOrder` excludes a key
  only after the cancellation of its attempt was shown.
- *Unsynchronized directories.* The comment at `CaptureStore.kt:52-54` and
  `mobile/android/README.md:57` say that a bundle is synchronized before it is listed. After a
  death between rename and synchronization, reconciliation (`CaptureStore.kt:393`) and the
  import of the same bundle list it without synchronizing its directory. `ListedStays`
  excludes exactly these keys (`unsynced`).
- *Repair after an upgrade.* `companion/README.md:20` says that a missing final sidecar can be
  repaired by importing again. If the decoder was upgraded between the interrupted
  publication and the repair, the files it finds differ from what it would write, and the
  import ends in a conflict (`archive_import.py:267-269`).

## 7. Only model-checked, and not modelled

Only model-checked: the radio link (`RadioInv`, `SentIsWhole`), and `GivesUpForCause` of the
recovery. The latter is not true of all constants: a record that is longer than one connection
can carry makes no progress from one connection to the next, and the worker gives its source up.
That the program's limits (65535 commands) exclude it is arithmetic about record sizes that the
model abstracts from, so the bounds of `recovery_ends` are part of what that run says.
Liveness (`StopSettles`, `StopEnds`, `ClosedHangsUp`, `ResponseEnds`,
`WindowEnds`, `PassEnds`) stays with TLC for good: the prover has no rules for
`ENABLED` and fairness. Results about recursive definitions over data stay with TLC as
well, since the library's induction theorems take an operator as parameter that no
installed backend can instantiate.

Not modelled, and why:

- SHA-256, HMAC, CRC, CBOR and Opus are data: a check passes or fails.
- The NAND driver (`aura_w25n01gv.c`): its results, with every fault it can report, are inputs
  of the ledger and of the storage owner. Its resolution of a lost acknowledgement by status
  and readback is a matter of one call.
- Page programming inside one data block and the export cursor page by page: a torn block is
  in `StorageOwner` as what it can read as. That a block with a torn header makes the
  cursor refuse every export (`aura_journal.c:183`) is therefore not visible.
- `AndroidGattConnection.kt` beyond its one exchange: the race of `close()` with a
  `connectGatt` that has not returned lies inside the platform's callback contract, which
  the source does not show.
- The companion's notes and upload keep no state but the files they write.
- The portal: its operations are transactions of the Convex runtime, and its pages present
  them. A token that is revoked between its resolution and its use (`notes.ts:221`) is the
  one interleaving there, and is noted as a hazard.
- The A03 firmware is the older board's; its journal and capture thread are superseded by
  the components modelled here.
- Bench and probe programs, user interfaces and the bench host tool present or exercise what
  is modelled and keep no state of their own that matters to it.
- The wire command `CANCEL` of the transfer engine, which the phone never sends, and the end
  of its selection handles (`next_handle` at `UINT32_MAX`, `aura_transfer.c:167`).
- The counters of the radio link end at the bound of the model as they do at `UINT64_MAX`
  (`aura_gatt_zephyr.c:88`), but no property tells whether a number would be reused there.
- The latch of the PDM driver after a stop that the hardware layer refused, and a write to the
  microphone's power pin that fails: both are faults of a peripheral of the chip itself.

## 8. What is left

1. *Journal*: page by page, mount after a cut at any page, the export cursor; then
   `StorageOwner`'s block states as its abstraction.
2. *Android connection*: callback owner and waiting exchange, implementing the exchange that
   `Recovery` assumes.
3. *NAND driver*: fault latches and the program order inside a block.
4. *Portal* and *A03*.
5. Proofs: `OnlyToOwner` and `OneFlight` of `RadioLink`, with what each section under the spin
   lock may rely on as the inductive invariant.
