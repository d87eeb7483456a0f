---------------------------- MODULE ArchiveImport ----------------------------
(***************************************************************************)
(* The companion's import of an archive file (archive_import.py): it       *)
(* verifies the file, commits packets and seal to a receiver database      *)
(* (protocol_v2.py) and publishes a bundle of files, the evidence last.    *)
(* Every name binds the archive's terminal digest.  A process may die      *)
(* between any two steps, and the decoder may be upgraded between any two  *)
(* imports.                                                                *)
(*                                                                         *)
(* A packet is its number, so a recorder's capture is a packet count.  An  *)
(* interrupted seal is a function of the packets before it, so one that    *)
(* the reader derives and one that the recorder wrote have one digest,     *)
(* while the files differ.  The Ogg export depends on nothing but the      *)
(* archive and cannot conflict: it is left out.                            *)
(***************************************************************************)
EXTENDS Naturals

CONSTANTS
  Capture,      \* captures of one recorder
  MaxPackets,   \* packets of a capture
  File,         \* archive files that the user may choose
  MaxDecoder,   \* versions of the installed decoder
  MaxFaults,    \* faults that are considered: here, deaths of an importing process
  None          \* nothing, where a file or a job may be

\* tail tells files apart that break off at different bytes of one record.
Bytes == [cap : Capture, n : 0 .. MaxPackets, seal : {"none", "interrupted", "final"},
          tail : Nat]

ASSUME ImportAssumption ==
  /\ File \subseteq Bytes /\ MaxPackets \in Nat /\ MaxDecoder \in Nat \ {0}
  /\ MaxFaults \in Nat /\ None \notin Bytes
  /\ \A f \in File : f.seal # "none" => f.tail = 0

VARIABLES
  recorder,   \* recorder[c]: packets of c and how c ended on the recorder
  receipts,   \* archives that are whole in their receiver database
  shelf,      \* shelf[a]: files published under the digest of archive a
  job,        \* the import that holds the output directory's lock
  decoder,    \* version of the installed decoder
  faults      \* faults so far

importVars == <<recorder, receipts, shelf, job, decoder, faults>>

\* _ArchiveStream: a file without a seal is closed behind its last record.
Archive(f) ==
  [cap |-> f.cap, n |-> f.n, end |-> IF f.seal = "final" THEN "final" ELSE "interrupted"]

Archives == {Archive(f) : f \in File}

Empty == [raw |-> None, wav |-> 0, meta |-> None]

ImportInit ==
  /\ recorder = [c \in Capture |-> [n |-> 0, end |-> "absent"]]
  /\ receipts = {} /\ shelf = [a \in Archives |-> Empty]
  /\ job = None /\ decoder = 1 /\ faults = 0

-----------------------------------------------------------------------------
(* The recorder, as far as its archives show it. *)

Recording == \E c \in Capture : recorder[c].end = "open"

RecorderIs(c, end, n) == recorder' = [recorder EXCEPT ![c] = [n |-> n, end |-> end]]

StartRecording(c) ==
  /\ recorder[c].end = "absent" /\ ~ Recording
  /\ RecorderIs(c, "open", 0)
  /\ UNCHANGED <<receipts, shelf, job, decoder, faults>>

RecordPacket(c) ==
  /\ recorder[c].end = "open" /\ recorder[c].n < MaxPackets
  /\ RecorderIs(c, "open", recorder[c].n + 1)
  /\ UNCHANGED <<receipts, shelf, job, decoder, faults>>

EndRecording(c, end) ==
  /\ recorder[c].end = "open"
  /\ RecorderIs(c, end, recorder[c].n)
  /\ UNCHANGED <<receipts, shelf, job, decoder, faults>>

Finalized(c) == recorder[c].end \in {"final", "erasing", "gone"}

\* The user may hold any copy of an export, whole or broken off.
Obtainable(f) ==
  /\ recorder[f.cap].end # "absent" /\ f.n <= recorder[f.cap].n
  /\ f.seal = "final" => Finalized(f.cap) /\ f.n = recorder[f.cap].n
  /\ f.seal = "interrupted" /\ Finalized(f.cap) => f.n < recorder[f.cap].n

-----------------------------------------------------------------------------
(* The import.  Its lock admits one process at a time. *)

\* Evidence is there, and it still describes the files beside it.
Published(f) ==
  LET s == shelf[Archive(f)]
  IN s.meta # None /\ s.meta = [raw |-> s.raw, wav |-> s.wav]

\* A bundle with its evidence is verified, not decoded again; the receiver
\* database is brought up to date.  A bundle of other bytes is a conflict.
ReuseBundle(f) ==
  /\ job = None /\ Obtainable(f)
  /\ Published(f) /\ shelf[Archive(f)].raw = f
  /\ receipts' = receipts \cup {Archive(f)}
  /\ UNCHANGED <<recorder, shelf, job, decoder, faults>>

\* Take the lock, copy, read and decode: all of it in a temporary directory.
BeginImport(f) ==
  /\ job = None /\ Obtainable(f)
  /\ shelf[Archive(f)].meta = None
  /\ job' = [file |-> f, wav |-> decoder, stage |-> "decoded"]
  /\ UNCHANGED <<recorder, receipts, shelf, decoder, faults>>

At(stage) == job # None /\ job.stage = stage

\* One transaction of DurableReceiver.import_archive.
CommitReceipt ==
  /\ At("decoded")
  /\ receipts' = receipts \cup {Archive(job.file)}
  /\ job' = [job EXCEPT !.stage = "received"]
  /\ UNCHANGED <<recorder, shelf, decoder, faults>>

\* Mutant of MayPublish: what stands there already is taken for this file.
MayPublishUnread(present, absent, mine) == TRUE

\* _publish_or_verify: a file that is there already must be the same file.
MayPublish(present, absent, mine) == present \in {absent, mine}

PublishArchive ==
  LET a == Archive(job.file)
  IN /\ At("received")
     /\ MayPublish(shelf[a].raw, None, job.file)
     /\ shelf' = [shelf EXCEPT ![a].raw = IF @ = None THEN job.file ELSE @]
     /\ job' = [job EXCEPT !.stage = "archive"]
     /\ UNCHANGED <<recorder, receipts, decoder, faults>>

PublishAudio ==
  LET a == Archive(job.file)
  IN /\ At("archive")
     /\ MayPublish(shelf[a].wav, 0, job.wav)
     /\ shelf' = [shelf EXCEPT ![a].wav = IF @ = 0 THEN job.wav ELSE @]
     /\ job' = [job EXCEPT !.stage = "audio"]
     /\ UNCHANGED <<recorder, receipts, decoder, faults>>

\* The evidence names the hashes of the staged files.
PublishEvidence ==
  /\ At("audio")
  /\ shelf' = [shelf EXCEPT ![Archive(job.file)].meta = [raw |-> job.file, wav |-> job.wav]]
  /\ job' = None
  /\ UNCHANGED <<recorder, receipts, decoder, faults>>

\* A conflict ends the import and leaves every published file as it is.
ImportRefused ==
  LET s == shelf[Archive(job.file)]
  IN /\ \/ At("received") /\ ~ MayPublish(s.raw, None, job.file)
        \/ At("archive") /\ ~ MayPublish(s.wav, 0, job.wav)
     /\ job' = None
     /\ UNCHANGED <<recorder, receipts, shelf, decoder, faults>>

ImportStep == CommitReceipt \/ PublishArchive \/ PublishAudio \/ PublishEvidence \/ ImportRefused

\* The process dies, or a write fails; the lock and its files go with it.
ImportDies ==
  /\ job # None /\ faults < MaxFaults
  /\ job' = None /\ faults' = faults + 1
  /\ UNCHANGED <<recorder, receipts, shelf, decoder>>

\* A running import keeps the decoder that it began with.
Upgrade ==
  /\ job = None /\ decoder < MaxDecoder
  /\ decoder' = decoder + 1
  /\ UNCHANGED <<recorder, receipts, shelf, job, faults>>

ImportNext ==
  \/ \E c \in Capture : \/ StartRecording(c) \/ RecordPacket(c)
                        \/ \E end \in {"interrupted", "final"} : EndRecording(c, end)
  \/ \E f \in File : ReuseBundle(f) \/ BeginImport(f)
  \/ ImportStep \/ ImportDies \/ Upgrade

ImportSpec == ImportInit /\ [][ImportNext]_importVars

-----------------------------------------------------------------------------
ImportTypeOK ==
  /\ recorder \in [Capture -> [n : 0 .. MaxPackets,
                               end : {"absent", "open", "interrupted", "final", "erasing", "gone"}]]
  /\ receipts \subseteq Archives
  /\ shelf \in [Archives -> [raw : File \cup {None}, wav : 0 .. MaxDecoder,
                             meta : [raw : File, wav : 1 .. MaxDecoder] \cup {None}]]
  /\ job \in [file : File, wav : 1 .. MaxDecoder,
              stage : {"decoded", "received", "archive", "audio"}] \cup {None}
  /\ decoder \in 1 .. MaxDecoder /\ faults \in 0 .. MaxFaults

\* Evidence on the shelf describes exactly the archive and the audio beside it,
\* whatever died and whatever decoder was installed in between; the archive is
\* the one its name binds (archive_import.py publishes the evidence last).
EvidenceTrue ==
  \A a \in Archives : shelf[a].meta # None =>
    /\ shelf[a].meta = [raw |-> shelf[a].raw, wav |-> shelf[a].wav]
    /\ Archive(shelf[a].raw) = a
===============================================================================
