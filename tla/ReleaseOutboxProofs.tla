------------------------- MODULE ReleaseOutboxProofs -------------------------
(***************************************************************************)
(* Proofs about ReleaseOutbox and the imports it composes, for any         *)
(* captures, archive files, callers, requests and number of faults.        *)
(*                                                                         *)
(* OutboxIInv is inductive.  Its parts follow a capture from the recorder  *)
(* to its erasure: what a receiver holds as final is what the recorder     *)
(* has (ReceiptsTrue); every request, row and command names such a copy    *)
(* (SourcesCopied); and while no older outbox was put back, every command  *)
(* is a row of the outbox, the recorder's floor is that of the command it  *)
(* took last, and what it erased lies behind that floor (Agreement).  How  *)
(* far the recorder is behind the outbox follows from these, whatever the  *)
(* caller calls completed.                                                 *)
(***************************************************************************)
EXTENDS ReleaseOutbox, SequenceTheorems, TLAPS

Truth(a) == a.end = "final" => Finalized(a.cap) /\ recorder[a.cap].n = a.n

ReceiptsTrue == \A a \in receipts \cup lost : Truth(a)

\* What an import has published so far stands on the shelf, and no evidence yet.
JobTrue ==
  job # None =>
    LET s == shelf[Archive(job.file)]
    IN /\ Truth(Archive(job.file)) /\ s.meta = None
       /\ job.stage \in {"archive", "audio"} => s.raw = job.file
       /\ job.stage = "audio" => s.wav = job.wav

ShelfNamed == \A a \in Archives : shelf[a].raw # None => Archive(shelf[a].raw) = a

Copied(a) == a \in receipts \cup lost /\ a.end = "final"

\* Nothing is requested, kept, handed out or granted but over a whole copy.
SourcesCopied ==
  /\ \A p \in Caller : session[p] # None =>
       session[p].arc \in receipts /\ session[p].arc.end = "final"
  /\ \A i \in DOMAIN outbox.rows : Copied(outbox.rows[i].arc)
  /\ \A c \in sent : Copied(c.arc)
  /\ device.last # None => device.last \in sent
  /\ device.phase = "granted" => device.last # None

SentKnown == \A c \in sent : \E i \in DOMAIN outbox.rows : c = Command(outbox, i)

FloorKnown ==
  IF device.last = None THEN device.floor = outbox.base ELSE device.last.seq = device.floor

ErasedInOrder ==
  \A c \in Capture : recorder[c].end \in {"erasing", "gone"} =>
    \E i \in DOMAIN outbox.rows :
      outbox.rows[i].arc.cap = c /\ outbox.base + i <= device.floor

\* Recorder and outbox tell the same until an older outbox is put back.
Agreement == restores = 0 => SentKnown /\ FloorKnown /\ ErasedInOrder

OutboxIInv ==
  /\ TypeOK /\ restores <= faults
  /\ ReceiptsTrue /\ JobTrue /\ ShelfNamed /\ EvidenceTrue
  /\ OutboxWhole /\ SourcesCopied /\ ErasedIsCopied
  /\ Agreement

-----------------------------------------------------------------------------
(* Types *)

RowType == [id : Request, arc : Archives, done : BOOLEAN]

LEMMA ArchiveOfFile ==
  ASSUME NEW f \in File
  PROVE  /\ f \in Bytes /\ f # None
         /\ Archive(f) \in Archives
         /\ Archive(f).cap = f.cap /\ Archive(f).n = f.n
         /\ Archive(f).end = IF f.seal = "final" THEN "final" ELSE "interrupted"
<1>1. f \in Bytes /\ f # None
  BY ImportAssumption
<1> QED
  BY <1>1 DEF Archives, Archive

LEMMA ArchiveType ==
  ASSUME NEW a \in Archives
  PROVE  /\ a.cap \in Capture /\ a.n \in 0 .. MaxPackets /\ a.end \in {"interrupted", "final"}
         /\ a = [cap |-> a.cap, n |-> a.n, end |-> a.end]
<1>1. PICK f \in File : a = Archive(f)
  BY DEF Archives
<1>2. f \in Bytes
  BY ImportAssumption
<1> QED
  BY <1>1, <1>2 DEF Archive, Bytes

\* The outbox's commands in terms of its rows.
LEMMA RowFacts ==
  ASSUME TypeOK
  PROVE  /\ outbox.base \in Nat /\ outbox.rows \in Seq(RowType)
         /\ Len(outbox.rows) \in Nat /\ DOMAIN outbox.rows = 1 .. Len(outbox.rows)
         /\ \A i \in DOMAIN outbox.rows : /\ outbox.rows[i] \in RowType
                                          /\ Command(outbox, i) \in Commands
                                          /\ Command(outbox, i).seq = outbox.base + i
                                          /\ Command(outbox, i).arc = outbox.rows[i].arc
<1>1. outbox.base \in Nat /\ outbox.rows \in Seq(RowType)
  BY DEF TypeOK, RowType
<1>2. Len(outbox.rows) \in Nat /\ DOMAIN outbox.rows = 1 .. Len(outbox.rows)
  BY <1>1, LenProperties
<1>3. \A i \in DOMAIN outbox.rows : outbox.rows[i] \in RowType
  BY <1>1, <1>2, ElementOfSeq
<1> QED
  BY <1>1, <1>2, <1>3 DEF Command, Commands, RowType

\* What each step that writes the outbox does to its rows.
LEMMA CommitFacts ==
  ASSUME TypeOK, NEW p \in Caller, CommitRequest(p)
  PROVE  /\ session[p] \in Calls /\ session[p] # None
         /\ outbox' = [base |-> outbox.base, rows |-> outbox'.rows]
         /\ outbox'.rows \in Seq(RowType)
         /\ Len(outbox'.rows) = Len(outbox.rows) + 1
         /\ \A i \in 1 .. Len(outbox.rows) : outbox'.rows[i] = outbox.rows[i]
         /\ outbox'.rows[Len(outbox.rows) + 1] =
              [id |-> session[p].id, arc |-> session[p].arc, done |-> FALSE]
         /\ Command(outbox', Len(outbox.rows) + 1) =
              [seq |-> outbox.base + Len(outbox.rows) + 1, arc |-> session[p].arc]
<1> DEFINE r == [id |-> session[p].id, arc |-> session[p].arc, done |-> FALSE]
<1>1. session[p] \in Calls /\ session[p] # None
  BY DEF CommitRequest, TypeOK
<1>2. r \in RowType
  BY <1>1 DEF RowType, Calls
<1>3. outbox' = [outbox EXCEPT !.rows = Append(outbox.rows, r)]
  BY DEF CommitRequest
<1>4. outbox'.base = outbox.base /\ outbox'.rows = Append(outbox.rows, r)
      /\ outbox' = [base |-> outbox.base, rows |-> outbox'.rows]
  BY <1>3 DEF TypeOK
<1>5. /\ Append(outbox.rows, r) \in Seq(RowType)
      /\ Len(Append(outbox.rows, r)) = Len(outbox.rows) + 1
      /\ \A i \in 1 .. Len(outbox.rows) : Append(outbox.rows, r)[i] = outbox.rows[i]
      /\ Append(outbox.rows, r)[Len(outbox.rows) + 1] = r
  BY <1>2, RowFacts, AppendProperties
<1>6. Command(outbox', Len(outbox.rows) + 1) =
        [seq |-> outbox.base + Len(outbox.rows) + 1, arc |-> session[p].arc]
  <2>1. outbox'.rows[Len(outbox.rows) + 1].arc = session[p].arc
    BY <1>4, <1>5
  <2>2. outbox'.base + (Len(outbox.rows) + 1) = outbox.base + Len(outbox.rows) + 1
    <3>1. outbox.base \in Nat /\ Len(outbox.rows) \in Nat
      BY RowFacts
    <3>2. outbox'.base = outbox.base
      BY <1>4
    <3> QED
      BY <3>1, <3>2
  <2> QED
    BY <2>1, <2>2 DEF Command
<1> QED
  BY <1>1, <1>4, <1>5, <1>6

LEMMA CompletedFacts ==
  ASSUME TypeOK, NEW i \in DOMAIN outbox.rows, MarkCompleted(i)
  PROVE  /\ outbox' = [base |-> outbox.base, rows |-> outbox'.rows]
         /\ outbox'.rows \in Seq(RowType)
         /\ Len(outbox'.rows) = Len(outbox.rows)
         /\ \A j \in DOMAIN outbox.rows :
              outbox'.rows[j] = IF j = i THEN [outbox.rows[j] EXCEPT !.done = TRUE]
                                         ELSE outbox.rows[j]
<1> DEFINE r == [outbox.rows[i] EXCEPT !.done = TRUE]
<1>1. r \in RowType /\ i \in 1 .. Len(outbox.rows)
  BY RowFacts DEF RowType
<1>2. outbox'.rows = [outbox.rows EXCEPT ![i] = r]
      /\ outbox' = [base |-> outbox.base, rows |-> outbox'.rows]
  BY DEF MarkCompleted, TypeOK
<1> HIDE DEF r
<1>3. outbox.rows \in Seq(RowType) /\ DOMAIN outbox.rows = 1 .. Len(outbox.rows)
  BY RowFacts
<1>4. /\ [outbox.rows EXCEPT ![i] = r] \in Seq(RowType)
      /\ Len([outbox.rows EXCEPT ![i] = r]) = Len(outbox.rows)
      /\ \A j \in 1 .. Len(outbox.rows) :
           [outbox.rows EXCEPT ![i] = r][j] = IF j = i THEN r ELSE outbox.rows[j]
  BY <1>1, <1>3, ExceptSeq
<1> QED
  BY <1>2, <1>3, <1>4 DEF r

LEMMA ReplacedFacts ==
  ASSUME TypeOK, ReplaceOutbox
  PROVE  /\ outbox' = [base |-> outbox'.base, rows |-> outbox'.rows]
         /\ outbox'.base \in Nat /\ outbox'.rows \in Seq(RowType)
         /\ Len(outbox'.rows) <= Len(outbox.rows)
         /\ \A j \in 1 .. Len(outbox'.rows) :
              /\ outbox'.rows[j].id = outbox.rows[j].id
              /\ outbox'.rows[j].arc = outbox.rows[j].arc
              /\ outbox'.rows[j].done => outbox.rows[j].done
              /\ ~ outbox'.rows[j].done => j = Len(outbox'.rows) \/ ~ outbox.rows[j].done
<1>1. ASSUME NEW k \in 0 .. Len(outbox.rows)
      PROVE  /\ Older(k) = [base |-> outbox.base, rows |-> SubSeq(outbox.rows, 1, k)]
             /\ SubSeq(outbox.rows, 1, k) \in Seq(RowType)
             /\ Len(SubSeq(outbox.rows, 1, k)) = k
             /\ \A j \in 1 .. k : SubSeq(outbox.rows, 1, k)[j] = outbox.rows[j]
  <2>1. \A i \in 1 .. k : outbox.rows[i] \in RowType
    BY RowFacts
  <2>2. k \in Int /\ 1 \in Int
    BY RowFacts
  <2>3. /\ SubSeq(outbox.rows, 1, k) \in Seq(RowType)
        /\ Len(SubSeq(outbox.rows, 1, k)) = IF 1 <= k THEN k - 1 + 1 ELSE 0
        /\ \A j \in 1 .. k - 1 + 1 : SubSeq(outbox.rows, 1, k)[j] = outbox.rows[1 + j - 1]
    BY <2>1, <2>2, SubSeqProperties
  <2>4. Older(k) = [base |-> outbox.base, rows |-> SubSeq(outbox.rows, 1, k)]
    <3>1. outbox \in [base : Nat, rows : Seq(RowType)]
      BY DEF TypeOK, RowType
    <3>2. Older(k) = [outbox EXCEPT !.rows = SubSeq(outbox.rows, 1, k)]
      BY DEF Older
    <3>3. \A x : [outbox EXCEPT !.rows = x] = [base |-> outbox.base, rows |-> x]
      BY <3>1
    <3> QED
      BY <3>2, <3>3
  <2>5. Len(SubSeq(outbox.rows, 1, k)) = k /\ k - 1 + 1 = k
    BY <2>2, <2>3
  <2>6. \A j \in 1 .. k : 1 + j - 1 = j
    BY <2>2
  <2> QED
    BY <2>3, <2>4, <2>5, <2>6
<1>2. CASE \E k \in 0 .. Len(outbox.rows) : outbox' = Older(k)
  <2>1. PICK k \in 0 .. Len(outbox.rows) : outbox' = Older(k)
    BY <1>2
  <2>2. k <= Len(outbox.rows)
    BY RowFacts
  <2>3. outbox'.base = outbox.base /\ outbox'.rows = SubSeq(outbox.rows, 1, k)
    BY <1>1, <2>1
  <2> QED
    BY <1>1, <2>1, <2>2, <2>3, RowFacts
<1>3. CASE \E k \in 1 .. Len(outbox.rows) : outbox' = Reopened(Older(k))
  <2>1. PICK k \in 1 .. Len(outbox.rows) : outbox' = Reopened(Older(k))
    BY <1>3
  <2> DEFINE s == SubSeq(outbox.rows, 1, k)
             r == [outbox.rows[k] EXCEPT !.done = FALSE]
  <2>2. k \in 0 .. Len(outbox.rows) /\ k \in 1 .. k /\ r \in RowType
        /\ r.id = outbox.rows[k].id /\ r.arc = outbox.rows[k].arc /\ ~ r.done
    <3>1. outbox.rows[k] \in RowType
      BY RowFacts
    <3>2. k \in 0 .. Len(outbox.rows) /\ k \in 1 .. k
      BY RowFacts
    <3> QED
      BY <3>1, <3>2 DEF RowType
  <2>3. /\ Older(k) = [base |-> outbox.base, rows |-> s]
        /\ s \in Seq(RowType) /\ Len(s) = k
        /\ \A j \in 1 .. k : s[j] = outbox.rows[j]
    BY <1>1, <2>2
  <2> HIDE DEF s, r
  <2>4. outbox' = [base |-> outbox.base, rows |-> [s EXCEPT ![k] = r]]
    <3>1. [s[k] EXCEPT !.done = FALSE] = r
      BY <2>2, <2>3 DEF r
    <3> DEFINE box == [base |-> outbox.base, rows |-> s]
    <3>2. Len(box.rows) = k /\ box.rows = s
      BY <2>3
    <3>3. [box EXCEPT !.rows[Len(box.rows)].done = FALSE] =
            [box EXCEPT !.rows = [s EXCEPT ![k] = [s[k] EXCEPT !.done = FALSE]]]
      BY <3>2
    <3>4. Reopened(Older(k)) = [box EXCEPT !.rows = [s EXCEPT ![k] = r]]
      BY <2>3, <3>1, <3>3 DEF Reopened
    <3> QED
      BY <2>1, <3>4
  <2>5. /\ [s EXCEPT ![k] = r] \in Seq(RowType)
        /\ Len([s EXCEPT ![k] = r]) = Len(s)
        /\ \A j \in 1 .. Len(s) : [s EXCEPT ![k] = r][j] = IF j = k THEN r ELSE s[j]
    BY <2>2, <2>3, ExceptSeq
  <2> QED
    BY <2>2, <2>3, <2>4, <2>5, RowFacts
<1>4. CASE outbox' = [base |-> device.floor, rows |-> << >>]
  <2>1. << >> \in Seq(RowType) /\ Len(<< >>) = 0
    BY EmptySeq
  <2> QED
    BY <1>4, <2>1, RowFacts DEF TypeOK
<1> QED
  BY <1>2, <1>3, <1>4 DEF ReplaceOutbox

\* The imports keep their types.
LEMMA ImportTypeStep == ImportTypeOK /\ ImportNext => ImportTypeOK'
<1> SUFFICES ASSUME ImportTypeOK, ImportNext PROVE ImportTypeOK'
  OBVIOUS
<1> USE ImportAssumption DEF ImportTypeOK, RecorderIs
<1>1. ASSUME NEW c \in Capture, StartRecording(c) PROVE ImportTypeOK'
  BY <1>1 DEF StartRecording
<1>2. ASSUME NEW c \in Capture, RecordPacket(c) PROVE ImportTypeOK'
  <2>1. recorder[c].n + 1 \in 0 .. MaxPackets
    BY <1>2 DEF RecordPacket
  <2> QED
    BY <1>2, <2>1 DEF RecordPacket
<1>3. ASSUME NEW c \in Capture, NEW end \in {"interrupted", "final"}, EndRecording(c, end)
      PROVE  ImportTypeOK'
  BY <1>3 DEF EndRecording
<1>4. ASSUME NEW f \in File, ReuseBundle(f) PROVE ImportTypeOK'
  BY <1>4, ArchiveOfFile DEF ReuseBundle
<1>5. ASSUME NEW f \in File, BeginImport(f) PROVE ImportTypeOK'
  BY <1>5 DEF BeginImport
<1>6. ASSUME job # None PROVE job.file \in File /\ Archive(job.file) \in Archives
  BY <1>6, ArchiveOfFile
<1>7. CASE CommitReceipt
  BY <1>6, <1>7 DEF CommitReceipt, At
<1>8. CASE PublishArchive
  BY <1>6, <1>8 DEF PublishArchive, At
<1>9. CASE PublishAudio
  BY <1>6, <1>9 DEF PublishAudio, At
<1>10. CASE PublishEvidence
  BY <1>6, <1>10 DEF PublishEvidence, At
<1>11. CASE ImportRefused \/ ImportDies \/ Upgrade
  BY <1>11 DEF ImportRefused, ImportDies, Upgrade
<1> QED
  BY <1>1, <1>2, <1>3, <1>4, <1>5, <1>7, <1>8, <1>9, <1>10, <1>11 DEF ImportNext, ImportStep

\* Deaths are the only faults of an import.
LEMMA ImportFaults ==
  ASSUME ImportTypeOK, ImportNext
  PROVE  faults <= faults' /\ faults' \in Nat
BY ImportAssumption
   DEF ImportTypeOK, ImportNext, StartRecording, RecordPacket, EndRecording, ReuseBundle,
       BeginImport, ImportStep, CommitReceipt, PublishArchive, PublishAudio, PublishEvidence,
       ImportRefused, ImportDies, Upgrade

LEMMA TypeStep ==
  ASSUME TypeOK, restores <= faults, device.phase = "granted" => device.last # None, [Next]_vars
  PROVE  TypeOK' /\ restores' <= faults'
<1>1. faults \in 0 .. MaxFaults /\ restores \in 0 .. MaxFaults /\ MaxFaults \in Nat
  BY ImportAssumption DEF TypeOK, ImportTypeOK
<1>2. CASE ImportNext /\ UNCHANGED outboxVars
  BY <1>1, <1>2, ImportTypeStep, ImportFaults DEF TypeOK, outboxVars
<1>3. ASSUME NEW p \in Caller, NEW id \in Request, NEW a \in Archives, ReadSource(p, id, a)
      PROVE  TypeOK' /\ restores' <= faults'
  BY <1>3 DEF ReadSource, TypeOK, ImportTypeOK, importVars, Calls
<1>4. ASSUME NEW p \in Caller, CommitRequest(p) PROVE TypeOK' /\ restores' <= faults'
  <2>1. Command(outbox', Len(outbox.rows) + 1) \in Commands
    <3>1. outbox.base + Len(outbox.rows) + 1 \in Nat \ {0}
      BY RowFacts
    <3>2. session[p].arc \in Archives
      BY <1>4, CommitFacts DEF Calls
    <3>3. Command(outbox', Len(outbox.rows) + 1) =
            [seq |-> outbox.base + Len(outbox.rows) + 1, arc |-> session[p].arc]
      BY <1>4, CommitFacts
    <3> QED
      BY <3>1, <3>2, <3>3 DEF Commands
  <2>2. outbox' \in [base : Nat, rows : Seq(RowType)]
    <3>1. outbox.base \in Nat /\ outbox'.rows \in Seq(RowType)
      BY <1>4, CommitFacts, RowFacts
    <3>2. outbox' = [base |-> outbox.base, rows |-> outbox'.rows]
      BY <1>4, CommitFacts
    <3> QED
      BY <3>1, <3>2
  <2>3. sent' \subseteq Commands
    BY <1>4, <2>1 DEF CommitRequest, TypeOK
  <2>4. session' \in [Caller -> Calls \cup {None}]
    BY <1>4 DEF CommitRequest, TypeOK
  <2> QED
    BY <1>4, <2>2, <2>3, <2>4 DEF CommitRequest, TypeOK, ImportTypeOK, importVars, RowType
<1>5. ASSUME NEW p \in Caller, RepeatRequest(p) PROVE TypeOK' /\ restores' <= faults'
  <2>1. sent' \subseteq Commands
    BY <1>5, RowFacts DEF RepeatRequest, TypeOK
  <2>2. session' \in [Caller -> Calls \cup {None}]
    BY <1>5 DEF RepeatRequest, TypeOK
  <2> QED
    BY <1>5, <2>1, <2>2 DEF RepeatRequest, TypeOK, ImportTypeOK, importVars
<1>6. ASSUME NEW p \in Caller, AbandonRequest(p) PROVE TypeOK' /\ restores' <= faults'
  BY <1>6 DEF AbandonRequest, TypeOK, ImportTypeOK, importVars
<1>7. ASSUME NEW i \in DOMAIN outbox.rows, Retry(i) PROVE TypeOK' /\ restores' <= faults'
  <2>1. sent' \subseteq Commands
    BY <1>7, RowFacts DEF Retry, TypeOK
  <2> QED
    BY <1>7, <2>1 DEF Retry, TypeOK, ImportTypeOK, importVars
<1>8. ASSUME NEW i \in DOMAIN outbox.rows, MarkCompleted(i) PROVE TypeOK' /\ restores' <= faults'
  <2>1. outbox' \in [base : Nat, rows : Seq(RowType)]
    <3>1. outbox.base \in Nat /\ outbox'.rows \in Seq(RowType)
      BY <1>8, CompletedFacts, RowFacts
    <3> QED
      BY <1>8, <3>1, CompletedFacts
  <2> QED
    BY <1>8, <2>1 DEF MarkCompleted, TypeOK, ImportTypeOK, importVars, RowType
<1>10. ASSUME NEW c \in sent, Grant(c) PROVE TypeOK' /\ restores' <= faults'
  <2>1. c \in Commands /\ c.arc \in Archives /\ c.seq \in Nat
    BY DEF TypeOK, Commands
  <2>2. recorder' \in [Capture -> [n : 0 .. MaxPackets,
               end : {"absent", "open", "interrupted", "final", "erasing", "gone"}]]
    BY <1>10, <2>1, ArchiveType DEF Grant, RecorderIs, TypeOK, ImportTypeOK
  <2>3. device' \in [floor : Nat, last : Commands \cup {None}, phase : {"idle", "granted"}]
    BY <1>10, <2>1 DEF Grant
  <2> QED
    BY <1>10, <2>2, <2>3 DEF Grant, TypeOK, ImportTypeOK
<1>11. CASE EraseLast
  <2>1. device.last.arc \in Archives
    BY <1>11 DEF EraseLast, TypeOK, Commands
  <2>2. recorder' \in [Capture -> [n : 0 .. MaxPackets,
               end : {"absent", "open", "interrupted", "final", "erasing", "gone"}]]
    BY <1>11, <2>1, ArchiveType DEF EraseLast, RecorderIs, TypeOK, ImportTypeOK
  <2>3. device' \in [floor : Nat, last : Commands \cup {None}, phase : {"idle", "granted"}]
    BY <1>11 DEF EraseLast, TypeOK
  <2> QED
    BY <1>11, <2>2, <2>3 DEF EraseLast, TypeOK, ImportTypeOK
<1>12. ASSUME NEW a \in Archives, ChangeSource(a) PROVE TypeOK' /\ restores' <= faults'
  BY <1>1, <1>12 DEF ChangeSource, TypeOK, ImportTypeOK
<1>13. CASE ReplaceOutbox
  <2>1. outbox' \in [base : Nat, rows : Seq(RowType)]
    BY <1>13, ReplacedFacts
  <2> QED
    BY <1>1, <1>13, <2>1 DEF ReplaceOutbox, TypeOK, ImportTypeOK, RowType
<1>14. CASE UNCHANGED vars
  BY <1>14 DEF vars, importVars, outboxVars, TypeOK, ImportTypeOK
<1> QED
  BY <1>2, <1>3, <1>4, <1>5, <1>6, <1>7, <1>8, <1>10, <1>11, <1>12, <1>13, <1>14 DEF Next

-----------------------------------------------------------------------------
(* The recorder and the receivers *)

\* What the recorder granted last is a copy that tells the truth.
LEMMA LastIsTrue ==
  ASSUME TypeOK, SourcesCopied, ReceiptsTrue, device.last # None
  PROVE  /\ device.last \in sent /\ device.last \in Commands
         /\ device.last.arc \in Archives /\ device.last.arc.cap \in Capture
         /\ Copied(device.last.arc)
         /\ Finalized(device.last.arc.cap)
         /\ recorder[device.last.arc.cap].n = device.last.arc.n
<1>1. device.last \in sent /\ device.last \in Commands /\ device.last.arc \in Archives
      /\ Copied(device.last.arc)
  BY DEF SourcesCopied, TypeOK, Commands
<1>2. Truth(device.last.arc)
  BY <1>1 DEF ReceiptsTrue, Copied
<1> QED
  BY <1>1, <1>2, ArchiveType DEF Truth, Copied

\* A finalized capture stays finalized and keeps its packets.
LEMMA RecorderMoves ==
  ASSUME TypeOK, SourcesCopied, ReceiptsTrue, [Next]_vars, NEW c \in Capture
  PROVE  Finalized(c) => Finalized(c)' /\ recorder'[c].n = recorder[c].n
<1> USE DEF TypeOK, ImportTypeOK, RecorderIs, Finalized
<1>1. CASE UNCHANGED recorder
  BY <1>1
<1>2. ASSUME NEW d \in Capture, StartRecording(d) PROVE Finalized(c) => recorder'[c] = recorder[c]
  BY <1>2 DEF StartRecording
<1>3. ASSUME NEW d \in Capture, RecordPacket(d) PROVE Finalized(c) => recorder'[c] = recorder[c]
  BY <1>3 DEF RecordPacket
<1>4. ASSUME NEW d \in Capture, NEW end \in {"interrupted", "final"}, EndRecording(d, end)
      PROVE  Finalized(c) => recorder'[c] = recorder[c]
  BY <1>4 DEF EndRecording
<1>5. ASSUME NEW m \in sent, Grant(m)
      PROVE  Finalized(c) => Finalized(c)' /\ recorder'[c].n = recorder[c].n
  BY <1>5 DEF Grant, Acceptable
<1>6. CASE EraseLast
  <2>1. device.last # None
    BY <1>6 DEF EraseLast, SourcesCopied
  <2> QED
    BY <1>6, <2>1, LastIsTrue DEF EraseLast
<1>7. \/ UNCHANGED recorder
      \/ EraseLast
      \/ \E d \in Capture : \/ StartRecording(d) \/ RecordPacket(d)
                            \/ \E end \in {"interrupted", "final"} : EndRecording(d, end)
      \/ \E m \in sent : Grant(m)
  BY DEF Next, ImportNext, ImportStep, ReuseBundle, BeginImport, CommitReceipt, PublishArchive,
         PublishAudio, PublishEvidence, ImportRefused, ImportDies, Upgrade, importVars,
         ReadSource, CommitRequest, RepeatRequest, AbandonRequest, Retry, MarkCompleted,
         ChangeSource, ReplaceOutbox, vars
<1> QED
  BY <1>1, <1>2, <1>3, <1>4, <1>5, <1>6, <1>7

LEMMA ObtainableTrue ==
  ASSUME NEW f \in File, Obtainable(f)
  PROVE  Truth(Archive(f))
BY ArchiveOfFile DEF Obtainable, Truth

\* A receiver gains only what an import may write, and loses nothing that is
\* not noted.
LEMMA ReceiptsMove ==
  ASSUME TypeOK, JobTrue, [Next]_vars
  PROVE  /\ receipts \cup lost \subseteq receipts' \cup lost'
         /\ lost' \subseteq receipts \cup lost
         /\ \A a \in receipts' : a \in receipts \/ Truth(a)
<1> USE DEF TypeOK, ImportTypeOK
<1>1. ASSUME NEW f \in File, ReuseBundle(f) PROVE \A a \in receipts' : a \in receipts \/ Truth(a)
  BY <1>1, ObtainableTrue DEF ReuseBundle
<1>2. ASSUME CommitReceipt PROVE \A a \in receipts' : a \in receipts \/ Truth(a)
  BY <1>2 DEF CommitReceipt, At, JobTrue
<1>3. CASE ImportNext /\ UNCHANGED outboxVars
  <2>1. receipts \subseteq receipts' /\ lost' = lost
    BY <1>3 DEF ImportNext, ImportStep, StartRecording, RecordPacket, EndRecording, ReuseBundle,
         BeginImport, CommitReceipt, PublishArchive, PublishAudio, PublishEvidence,
         ImportRefused, ImportDies, Upgrade, outboxVars
  <2>2. \A a \in receipts' : a \in receipts \/ Truth(a)
    BY <1>1, <1>2, <1>3 DEF ImportNext, ImportStep, StartRecording, RecordPacket, EndRecording,
         BeginImport, PublishArchive, PublishAudio, PublishEvidence, ImportRefused, ImportDies,
         Upgrade
  <2> QED
    BY <2>1, <2>2
<1>4. ASSUME NEW a \in Archives, ChangeSource(a)
      PROVE  /\ receipts \cup lost \subseteq receipts' \cup lost'
             /\ receipts' \subseteq receipts /\ lost' \subseteq receipts \cup lost
  BY <1>4 DEF ChangeSource
<1>5. CASE UNCHANGED <<receipts, lost>>
  BY <1>5
<1>6. \/ ImportNext /\ UNCHANGED outboxVars
      \/ \E a \in Archives : ChangeSource(a)
      \/ UNCHANGED <<receipts, lost>>
  BY DEF Next, importVars, outboxVars, ReadSource, CommitRequest,
         RepeatRequest, AbandonRequest, Retry, MarkCompleted, Grant, EraseLast,
         ReplaceOutbox, vars
<1>7. CASE \E a \in Archives : ChangeSource(a)
  BY <1>4, <1>7
<1> QED
  BY <1>3, <1>5, <1>6, <1>7

\* What was once true of an archive stays true.
LEMMA TruthStays ==
  ASSUME TypeOK, SourcesCopied, ReceiptsTrue, [Next]_vars, NEW a \in Archives, Truth(a)
  PROVE  Truth(a)'
BY RecorderMoves, ArchiveType DEF Truth

\* Every archive in a receiver that is called final is what the recorder has.
LEMMA ReceiptsStep ==
  ASSUME TypeOK, SourcesCopied, ReceiptsTrue, JobTrue, [Next]_vars, TypeOK'
  PROVE  ReceiptsTrue'
<1> SUFFICES ASSUME NEW a \in receipts' \cup lost' PROVE Truth(a)'
  BY DEF ReceiptsTrue
<1>1. a \in Archives
  BY DEF TypeOK, ImportTypeOK
<1>2. Truth(a)
  BY ReceiptsMove DEF ReceiptsTrue
<1> QED
  BY <1>1, <1>2, TruthStays

\* What stands on the shelf changes only where an import without evidence works.
LEMMA ShelfStep ==
  ASSUME TypeOK, SourcesCopied, ReceiptsTrue, JobTrue, ShelfNamed, EvidenceTrue, [Next]_vars
  PROVE  JobTrue' /\ ShelfNamed' /\ EvidenceTrue'
<1> USE ImportAssumption DEF TypeOK, ImportTypeOK
<1>0. \A a \in Archives : Truth(a) => Truth(a)'
  BY TruthStays
<1>1. ASSUME job # None
      PROVE  /\ job.file \in File /\ Archive(job.file) \in Archives
             /\ Truth(Archive(job.file)) /\ shelf[Archive(job.file)].meta = None
  <2>1. job.file \in File /\ Archive(job.file) \in Archives
    BY <1>1, ArchiveOfFile
  <2>2. Truth(Archive(job.file)) /\ shelf[Archive(job.file)].meta = None
    BY <1>1 DEF JobTrue
  <2> QED
    BY <2>1, <2>2
<1>2. CASE UNCHANGED <<shelf, job>>
  BY <1>0, <1>1, <1>2 DEF JobTrue, ShelfNamed, EvidenceTrue
<1>3. CASE UNCHANGED shelf /\ job' = None
  BY <1>3 DEF JobTrue, ShelfNamed, EvidenceTrue
<1>4. ASSUME NEW f \in File, BeginImport(f) PROVE JobTrue' /\ ShelfNamed' /\ EvidenceTrue'
  <2>1. Truth(Archive(f)) /\ Archive(f) \in Archives
    BY <1>4, ObtainableTrue, ArchiveOfFile DEF BeginImport
  <2>2. Truth(Archive(f))'
    BY <2>1, TruthStays
  <2> QED
    BY <1>4, <2>2 DEF BeginImport, JobTrue, ShelfNamed, EvidenceTrue
<1>5. CASE CommitReceipt
  BY <1>0, <1>1, <1>5 DEF CommitReceipt, At, JobTrue, ShelfNamed, EvidenceTrue
<1>6. CASE PublishArchive
  <2>1. /\ job # None /\ job.stage = "received"
        /\ shelf[Archive(job.file)].raw \in {None, job.file}
        /\ shelf' = [shelf EXCEPT ![Archive(job.file)].raw = job.file]
        /\ job' = [job EXCEPT !.stage = "archive"]
    BY <1>1, <1>6 DEF PublishArchive, At, MayPublish
  <2>2. JobTrue'
    BY <1>0, <1>1, <2>1 DEF JobTrue
  <2>3. ShelfNamed'
    BY <1>1, <2>1 DEF ShelfNamed
  <2>4. EvidenceTrue'
    BY <1>1, <2>1 DEF EvidenceTrue
  <2> QED
    BY <2>2, <2>3, <2>4
<1>7. CASE PublishAudio
  <2>1. /\ job # None /\ job.stage = "archive"
        /\ shelf[Archive(job.file)].wav \in {0, job.wav}
        /\ shelf' = [shelf EXCEPT ![Archive(job.file)].wav = job.wav]
        /\ job' = [job EXCEPT !.stage = "audio"]
    BY <1>1, <1>7 DEF PublishAudio, At, MayPublish
  <2>2. JobTrue'
    BY <1>0, <1>1, <2>1 DEF JobTrue
  <2>3. ShelfNamed'
    BY <1>1, <2>1 DEF ShelfNamed
  <2>4. EvidenceTrue'
    BY <1>1, <2>1 DEF EvidenceTrue
  <2> QED
    BY <2>2, <2>3, <2>4
<1>8. CASE PublishEvidence
  <2>1. /\ job # None /\ job.stage = "audio" /\ job' = None
        /\ shelf' = [shelf EXCEPT ![Archive(job.file)].meta =
                                     [raw |-> job.file, wav |-> job.wav]]
        /\ shelf[Archive(job.file)].raw = job.file /\ shelf[Archive(job.file)].wav = job.wav
    BY <1>8 DEF PublishEvidence, At, JobTrue
  <2>2. ShelfNamed'
    BY <1>1, <2>1 DEF ShelfNamed
  <2>3. EvidenceTrue'
    BY <1>1, <2>1 DEF EvidenceTrue
  <2> QED
    BY <2>1, <2>2, <2>3 DEF JobTrue
<1> QED
  BY <1>2, <1>3, <1>4, <1>5, <1>6, <1>7, <1>8
     DEF Next, ImportNext, ImportStep, StartRecording, RecordPacket, EndRecording, ReuseBundle,
         ImportRefused, ImportDies, Upgrade, importVars, ReadSource, CommitRequest,
         RepeatRequest, AbandonRequest, Retry, MarkCompleted, Grant, EraseLast,
         ChangeSource, ReplaceOutbox, vars

-----------------------------------------------------------------------------
(* The outbox *)

\* Later steps keep what was copied.
LEMMA CopiedStays ==
  ASSUME TypeOK, JobTrue, [Next]_vars, NEW a, Copied(a)
  PROVE  Copied(a)'
BY ReceiptsMove DEF Copied

\* Every step leaves the rows' archives as they are, drops rows at the end, or
\* appends one row for an archive that was verified.
LEMMA RowsMove ==
  ASSUME TypeOK, [Next]_vars
  PROVE  \/ /\ DOMAIN outbox'.rows \subseteq DOMAIN outbox.rows
            /\ \A i \in DOMAIN outbox'.rows : outbox'.rows[i].arc = outbox.rows[i].arc
         \/ \E p \in Caller :
              /\ CommitRequest(p)
              /\ DOMAIN outbox'.rows = DOMAIN outbox.rows \cup {Len(outbox.rows) + 1}
              /\ \A i \in DOMAIN outbox.rows : outbox'.rows[i] = outbox.rows[i]
              /\ outbox'.rows[Len(outbox.rows) + 1].arc = session[p].arc
<1>1. CASE UNCHANGED outbox
  BY <1>1
<1>2. ASSUME NEW p \in Caller, CommitRequest(p)
      PROVE  /\ DOMAIN outbox'.rows = DOMAIN outbox.rows \cup {Len(outbox.rows) + 1}
             /\ \A i \in DOMAIN outbox.rows : outbox'.rows[i] = outbox.rows[i]
             /\ outbox'.rows[Len(outbox.rows) + 1].arc = session[p].arc
  <2>1. /\ outbox'.rows \in Seq(RowType) /\ Len(outbox'.rows) = Len(outbox.rows) + 1
        /\ \A i \in 1 .. Len(outbox.rows) : outbox'.rows[i] = outbox.rows[i]
        /\ outbox'.rows[Len(outbox.rows) + 1] =
             [id |-> session[p].id, arc |-> session[p].arc, done |-> FALSE]
    BY <1>2, CommitFacts
  <2>2. DOMAIN outbox'.rows = 1 .. (Len(outbox.rows) + 1)
    BY <2>1, LenProperties
  <2>3. DOMAIN outbox.rows = 1 .. Len(outbox.rows) /\ Len(outbox.rows) \in Nat
    BY RowFacts
  <2> QED
    BY <2>1, <2>2, <2>3
<1>3. ASSUME NEW i \in DOMAIN outbox.rows, MarkCompleted(i)
      PROVE  /\ DOMAIN outbox'.rows = DOMAIN outbox.rows
             /\ \A j \in DOMAIN outbox'.rows : outbox'.rows[j].arc = outbox.rows[j].arc
  <2>1. DOMAIN outbox'.rows = 1 .. Len(outbox'.rows) /\ Len(outbox'.rows) = Len(outbox.rows)
    BY <1>3, CompletedFacts, LenProperties
  <2>2. DOMAIN outbox.rows = 1 .. Len(outbox.rows)
        /\ \A j \in DOMAIN outbox.rows : outbox.rows[j] \in RowType
    BY RowFacts
  <2>3. \A j \in DOMAIN outbox.rows :
          outbox'.rows[j] = IF j = i THEN [outbox.rows[j] EXCEPT !.done = TRUE]
                                     ELSE outbox.rows[j]
    BY <1>3, CompletedFacts
  <2> QED
    BY <2>1, <2>2, <2>3 DEF RowType
<1>4. CASE ReplaceOutbox
  <2>1. DOMAIN outbox'.rows = 1 .. Len(outbox'.rows) /\ Len(outbox'.rows) \in Nat
    BY <1>4, ReplacedFacts, LenProperties
  <2>2. DOMAIN outbox.rows = 1 .. Len(outbox.rows) /\ Len(outbox.rows) \in Nat
    BY RowFacts
  <2>3. Len(outbox'.rows) <= Len(outbox.rows)
        /\ \A j \in 1 .. Len(outbox'.rows) : outbox'.rows[j].arc = outbox.rows[j].arc
    BY <1>4, ReplacedFacts
  <2> QED
    BY <2>1, <2>2, <2>3
<1>5. \/ UNCHANGED outbox \/ ReplaceOutbox
      \/ \E p \in Caller : CommitRequest(p)
      \/ \E i \in DOMAIN outbox.rows : MarkCompleted(i)
  BY DEF Next, outboxVars, ReadSource, RepeatRequest, AbandonRequest, Retry, Grant,
         EraseLast, ChangeSource, vars
<1> QED
  BY <1>1, <1>2, <1>3, <1>4, <1>5

LEMMA SourcesStep ==
  ASSUME TypeOK, SourcesCopied, JobTrue, [Next]_vars
  PROVE  SourcesCopied'
<1> USE OutboxAssumption DEF TypeOK
<1>1. ASSUME NEW p \in Caller, session'[p] # None
      PROVE  session'[p].arc \in receipts' /\ session'[p].arc.end = "final"
  <2>1. CASE session'[p] = session[p]
    <3>1. session[p].arc \in receipts /\ session[p].arc.end = "final"
      BY <1>1, <2>1 DEF SourcesCopied
    <3>2. ASSUME NEW a \in Archives, ChangeSource(a) PROVE a # session[p].arc
      BY <1>1, <2>1, <3>2 DEF ChangeSource, Locked
    <3>3. CASE \E a \in Archives : ChangeSource(a)
      BY <2>1, <3>1, <3>2, <3>3 DEF ChangeSource
    <3>4. CASE ~ \E a \in Archives : ChangeSource(a)
      <4>1. receipts \subseteq receipts'
        BY <3>4 DEF Next, importVars, outboxVars, ReadSource, CommitRequest, RepeatRequest,
             AbandonRequest, Retry, MarkCompleted, Grant, EraseLast,
             ReplaceOutbox, vars, ImportNext, ImportStep, StartRecording, RecordPacket,
             EndRecording, ReuseBundle, BeginImport, CommitReceipt, PublishArchive,
             PublishAudio, PublishEvidence, ImportRefused, ImportDies, Upgrade
      <4> QED
        BY <2>1, <3>1, <4>1
    <3> QED
      BY <3>3, <3>4
  <2>2. ASSUME NEW q \in Caller, NEW id \in Request, NEW a \in Archives, ReadSource(q, id, a),
               session'[p] # session[p]
        PROVE  session'[p].arc \in receipts' /\ session'[p].arc.end = "final"
    BY <1>1, <2>2 DEF ReadSource, Readable, importVars
  <2> QED
    BY <1>1, <2>1, <2>2
       DEF Next, outboxVars, CommitRequest, RepeatRequest, AbandonRequest, Retry, MarkCompleted,
           Grant, EraseLast, ChangeSource, ReplaceOutbox, vars
<1>2. \A i \in DOMAIN outbox.rows : Copied(outbox.rows[i].arc)
  BY DEF SourcesCopied
<1>3. ASSUME NEW p \in Caller, session[p] # None PROVE Copied(session[p].arc)
  BY <1>3 DEF SourcesCopied, Copied
<1>4. ASSUME NEW i \in DOMAIN outbox'.rows PROVE Copied(outbox'.rows[i].arc)
  BY <1>2, <1>3, RowsMove DEF CommitRequest
<1>5. ASSUME NEW c \in sent' PROVE Copied(c.arc)
  <2>1. CASE c \in sent
    BY <2>1 DEF SourcesCopied
  <2>2. ASSUME NEW p \in Caller, CommitRequest(p), c \notin sent PROVE Copied(c.arc)
    <3>1. c = Command(outbox', Len(outbox.rows) + 1)
      BY <1>5, <2>2 DEF CommitRequest
    <3>2. c.arc = session[p].arc /\ session[p] # None
      <4>1. Command(outbox', Len(outbox.rows) + 1) =
              [seq |-> outbox.base + Len(outbox.rows) + 1, arc |-> session[p].arc]
        BY <2>2, CommitFacts
      <4>2. session[p] # None
        BY <2>2, CommitFacts
      <4> QED
        BY <3>1, <4>1, <4>2
    <3> QED
      BY <1>3, <3>2
  <2>3. ASSUME NEW i \in DOMAIN outbox.rows, c = Command(outbox, i) PROVE Copied(c.arc)
    BY <1>2, <2>3, RowFacts
  <2>4. ASSUME c \notin sent
        PROVE  \/ \E p \in Caller : CommitRequest(p)
               \/ \E i \in DOMAIN outbox.rows : c = Command(outbox, i)
    BY <1>5, <2>4
       DEF Next, outboxVars, ReadSource, RepeatRequest, AbandonRequest, Retry, MarkCompleted,
           Grant, EraseLast, ChangeSource, ReplaceOutbox, vars
  <2> QED
    BY <2>1, <2>2, <2>3, <2>4
<1>6. /\ device'.last # None => device'.last \in sent'
      /\ device'.phase = "granted" => device'.last # None
  <2>1. ASSUME NEW c \in sent, Grant(c) PROVE device'.last = c /\ c # None /\ sent' = sent
    BY <2>1 DEF Grant, importVars
  <2>2. ASSUME EraseLast PROVE device'.last = device.last /\ device'.phase = "idle" /\ sent' = sent
    BY <2>2 DEF EraseLast
  <2>3. CASE UNCHANGED device
    <3>1. sent \subseteq sent'
      BY <2>3 DEF Next, outboxVars, ReadSource, CommitRequest, RepeatRequest, AbandonRequest,
           Retry, MarkCompleted, Grant, EraseLast, ChangeSource, ReplaceOutbox,
           vars
    <3> QED
      BY <2>3, <3>1 DEF SourcesCopied
  <2>4. (\E c \in sent : Grant(c)) \/ EraseLast \/ UNCHANGED device
    BY DEF Next, outboxVars, ReadSource, CommitRequest, RepeatRequest, AbandonRequest, Retry,
           MarkCompleted, ChangeSource, ReplaceOutbox, vars
  <2>5. device.last # None => device.last \in sent
    BY DEF SourcesCopied
  <2> QED
    BY <2>1, <2>2, <2>3, <2>4, <2>5
<1>7. \A i \in DOMAIN outbox'.rows :
        outbox'.rows[i].arc \in receipts' \cup lost' /\ outbox'.rows[i].arc.end = "final"
  BY <1>4, ReceiptsMove DEF Copied
<1>8. \A c \in sent' : c.arc \in receipts' \cup lost' /\ c.arc.end = "final"
  BY <1>5, ReceiptsMove DEF Copied
<1> USE DEF Copied
<1> QED
  BY <1>1, <1>6, <1>7, <1>8 DEF SourcesCopied

\* Only a grant and the last erasure touch a capture's fate, and both concern a
\* copied archive.
LEMMA ErasedStep ==
  ASSUME TypeOK, SourcesCopied, ReceiptsTrue, JobTrue, ErasedIsCopied, [Next]_vars
  PROVE  ErasedIsCopied'
<1> SUFFICES ASSUME NEW c \in Capture, recorder'[c].end \in {"erasing", "gone"}
             PROVE  [cap |-> c, n |-> recorder'[c].n, end |-> "final"] \in receipts' \cup lost'
  BY DEF ErasedIsCopied
<1> DEFINE a == [cap |-> c, n |-> recorder'[c].n, end |-> "final"]
<1>1. CASE recorder'[c] = recorder[c]
  <2>1. Copied(a)
    BY <1>1 DEF ErasedIsCopied, Copied
  <2> QED
    BY <2>1, ReceiptsMove DEF Copied
<1>2. ASSUME NEW m \in sent, Grant(m), m.arc.cap = c PROVE a \in receipts \cup lost
  <2>1. m.arc \in Archives /\ Copied(m.arc)
    BY DEF TypeOK, Commands, SourcesCopied
  <2>2. recorder'[c].n = m.arc.n
    BY <1>2 DEF Grant, RecorderIs, TypeOK, ImportTypeOK
  <2>3. m.arc = a
    BY <1>2, <2>1, <2>2, ArchiveType DEF Copied
  <2> QED
    BY <2>1, <2>3 DEF Copied
<1>3. ASSUME EraseLast, device.last.arc.cap = c PROVE a \in receipts \cup lost
  <2>1. device.last # None
    BY <1>3 DEF EraseLast, SourcesCopied
  <2>2. device.last.arc \in Archives /\ Copied(device.last.arc)
    BY <2>1, LastIsTrue
  <2>3. recorder'[c].n = device.last.arc.n
    BY <1>3 DEF EraseLast, RecorderIs, TypeOK, ImportTypeOK
  <2>4. device.last.arc = a
    BY <1>3, <2>2, <2>3, ArchiveType DEF Copied
  <2> QED
    BY <2>2, <2>4 DEF Copied
<1>4. \/ recorder'[c] = recorder[c]
      \/ \E m \in sent : Grant(m) /\ m.arc.cap = c
      \/ EraseLast /\ device.last.arc.cap = c
  <2> USE DEF RecorderIs, TypeOK, ImportTypeOK
  <2>1. ASSUME NEW d \in Capture, NEW end \in {"interrupted", "final"},
               StartRecording(d) \/ RecordPacket(d) \/ EndRecording(d, end)
        PROVE  recorder'[c] = recorder[c]
    BY <2>1 DEF StartRecording, RecordPacket, EndRecording
  <2>2. CASE ImportNext
    BY <2>1, <2>2 DEF ImportNext, ImportStep, ReuseBundle, BeginImport, CommitReceipt,
         PublishArchive, PublishAudio, PublishEvidence, ImportRefused, ImportDies, Upgrade
  <2>3. ASSUME NEW m \in sent, Grant(m) PROVE recorder'[c] = recorder[c] \/ m.arc.cap = c
    BY <2>3 DEF Grant
  <2>4. ASSUME EraseLast PROVE recorder'[c] = recorder[c] \/ device.last.arc.cap = c
    BY <2>4 DEF EraseLast
  <2> QED
    BY <2>2, <2>3, <2>4
       DEF Next, importVars, ReadSource, CommitRequest, RepeatRequest, AbandonRequest, Retry,
           MarkCompleted, ChangeSource, ReplaceOutbox, vars
<1>5. a \in receipts \cup lost => a \in receipts' \cup lost'
  BY ReceiptsMove
<1> QED
  BY <1>1, <1>2, <1>3, <1>4, <1>5

\* The outbox stays what its own verification accepts.
LEMMA WholeStep ==
  ASSUME TypeOK, OutboxWhole, [Next]_vars
  PROVE  OutboxWhole'
<1> DEFINE n == Len(outbox.rows)
<1>1. n \in Nat /\ DOMAIN outbox.rows = 1 .. n
      /\ \A i \in DOMAIN outbox.rows : outbox.rows[i] \in RowType
  BY RowFacts
<1> HIDE DEF n
<1>2. CASE UNCHANGED outbox
  BY <1>2 DEF OutboxWhole
<1>3. ASSUME NEW p \in Caller, CommitRequest(p) PROVE OutboxWhole'
  <2>1. Len(outbox'.rows) = n + 1 /\ DOMAIN outbox'.rows = 1 .. (n + 1)
    BY <1>3, CommitFacts, LenProperties DEF n
  <2>2. \A i \in 1 .. n : outbox'.rows[i] = outbox.rows[i]
    BY <1>3, CommitFacts DEF n
  <2>3. outbox'.rows[n + 1].id = session[p].id /\ outbox'.rows[n + 1].arc = session[p].arc
    <3>1. outbox'.rows[n + 1] = [id |-> session[p].id, arc |-> session[p].arc, done |-> FALSE]
      BY <1>3, CommitFacts DEF n
    <3> QED
      BY <3>1
  <2>4. \A i \in 1 .. n : /\ outbox.rows[i].id # session[p].id
                          /\ outbox.rows[i].arc.cap # session[p].arc.cap
    BY <1>1, <1>3 DEF CommitRequest, MayAppend, Unreleased
  <2>5. \A i \in 1 .. n : outbox.rows[i].done
    BY <1>1, <1>3 DEF CommitRequest, MayAppend, Pending, OutboxWhole, n
  <2> QED
    BY <1>1, <2>1, <2>2, <2>3, <2>4, <2>5 DEF OutboxWhole
<1>4. ASSUME NEW i \in DOMAIN outbox.rows, MarkCompleted(i) PROVE OutboxWhole'
  <2>1. Len(outbox'.rows) = n /\ DOMAIN outbox'.rows = 1 .. n
    BY <1>4, CompletedFacts, LenProperties DEF n
  <2>2. \A j \in 1 .. n : /\ outbox'.rows[j].id = outbox.rows[j].id
                          /\ outbox'.rows[j].arc = outbox.rows[j].arc
                          /\ outbox.rows[j].done => outbox'.rows[j].done
    BY <1>1, <1>4, CompletedFacts DEF RowType
  <2>3. \A j, k \in 1 .. n : /\ ~ outbox.rows[j].done => j = n
                             /\ \/ outbox.rows[j].id = outbox.rows[k].id
                                \/ outbox.rows[j].arc.cap = outbox.rows[k].arc.cap
                                => j = k
    BY <1>1 DEF OutboxWhole, n
  <2> QED
    BY <2>1, <2>2, <2>3 DEF OutboxWhole
<1>5. CASE ReplaceOutbox
  <2>1. /\ Len(outbox'.rows) \in Nat /\ DOMAIN outbox'.rows = 1 .. Len(outbox'.rows)
        /\ Len(outbox'.rows) <= n
    BY <1>5, ReplacedFacts, LenProperties DEF n
  <2>2. \A j \in 1 .. Len(outbox'.rows) :
          /\ outbox'.rows[j].id = outbox.rows[j].id
          /\ outbox'.rows[j].arc = outbox.rows[j].arc
          /\ ~ outbox'.rows[j].done => j = Len(outbox'.rows) \/ ~ outbox.rows[j].done
    BY <1>5, ReplacedFacts
  <2>3. \A j, k \in 1 .. n : /\ ~ outbox.rows[j].done => j = n
                             /\ \/ outbox.rows[j].id = outbox.rows[k].id
                                \/ outbox.rows[j].arc.cap = outbox.rows[k].arc.cap
                                => j = k
    BY <1>1 DEF OutboxWhole, n
  <2>4. \A j \in 1 .. Len(outbox'.rows) : j \in 1 .. n /\ (j = n => j = Len(outbox'.rows))
    BY <1>1, <2>1
  <2>5. \A j \in 1 .. Len(outbox'.rows) : ~ outbox'.rows[j].done => j = Len(outbox'.rows)
    BY <2>2, <2>3, <2>4
  <2>6. \A j, k \in 1 .. Len(outbox'.rows) :
          \/ outbox'.rows[j].id = outbox'.rows[k].id
          \/ outbox'.rows[j].arc.cap = outbox'.rows[k].arc.cap
          => j = k
    BY <2>2, <2>3, <2>4
  <2> QED
    BY <2>1, <2>5, <2>6 DEF OutboxWhole
<1>6. \/ UNCHANGED outbox \/ ReplaceOutbox
      \/ \E p \in Caller : CommitRequest(p)
      \/ \E i \in DOMAIN outbox.rows : MarkCompleted(i)
  BY DEF Next, outboxVars, ReadSource, RepeatRequest, AbandonRequest, Retry, Grant,
         EraseLast, ChangeSource, vars
<1> QED
  BY <1>2, <1>3, <1>4, <1>5, <1>6

\* The steps that move the agreement between recorder and outbox.
LEMMA AgreementOnCommit ==
  ASSUME TypeOK, SentKnown, FloorKnown, ErasedInOrder, NEW p \in Caller, CommitRequest(p)
  PROVE  SentKnown' /\ FloorKnown' /\ ErasedInOrder'
<1> DEFINE n == Len(outbox.rows)
<1>1. n \in Nat /\ DOMAIN outbox.rows = 1 .. n
  BY RowFacts
<1>2. /\ DOMAIN outbox'.rows = 1 .. (n + 1)
      /\ \A i \in 1 .. n : outbox'.rows[i] = outbox.rows[i]
  BY CommitFacts, LenProperties
<1>3. outbox'.base = outbox.base
  <2>1. outbox' = [base |-> outbox.base, rows |-> outbox'.rows]
    BY CommitFacts
  <2> QED
    BY <2>1
<1>4. /\ sent' \in {sent, sent \cup {Command(outbox', n + 1)}}
      /\ UNCHANGED <<recorder, device>>
  BY DEF CommitRequest, importVars
<1> HIDE DEF n
<1>5. \A i \in 1 .. n : Command(outbox', i) = Command(outbox, i)
  BY <1>2, <1>3 DEF Command
<1>6. SentKnown'
  <2>1. ASSUME NEW c \in sent' PROVE \E i \in 1 .. (n + 1) : c = Command(outbox', i)
    <3>1. c \in sent \/ c = Command(outbox', n + 1)
      BY <1>4
    <3>2. CASE c \in sent
      BY <1>1, <1>5, <3>2 DEF SentKnown
    <3>3. CASE c = Command(outbox', n + 1)
      BY <1>1, <3>3
    <3> QED
      BY <3>1, <3>2, <3>3
  <2> QED
    BY <1>2, <2>1 DEF SentKnown, Command
<1>7. FloorKnown'
  BY <1>3, <1>4 DEF FloorKnown
<1>8. ErasedInOrder'
  BY <1>1, <1>2, <1>3, <1>4 DEF ErasedInOrder
<1> QED
  BY <1>6, <1>7, <1>8

LEMMA AgreementOnCompletion ==
  ASSUME TypeOK, SentKnown, FloorKnown, ErasedInOrder,
         NEW i \in DOMAIN outbox.rows, MarkCompleted(i)
  PROVE  SentKnown' /\ FloorKnown' /\ ErasedInOrder'
<1> DEFINE n == Len(outbox.rows)
<1>1. /\ n \in Nat /\ DOMAIN outbox.rows = 1 .. n
      /\ \A j \in 1 .. n : outbox.rows[j] \in RowType
  BY RowFacts
<1>2. DOMAIN outbox'.rows = 1 .. n
  BY CompletedFacts, LenProperties
<1>3. outbox'.base = outbox.base
  <2>1. outbox' = [base |-> outbox.base, rows |-> outbox'.rows]
    BY CompletedFacts
  <2> QED
    BY <2>1
<1>4. \A j \in 1 .. n : outbox'.rows[j].arc = outbox.rows[j].arc
  BY <1>1, CompletedFacts DEF RowType
<1>5. UNCHANGED <<recorder, device, sent>>
  BY DEF MarkCompleted, importVars
<1> HIDE DEF n
<1>6. \A j \in 1 .. n : Command(outbox', j) = Command(outbox, j)
  BY <1>3, <1>4 DEF Command
<1>7. SentKnown'
  <2>1. ASSUME NEW c \in sent PROVE \E j \in 1 .. n : c = Command(outbox', j)
    BY <1>1, <1>6 DEF SentKnown
  <2> QED
    BY <1>2, <1>5, <2>1 DEF SentKnown, Command
<1>8. FloorKnown'
  BY <1>3, <1>5 DEF FloorKnown
<1>9. ErasedInOrder'
  BY <1>1, <1>2, <1>3, <1>4, <1>5 DEF ErasedInOrder
<1> QED
  BY <1>7, <1>8, <1>9

LEMMA AgreementOnGrant ==
  ASSUME TypeOK, SentKnown, FloorKnown, ErasedInOrder, NEW c \in sent, Grant(c)
  PROVE  SentKnown' /\ FloorKnown' /\ ErasedInOrder'
<1> DEFINE n == Len(outbox.rows)
<1>1. /\ n \in Nat /\ outbox.base \in Nat /\ DOMAIN outbox.rows = 1 .. n
      /\ device.floor \in Nat /\ c # None
  BY RowFacts, OutboxAssumption DEF TypeOK
<1>2. PICK i \in 1 .. n : c = Command(outbox, i)
  BY <1>1 DEF SentKnown
<1>3. c.seq = outbox.base + i /\ c.arc = outbox.rows[i].arc
  BY <1>1, <1>2, RowFacts
<1>4. /\ device' = [floor |-> c.seq, last |-> c, phase |-> "granted"]
      /\ UNCHANGED <<outbox, sent>>
      /\ c.seq = device.floor + 1
      /\ \A d \in Capture : d # c.arc.cap => recorder'[d] = recorder[d]
  BY DEF Grant, Acceptable, RecorderIs, TypeOK, ImportTypeOK
<1> HIDE DEF n
<1>5. SentKnown'
  BY <1>4 DEF SentKnown, Command
<1>6. FloorKnown'
  BY <1>1, <1>4 DEF FloorKnown
<1>7. ErasedInOrder'
  <2>1. ASSUME NEW d \in Capture, recorder'[d].end \in {"erasing", "gone"}
        PROVE  \E j \in 1 .. n : outbox.rows[j].arc.cap = d /\ outbox.base + j <= c.seq
    <3>1. CASE d = c.arc.cap
      BY <1>1, <1>2, <1>3, <3>1
    <3>2. CASE d # c.arc.cap
      <4>1. PICK j \in 1 .. n : outbox.rows[j].arc.cap = d /\ outbox.base + j <= device.floor
        BY <1>1, <1>4, <2>1, <3>2 DEF ErasedInOrder
      <4> QED
        BY <1>1, <1>4, <4>1
    <3> QED
      BY <3>1, <3>2
  <2> QED
    BY <1>1, <1>4, <2>1 DEF ErasedInOrder
<1> QED
  BY <1>5, <1>6, <1>7

LEMMA AgreementOnErasure ==
  ASSUME TypeOK, SourcesCopied, ReceiptsTrue,
         SentKnown, FloorKnown, ErasedInOrder, EraseLast
  PROVE  SentKnown' /\ FloorKnown' /\ ErasedInOrder'
<1>1. device.last # None
  BY DEF EraseLast, SourcesCopied
<1>2. device.last \in sent /\ device.last.arc.cap \in Capture
  BY <1>1, LastIsTrue
<1>3. PICK i \in DOMAIN outbox.rows : device.last = Command(outbox, i)
  BY <1>2 DEF SentKnown
<1>4. device.floor = outbox.base + i /\ outbox.rows[i].arc.cap = device.last.arc.cap
      /\ device.floor \in Nat
  <2>1. Command(outbox, i).seq = outbox.base + i /\ Command(outbox, i).arc = outbox.rows[i].arc
    BY RowFacts
  <2> QED
    BY <1>1, <1>3, <2>1 DEF FloorKnown, TypeOK
<1>5. /\ device'.floor = device.floor /\ device'.last = device.last
      /\ UNCHANGED <<outbox, sent>>
      /\ \A d \in Capture : d # device.last.arc.cap => recorder'[d] = recorder[d]
  BY DEF EraseLast, RecorderIs, TypeOK, ImportTypeOK
<1>6. SentKnown' /\ FloorKnown'
  BY <1>5 DEF SentKnown, FloorKnown, Command
<1>7. ErasedInOrder'
  <2>1. ASSUME NEW d \in Capture, recorder'[d].end \in {"erasing", "gone"}
        PROVE  \E j \in DOMAIN outbox.rows :
                 outbox.rows[j].arc.cap = d /\ outbox.base + j <= device.floor
    <3>1. CASE d = device.last.arc.cap
      BY <1>4, <3>1
    <3>2. CASE d # device.last.arc.cap
      BY <1>5, <2>1, <3>2 DEF ErasedInOrder
    <3> QED
      BY <3>1, <3>2
  <2> QED
    BY <1>5, <2>1 DEF ErasedInOrder
<1> QED
  BY <1>6, <1>7

LEMMA AgreementStep ==
  ASSUME TypeOK, SourcesCopied, ReceiptsTrue, Agreement, [Next]_vars
  PROVE  Agreement'
<1> SUFFICES ASSUME restores' = 0
             PROVE  SentKnown' /\ FloorKnown' /\ ErasedInOrder'
  BY DEF Agreement
<1>1. restores = 0 /\ ~ ReplaceOutbox
  <2>1. restores \in Nat
    BY ImportAssumption DEF TypeOK
  <2>2. ~ ReplaceOutbox
    BY <2>1 DEF ReplaceOutbox
  <2>3. restores' = restores
    BY <2>2 DEF Next, outboxVars, ReadSource, CommitRequest, RepeatRequest, AbandonRequest,
         Retry, MarkCompleted, Grant, EraseLast, ChangeSource, vars
  <2> QED
    BY <2>2, <2>3
<1>2. SentKnown /\ FloorKnown /\ ErasedInOrder
  BY <1>1 DEF Agreement
<1>3. ASSUME UNCHANGED <<outbox, device>>,
             \A c \in sent' : c \in sent \/ \E i \in DOMAIN outbox.rows : c = Command(outbox, i),
             \A c \in Capture : recorder'[c].end \in {"erasing", "gone"} =>
                                  recorder'[c] = recorder[c]
      PROVE  SentKnown' /\ FloorKnown' /\ ErasedInOrder'
  <2>1. SentKnown'
    BY <1>2, <1>3 DEF SentKnown, Command
  <2>2. FloorKnown'
    BY <1>2, <1>3 DEF FloorKnown
  <2>4. ErasedInOrder'
    BY <1>2, <1>3 DEF ErasedInOrder
  <2> QED
    BY <2>1, <2>2, <2>4
<1>4. CASE ImportNext /\ UNCHANGED outboxVars
  <2>1. ASSUME NEW c \in Capture, recorder'[c].end \in {"erasing", "gone"}
        PROVE  recorder'[c] = recorder[c]
    <3> USE DEF RecorderIs, TypeOK, ImportTypeOK
    <3>1. ASSUME NEW d \in Capture, NEW end \in {"interrupted", "final"},
                 StartRecording(d) \/ RecordPacket(d) \/ EndRecording(d, end)
          PROVE  recorder'[c] = recorder[c]
      BY <2>1, <3>1 DEF StartRecording, RecordPacket, EndRecording
    <3> QED
      BY <1>4, <3>1 DEF ImportNext, ImportStep, ReuseBundle, BeginImport, CommitReceipt,
           PublishArchive, PublishAudio, PublishEvidence, ImportRefused, ImportDies, Upgrade
  <2> QED
    BY <1>3, <1>4, <2>1 DEF outboxVars
<1>5. ASSUME NEW p \in Caller, NEW id \in Request, NEW a \in Archives, ReadSource(p, id, a)
      PROVE  SentKnown' /\ FloorKnown' /\ ErasedInOrder'
  BY <1>3, <1>5 DEF ReadSource, importVars
<1>6. ASSUME NEW p \in Caller, RepeatRequest(p) \/ AbandonRequest(p)
      PROVE  SentKnown' /\ FloorKnown' /\ ErasedInOrder'
  BY <1>3, <1>6 DEF RepeatRequest, AbandonRequest, importVars
<1>7. ASSUME NEW i \in DOMAIN outbox.rows, Retry(i)
      PROVE  SentKnown' /\ FloorKnown' /\ ErasedInOrder'
  BY <1>3, <1>7 DEF Retry, importVars
<1>9. ASSUME NEW a \in Archives, ChangeSource(a)
      PROVE  SentKnown' /\ FloorKnown' /\ ErasedInOrder'
  BY <1>3, <1>9 DEF ChangeSource
<1>10. CASE UNCHANGED vars
  BY <1>3, <1>10 DEF vars, importVars, outboxVars
<1> QED
  BY <1>1, <1>2, <1>4, <1>5, <1>6, <1>7, <1>9, <1>10, AgreementOnCommit,
     AgreementOnCompletion, AgreementOnGrant, AgreementOnErasure DEF Next

-----------------------------------------------------------------------------
(* The theorems *)

THEOREM OutboxInductive == Spec => []OutboxIInv
<1>1. Init => OutboxIInv
  <2> SUFFICES ASSUME Init PROVE OutboxIInv
    OBVIOUS
  <2>1. outbox.base = 0 /\ outbox.rows = << >> /\ Len(outbox.rows) = 0
        /\ outbox.rows \in Seq(RowType) /\ DOMAIN outbox.rows = {}
    BY EmptySeq DEF Init
  <2>2. outbox \in [base : Nat, rows : Seq(RowType)]
    BY <2>1 DEF Init
  <2>3. ImportTypeOK
    BY ImportAssumption DEF Init, ImportInit, ImportTypeOK, Empty
  <2>4. TypeOK /\ restores <= faults
    BY <2>2, <2>3, ImportAssumption DEF Init, ImportInit, TypeOK, RowType
  <2>5. ReceiptsTrue /\ JobTrue /\ ShelfNamed /\ EvidenceTrue /\ ErasedIsCopied
    BY DEF Init, ImportInit, Empty, ReceiptsTrue, JobTrue, ShelfNamed, EvidenceTrue,
           ErasedIsCopied
  <2>6. OutboxWhole /\ SourcesCopied
    BY <2>1 DEF Init, OutboxWhole, SourcesCopied
  <2>7. Agreement
    BY <2>1 DEF Init, ImportInit, Agreement, SentKnown, FloorKnown, ErasedInOrder
  <2> QED
    BY <2>4, <2>5, <2>6, <2>7 DEF OutboxIInv
<1>2. OutboxIInv /\ [Next]_vars => OutboxIInv'
  <2> SUFFICES ASSUME OutboxIInv, [Next]_vars PROVE OutboxIInv'
    OBVIOUS
  <2> USE DEF OutboxIInv
  <2>1. device.phase = "granted" => device.last # None
    BY DEF SourcesCopied
  <2>2. TypeOK' /\ restores' <= faults'
    BY <2>1, TypeStep
  <2> QED
    BY <2>2, ReceiptsStep, ShelfStep, WholeStep, SourcesStep, ErasedStep, AgreementStep
<1> QED
  BY <1>1, <1>2, PTL DEF Spec

\* The outbox passes its own verification and the evidence on the shelf is true,
\* after any number of deaths, upgrades, losses and restores.
THEOREM CompanionInvariant == Spec => []CompanionInv
<1>1. OutboxIInv => CompanionInv
  BY DEF OutboxIInv, CompanionInv
<1> QED
  BY <1>1, OutboxInductive, PTL

\* The recorder erases only what a receiver holds, or held, in full.
THEOREM ErasureIsOfCopies == Spec => []ErasedIsCopied
<1>1. OutboxIInv => ErasedIsCopied
  BY DEF OutboxIInv
<1> QED
  BY <1>1, OutboxInductive, PTL

\* The last command that the recorder took is the outbox's at its floor.
LEMMA FloorTaken ==
  ASSUME TypeOK, SourcesCopied, SentKnown, FloorKnown
  PROVE  /\ outbox.base <= device.floor /\ device.floor <= Floor(outbox)
         /\ Taken(device.floor)
<1>1. /\ outbox.base \in Nat /\ Len(outbox.rows) \in Nat
      /\ DOMAIN outbox.rows = 1 .. Len(outbox.rows) /\ device.floor \in Nat
  BY RowFacts DEF TypeOK
<1>2. CASE device.last = None
  BY <1>1, <1>2 DEF FloorKnown, Floor, Taken
<1>3. CASE device.last # None
  <2>1. PICK i \in DOMAIN outbox.rows : device.last = Command(outbox, i)
    BY <1>3 DEF SourcesCopied, SentKnown
  <2>2. device.floor = outbox.base + i
    BY <1>3, <2>1, RowFacts DEF FloorKnown
  <2>3. device.floor - outbox.base = i
    BY <1>1, <2>1, <2>2
  <2> QED
    BY <1>1, <2>1, <2>2, <2>3 DEF Floor, Taken
<1> QED
  BY <1>2, <1>3

\* A request behind the recorder's floor is still there to be taken.
LEMMA NextAcceptable ==
  ASSUME TypeOK, SourcesCopied, ReceiptsTrue, OutboxWhole, ErasedInOrder,
         NEW n \in DOMAIN outbox.rows, outbox.base + n = device.floor + 1
  PROVE  Acceptable(Command(outbox, n))
<1> DEFINE a == outbox.rows[n].arc
<1>1. /\ Command(outbox, n).seq = device.floor + 1 /\ Command(outbox, n).arc = a
      /\ a \in Archives /\ Copied(a)
  BY RowFacts DEF RowType, SourcesCopied
<1>2. a.cap \in Capture /\ a.end = "final" /\ Truth(a)
  BY <1>1, ArchiveType DEF Copied, ReceiptsTrue
<1>3. recorder[a.cap].end \notin {"erasing", "gone"}
  <2>1. \A i \in DOMAIN outbox.rows : outbox.rows[i].arc.cap = a.cap => i = n
    BY DEF OutboxWhole
  <2>2. ~ (outbox.base + n <= device.floor)
    <3>1. device.floor \in Nat
      BY DEF TypeOK
    <3> QED
      BY <3>1
  <2> QED
    BY <1>2, <2>1, <2>2 DEF ErasedInOrder
<1>4. recorder[a.cap] = [n |-> a.n, end |-> "final"]
  BY <1>2, <1>3 DEF Truth, Finalized, TypeOK, ImportTypeOK
<1> QED
  BY <1>1, <1>2, <1>4 DEF Acceptable

\* The recorder can always take the request behind its floor, whatever the caller
\* calls completed, unless an older outbox was put back: the capture it names is
\* still there, final and of that length, and its sequence is the next.
THEOREM NeverStuck == Spec => []NeverWedged
<1>1. ASSUME OutboxIInv PROVE NeverWedged
  <2> SUFFICES ASSUME restores = 0
               PROVE  /\ device.floor <= Floor(outbox) /\ Taken(device.floor)
                      /\ device.floor < Floor(outbox) =>
                           Acceptable(Command(outbox, device.floor + 1 - outbox.base))
    BY DEF NeverWedged
  <2>1. SentKnown /\ FloorKnown /\ ErasedInOrder
    BY <1>1 DEF OutboxIInv, Agreement
  <2>2. outbox.base <= device.floor /\ device.floor <= Floor(outbox) /\ Taken(device.floor)
    BY <1>1, <2>1, FloorTaken DEF OutboxIInv
  <2>3. ASSUME device.floor < Floor(outbox)
        PROVE  Acceptable(Command(outbox, device.floor + 1 - outbox.base))
    <3> DEFINE n == device.floor + 1 - outbox.base
    <3>1. /\ outbox.base \in Nat /\ Len(outbox.rows) \in Nat
          /\ DOMAIN outbox.rows = 1 .. Len(outbox.rows) /\ device.floor \in Nat
      BY <1>1, RowFacts DEF OutboxIInv, TypeOK
    <3>2. n \in DOMAIN outbox.rows /\ outbox.base + n = device.floor + 1
      BY <2>2, <2>3, <3>1 DEF Floor
    <3> HIDE DEF n
    <3>3. Acceptable(Command(outbox, n))
      BY <1>1, <2>1, <3>2, NextAcceptable DEF OutboxIInv
    <3> QED
      BY <3>3 DEF n
  <2> QED
    BY <2>2, <2>3
<1> QED
  BY <1>1, OutboxInductive, PTL

\* With a caller that calls completed only what is erased, the open request is the
\* recorder's last or its next.
THEOREM PendingIsNext == Spec => []OpenIsNext
<1>1. ASSUME OutboxIInv PROVE OpenIsNext
  <2> DEFINE n == Len(outbox.rows)
  <2> SUFFICES ASSUME restores = 0, Evidenced
               PROVE  IF Pending(outbox)
                      THEN LET c == Command(outbox, n) IN c = device.last \/ Acceptable(c)
                      ELSE device.floor = Floor(outbox)
    BY DEF OpenIsNext
  <2>1. SentKnown /\ FloorKnown /\ ErasedInOrder
    BY <1>1 DEF OutboxIInv, Agreement
  <2>2. /\ outbox.base \in Nat /\ n \in Nat /\ DOMAIN outbox.rows = 1 .. n
        /\ device.floor \in Nat /\ Floor(outbox) = outbox.base + n
    BY <1>1, RowFacts DEF OutboxIInv, TypeOK, Floor
  <2>3. outbox.base <= device.floor /\ device.floor <= Floor(outbox) /\ Taken(device.floor)
    BY <1>1, <2>1, FloorTaken DEF OutboxIInv
  <2>4. ASSUME NEW i \in 1 .. n, outbox.rows[i].done PROVE outbox.base + i <= device.floor
    <3>1. outbox.rows[i].arc.cap \in Capture /\ recorder[outbox.rows[i].arc.cap].end = "gone"
      <4>1. outbox.rows[i].arc \in Archives
        BY <1>1, <2>2, RowFacts DEF OutboxIInv, RowType
      <4> QED
        BY <2>2, <2>4, <4>1, ArchiveType DEF Evidenced
    <3>2. PICK j \in DOMAIN outbox.rows :
            outbox.rows[j].arc.cap = outbox.rows[i].arc.cap /\ outbox.base + j <= device.floor
      BY <2>1, <3>1 DEF ErasedInOrder
    <3>3. j = i
      BY <1>1, <2>2, <3>2 DEF OutboxIInv, OutboxWhole
    <3> QED
      BY <3>2, <3>3
  <2>5. CASE ~ Pending(outbox)
    <3>1. CASE n = 0
      BY <2>2, <2>3, <2>5, <3>1
    <3>2. CASE n > 0
      <4>1. outbox.rows[n].done
        BY <2>5, <3>2 DEF Pending
      <4>2. outbox.base + n <= device.floor
        BY <2>2, <2>4, <3>2, <4>1
      <4> QED
        BY <2>2, <2>3, <2>5, <4>2
    <3> QED
      BY <2>2, <3>1, <3>2
  <2>6. CASE Pending(outbox)
    <3>1. n > 0 /\ n \in DOMAIN outbox.rows
      BY <2>2, <2>6 DEF Pending
    <3>2. CASE device.floor = Floor(outbox)
      <4>1. device.floor > outbox.base /\ device.floor - outbox.base = n
        BY <2>2, <3>1, <3>2
      <4> QED
        BY <2>3, <2>6, <4>1 DEF Taken
    <3>3. CASE device.floor < Floor(outbox)
      <4>1. outbox.base + (n - 1) <= device.floor
        <5> HIDE DEF n
        <5>1. CASE n = 1
          BY <2>2, <2>3, <5>1
        <5>2. CASE n > 1
          <6>1. n - 1 \in 1 .. n /\ n - 1 # n
            BY <2>2, <5>2
          <6>2. outbox.rows[n - 1].done
            BY <1>1, <2>2, <6>1 DEF OutboxIInv, OutboxWhole, n
          <6> QED
            BY <2>4, <6>1, <6>2
        <5> QED
          BY <2>2, <3>1, <5>1, <5>2
      <4>2. outbox.base + n = device.floor + 1
        BY <2>2, <3>3, <4>1
      <4>3. Acceptable(Command(outbox, n))
        BY <1>1, <2>1, <3>1, <4>2, NextAcceptable DEF OutboxIInv
      <4> QED
        BY <2>6, <4>3
    <3> QED
      BY <2>2, <2>3, <3>2, <3>3
  <2> QED
    BY <2>5, <2>6
<1> QED
  BY <1>1, OutboxInductive, PTL

\* Every request is committed over a receiver that holds its archive then.
THEOREM SignedOverWhole == Spec => SignedOverCopy
<1>1. ASSUME OutboxIInv, [Next]_vars, Len(outbox'.rows) > Len(outbox.rows)
      PROVE  outbox'.rows[Len(outbox'.rows)].arc \in receipts'
  <2>1. Len(outbox.rows) \in Nat
    BY <1>1, RowFacts DEF OutboxIInv
  <2>2. PICK p \in Caller : CommitRequest(p)
    <3>1. CASE UNCHANGED outbox
      BY <1>1, <2>1, <3>1
    <3>2. ASSUME NEW i \in DOMAIN outbox.rows, MarkCompleted(i) PROVE FALSE
      BY <1>1, <2>1, <3>2, CompletedFacts DEF OutboxIInv
    <3>3. CASE ReplaceOutbox
      <4>1. Len(outbox'.rows) <= Len(outbox.rows) /\ Len(outbox'.rows) \in Nat
        BY <1>1, <3>3, ReplacedFacts, LenProperties DEF OutboxIInv
      <4> QED
        BY <1>1, <2>1, <4>1
    <3> QED
      BY <1>1, <3>1, <3>2, <3>3
         DEF Next, outboxVars, ReadSource, RepeatRequest, AbandonRequest, Retry,
             Grant, EraseLast, ChangeSource, vars
  <2>3. /\ Len(outbox'.rows) = Len(outbox.rows) + 1
        /\ outbox'.rows[Len(outbox.rows) + 1] =
             [id |-> session[p].id, arc |-> session[p].arc, done |-> FALSE]
    BY <1>1, <2>2, CommitFacts DEF OutboxIInv
  <2>4. session[p].arc \in receipts /\ receipts' = receipts
    BY <1>1, <2>2 DEF CommitRequest, importVars, OutboxIInv, SourcesCopied
  <2> QED
    BY <2>3, <2>4
<1>2. OutboxIInv /\ [Next]_vars =>
        [Len(outbox'.rows) > Len(outbox.rows) =>
           outbox'.rows[Len(outbox'.rows)].arc \in receipts']_vars
  BY <1>1
<1> QED
  BY <1>2, OutboxInductive, PTL DEF Spec, SignedOverCopy
===============================================================================
