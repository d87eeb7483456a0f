---------------------------- MODULE ReleaseOutbox ----------------------------
(***************************************************************************)
(* The companion's release outbox (release.py): it signs the command that  *)
(* lets the recorder erase one capture, after reading the capture's whole  *)
(* finalized archive in a receiver database, and keeps every command.  The *)
(* commands travel by whatever means the caller has: they may be lost,     *)
(* repeated and reordered, and the caller may call one completed that the  *)
(* recorder never took.                                                    *)
(*                                                                         *)
(* The recorder's side (aura_storage.c, aura_release_auth.c) is one step   *)
(* per change here; StorageOwner has its media, failures and restarts.     *)
(* Its answer to a command that it has already taken changes nothing.      *)
(* One enrolled owner is modelled: a command with another key, owner or    *)
(* incarnation is refused before anything is read.                         *)
(***************************************************************************)
EXTENDS ArchiveImport, Sequences

CONSTANTS
  Caller,        \* processes that share the outbox
  Request,       \* request identifiers
  MaxRequests    \* requests that an outbox keeps (_MAX_REQUESTS)

Commands == [seq : Nat \ {0}, arc : Archives]
Calls    == [id : Request, arc : Archives]

ASSUME OutboxAssumption ==
  MaxRequests \in Nat /\ None \notin Commands /\ None \notin Calls

VARIABLES
  outbox,     \* the authority's base floor and the requests in sequence
  session,    \* session[p]: the request p is making, its source open for reading
  sent,       \* commands that have been handed out
  device,     \* the recorder's release floor, last command and phase
  lost,       \* archives whose receiver database another program has changed
  restores    \* outbox files put back or provisioned anew

outboxVars == <<outbox, session, sent, device, lost, restores>>
vars == <<importVars, outboxVars>>

Command(box, i) == [seq |-> box.base + i, arc |-> box.rows[i].arc]
Floor(box)      == box.base + Len(box.rows)
Pending(box)    == Len(box.rows) > 0 /\ ~ box.rows[Len(box.rows)].done

Init ==
  /\ ImportInit
  /\ outbox = [base |-> 0, rows |-> << >>]
  /\ session = [p \in Caller |-> None]
  /\ sent = {} /\ lost = {} /\ restores = 0
  /\ device = [floor |-> 0, last |-> None, phase |-> "idle"]

-----------------------------------------------------------------------------
(* request_release *)

\* Mutant of Readable: the caller's own receipt stands for the source.
ReadableUnread(a) == TRUE

\* _ExistingReceiver.terminal verifies every packet and a finalized seal.
Readable(a) == a \in receipts /\ a.end = "final"

ReadSource(p, id, a) ==
  /\ session[p] = None /\ Readable(a)
  /\ session' = [session EXCEPT ![p] = [id |-> id, arc |-> a]]
  /\ UNCHANGED <<importVars, outbox, sent, device, lost, restores>>

\* Mutant of Unreleased: only the identifier is looked up.
UnreleasedNever(a) == TRUE

Unreleased(a) == \A i \in DOMAIN outbox.rows : outbox.rows[i].arc.cap # a.cap

\* Mutant of MayAppend: a request may follow one that is still open.
MayAppendOpen(id, a) ==
  /\ \A i \in DOMAIN outbox.rows : outbox.rows[i].id # id
  /\ Unreleased(a) /\ Len(outbox.rows) < MaxRequests

MayAppend(id, a) ==
  /\ \A i \in DOMAIN outbox.rows : outbox.rows[i].id # id
  /\ ~ Pending(outbox) /\ Unreleased(a) /\ Len(outbox.rows) < MaxRequests

\* The outbox transaction, inside the source's: a new request is committed
\* under the next sequence.  Only a call that outlives its commit answers.
CommitRequest(p) ==
  LET s == session[p]
  IN /\ s # None /\ MayAppend(s.id, s.arc)
     /\ outbox' = [outbox EXCEPT !.rows = Append(@, [id |-> s.id, arc |-> s.arc, done |-> FALSE])]
     /\ sent' \in {sent, sent \cup {Command(outbox', Len(outbox.rows) + 1)}}
     /\ session' = [session EXCEPT ![p] = None]
     /\ UNCHANGED <<importVars, device, lost, restores>>

\* The same request again gets the saved bytes.  An archive stands for one database
\* and its path; the identifier with another one is refused (AbandonRequest).
RepeatRequest(p) ==
  LET s == session[p]
  IN /\ s # None
     /\ \E i \in DOMAIN outbox.rows : /\ outbox.rows[i].id = s.id /\ outbox.rows[i].arc = s.arc
                                      /\ sent' = sent \cup {Command(outbox, i)}
     /\ session' = [session EXCEPT ![p] = None]
     /\ UNCHANGED <<importVars, outbox, device, lost, restores>>

\* Mutant of AbandonRequest: the command is handed out before a commit that fails.
AbandonAnswered(p) ==
  LET s == session[p]
  IN /\ s # None /\ MayAppend(s.id, s.arc)
     /\ sent' = sent \cup {[seq |-> Floor(outbox) + 1, arc |-> s.arc]}
     /\ session' = [session EXCEPT ![p] = None]
     /\ UNCHANGED <<importVars, outbox, device, lost, restores>>

\* A refused request, a failed transaction, a dead process: nothing is saved.
AbandonRequest(p) ==
  /\ session[p] # None
  /\ session' = [session EXCEPT ![p] = None]
  /\ UNCHANGED <<importVars, outbox, sent, device, lost, restores>>

-----------------------------------------------------------------------------
(* pending, retry and mark_completed *)

\* The saved command is handed out again if its source still reads the same.
Retry(i) ==
  /\ Readable(outbox.rows[i].arc)
  /\ sent' = sent \cup {Command(outbox, i)}
  /\ UNCHANGED <<importVars, outbox, session, device, lost, restores>>

\* The caller shows the saved command and receipt, which it has from the outbox
\* itself.  Whether the recorder ever answered is not looked at.
MarkCompleted(i) ==
  /\ Command(outbox, i) \in sent
  /\ outbox' = [outbox EXCEPT !.rows[i].done = TRUE]
  /\ UNCHANGED <<importVars, session, sent, device, lost, restores>>

-----------------------------------------------------------------------------
(* The recorder *)

\* aura_release_validate_next and the comparison with the journal's receipt.
Acceptable(c) ==
  /\ c.seq = device.floor + 1
  /\ recorder[c.arc.cap] = [n |-> c.arc.n, end |-> c.arc.end] /\ c.arc.end = "final"

\* A grant is durable, and from then on the capture is not listed.
Grant(c) ==
  /\ c \in sent /\ device.phase = "idle" /\ ~ Recording /\ Acceptable(c)
  /\ device' = [floor |-> c.seq, last |-> c, phase |-> "granted"]
  /\ RecorderIs(c.arc.cap, "erasing", c.arc.n)
  /\ UNCHANGED <<receipts, shelf, job, decoder, faults, outbox, session, sent, lost,
                 restores>>

\* aura_storage_release_step on the last extent.
EraseLast ==
  /\ device.phase = "granted"
  /\ device' = [device EXCEPT !.phase = "idle"]
  /\ RecorderIs(device.last.arc.cap, "gone", device.last.arc.n)
  /\ UNCHANGED <<receipts, shelf, job, decoder, faults, outbox, session, sent, lost,
                 restores>>

-----------------------------------------------------------------------------
(* What happens to the files *)

\* Mutant of Locked: the source is closed before the outbox is written.
LockedNever(a) == FALSE

\* A reader of a DELETE-journal database keeps every writer from committing.
Locked(a) == \E p \in Caller : session[p] # None /\ session[p].arc = a

ChangeSource(a) ==
  /\ a \in receipts /\ ~ Locked(a) /\ faults < MaxFaults
  /\ receipts' = receipts \ {a} /\ lost' = lost \cup {a} /\ faults' = faults + 1
  /\ UNCHANGED <<recorder, shelf, job, decoder, outbox, session, sent, device, restores>>

\* The outbox as it was when it had k requests, and when the last was still open.
Older(k)      == [outbox EXCEPT !.rows = SubSeq(@, 1, k)]
Reopened(box) == [box EXCEPT !.rows[Len(box.rows)].done = FALSE]

\* An older copy is put back, which _verify cannot tell, or a new outbox is
\* provisioned from the recorder's floor.
ReplaceOutbox ==
  /\ faults < MaxFaults /\ \A p \in Caller : session[p] = None
  /\ \/ \E k \in 0 .. Len(outbox.rows) : outbox' = Older(k)
     \/ \E k \in 1 .. Len(outbox.rows) : outbox' = Reopened(Older(k))
     \/ outbox' = [base |-> device.floor, rows |-> << >>]
  /\ restores' = restores + 1 /\ faults' = faults + 1
  /\ UNCHANGED <<recorder, receipts, shelf, job, decoder, session, sent, device, lost>>

-----------------------------------------------------------------------------
Next ==
  \/ ImportNext /\ UNCHANGED outboxVars
  \/ \E p \in Caller : \/ \E id \in Request, a \in Archives : ReadSource(p, id, a)
                       \/ CommitRequest(p) \/ RepeatRequest(p) \/ AbandonRequest(p)
  \/ \E i \in DOMAIN outbox.rows : Retry(i) \/ MarkCompleted(i)
  \/ \E c \in sent : Grant(c)
  \/ EraseLast
  \/ \E a \in Archives : ChangeSource(a)
  \/ ReplaceOutbox

Spec == Init /\ [][Next]_vars

-----------------------------------------------------------------------------
TypeOK ==
  /\ ImportTypeOK
  /\ outbox \in [base : Nat, rows : Seq([id : Request, arc : Archives, done : BOOLEAN])]
  /\ session \in [Caller -> Calls \cup {None}]
  /\ sent \subseteq Commands
  /\ device \in [floor : Nat, last : Commands \cup {None}, phase : {"idle", "granted"}]
  /\ lost \subseteq Archives /\ restores \in 0 .. MaxFaults

\* Every outbox passes its own _verify: only the last request may be open, and
\* no identifier or capture has two.
OutboxWhole ==
  \A i, j \in DOMAIN outbox.rows :
    /\ ~ outbox.rows[i].done => i = Len(outbox.rows)
    /\ \/ outbox.rows[i].id = outbox.rows[j].id
       \/ outbox.rows[i].arc.cap = outbox.rows[j].arc.cap
       => i = j

\* State, the outbox's own consistency and the evidence on the shelf, through
\* every death, restore, repeat and loss.
CompanionInv == TypeOK /\ OutboxWhole /\ EvidenceTrue

\* The recorder erases a capture only if the companion once committed its whole
\* finalized archive, whatever was lost, repeated or restored in between
\* (request_release "only after source verification and outbox COMMIT").
ErasedIsCopied ==
  \A c \in Capture : recorder[c].end \in {"erasing", "gone"} =>
    [cap |-> c, n |-> recorder[c].n, end |-> "final"] \in receipts \cup lost

\* A request is signed over a source that is unchanged at that moment, also when
\* another program writes to the database (the docstring of _ExistingReceiver).
SignedOverCopy ==
  [][Len(outbox'.rows) > Len(outbox.rows) =>
       outbox'.rows[Len(outbox'.rows)].arc \in receipts']_vars

\* The recorder has the command at sequence s of this outbox behind it.
Taken(s) == s > outbox.base => device.last = Command(outbox, s - outbox.base)

\* As long as no older outbox is put back, nothing is ever stuck: the last command
\* that the recorder took is the outbox's at that sequence, and the one after it,
\* if there is one, is a command the recorder can still take, whatever order,
\* repetition or loss the commands met, and whatever was called completed that the
\* recorder never took: retry hands out a completed request too (_saved).
NeverWedged ==
  restores = 0 =>
    /\ device.floor <= Floor(outbox) /\ Taken(device.floor)
    /\ device.floor < Floor(outbox) =>
         Acceptable(Command(outbox, device.floor + 1 - outbox.base))

\* What is called completed is erased.  mark_completed leaves that to its caller.
Evidenced ==
  \A i \in DOMAIN outbox.rows :
    outbox.rows[i].done => recorder[outbox.rows[i].arc.cap].end = "gone"

\* While nothing is called completed that is not erased, the one open request, which
\* pending() returns, is the recorder's last or its next, and with no open request
\* both count alike.
OpenIsNext ==
  restores = 0 /\ Evidenced =>
    IF Pending(outbox)
    THEN LET c == Command(outbox, Len(outbox.rows)) IN c = device.last \/ Acceptable(c)
    ELSE device.floor = Floor(outbox)
===============================================================================
