------------------------------ MODULE StorageOwner ------------------------------
(***************************************************************************)
(* firmware/a04/src/aura_storage.c over the block life cycle of            *)
(* aura_journal.c: capture generations are reserved in the control ledger, *)
(* recordings fill blocks of the data area, and an authorized release      *)
(* erases the blocks of one finished recording.  All calls come from one   *)
(* serialized owner; a ledger store, a page program or a block erase is a  *)
(* step that can fail, or lose power, with the media half changed.         *)
(*                                                                         *)
(* The ledger is the register that ControlLedger implements: a store that  *)
(* does not return leaves the old or the new snapshot, or nothing that can *)
(* be opened.  A generation stands for its capture: aura_storage_capture_id *)
(* derives the capture identity from it.                                   *)
(***************************************************************************)
EXTENDS Integers, FiniteSets, Sequences

CONSTANTS
  Block,           \* data blocks (the two control blocks are not among them)
  None,            \* no block
  MaxGeneration,   \* last capture generation (UINT64_MAX)
  MaxRelease,      \* last release sequence (UINT64_MAX)
  MaxCatalog,      \* captures a mount can list (128)
  MaxFaults,       \* failed steps and power cuts that are considered
  Damage,          \* what a torn page can read as: "torn", "unreadable"
  Opens            \* whether a ledger can be opened after a torn store

ASSUME StorageAssumption ==
  /\ Block # {} /\ IsFiniteSet(Block) /\ None \notin Block
  /\ MaxGeneration \in Nat /\ MaxRelease \in Nat
  /\ MaxCatalog \in Nat \ {0} /\ MaxFaults \in Nat
  /\ Damage \subseteq {"torn", "unreadable"}
  /\ Opens \subseteq BOOLEAN /\ TRUE \in Opens

Generation == 1 .. MaxGeneration

VARIABLES
  media,      \* media[b]: what block b holds
  ledger,     \* the durable AST1 snapshot
  openable,   \* the control pair still elects a snapshot
  owner,      \* struct aura_storage: ready and release progress
  journal,    \* struct aura_journal: block states and the active capture
  op,         \* the media operation in progress
  signed,     \* release commands that exist, each for one exact receipt
  opened,     \* history: generations whose first header was attempted
  closed,     \* history: generations whose finished recording was reported
  granted,    \* history: generations whose release became durable
  faults      \* failed steps so far

vars == <<media, ledger, openable, owner, journal, op, signed, opened, closed,
          granted, faults>>

----------------------------------------------------------------------------
(* Media.  A part is a block with a valid A4NH header: "end" tells whether *)
(* its data pages stop open or with a seal, "ckpt" is its checkpoint page. *)

Blank     == [kind |-> "blank"]
Damaged   == {[kind |-> d] : d \in Damage}

IsPart(m, b)  == m[b].kind = "part"
Parts(m, g)   == {b \in Block : IsPart(m, b) /\ m[b].gen = g}
Captures(m)   == {g \in Generation : Parts(m, g) # {}}
LastPart(m, g, b) == b \in Parts(m, g) /\ \A c \in Parts(m, g) : m[c].part <= m[b].part

\* mount's second walk: one chain of parts from the first, no gap or branch.
Linked(m, g) ==
  \A b \in Parts(m, g) :
    /\ IF m[b].part = 0 THEN m[b].prev = None
       ELSE /\ m[b].prev \in Parts(m, g)
            /\ m[m[b].prev].part = m[b].part - 1
    /\ \A c \in Parts(m, g) : m[c].part = m[b].part => c = b

\* The full walk of aura_journal_verify: only the last part may be incomplete.
Verified(m, g) ==
  /\ Parts(m, g) # {}
  /\ Linked(m, g)
  /\ \A b \in Parts(m, g) :
       \/ LastPart(m, g, b) /\ (m[b].part = 0 => m[b].end # "none")
                            /\ m[b].ckpt # "unreadable"
       \/ m[b].end = "open" /\ m[b].ckpt = "valid"

\* The status that the receipt of capture g declares.
Receipt(m, g) ==
  LET last == CHOOSE b \in Parts(m, g) : LastPart(m, g, b)
  IN  IF m[last].end \in {"final", "interrupted"} THEN m[last].end ELSE "open"

\* The blocks of g in archive order.
Extents(m, g) ==
  LET last == CHOOSE b \in Parts(m, g) : LastPart(m, g, b)
  IN  [k \in 1 .. m[last].part + 1 |->
         CHOOSE b \in Parts(m, g) : m[b].part = k - 1]

----------------------------------------------------------------------------
(* The ledger snapshot and the fence it puts around granted extents.       *)

Fence(l)  == IF l.phase = "granted" THEN {l.extents[k] : k \in DOMAIN l.extents} ELSE {}

Granted(cmd) == [ledger EXCEPT !.phase = "granted", !.floor = cmd.seq, !.last = cmd,
                               !.extents = Extents(media, cmd.gen)]
Retired      == [ledger EXCEPT !.phase = "idle", !.extents = << >>]

----------------------------------------------------------------------------
(* Mount: block states and the generation floor, read back from the media. *)

Unmounted == [state |-> [b \in Block |-> "excluded"], active |-> 0, binding |-> 0,
              prepared |-> None, current |-> None, last |-> None, bound |-> 0,
              fault |-> TRUE]

StateOf(m, b) == CASE m[b].kind = "part" -> "owned"
                   [] m[b].kind = "blank" -> "free"
                   [] OTHER -> "quarantined"

HighestGeneration(m, l) ==
  LET seen == {0} \cup {m[b].gen : b \in {c \in Block \ Fence(l) : IsPart(m, c)}}
  IN  CHOOSE g \in seen : \A f \in seen : f <= g

Mounted(m, l) ==
  [Unmounted EXCEPT
     !.state = [b \in Block |-> IF b \in Fence(l) THEN "excluded" ELSE StateOf(m, b)],
     !.bound = HighestGeneration(m, l),
     !.fault = FALSE]

Listed(m, l) == {g \in Generation : Parts(m, g) \ Fence(l) # {}}

\* aura_journal_mount, aura_journal_set_owned_profile and the reservation floor.
Mountable(m, l) ==
  /\ Cardinality(Listed(m, l)) <= MaxCatalog
  /\ \A b \in Block \ Fence(l) : /\ m[b].kind # "unreadable"
                                 /\ IsPart(m, b) => m[b].ckpt # "unreadable"
  /\ HighestGeneration(m, l) <= l.counter

----------------------------------------------------------------------------
NoCommand == [seq |-> 0, gen |-> 0, end |-> "none"]
Idle      == [step |-> "idle"]
Down      == [ready |-> FALSE, progress |-> 0]
Programs  == {"header", "page", "checkpoint"}

Free      == {b \in Block : journal.state[b] = "free"}
Resting   == journal.active = 0 /\ journal.binding = 0 /\ ~journal.fault
Store(why, l) == op' = [step |-> "store", why |-> why, next |-> l]

Init ==
  /\ media    = [b \in Block |-> Blank]
  /\ ledger   = [phase |-> "idle", counter |-> 0, floor |-> 0, last |-> NoCommand,
                 extents |-> << >>]
  /\ openable = TRUE
  /\ owner    = [ready |-> TRUE, progress |-> 0]
  /\ journal  = Mounted(media, ledger)
  /\ op       = Idle
  /\ signed   = {} /\ opened = {} /\ closed = {} /\ granted = {}
  /\ faults   = 0

Mount(l) ==
  IF Mountable(media, l)
  THEN owner' = [ready |-> TRUE, progress |-> 0] /\ journal' = Mounted(media, l)
  ELSE owner' = Down /\ journal' = Unmounted

\* aura_storage_open, after a restart or after a call that failed.
Open ==
  /\ op = Idle /\ (~owner.ready \/ journal.fault) /\ openable
  /\ Mount(ledger)
  /\ UNCHANGED <<media, ledger, openable, op, signed, opened, closed, granted, faults>>

----------------------------------------------------------------------------
(* Recording.                                                              *)

MayReserve == ledger.phase = "idle" /\ Resting /\ ledger.counter < MaxGeneration

\* Mutant of PrepareCapture: the reservation is bound without being stored.
PrepareCaptureVolatile ==
  /\ op = Idle /\ owner.ready
  /\ ledger.phase = "idle" /\ Resting
  /\ journal.bound < MaxGeneration
  /\ journal' = [journal EXCEPT !.binding = journal.bound + 1, !.bound = @ + 1]
  /\ UNCHANGED <<media, ledger, openable, owner, op, signed, opened, closed,
                 granted, faults>>

\* aura_storage_prepare_capture: the reservation is stored before it is used.
PrepareCapture ==
  /\ op = Idle /\ owner.ready
  /\ MayReserve
  /\ Store("reserve", [ledger EXCEPT !.counter = @ + 1])
  /\ UNCHANGED <<media, ledger, openable, owner, journal, signed, opened, closed,
                 granted, faults>>

CancelPrepared ==
  /\ op = Idle /\ owner.ready
  /\ ledger.phase = "idle" /\ journal.active = 0 /\ journal.binding # 0
  /\ journal' = [journal EXCEPT !.binding = 0]
  /\ UNCHANGED <<media, ledger, openable, owner, op, signed, opened, closed,
                 granted, faults>>

\* aura_journal_prepare gave block b: it read all FF, was erased, read all FF.
Prepared(b) == IF journal.prepared # None THEN b = journal.prepared
                                          ELSE b \in Free /\ owner.ready

\* The candidate is bad, not blank or fails its erase: the caller may retry.
PrepareRetry ==
  /\ op = Idle /\ ~journal.fault /\ journal.prepared = None
  /\ journal.binding # 0 \/ journal.active # 0
  /\ faults < MaxFaults /\ faults' = faults + 1
  /\ \E b \in Free, s \in {"excluded", "quarantined"} :
       journal' = [journal EXCEPT !.state[b] = s]
  /\ UNCHANGED <<media, ledger, openable, owner, op, signed, opened, closed, granted>>

\* aura_journal_prepare on its own, ahead of a recording.
Prepare ==
  /\ op = Idle /\ ~journal.fault /\ journal.prepared = None
  /\ ledger.phase = "idle"
  /\ \E b \in Block :
       /\ Prepared(b)
       /\ journal' = [journal EXCEPT !.prepared = b, !.state[b] = "prepared"]
  /\ UNCHANGED <<media, ledger, openable, owner, op, signed, opened, closed,
                 granted, faults>>

Header(b, g, part, prev, end) ==
  op' = [step |-> "header", block |-> b, gen |-> g, part |-> part, prev |-> prev,
         end |-> end]

\* Mutant of CatalogRoom: the catalog is not counted.
CatalogUncounted == TRUE

CatalogRoom == Cardinality(Listed(media, ledger)) < MaxCatalog

\* aura_journal_stage of a manifest: the binding is consumed before the header.
StartCapture ==
  /\ op = Idle /\ ~journal.fault /\ journal.active = 0 /\ journal.binding # 0
  /\ journal.binding \notin Listed(media, ledger)
  /\ CatalogRoom
  /\ \E b \in Block :
       /\ Prepared(b)
       /\ Header(b, journal.binding, 0, None, "none")
       /\ journal' = [journal EXCEPT !.active = journal.binding, !.binding = 0,
                                     !.prepared = b, !.state[b] = "prepared"]
  /\ opened' = opened \cup {journal.binding}
  /\ UNCHANGED <<media, ledger, openable, owner, signed, closed, granted, faults>>

\* aura_journal_flush of one data page: "end" says whether it fills its block
\* ("full") or carries the capture's seal.  A full block's successor is opened
\* first, and with no block left the journal stops.
Flush(end) ==
  /\ op = Idle /\ ~journal.fault /\ journal.active # 0
  /\ IF journal.current # None
     THEN op' = [step |-> "page", block |-> journal.current, end |-> end]
          /\ UNCHANGED journal
     ELSE IF journal.prepared = None /\ Free = {}
     THEN journal' = [journal EXCEPT !.fault = TRUE] /\ UNCHANGED op
     ELSE \E b \in Block :
            /\ Prepared(b)
            /\ Header(b, journal.active, media[journal.last].part + 1, journal.last, end)
            /\ journal' = [journal EXCEPT !.prepared = b, !.state[b] = "prepared"]
  /\ UNCHANGED <<media, ledger, openable, owner, signed, opened, closed, granted, faults>>

\* data_program lets a page through to the device.
Writable(b) == owner.ready /\ ledger.phase = "idle" /\ b \notin Fence(ledger)

Part == [kind |-> "part", gen |-> op.gen, part |-> op.part, prev |-> op.prev,
         end |-> "none", ckpt |-> "blank"]

HeaderDone ==
  /\ op.step = "header" /\ Writable(op.block)
  /\ media' = [media EXCEPT ![op.block] = Part]
  /\ journal' = [journal EXCEPT !.prepared = None, !.current = op.block,
                                !.last = op.block, !.state[op.block] = "owned"]
  /\ op' = IF op.end = "none" THEN Idle
           ELSE [step |-> "page", block |-> op.block, end |-> op.end]
  /\ UNCHANGED <<ledger, openable, owner, signed, opened, closed, granted, faults>>

PageEnd == IF op.end = "full" THEN "open" ELSE op.end

PageDone ==
  /\ op.step = "page" /\ Writable(op.block)
  /\ media' = [media EXCEPT ![op.block].end = PageEnd]
  /\ op' = IF op.end = "open" THEN Idle ELSE [op EXCEPT !.step = "checkpoint"]
  /\ UNCHANGED <<ledger, openable, owner, journal, signed, opened, closed, granted, faults>>

\* Mutant of CheckpointDone: the page is not read back after the program.
CheckpointUnread ==
  /\ op.step = "checkpoint" /\ Writable(op.block)
  /\ media' \in {media, [media EXCEPT ![op.block].ckpt = "valid"]}
  /\ journal' = [journal EXCEPT !.current = None,
                                !.active = IF op.end = "full" THEN @ ELSE 0]
  /\ closed' = IF op.end = "final" THEN closed \cup {journal.active} ELSE closed
  /\ op' = Idle
  /\ UNCHANGED <<ledger, openable, owner, signed, opened, granted, faults>>

CheckpointDone ==
  /\ op.step = "checkpoint" /\ Writable(op.block)
  /\ media' = [media EXCEPT ![op.block].ckpt = "valid"]
  /\ journal' = [journal EXCEPT !.current = None,
                                !.active = IF op.end = "full" THEN @ ELSE 0]
  /\ closed' = IF op.end = "final" THEN closed \cup {journal.active} ELSE closed
  /\ op' = Idle
  /\ UNCHANGED <<ledger, openable, owner, signed, opened, granted, faults>>

----------------------------------------------------------------------------
(* Release.                                                                *)

\* The receiver holds an export of g and its owner signs the release of that
\* exact receipt.  Nothing is assumed of the order in which sequence numbers
\* are signed, nor that one number is signed for one capture only.  An export
\* of an open prefix carries a derived "interrupted" seal.
Sign(seq, g) ==
  /\ op = Idle /\ Resting
  /\ g \in Listed(media, ledger) /\ Verified(media, g)
  /\ \A b \in Block : journal.state[b] # "quarantined"
  /\ signed' = signed \cup
       {[seq |-> seq, gen |-> g,
         end |-> IF Receipt(media, g) = "final" THEN "final" ELSE "interrupted"]}
  /\ UNCHANGED <<media, ledger, openable, owner, journal, op, opened, closed,
                 granted, faults>>

NextSequence(cmd) == cmd.seq = ledger.floor + 1

\* Mutant of FinishedReceipt: the receipt of an interrupted capture will do.
AnyReceipt(cmd) == TRUE

FinishedReceipt(cmd) == cmd.end = "final"

\* aura_storage_request_release up to the store of the grant.  Every refusal,
\* and the repetition of the last command, leaves the state as it is.
RequestRelease(cmd) ==
  /\ op = Idle /\ owner.ready
  /\ FinishedReceipt(cmd)
  /\ ledger.phase = "idle" /\ Resting
  /\ NextSequence(cmd)
  /\ Verified(media, cmd.gen) /\ Receipt(media, cmd.gen) = cmd.end
  /\ cmd.gen <= ledger.counter
  /\ Store("grant", Granted(cmd))
  /\ UNCHANGED <<media, ledger, openable, owner, journal, signed, opened, closed,
                 granted, faults>>

\* Mutant of OnlyReleased: an extent that is already erased is a surprise.
OnlyReleasedStrict(b, k) ==
  IsPart(media, b) /\ media[b].gen = ledger.last.gen /\ media[b].part = k - 1

\* check_released_extent: what an interrupted erase of the k-th extent may
\* have left, and nothing that belongs to anyone else.
OnlyReleased(b, k) ==
  /\ media[b].kind # "unreadable"
  /\ IsPart(media, b) => media[b].gen = ledger.last.gen /\ media[b].part = k - 1

ReleaseStep ==
  /\ op = Idle /\ owner.ready
  /\ ledger.phase = "granted" /\ journal.active = 0
  /\ LET k == owner.progress + 1
         b == ledger.extents[k]
     IN  IF OnlyReleased(b, k)
         THEN op' = [step |-> "erase", block |-> b] /\ UNCHANGED owner
         ELSE owner' = Down /\ UNCHANGED op
  /\ UNCHANGED <<media, ledger, openable, journal, signed, opened, closed, granted, faults>>

LastExtent == owner.progress + 1 = Len(ledger.extents)

\* erase_released, the blank check, and after the last extent the retirement.
EraseDone ==
  /\ op.step = "erase"
  /\ media' = [media EXCEPT ![op.block] = Blank]
  /\ owner' = [owner EXCEPT !.progress = @ + 1]
  /\ IF LastExtent THEN Store("retire", Retired) ELSE op' = Idle
  /\ UNCHANGED <<ledger, openable, journal, signed, opened, closed, granted, faults>>

\* A new snapshot that grants a release makes its command a granted one.
Adopt(l) ==
  /\ ledger' = l
  /\ granted' = IF l.phase = "granted" THEN granted \cup {l.last} ELSE granted

\* aura_control_store returned: bind the reserved generation, or mount again.
StoreDone ==
  /\ op.step = "store"
  /\ Adopt(op.next)
  /\ op' = Idle
  /\ IF op.why = "reserve"
     THEN IF op.next.counter > journal.bound
          THEN /\ journal' = [journal EXCEPT !.binding = op.next.counter,
                                             !.bound = op.next.counter]
               /\ UNCHANGED owner
          ELSE owner' = Down /\ UNCHANGED journal
     ELSE Mount(op.next)
  /\ UNCHANGED <<media, openable, signed, opened, closed, faults>>

----------------------------------------------------------------------------
(* Failures.                                                               *)

OneFault == faults < MaxFaults /\ faults' = faults + 1

\* What a program that did not return success leaves in its page.
Programmed(b) ==
  CASE op.step = "header" -> {media[b], Part} \cup Damaged
    [] op.step = "page" -> {media[b], [media[b] EXCEPT !.end = PageEnd]}
    [] op.step = "checkpoint" ->
         {[media[b] EXCEPT !.ckpt = c] :
            c \in {"blank", "valid"} \cup (Damage \cap {"unreadable"})}

Interrupted ==
  \/ op = Idle /\ UNCHANGED <<media, ledger, openable, granted>>
  \/ /\ op.step = "store"
     /\ openable' \in Opens
     /\ Adopt(op.next) \/ UNCHANGED <<ledger, granted>>
     /\ UNCHANGED media
  \/ /\ op.step = "erase"
     /\ \E x \in {media[op.block], Blank} \cup Damaged :
          media' = [media EXCEPT ![op.block] = x]
     /\ UNCHANGED <<ledger, openable, granted>>
  \/ /\ op.step \in Programs
     /\ \E x \in Programmed(op.block) : media' = [media EXCEPT ![op.block] = x]
     /\ UNCHANGED <<ledger, openable, granted>>

ProgramBroken ==
  /\ journal' = [journal EXCEPT !.fault = TRUE, !.state[op.block] = "quarantined",
                                !.prepared = IF op.step = "header" THEN None ELSE @]
  /\ op' = Idle

\* The step in progress reports an error.  A failed program stops the journal,
\* anything else stops the storage owner until it is opened again.
StepFails ==
  /\ OneFault /\ Interrupted
  /\ IF op # Idle /\ op.step \in Programs
     THEN ProgramBroken /\ UNCHANGED owner
     ELSE owner' = Down /\ op' = Idle /\ UNCHANGED journal
  /\ UNCHANGED <<signed, opened, closed>>

\* data_program turns a page away: the owner failed since the capture began.
ProgramRefused ==
  /\ op.step \in Programs /\ ~Writable(op.block)
  /\ ProgramBroken
  /\ UNCHANGED <<media, ledger, openable, owner, signed, opened, closed, granted, faults>>

PowerCut ==
  /\ OneFault /\ Interrupted
  /\ owner' = Down /\ journal' = Unmounted /\ op' = Idle
  /\ UNCHANGED <<signed, opened, closed>>

----------------------------------------------------------------------------
Steps == HeaderDone \/ PageDone \/ CheckpointDone \/ EraseDone \/ StoreDone

Next ==
  \/ Open \/ PrepareCapture \/ CancelPrepared \/ Prepare \/ PrepareRetry
  \/ StartCapture
  \/ \E end \in {"open", "full", "final", "interrupted"} : Flush(end)
  \/ \E seq \in 1 .. MaxRelease, g \in Generation : Sign(seq, g)
  \/ \E cmd \in signed : RequestRelease(cmd)
  \/ ReleaseStep
  \/ Steps \/ ProgramRefused
  \/ StepFails \/ PowerCut

Spec == Init /\ [][Next]_vars

----------------------------------------------------------------------------
Content ==
  {Blank} \cup [kind : Damage]
    \cup [kind : {"part"}, gen : Generation, part : Nat, prev : Block \cup {None},
          end : {"none", "open", "final", "interrupted"},
          ckpt : {"blank", "valid", "unreadable"}]

Command == [seq : 1 .. MaxRelease, gen : Generation, end : {"final", "interrupted"}]

Snapshot == [phase : {"idle", "granted"}, counter : 0 .. MaxGeneration,
             floor : 0 .. MaxRelease, last : Command \cup {NoCommand},
             extents : Seq(Block)]

End == {"open", "full", "final", "interrupted"}

Operation ==
  {Idle}
    \cup [step : {"store"}, why : {"reserve", "grant", "retire"}, next : Snapshot]
    \cup [step : {"header"}, block : Block, gen : Generation, part : Nat,
          prev : Block \cup {None}, end : End \cup {"none"}]
    \cup [step : {"page", "checkpoint"}, block : Block, end : End]
    \cup [step : {"erase"}, block : Block]

Journal ==
  [state : [Block -> {"free", "owned", "quarantined", "excluded", "prepared"}],
   active : 0 .. MaxGeneration, binding : 0 .. MaxGeneration,
   prepared : Block \cup {None}, current : Block \cup {None},
   last : Block \cup {None}, bound : 0 .. MaxGeneration, fault : BOOLEAN]

TypeOK ==
  /\ media \in [Block -> Content]
  /\ ledger \in Snapshot
  /\ openable \in BOOLEAN
  /\ owner \in [ready : BOOLEAN, progress : Nat]
  /\ journal \in Journal
  /\ op \in Operation
  /\ signed \subseteq Command
  /\ granted \subseteq Command
  /\ opened \subseteq Generation /\ closed \subseteq Generation
  /\ faults \in 0 .. MaxFaults

Released == {cmd.gen : cmd \in granted}

\* A finished recording that was reported stays whole on the media, whatever
\* fails, restarts, is recorded or is released beside it, until its own release
\* is durable ("preserving other recordings").
ReportedStaysWhole ==
  \A g \in closed \ Released : Verified(media, g) /\ Receipt(media, g) = "final"

\* After a release nothing of the capture is left outside the fence, and none
\* of it comes back after any restart: an interrupted release is never seen as
\* a shorter recording.
ReleasedStaysGone == \A g \in Released : Parts(media, g) \subseteq Fence(ledger)

\* Recording and release exclude each other, also across failed stores.
ReleaseExcludesRecording ==
  ledger.phase = "granted" => journal.active = 0 /\ journal.binding = 0

\* What the owner writes never makes a later open refuse it: the reservation
\* floor covers every generation on the media and the catalog never overflows.
\* Only an unreadable page or a torn ledger can.
OpenNeverRefused ==
  (\A b \in Block : /\ media[b].kind # "unreadable"
                    /\ IsPart(media, b) => media[b].ckpt # "unreadable")
    => Mountable(media, ledger)

\* A generation, and so a capture identity, is used for one recording only,
\* whatever happened to the header it was first used for.
GenerationUsedOnce ==
  [][journal'.active \notin {0, journal.active} => journal'.active \notin opened
    ]_<<journal, opened>>

\* The durable grants are numbered 1 .. floor, one command for each number,
\* however many commands were signed and however often each is sent.
GrantsInSequence ==
  /\ {cmd.seq : cmd \in granted} = 1 .. ledger.floor
  /\ \A a, b \in granted : a.seq = b.seq => a = b

\* The shape of the state, with what relates the ledger to the media in it.
StorageInv ==
  /\ TypeOK /\ ReleasedStaysGone /\ ReleaseExcludesRecording /\ GrantsInSequence
  /\ OpenNeverRefused

\* A durable grant can always be carried on: what an erase that was cut left in
\* an extent, and extents that are already blank, pass check_released_extent of
\* every later attempt, and an idle owner has an extent left to erase.  Else the
\* fence, which no command lifts, would stay for good.  Only an unreadable page
\* may refuse.
ReleaseNeverRefused ==
  ledger.phase = "granted" =>
    /\ \A k \in 1 .. Len(ledger.extents) :
         media[ledger.extents[k]].kind # "unreadable" => OnlyReleased(ledger.extents[k], k)
    /\ owner.ready /\ op = Idle => owner.progress < Len(ledger.extents)

\* The owner implements the capture vault: a recording is read off the media.
StatusOf(g) ==
  IF g > ledger.counter THEN "unused"
  ELSE IF g \in Released THEN "released"
  ELSE IF Parts(media, g) = {} THEN "reserved"
  ELSE IF \E b \in Parts(media, g) : media[b].end = "final" THEN "final"
  ELSE "held"

Vault == INSTANCE CaptureVault
  WITH status <- [g \in Generation |-> StatusOf(g)],
       permitted <- {cmd.gen : cmd \in signed}

\* Through every interleaving of failures, a capture only ever moves from
\* unused over reserved, held and final to released, with its permission.
ImplementsVault == Vault!Spec
===============================================================================
