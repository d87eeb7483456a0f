----------------------------- MODULE ControlLedger -----------------------------
(***************************************************************************)
(* firmware/a04/src/aura_control.c: two reserved NAND blocks that hold one *)
(* opaque snapshot, replaced whole by writing the other block.  Every      *)
(* erase and every page program is a step, and power may fail in any.      *)
(*                                                                         *)
(* A snapshot is identified by the sequence of all the values stored up to *)
(* it.  That is what the commit page's SHA-256 binds through the chain of  *)
(* parent hashes: generation is the sequence's length, the parent's hash   *)
(* its front, and two commits hash alike only if the sequences are equal.  *)
(* Page 1 below is the header (page 2 of the block), 1+i is body i (page   *)
(* 2+i) and CommitPage the commit (page 63).                               *)
(***************************************************************************)
EXTENDS Integers, SequencesExt

CONSTANTS
  Context,        \* struct aura_control objects that take turns on the pair
  Value,          \* snapshots an owner may ask to store
  MaxBodies,      \* body pages a block can hold (26 in the code)
  Bodies,         \* Bodies[v]: body pages that v fills
  MaxGeneration,  \* UINT64_MAX: the generation that cannot be replaced
  ReadFault,      \* sets of <<slot, page>> that one scan may fail to read
  Residue         \* what an interrupted erase may leave of a page

ASSUME LedgerAssumption ==
  /\ Context # {}
  /\ MaxBodies \in Nat
  /\ Bodies \in [Value -> 0 .. MaxBodies]
  /\ \A v, w \in Value : Bodies[v] = 0 /\ Bodies[w] = 0 => v = w
  /\ MaxGeneration \in Nat \ {0}
  /\ {} \in ReadFault
  /\ ReadFault \subseteq SUBSET ({0, 1} \X (1 .. MaxBodies + 2))
  /\ Residue \subseteq {"kept", "blank", "weak", "torn", "unreadable"}

Slot       == {0, 1}
CommitPage == MaxBodies + 2
Page       == 1 .. CommitPage

VARIABLES
  media,     \* media[s][p]: the content of page p of slot s
  ctx,       \* ctx[c]: ready, current slot and current snapshot
  op,        \* the store or provision that is running
  durable,   \* history: the newest snapshot whose commit page is complete
  acked      \* history: the newest snapshot a successful call reported

vars == <<media, ctx, op, durable, acked>>

----------------------------------------------------------------------------
(* Pages.  "weak" reads FF through ECC correction, "torn" is neither FF    *)
(* nor a page that passes its CRC, "unreadable" is an uncorrectable read.  *)

Blank      == [kind |-> "blank"]
Weak       == [kind |-> "weak"]
Torn       == [kind |-> "torn"]
Unreadable == [kind |-> "unreadable"]

HeaderOf(base, v)  == [kind |-> "header", parent |-> base, bodies |-> Bodies[v]]
BodyOf(base, v, i) == [kind |-> "body", snap |-> Append(base, v), index |-> i]
CommitOf(base, v)  == [kind |-> "commit", snap |-> Append(base, v)]

\* The block that write_snapshot leaves when it stores v on top of base.
Image(base, v) ==
  [p \in Page |-> IF p = 1 THEN HeaderOf(base, v)
                  ELSE IF p = CommitPage THEN CommitOf(base, v)
                  ELSE IF p - 1 <= Bodies[v] THEN BodyOf(base, v, p - 1)
                  ELSE Blank]

\* The bodies that v fills are followed by the commit page.
NextPage(p, v) == IF p <= Bodies[v] THEN p + 1 ELSE CommitPage

IsFF(x) == x \in {Blank, Weak}

Generation(x) == CASE x.kind = "header" -> Len(x.parent) + 1
                   [] x.kind \in {"body", "commit"} -> Len(x.snap)
                   [] OTHER -> 0

----------------------------------------------------------------------------
(* scan: what one pass over a block establishes.                           *)

Seen(m, bad) == [s \in Slot |-> [p \in Page |->
                   IF <<s, p>> \in bad THEN Unreadable ELSE m[s][p]]]

Erased(b)      == \A p \in Page : b[p] = Blank
ReadFailed(b)  == \E p \in Page : b[p] = Unreadable
CommitValid(b) == b[CommitPage].kind = "commit"
Snap(b)        == b[CommitPage].snap

MixedGeneration(b) ==
  \E p, q \in Page : /\ Generation(b[p]) # 0 /\ Generation(b[q]) # 0
                     /\ Generation(b[p]) # Generation(b[q])

HeaderMatchesCommit(b) ==
  CommitValid(b) /\ b[1] = HeaderOf(Front(Snap(b)), Last(Snap(b)))

\* Hash chain and blank tail agree with the commit page.
Valid(b) ==
  /\ CommitValid(b)
  /\ LET want == Image(Front(Snap(b)), Last(Snap(b)))
     IN  \A p \in Page : b[p] = want[p] \/ (want[p] = Blank /\ IsFF(b[p]))

\* "new" names "old" as its parent, by generation and by hash.
Linked(old, new) == new # << >> /\ Front(new) = old

\* A partial block that can only be the old one, caught in its erase.
Retained(b, new) ==
  /\ CommitValid(b)
  /\ ~ReadFailed(b)
  /\ ~MixedGeneration(b)
  /\ IsFF(b[1]) \/ HeaderMatchesCommit(b)
  /\ Linked(Snap(b), new)

\* aura_control_open gives authority to slot s of the view m.
Elects(m, s) ==
  LET other == m[1 - s] IN
  /\ Valid(m[s])
  /\ \/ Erased(other)
     \/ Valid(other) /\ Linked(Snap(other), Snap(m[s]))
     \/ ~Valid(other) /\ Retained(other, Snap(m[s]))

----------------------------------------------------------------------------
Unready == [ready |-> FALSE, slot |-> 0, snap |-> << >>]
Idle    == [step |-> "idle"]

Selected(m, s) == [ready |-> TRUE, slot |-> s, snap |-> Snap(m[s])]

Fail(c) == ctx' = [ctx EXCEPT ![c] = Unready]

BeginOnCurrent(c, s, base, v) ==
  op' = [step |-> "erase", owner |-> c, slot |-> 1 - s, page |-> 1,
         base |-> base, value |-> v]

Begin(c, s, base, v) ==
  op' = [step |-> "erase", owner |-> c, slot |-> s, page |-> 1,
         base |-> base, value |-> v]

Candidate == Append(op.base, op.value)

Init ==
  /\ media   = [s \in Slot |-> [p \in Page |-> Blank]]
  /\ ctx     = [c \in Context |-> Unready]
  /\ op      = Idle
  /\ durable = << >>
  /\ acked   = << >>

Open(c) ==
  /\ op = Idle
  /\ \E bad \in ReadFault :
       LET m == Seen(media, bad) IN
       \/ \E s \in Slot : /\ Elects(m, s)
                          /\ ctx' = [ctx EXCEPT ![c] = Selected(m, s)]
                          /\ acked' = Snap(m[s])
       \/ /\ \A s \in Slot : ~Elects(m, s)
          /\ Fail(c)
          /\ UNCHANGED acked
  /\ UNCHANGED <<media, op, durable>>

\* Mutant of Refreshed: what the context already knows is not compared.
RefreshedStale(c, m, s) == Elects(m, s)

\* refresh_current: a whole new open, which must find what c already knows.
Refreshed(c, m, s) == Elects(m, s) /\ Snap(m[s]) = ctx[c].snap

\* aura_control_load: refresh, then copy the snapshot out in one more scan.
Load(c) ==
  /\ op = Idle
  /\ ctx[c].ready
  /\ \E bad, worse \in ReadFault :
       LET m == Seen(media, bad)
           n == Seen(media, worse)
       IN  \/ \E s \in Slot : /\ Refreshed(c, m, s)
                              /\ Valid(n[s]) /\ Snap(n[s]) = ctx[c].snap
                              /\ ctx' = [ctx EXCEPT ![c].slot = s]
                              /\ acked' = Snap(n[s])
           \/ /\ \A s \in Slot : \/ ~Refreshed(c, m, s)
                                 \/ ~(Valid(n[s]) /\ Snap(n[s]) = ctx[c].snap)
              /\ Fail(c)
              /\ UNCHANGED acked
  /\ UNCHANGED <<media, op, durable>>

\* aura_control_store up to its erase: both slots are read again first.
Store(c, v) ==
  /\ op = Idle
  /\ ctx[c].ready
  /\ Len(ctx[c].snap) < MaxGeneration
  /\ \E bad \in ReadFault :
       LET m == Seen(media, bad) IN
       \/ \E s \in Slot : /\ Refreshed(c, m, s)
                          /\ ctx' = [ctx EXCEPT ![c].slot = s]
                          /\ Begin(c, 1 - s, ctx[c].snap, v)
       \/ /\ \A s \in Slot : ~Refreshed(c, m, s)
          /\ Fail(c)
          /\ UNCHANGED op
  /\ UNCHANGED <<media, durable, acked>>

\* aura_control_provision: refused unless every page of both blocks is FF.
Provision(c, v) ==
  /\ op = Idle
  /\ Fail(c)
  /\ \E bad \in ReadFault :
       IF \A s \in Slot : Erased(Seen(media, bad)[s])
       THEN Begin(c, 0, << >>, v)
       ELSE UNCHANGED op
  /\ UNCHANGED <<media, durable, acked>>

\* Mutant of EraseInactive: part of the block may still hold its old pages.
EraseUnchecked ==
  /\ op.step = "erase"
  /\ \E p \in Page :
       media' = [media EXCEPT ![op.slot] = [q \in Page |-> IF q < p THEN @[q] ELSE Blank]]
  /\ op' = [op EXCEPT !.step = "program"]
  /\ UNCHANGED <<ctx, durable, acked>>

\* erase_inactive: the fresh erase is believed only after a full FF check.
EraseInactive ==
  /\ op.step = "erase"
  /\ media' = [media EXCEPT ![op.slot] = [p \in Page |-> Blank]]
  /\ op' = [op EXCEPT !.step = "program"]
  /\ UNCHANGED <<ctx, durable, acked>>

\* Header, the bodies that v fills, commit; every page is read back, so that
\* an uncertain completion with the exact bytes counts as success.
ProgramPage ==
  /\ op.step = "program"
  /\ LET want == Image(op.base, op.value) IN
     media' = [media EXCEPT ![op.slot][op.page] = want[op.page]]
  /\ IF op.page = CommitPage
     THEN /\ op' = [op EXCEPT !.step = "verify"]
          /\ durable' = Candidate
     ELSE /\ op' = [op EXCEPT !.page = NextPage(@, op.value)]
          /\ UNCHANGED durable
  /\ UNCHANGED <<ctx, acked>>

\* The final scan of write_snapshot and select_slot.
VerifySnapshot ==
  /\ op.step = "verify"
  /\ \E bad \in ReadFault :
       LET m == Seen(media, bad) IN
       IF Valid(m[op.slot]) /\ Snap(m[op.slot]) = Candidate
       THEN /\ ctx' = [ctx EXCEPT ![op.owner] = Selected(m, op.slot)]
            /\ acked' = Candidate
       ELSE Fail(op.owner) /\ UNCHANGED acked
  /\ op' = Idle
  /\ UNCHANGED <<media, durable>>

----------------------------------------------------------------------------
(* Failures: what the interrupted step leaves on the media.                *)

Left(x, r) == CASE r = "kept" -> x
                [] r = "blank" -> Blank
                [] r = "weak" -> Weak
                [] r = "torn" -> Torn
                [] r = "unreadable" -> Unreadable

InterruptedErase ==
  /\ op.step = "erase"
  /\ \E r \in [Page -> Residue] :
       media' = [media EXCEPT ![op.slot] = [p \in Page |-> Left(@[p], r[p])]]
  /\ UNCHANGED durable

\* The page is as it was, complete, or damaged.
InterruptedProgram ==
  /\ op.step = "program"
  /\ LET want == Image(op.base, op.value)[op.page] IN
     \E x \in {Blank, Torn, Unreadable, want} :
       /\ media' = [media EXCEPT ![op.slot][op.page] = x]
       /\ durable' = IF op.page = CommitPage /\ x = want THEN Candidate
                                                         ELSE durable

Interrupted == \/ InterruptedErase
               \/ InterruptedProgram
               \/ op.step \in {"idle", "verify"} /\ UNCHANGED <<media, durable>>

\* A failed or unproved erase or program ends the call; its owner must reopen.
StoreFails ==
  /\ op.step \in {"erase", "program"}
  /\ Interrupted
  /\ Fail(op.owner)
  /\ op' = Idle
  /\ UNCHANGED acked

\* Power is lost: no context survives, whatever was running.
PowerCut ==
  /\ Interrupted
  /\ ctx' = [c \in Context |-> Unready]
  /\ op' = Idle
  /\ UNCHANGED acked

Next ==
  \/ \E c \in Context : Open(c) \/ Load(c)
  \/ \E c \in Context, v \in Value : Store(c, v) \/ Provision(c, v)
  \/ EraseInactive \/ ProgramPage \/ VerifySnapshot
  \/ StoreFails \/ PowerCut

Spec == Init /\ [][Next]_vars

----------------------------------------------------------------------------
PageContent ==
  {Blank, Weak, Torn, Unreadable}
    \cup [kind : {"header"}, parent : Seq(Value), bodies : 0 .. MaxBodies]
    \cup [kind : {"body"}, snap : Seq(Value) \ {<< >>}, index : 1 .. MaxBodies]
    \cup [kind : {"commit"}, snap : Seq(Value) \ {<< >>}]

Operation == [step : {"erase", "program", "verify"}, owner : Context,
              slot : Slot, page : Page, base : Seq(Value), value : Value]

TypeOK ==
  /\ media \in [Slot -> [Page -> PageContent]]
  /\ ctx \in [Context -> [ready : BOOLEAN, slot : Slot, snap : Seq(Value)]]
  /\ op \in {Idle} \cup Operation
  /\ durable \in Seq(Value)
  /\ acked \in Seq(Value)

\* Authority reported once is never lost: some slot always holds, complete,
\* the last reported snapshot or one stored on top of it, through every
\* erase, torn program and power cut of the other slot.
AuthoritySurvives ==
  acked # << >> =>
    \E s \in Slot : Valid(media[s]) /\ IsPrefix(acked, Snap(media[s]))

\* No rollback: whatever an open, load, store or provision reports extends
\* everything reported before it, also under read faults and from contexts
\* that another owner has made stale.
NoRollback == [][IsPrefix(acked, acked')]_acked

\* A torn newer candidate fails closed: a slot is never elected while a page
\* of a newer generation stands on the media ("no old authority is returned").
NoAuthorityBehindNewer ==
  \A s \in Slot : Elects(media, s) =>
    \A t \in Slot, p \in Page : Generation(media[t][p]) <= Len(Snap(media[s]))

\* Only one reading of the media exists, whatever a scan fails to read: any
\* slot that any scan elects holds the newest completed snapshot.
ElectionUnique ==
  op = Idle =>
    \A bad \in ReadFault, s \in Slot :
      Elects(Seen(media, bad), s) => Snap(media[s]) = durable

\* A failed call never leaves its caller ready on media nobody can elect: if
\* every context is ready, a scan without read faults finds its authority.
ReadyMeansElectable ==
  op = Idle /\ (\A c \in Context : ctx[c].ready)
    => \E s \in Slot : Elects(media, s)

\* The slot being erased or programmed is never the one that holds the newest
\* complete snapshot, until its own commit page completes.
SpareSlotOnly ==
  [][\A s \in Slot : media'[s] # media[s] /\ durable # << >> =>
       \E t \in Slot \ {s} : Valid(media[t]) /\ Snap(media[t]) = durable]_media

\* The strengthening that makes the above inductive: how the commit pages on
\* the media relate to the newest complete snapshot, and what a running call
\* has established about its own slot and the other one.
CommitsKnown ==
  \A s \in Slot : CommitValid(media[s]) =>
    /\ Snap(media[s]) = durable \/ Linked(Snap(media[s]), durable)
    /\ \A p \in Page : Generation(media[s][p]) <= Len(durable)

NewerAtMostOne ==
  \A s \in Slot, p \in Page : Generation(media[s][p]) <= Len(durable) + 1

Holds(s, snap) == Valid(media[s]) /\ Snap(media[s]) = snap

NewestHeld == durable # << >> => \E s \in Slot : Holds(s, durable)

OtherSlotHoldsBase == IF op.base = << >> THEN Erased(media[1 - op.slot])
                                         ELSE Holds(1 - op.slot, op.base)

ProgrammedSoFar ==
  \A p \in Page : media[op.slot][p] =
    IF op.step = "verify" \/ p < op.page THEN Image(op.base, op.value)[p] ELSE Blank

RunningCall ==
  op # Idle =>
    /\ OtherSlotHoldsBase
    /\ durable = IF op.step = "verify" THEN Candidate ELSE op.base
    /\ IF op.step = "erase" THEN op.page = 1 ELSE ProgrammedSoFar

LedgerInv ==
  /\ TypeOK /\ CommitsKnown /\ NewerAtMostOne /\ NewestHeld /\ RunningCall
  /\ IsPrefix(acked, durable)
  /\ ReadyMeansElectable

\* The register the ledger implements: the history of complete snapshots as
\* the log, and what each ready context believes as its view.
View == [c \in Context |-> IF ctx[c].ready THEN ctx[c].snap ELSE << >>]

Register == INSTANCE SnapshotRegister WITH log <- durable, view <- View

\* A context gains authority only over the whole current log, and the log
\* grows by one snapshot at a time, which the owner asked to store.
ImplementsRegister == Register!Spec
===============================================================================
