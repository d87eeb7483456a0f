-------------------------- MODULE ControlLedgerProofs --------------------------
(***************************************************************************)
(* Theorems about ControlLedger for every set of contexts and values, any  *)
(* number of body pages, and any read faults and erase residues.           *)
(***************************************************************************)
EXTENDS ControlLedger, SequenceTheorems, TLAPS

----------------------------------------------------------------------------
(* Sequences of snapshots.                                                 *)

\* The parent and the value are read back from an appended snapshot.
LEMMA FrontOfAppend ==
  ASSUME NEW base \in Seq(Value), NEW v \in Value
  PROVE  /\ Front(Append(base, v)) = base
         /\ Last(Append(base, v)) = v
         /\ Append(base, v) \in Seq(Value) \ {<< >>}
         /\ Len(Append(base, v)) = Len(base) + 1
<1>1. /\ Append(base, v) \in Seq(Value)
      /\ Append(base, v) # << >>
      /\ Len(Append(base, v)) = Len(base) + 1
      /\ \A i \in 1 .. Len(base) : Append(base, v)[i] = base[i]
      /\ Append(base, v)[Len(base) + 1] = v
  BY AppendProperties
<1>2. Len(base) \in Nat
  BY LenProperties
<1>3. SubSeq(Append(base, v), 1, Len(base)) \in Seq(Value)
      /\ Len(SubSeq(Append(base, v), 1, Len(base))) = Len(base)
      /\ \A i \in 1 .. Len(base) :
           SubSeq(Append(base, v), 1, Len(base))[i] = Append(base, v)[i]
  <2>1. \A i \in 1 .. Len(base) : Append(base, v)[i] \in Value
    BY <1>1, ElementOfSeq
  <2> QED
    BY <2>1, <1>2, SubSeqProperties, SMT
<1>4. SubSeq(Append(base, v), 1, Len(base)) = base
  BY <1>1, <1>2, <1>3, SeqEqual
<1> QED
  BY <1>1, <1>2, <1>4 DEF Front, Last

\* A snapshot is its parent with its own value at the end.
LEMMA AppendOfFront ==
  ASSUME NEW s \in Seq(Value), s # << >>
  PROVE  /\ Front(s) \in Seq(Value)
         /\ Last(s) \in Value
         /\ Len(Front(s)) = Len(s) - 1
         /\ Append(Front(s), Last(s)) = s
<1>1. Len(s) \in Nat \ {0} /\ Len(s) \in 1 .. Len(s)
  BY EmptySeq
<1>2. Last(s) \in Value
  BY <1>1, ElementOfSeq DEF Last
<1>3. /\ Front(s) \in Seq(Value)
      /\ Len(Front(s)) = Len(s) - 1
      /\ \A i \in 1 .. Len(s) - 1 : Front(s)[i] = s[i]
  <2>1. PICK n \in Nat : Len(s) = n + 1
    <3>1. Len(s) - 1 \in Nat /\ Len(s) = (Len(s) - 1) + 1
      BY <1>1
    <3> QED
      BY <3>1
  <2>2. \A i \in 1 .. n : i \in 1 .. Len(s) /\ s[i] \in Value
    BY <1>1, <2>1, ElementOfSeq
  <2>3. Front(s) = SubSeq(s, 1, n)
    BY <2>1 DEF Front
  <2>4. /\ SubSeq(s, 1, n) \in Seq(Value)
        /\ Len(SubSeq(s, 1, n)) = IF 1 <= n THEN n - 1 + 1 ELSE 0
        /\ \A i \in 1 .. n - 1 + 1 : SubSeq(s, 1, n)[i] = s[1 + i - 1]
    BY <2>2, SubSeqProperties
  <2>5. Len(Front(s)) = n
    BY <2>3, <2>4
  <2>6. \A i \in 1 .. n : Front(s)[i] = s[i]
    BY <2>3, <2>4
  <2> QED
    BY <2>1, <2>3, <2>4, <2>5, <2>6
<1>4. /\ Append(Front(s), Last(s)) \in Seq(Value)
      /\ Len(Append(Front(s), Last(s))) = Len(s)
      /\ \A i \in 1 .. Len(s) : Append(Front(s), Last(s))[i] = s[i]
  <2>1. /\ Append(Front(s), Last(s)) \in Seq(Value)
        /\ Len(Append(Front(s), Last(s))) = Len(Front(s)) + 1
        /\ \A i \in 1 .. Len(Front(s)) : Append(Front(s), Last(s))[i] = Front(s)[i]
        /\ Append(Front(s), Last(s))[Len(Front(s)) + 1] = Last(s)
    BY <1>2, <1>3, AppendProperties
  <2> QED
    BY <2>1, <1>1, <1>3 DEF Last
<1>5. Append(Front(s), Last(s)) = s
  BY <1>4, <1>1, SeqEqual
<1> QED
  BY <1>2, <1>3, <1>5

\* The log of snapshots only grows at its end.
LEMMA PrefixOfAppend ==
  ASSUME NEW s \in Seq(Value), NEW t \in Seq(Value), NEW v \in Value,
         IsPrefix(s, t)
  PROVE  IsPrefix(s, Append(t, v))
<1>1. /\ Len(s) \in Nat /\ Len(t) \in Nat /\ Len(s) <= Len(t)
      /\ SubSeq(s, 1, Len(s)) = SubSeq(t, 1, Len(s))
  BY LenProperties DEF IsPrefix
<1>2. /\ Append(t, v) \in Seq(Value)
      /\ Len(Append(t, v)) = Len(t) + 1
      /\ \A i \in 1 .. Len(t) : Append(t, v)[i] = t[i]
  BY AppendProperties
<1> DEFINE a == SubSeq(t, 1, Len(s))
           b == SubSeq(Append(t, v), 1, Len(s))
<1>3. \A i \in 1 .. Len(s) : t[i] \in Value /\ Append(t, v)[i] = t[i]
  BY <1>1, <1>2, ElementOfSeq
<1>4. /\ a \in Seq(Value) /\ Len(a) = Len(s)
      /\ \A i \in 1 .. Len(s) : a[i] = t[i]
  BY <1>1, <1>3, SubSeqProperties, SMT
<1>5. /\ b \in Seq(Value) /\ Len(b) = Len(s)
      /\ \A i \in 1 .. Len(s) : b[i] = Append(t, v)[i]
  BY <1>1, <1>3, SubSeqProperties, SMT
<1>6. a = b
  BY <1>3, <1>4, <1>5, SeqEqual
<1> QED
  BY <1>1, <1>2, <1>6 DEF IsPrefix

LEMMA PrefixOfItself ==
  ASSUME NEW s \in Seq(Value)
  PROVE  IsPrefix(s, s)
BY LenProperties DEF IsPrefix

\* Only its own value can be linked to a snapshot; a snapshot is no parent of
\* itself, and two snapshots are never each other's parent.
LEMMA LinkedOrder ==
  ASSUME NEW s \in Seq(Value), NEW t \in Seq(Value), Linked(s, t)
  PROVE  Len(t) = Len(s) + 1
<1>1. t # << >> /\ Front(t) = s
  BY DEF Linked
<1>2. Len(Front(t)) = Len(t) - 1 /\ Len(t) \in Nat
  BY <1>1, AppendOfFront, LenProperties
<1> QED
  BY <1>1, <1>2

----------------------------------------------------------------------------
(* Blocks and scans.                                                       *)

LEMMA Pages == /\ CommitPage \in Nat /\ 1 \in Page /\ CommitPage \in Page
               /\ CommitPage # 1
               /\ \A p \in Page : p \in Nat /\ 1 <= p /\ p <= CommitPage
BY LedgerAssumption DEF Page, CommitPage

\* What write_snapshot programs has the type of page contents, and only the
\* pages it skips are left blank.
LEMMA ImageType ==
  ASSUME NEW base \in Seq(Value), NEW v \in Value
  PROVE  /\ Image(base, v) \in [Page -> PageContent]
         /\ Image(base, v)[CommitPage] = CommitOf(base, v)
         /\ Image(base, v)[1] = HeaderOf(base, v)
         /\ \A p \in Page : Image(base, v)[p] = Blank
              \/ Image(base, v)[p].kind \in {"header", "body", "commit"}
         /\ \A p \in Page : Generation(Image(base, v)[p]) <= Len(base) + 1
<1> DEFINE b == Image(base, v)
<1>1. Append(base, v) \in Seq(Value) \ {<< >>} /\ Len(Append(base, v)) = Len(base) + 1
  BY FrontOfAppend
<1>2. Bodies[v] \in 0 .. MaxBodies /\ MaxBodies \in Nat /\ Len(base) \in Nat
  BY LedgerAssumption, LenProperties
<1>3. ASSUME NEW p \in Page
      PROVE  /\ b[p] \in PageContent
             /\ b[p] = Blank \/ b[p].kind \in {"header", "body", "commit"}
             /\ Generation(b[p]) <= Len(base) + 1
  <2>1. CASE p = 1
    <3>1. b[p] = HeaderOf(base, v)
      BY <2>1 DEF Image
    <3>2. b[p].kind = "header" /\ b[p].parent = base
      BY <3>1 DEF HeaderOf
    <3>3. b[p] \in [kind : {"header"}, parent : Seq(Value), bodies : 0 .. MaxBodies]
      BY <3>1, <1>2 DEF HeaderOf
    <3>4. Generation(b[p]) = Len(base) + 1
      BY <3>2 DEF Generation
    <3> QED
      BY <1>2, <3>2, <3>3, <3>4 DEF PageContent
  <2>2. CASE p = CommitPage /\ p # 1
    <3>1. b[p] = CommitOf(base, v)
      BY <2>2 DEF Image
    <3>2. b[p].kind = "commit" /\ b[p].snap = Append(base, v)
      BY <3>1 DEF CommitOf
    <3>3. b[p] \in [kind : {"commit"}, snap : Seq(Value) \ {<< >>}]
      BY <3>1, <1>1 DEF CommitOf
    <3>4. Generation(b[p]) = Len(base) + 1
      BY <3>2, <1>1 DEF Generation
    <3> QED
      BY <1>2, <3>2, <3>3, <3>4 DEF PageContent
  <2>3. CASE p # 1 /\ p # CommitPage /\ p - 1 <= Bodies[v]
    <3>1. b[p] = BodyOf(base, v, p - 1)
      BY <2>3 DEF Image
    <3>2. b[p].kind = "body" /\ b[p].snap = Append(base, v)
      BY <3>1 DEF BodyOf
    <3>3. p - 1 \in 1 .. MaxBodies
      BY <2>3, <1>2, Pages DEF Page, CommitPage
    <3>4. b[p] \in [kind : {"body"}, snap : Seq(Value) \ {<< >>}, index : 1 .. MaxBodies]
      BY <3>1, <3>3, <1>1 DEF BodyOf
    <3>5. Generation(b[p]) = Len(base) + 1
      BY <3>2, <1>1 DEF Generation
    <3> QED
      BY <1>2, <3>2, <3>4, <3>5 DEF PageContent
  <2>4. CASE p # 1 /\ p # CommitPage /\ ~(p - 1 <= Bodies[v])
    <3>1. b[p] = Blank
      BY <2>4 DEF Image
    <3>2. Generation(b[p]) = 0
      BY <3>1 DEF Generation, Blank
    <3> QED
      BY <3>1, <3>2, <1>2 DEF PageContent
  <2> QED
    BY <2>1, <2>2, <2>3, <2>4
<1>4. b \in [Page -> PageContent]
  <2>1. b = [p \in Page |-> b[p]]
    BY DEF Image
  <2> HIDE DEF b
  <2> QED
    BY <2>1, <1>3
<1>5. b[1] = HeaderOf(base, v) /\ b[CommitPage] = CommitOf(base, v)
  BY Pages DEF Image
<1> QED
  BY <1>3, <1>4, <1>5

\* A complete image passes the scan as the snapshot that was to be stored.
LEMMA ImageValid ==
  ASSUME NEW base \in Seq(Value), NEW v \in Value
  PROVE  /\ Valid(Image(base, v))
         /\ Snap(Image(base, v)) = Append(base, v)
<1>1. Image(base, v)[CommitPage] = CommitOf(base, v)
  BY ImageType
<1>2. CommitValid(Image(base, v)) /\ Snap(Image(base, v)) = Append(base, v)
  BY <1>1 DEF CommitValid, Snap, CommitOf
<1>3. /\ Front(Snap(Image(base, v))) = base
      /\ Last(Snap(Image(base, v))) = v
  BY <1>2, FrontOfAppend
<1> QED
  BY <1>2, <1>3 DEF Valid

\* The commit page of a block names a snapshot.
LEMMA CommitSnap ==
  ASSUME NEW b \in [Page -> PageContent], CommitValid(b)
  PROVE  Snap(b) \in Seq(Value) \ {<< >>}
<1>1. b[CommitPage] \in PageContent /\ b[CommitPage].kind = "commit"
  BY Pages DEF CommitValid
<1>2. b[CommitPage] \in [kind : {"commit"}, snap : Seq(Value) \ {<< >>}]
  BY <1>1 DEF PageContent, Blank, Weak, Torn, Unreadable
<1> QED
  BY <1>2 DEF Snap

\* A read fault can hide a page of a valid block, never make a block valid.
LEMMA SeenValid ==
  ASSUME NEW m \in [Slot -> [Page -> PageContent]], NEW bad, NEW s \in Slot,
         Valid(Seen(m, bad)[s])
  PROVE  Seen(m, bad)[s] = m[s]
<1> DEFINE b == Seen(m, bad)[s]
<1>1. /\ b = [p \in Page |-> IF <<s, p>> \in bad THEN Unreadable ELSE m[s][p]]
      /\ \A p \in Page : b[p] = IF <<s, p>> \in bad THEN Unreadable ELSE m[s][p]
  BY DEF Seen
<1>2. b \in [Page -> PageContent]
  BY <1>1 DEF PageContent
<1>3. CommitValid(b)
  BY DEF Valid
<1>4. Snap(b) \in Seq(Value) /\ Snap(b) # << >>
  BY <1>2, <1>3, CommitSnap
<1>5. Front(Snap(b)) \in Seq(Value) /\ Last(Snap(b)) \in Value
  BY <1>4, AppendOfFront
<1> DEFINE want == Image(Front(Snap(b)), Last(Snap(b)))
<1>6. \A p \in Page : b[p] = want[p] \/ (want[p] = Blank /\ IsFF(b[p]))
  BY DEF Valid
<1>7. \A p \in Page : want[p] = Blank \/ want[p].kind \in {"header", "body", "commit"}
  BY <1>5, ImageType
<1>8. \A p \in Page : b[p] # Unreadable
  BY <1>6, <1>7 DEF IsFF, Blank, Weak, Unreadable
<1>9. \A p \in Page : b[p] = m[s][p]
  BY <1>1, <1>8
<1> QED
  BY <1>1, <1>2, <1>9

\* An intact scan of the commit page shows the page that is on the media.
LEMMA SeenCommit ==
  ASSUME NEW m \in [Slot -> [Page -> PageContent]], NEW bad, NEW s \in Slot,
         CommitValid(Seen(m, bad)[s])
  PROVE  CommitValid(m[s]) /\ Snap(Seen(m, bad)[s]) = Snap(m[s])
BY Pages DEF CommitValid, Snap, Seen, Unreadable

\* A block that reads as erased is erased.
LEMMA SeenErased ==
  ASSUME NEW m \in [Slot -> [Page -> PageContent]], NEW bad, NEW s \in Slot,
         Erased(Seen(m, bad)[s])
  PROVE  Erased(m[s])
BY DEF Erased, Seen, Blank, Unreadable

----------------------------------------------------------------------------
(* Elections.                                                              *)

\* Whatever a scan fails to read, the slot it elects holds the newest
\* complete snapshot: the older of two can only be elected beside an erased
\* block or its own child's parent, and the newest block is neither.
LEMMA ElectedIsNewest ==
  ASSUME TypeOK, CommitsKnown, NewestHeld,
         NEW bad, NEW s \in Slot, Elects(Seen(media, bad), s)
  PROVE  /\ Seen(media, bad)[s] = media[s]
         /\ Valid(media[s])
         /\ Snap(media[s]) = durable
         /\ durable # << >>
<1> DEFINE m == Seen(media, bad)
<1> USE DEF TypeOK
<1>1. Valid(m[s])
  BY DEF Elects
<1>2. m[s] = media[s] /\ Valid(media[s]) /\ CommitValid(media[s])
  BY <1>1, SeenValid DEF Valid
<1>3. Snap(media[s]) \in Seq(Value) \ {<< >>}
  BY <1>2, CommitSnap
<1>4. Snap(media[s]) = durable \/ Linked(Snap(media[s]), durable)
  BY <1>2 DEF CommitsKnown
<1>5. ASSUME Linked(Snap(media[s]), durable)
      PROVE  FALSE
  <2>1. durable # << >>
    BY <1>5 DEF Linked
  <2>2. PICK t \in Slot : Valid(media[t]) /\ Snap(media[t]) = durable
    BY <2>1 DEF NewestHeld, Holds
  <2>3. Len(durable) = Len(Snap(media[s])) + 1 /\ Len(durable) \in Nat
    BY <1>3, <1>5, LinkedOrder, LenProperties
  <2>4. t = 1 - s /\ 1 - s \in Slot
    BY <2>2, <2>3, <1>3, LenProperties DEF Slot
  <2>5. CommitValid(media[t])
    BY <2>2 DEF Valid
  <2>6. ~Erased(m[t])
    <3>1. ~Erased(media[t])
      BY <2>5, Pages DEF Erased, CommitValid, Blank
    <3> QED
      BY <3>1, SeenErased
  <2>7. ~Linked(Snap(m[t]), Snap(m[s])) \/ ~CommitValid(m[t])
    <3>1. SUFFICES ASSUME CommitValid(m[t]), Linked(Snap(m[t]), Snap(m[s]))
                   PROVE  FALSE
      OBVIOUS
    <3>2. Snap(m[t]) = durable
      BY <3>1, <2>2, SeenCommit
    <3>3. Linked(durable, Snap(media[s]))
      BY <3>1, <3>2, <1>2
    <3>4. Len(Snap(media[s])) = Len(durable) + 1
      BY <3>3, <1>3, LinkedOrder
    <3> QED
      BY <3>4, <2>3, <1>3, LenProperties
  <2> QED
    BY <2>4, <2>6, <2>7 DEF Elects, Retained, Valid
<1> QED
  BY <1>2, <1>3, <1>4, <1>5

\* An authority found in spite of a read fault is found without it.
LEMMA ElectsWithoutFault ==
  ASSUME TypeOK, NEW bad, NEW s \in Slot, Elects(Seen(media, bad), s)
  PROVE  Elects(media, s)
<1> DEFINE m == Seen(media, bad)
           t == 1 - s
<1> USE DEF TypeOK
<1>0. t \in Slot
  BY DEF Slot
<1>1. m[s] = media[s] /\ Valid(media[s])
  BY SeenValid DEF Elects
<1>2. CASE Erased(m[t])
  BY <1>0, <1>1, <1>2, SeenErased DEF Elects
<1>3. CASE Valid(m[t]) /\ Linked(Snap(m[t]), Snap(m[s]))
  BY <1>0, <1>1, <1>3, SeenValid DEF Elects
<1>4. CASE ~Valid(m[t]) /\ Retained(m[t], Snap(m[s]))
  <2>1. \A p \in Page : m[t][p] # Unreadable
    BY <1>4 DEF Retained, ReadFailed
  <2>2. m[t] = [p \in Page |-> IF <<t, p>> \in bad THEN Unreadable ELSE media[t][p]]
    BY <1>0 DEF Seen
  <2>3. \A p \in Page : m[t][p] = media[t][p]
    BY <2>1, <2>2
  <2>4. media[t] = [p \in Page |-> media[t][p]]
    BY <1>0
  <2>5. m[t] = media[t]
    BY <2>2, <2>3, <2>4
  <2> QED
    BY <1>1, <1>4, <2>5 DEF Elects
<1> QED
  BY <1>2, <1>3, <1>4 DEF Elects

----------------------------------------------------------------------------
(* What every step does to the media, from which the inductive invariant   *)
(* is put together.                                                        *)

MediaInv ==
  /\ media \in [Slot -> [Page -> PageContent]]
  /\ durable \in Seq(Value)
  /\ acked \in Seq(Value)
  /\ CommitsKnown /\ NewerAtMostOne /\ NewestHeld
  /\ IsPrefix(acked, durable)

LEMMA LedgerIsMedia == LedgerInv => MediaInv
BY DEF LedgerInv, MediaInv, TypeOK

\* A running call knows its slot and what it is to write there.
LEMMA Running ==
  ASSUME LedgerInv, op # Idle
  PROVE  /\ op \in Operation
         /\ op.slot \in Slot /\ 1 - op.slot \in Slot /\ 1 - op.slot # op.slot
         /\ op.page \in Page /\ op.owner \in Context
         /\ op.base \in Seq(Value) /\ op.value \in Value
         /\ Candidate \in Seq(Value) \ {<< >>}
         /\ Len(Candidate) = Len(op.base) + 1
         /\ op.step \in {"erase", "program", "verify"}
<1>1. op \in Operation
  BY DEF LedgerInv, TypeOK
<1> QED
  BY <1>1, FrontOfAppend DEF Operation, Slot, Candidate

LEMMA IdleStep ==
  ASSUME LedgerInv
  PROVE  op.step \in {"erase", "program", "verify"} <=> op # Idle
BY Running DEF Idle

\* Junk that an erase or a program may leave carries no generation.
LEMMA Junk ==
  /\ \A x \in {Blank, Weak, Torn, Unreadable} :
       x \in PageContent /\ Generation(x) = 0 /\ x.kind # "commit"
BY DEF PageContent, Generation, Blank, Weak, Torn, Unreadable

\* Generations are numbers.
LEMMA GenerationNat ==
  ASSUME NEW x \in PageContent
  PROVE  Generation(x) \in Nat
<1>1. CASE x \in {Blank, Weak, Torn, Unreadable}
  BY <1>1, Junk
<1>2. CASE x \in [kind : {"header"}, parent : Seq(Value), bodies : 0 .. MaxBodies]
  BY <1>2, LenProperties DEF Generation
<1>3. CASE x \in [kind : {"body"}, snap : Seq(Value) \ {<< >>}, index : 1 .. MaxBodies]
  BY <1>3, LenProperties DEF Generation
<1>4. CASE x \in [kind : {"commit"}, snap : Seq(Value) \ {<< >>}]
  BY <1>4, LenProperties DEF Generation
<1> QED
  BY <1>1, <1>2, <1>3, <1>4 DEF PageContent

\* Before its commit page is complete, a programmed block is no snapshot and
\* the newest one stays in the other slot.
LEMMA PageProgrammed ==
  ASSUME LedgerInv, op.step = "program",
         NEW x \in {Blank, Torn, Unreadable, Image(op.base, op.value)[op.page]},
         ~(op.page = CommitPage /\ x = Image(op.base, op.value)[op.page]),
         media' = [media EXCEPT ![op.slot][op.page] = x],
         UNCHANGED <<durable, acked>>
  PROVE  MediaInv'
<1> DEFINE want == Image(op.base, op.value)
           t    == 1 - op.slot
<1>0. op # Idle /\ MediaInv
  BY IdleStep, LedgerIsMedia
<1>1. /\ op.slot \in Slot /\ t \in Slot /\ t # op.slot /\ op.page \in Page
      /\ op.base \in Seq(Value) /\ op.value \in Value
  BY <1>0, Running
<1>2. durable = op.base /\ ProgrammedSoFar /\ OtherSlotHoldsBase
  BY <1>0 DEF LedgerInv, RunningCall
<1>3. x \in PageContent /\ Generation(x) <= Len(durable) + 1
  BY <1>1, <1>2, ImageType, Junk, LenProperties
<1>4. /\ media' \in [Slot -> [Page -> PageContent]]
      /\ media'[t] = media[t]
      /\ media'[op.slot] = [media[op.slot] EXCEPT ![op.page] = x]
  BY <1>0, <1>1, <1>3 DEF MediaInv
<1>5. ~CommitValid(media'[op.slot])
  <2>1. CASE op.page = CommitPage
    BY <2>1, <1>0, <1>1, <1>4, Junk, Pages DEF CommitValid, MediaInv
  <2>2. CASE op.page # CommitPage
    <3>1. ~(CommitPage < op.page)
      BY <1>1, Pages
    <3>2. media[op.slot][CommitPage] = Blank
      BY <3>1, <1>2, Pages DEF ProgrammedSoFar
    <3> QED
      BY <3>2, <2>2, <1>0, <1>1, <1>4, Junk, Pages DEF CommitValid, MediaInv
  <2> QED
    BY <2>1, <2>2
<1>6. \A s \in Slot : s = t \/ s = op.slot
  BY <1>1 DEF Slot
<1>7. CommitsKnown'
  BY <1>0, <1>4, <1>5, <1>6 DEF CommitsKnown, MediaInv
<1>8. NewerAtMostOne'
  <2>1. \A p \in Page : Generation(media'[op.slot][p]) <= Len(durable) + 1
    BY <1>0, <1>1, <1>3, <1>4 DEF NewerAtMostOne, MediaInv
  <2> QED
    BY <2>1, <1>0, <1>4, <1>6 DEF NewerAtMostOne, MediaInv
<1>9. NewestHeld'
  BY <1>1, <1>2, <1>4 DEF NewestHeld, OtherSlotHoldsBase, Holds
<1> QED
  BY <1>0, <1>4, <1>7, <1>8, <1>9 DEF MediaInv

\* The step that completes the commit page makes the candidate the newest
\* snapshot, with its parent in the other slot.
LEMMA CommitCompleted ==
  ASSUME LedgerInv, op.step = "program", op.page = CommitPage,
         media' = [media EXCEPT ![op.slot][op.page] = Image(op.base, op.value)[op.page]],
         durable' = Candidate,
         UNCHANGED acked
  PROVE  /\ MediaInv'
         /\ media'[op.slot] = Image(op.base, op.value)
         /\ media'[1 - op.slot] = media[1 - op.slot]
<1> DEFINE want == Image(op.base, op.value)
           t    == 1 - op.slot
<1>0. op # Idle /\ MediaInv
  BY IdleStep, LedgerIsMedia
<1>1. /\ op.slot \in Slot /\ t \in Slot /\ t # op.slot /\ op.page \in Page
      /\ op.base \in Seq(Value) /\ op.value \in Value
      /\ Candidate \in Seq(Value) \ {<< >>} /\ Len(Candidate) = Len(op.base) + 1
      /\ Len(op.base) \in Nat
  BY <1>0, Running, LenProperties
<1>2. durable = op.base /\ ProgrammedSoFar /\ OtherSlotHoldsBase
  BY <1>0 DEF LedgerInv, RunningCall
<1>3. /\ want \in [Page -> PageContent]
      /\ want[CommitPage] = CommitOf(op.base, op.value)
      /\ \A p \in Page : Generation(want[p]) <= Len(op.base) + 1
      /\ Valid(want) /\ Snap(want) = Candidate
  BY <1>1, ImageType, ImageValid DEF Candidate
<1>4. /\ media' \in [Slot -> [Page -> PageContent]]
      /\ media'[t] = media[t]
      /\ media'[op.slot] = [media[op.slot] EXCEPT ![op.page] = want[op.page]]
  BY <1>0, <1>1, <1>3 DEF MediaInv
<1>5. media'[op.slot] = want
  <2>1. \A p \in Page : p # CommitPage => p < op.page
    BY Pages
  <2>2. \A p \in Page : p # CommitPage => media[op.slot][p] = want[p]
    BY <2>1, <1>2 DEF ProgrammedSoFar
  <2>3. media[op.slot] \in [Page -> PageContent]
    BY <1>0, <1>1 DEF MediaInv
  <2> HIDE DEF want
  <2>4. \A p \in Page : media'[op.slot][p] = want[p]
    BY <2>2, <2>3, <1>4
  <2> QED
    BY <2>3, <2>4, <1>3, <1>4
<1>6. \A s \in Slot : s = t \/ s = op.slot
  BY <1>1 DEF Slot
<1>7. CommitsKnown'
  <2>1. CASE op.base = << >>
    <3>1. Erased(media[t])
      BY <2>1, <1>2 DEF OtherSlotHoldsBase
    <3>2. ~CommitValid(media[t])
      BY <3>1, Pages DEF Erased, CommitValid, Blank
    <3> QED
      BY <3>2, <1>1, <1>3, <1>4, <1>5, <1>6 DEF CommitsKnown
  <2>2. CASE op.base # << >>
    <3>1. Valid(media[t]) /\ Snap(media[t]) = op.base
      BY <2>2, <1>2 DEF OtherSlotHoldsBase, Holds
    <3>2. Linked(op.base, Candidate)
      BY <1>1, FrontOfAppend DEF Linked, Candidate
    <3>3. \A p \in Page : Generation(media[t][p]) <= Len(op.base) + 1
      BY <1>0, <1>1, <1>2 DEF MediaInv, NewerAtMostOne
    <3> QED
      BY <3>1, <3>2, <3>3, <1>1, <1>3, <1>4, <1>5, <1>6 DEF CommitsKnown
  <2> QED
    BY <2>1, <2>2
<1>8. NewerAtMostOne'
  <2>1. \A p \in Page : Generation(media'[op.slot][p]) <= Len(Candidate) + 1
    <3>1. ASSUME NEW p \in Page
          PROVE  Generation(want[p]) <= Len(Candidate) + 1
      <4>1. Generation(want[p]) <= Len(op.base) + 1
        BY <1>3
      <4>2. Generation(want[p]) \in Int
        BY <1>1, <1>3, GenerationNat
      <4> QED
        BY <4>1, <4>2, <1>1
    <3> QED
      BY <3>1, <1>5
  <2>2. \A p \in Page : Generation(media'[t][p]) <= Len(Candidate) + 1
    <3>1. ASSUME NEW p \in Page
          PROVE  Generation(media[t][p]) <= Len(Candidate) + 1
      <4>1. Generation(media[t][p]) <= Len(op.base) + 1
        BY <1>0, <1>1, <1>2 DEF MediaInv, NewerAtMostOne
      <4>2. Generation(media[t][p]) \in Nat
        BY <1>0, <1>1, GenerationNat DEF MediaInv
      <4> QED
        BY <4>1, <4>2, <1>1
    <3> QED
      BY <3>1, <1>4
  <2> QED
    BY <2>1, <2>2, <1>6 DEF NewerAtMostOne
<1>9. NewestHeld'
  BY <1>1, <1>3, <1>5 DEF NewestHeld, Holds
<1>10. IsPrefix(acked, Candidate)
  BY <1>0, <1>1, <1>2, PrefixOfAppend DEF MediaInv, Candidate
<1> QED
  BY <1>0, <1>1, <1>4, <1>5, <1>7, <1>8, <1>9, <1>10 DEF MediaInv

\* A failed or interrupted erase leaves no commit page it did not find.
LEMMA EraseInterrupted ==
  ASSUME LedgerInv, InterruptedErase, UNCHANGED acked
  PROVE  MediaInv'
<1> DEFINE t == 1 - op.slot
<1>0. op.step = "erase" /\ op # Idle /\ MediaInv /\ durable' = durable /\ acked' = acked
  BY IdleStep, LedgerIsMedia DEF InterruptedErase
<1>1. /\ op.slot \in Slot /\ t \in Slot /\ t # op.slot
      /\ \A s \in Slot : s = t \/ s = op.slot
  BY <1>0, Running DEF Slot
<1>2. durable = op.base /\ OtherSlotHoldsBase
  BY <1>0 DEF LedgerInv, RunningCall
<1>3. PICK r \in [Page -> Residue] :
        media' = [media EXCEPT ![op.slot] =
                    [p \in Page |-> Left(media[op.slot][p], r[p])]]
  BY DEF InterruptedErase
<1>4. /\ media'[t] = media[t]
      /\ media'[op.slot] = [p \in Page |-> Left(media[op.slot][p], r[p])]
      /\ DOMAIN media' = Slot /\ media' = [s \in Slot |-> media'[s]]
  BY <1>0, <1>1, <1>3 DEF MediaInv
<1>5. ASSUME NEW p \in Page
      PROVE  \/ media'[op.slot][p] = media[op.slot][p]
             \/ media'[op.slot][p] \in {Blank, Weak, Torn, Unreadable}
  <2>1. r[p] \in {"kept", "blank", "weak", "torn", "unreadable"}
    BY LedgerAssumption
  <2>2. media'[op.slot][p] = Left(media[op.slot][p], r[p])
    BY <1>4
  <2> QED
    BY <2>1, <2>2 DEF Left
<1>6. media' \in [Slot -> [Page -> PageContent]]
  <2>1. media'[op.slot] \in [Page -> PageContent]
    BY <1>0, <1>1, <1>4, <1>5, Junk DEF MediaInv
  <2>2. media'[t] \in [Page -> PageContent]
    BY <1>0, <1>1, <1>4 DEF MediaInv
  <2> QED
    BY <2>1, <2>2, <1>1, <1>4
<1>7. \A p \in Page : Generation(media'[op.slot][p]) <= Len(durable) + 1
  <2>1. Len(durable) \in Nat
    BY <1>0, LenProperties DEF MediaInv
  <2> QED
    BY <2>1, <1>0, <1>1, <1>5, Junk DEF MediaInv, NewerAtMostOne
<1>8. NewerAtMostOne'
  BY <1>7, <1>0, <1>1, <1>4 DEF MediaInv, NewerAtMostOne
<1>9. CommitsKnown'
  <2>1. ASSUME CommitValid(media'[op.slot])
        PROVE  /\ CommitValid(media[op.slot])
               /\ Snap(media'[op.slot]) = Snap(media[op.slot])
    BY <2>1, <1>5, Junk, Pages DEF CommitValid, Snap
  <2>2. ASSUME CommitValid(media'[op.slot]), NEW p \in Page
        PROVE  Generation(media'[op.slot][p]) <= Len(durable)
    <3>1. Generation(media[op.slot][p]) <= Len(durable)
      BY <2>1, <2>2, <1>0, <1>1 DEF MediaInv, CommitsKnown
    <3>2. Len(durable) \in Nat
      BY <1>0, LenProperties DEF MediaInv
    <3> QED
      BY <3>1, <3>2, <1>5, Junk
  <2>3. CommitsKnown
    BY <1>0 DEF MediaInv
  <2> QED
    BY <2>1, <2>2, <2>3, <1>0, <1>1, <1>4 DEF CommitsKnown
<1>10. NewestHeld'
  BY <1>0, <1>1, <1>2, <1>4 DEF NewestHeld, OtherSlotHoldsBase, Holds
<1> QED
  BY <1>0, <1>6, <1>8, <1>9, <1>10 DEF MediaInv

\* Whatever step fails or loses power, the media keeps its invariant.
LEMMA InterruptedKeepsMedia ==
  ASSUME LedgerInv, Interrupted, UNCHANGED acked
  PROVE  MediaInv'
<1>1. CASE InterruptedErase
  BY <1>1, EraseInterrupted
<1>2. CASE InterruptedProgram
  <2> DEFINE want == Image(op.base, op.value)[op.page]
  <2>1. PICK x \in {Blank, Torn, Unreadable, want} :
          /\ media' = [media EXCEPT ![op.slot][op.page] = x]
          /\ durable' = IF op.page = CommitPage /\ x = want THEN Candidate ELSE durable
    BY <1>2 DEF InterruptedProgram
  <2>2. CASE op.page = CommitPage /\ x = want
    BY <1>2, <2>1, <2>2, CommitCompleted DEF InterruptedProgram
  <2>3. CASE ~(op.page = CommitPage /\ x = want)
    BY <1>2, <2>1, <2>3, PageProgrammed DEF InterruptedProgram
  <2> QED
    BY <2>2, <2>3
<1>3. CASE UNCHANGED <<media, durable>>
  BY <1>3, LedgerIsMedia DEF MediaInv, CommitsKnown, NewerAtMostOne, NewestHeld, Holds
<1> QED
  BY <1>1, <1>2, <1>3 DEF Interrupted

----------------------------------------------------------------------------
(* The inductive invariant, one lemma for every action.                    *)

ContextType == [ready : BOOLEAN, slot : Slot, snap : Seq(Value)]

LEMMA UnreadyType == Unready \in ContextType
BY EmptySeq DEF Unready, ContextType, Slot

\* A step that leaves the media and the running call alone, and makes nobody
\* ready or only one whose authority is elected, keeps the invariant.
LEMMA ScanOnly ==
  ASSUME LedgerInv, UNCHANGED <<media, op, durable>>,
         ctx' \in [Context -> ContextType],
         acked' \in Seq(Value), IsPrefix(acked', durable),
         \/ \E c \in Context : ~ctx'[c].ready
         \/ \E s \in Slot : Elects(media, s)
  PROVE  LedgerInv'
<1>1. MediaInv /\ TypeOK /\ RunningCall
  BY LedgerIsMedia DEF LedgerInv
<1>2. CommitsKnown' /\ NewerAtMostOne' /\ NewestHeld' /\ TypeOK'
  BY <1>1 DEF MediaInv, CommitsKnown, NewerAtMostOne, NewestHeld, Holds, TypeOK, ContextType
<1>3. RunningCall'
  BY <1>1 DEF RunningCall, OtherSlotHoldsBase, Holds, ProgrammedSoFar, Candidate
<1>4. ReadyMeansElectable'
  BY DEF ReadyMeansElectable
<1> QED
  BY <1>2, <1>3, <1>4 DEF LedgerInv

LEMMA InitInv == Init => LedgerInv
<1> SUFFICES ASSUME Init PROVE LedgerInv
  OBVIOUS
<1> USE DEF Init
<1>1. Len(durable) = 0 /\ durable \in Seq(Value) /\ acked \in Seq(Value)
  BY EmptySeq
<1>2. TypeOK
  BY <1>1, Junk, UnreadyType DEF TypeOK, ContextType
<1>3. CommitsKnown
  BY Pages DEF CommitsKnown, CommitValid, Blank
<1>4. NewerAtMostOne
  BY <1>1, Junk DEF NewerAtMostOne
<1>5. NewestHeld /\ RunningCall
  BY DEF NewestHeld, RunningCall
<1>6. IsPrefix(acked, durable)
  BY <1>1, PrefixOfItself
<1>7. ReadyMeansElectable
  BY LedgerAssumption DEF ReadyMeansElectable, Unready
<1> QED
  BY <1>2, <1>3, <1>4, <1>5, <1>6, <1>7 DEF LedgerInv

LEMMA OpenStep ==
  ASSUME LedgerInv, NEW c \in Context, Open(c)
  PROVE  LedgerInv'
<1>1. TypeOK /\ CommitsKnown /\ NewestHeld /\ IsPrefix(acked, durable)
  BY DEF LedgerInv
<1>2. PICK bad \in ReadFault :
        \/ \E s \in Slot : /\ Elects(Seen(media, bad), s)
                           /\ ctx' = [ctx EXCEPT ![c] = Selected(Seen(media, bad), s)]
                           /\ acked' = Snap(Seen(media, bad)[s])
        \/ /\ Fail(c)
           /\ UNCHANGED acked
  BY DEF Open
<1>3. UNCHANGED <<media, op, durable>>
  BY DEF Open
<1>4. ASSUME NEW s \in Slot, Elects(Seen(media, bad), s),
             ctx' = [ctx EXCEPT ![c] = Selected(Seen(media, bad), s)],
             acked' = Snap(Seen(media, bad)[s])
      PROVE  LedgerInv'
  <2>1. /\ Seen(media, bad)[s] = media[s] /\ Snap(media[s]) = durable
    BY <1>1, <1>4, ElectedIsNewest
  <2>2. Elects(media, s)
    BY <1>1, <1>4, ElectsWithoutFault
  <2>3. durable \in Seq(Value)
    BY <1>1 DEF TypeOK
  <2>4. ctx' \in [Context -> ContextType]
    BY <1>1, <1>4, <2>1, <2>3 DEF TypeOK, ContextType, Selected
  <2>5. acked' \in Seq(Value) /\ IsPrefix(acked', durable)
    BY <1>4, <2>1, <2>3, PrefixOfItself
  <2> QED
    BY <1>3, <2>2, <2>4, <2>5, ScanOnly
<1>5. ASSUME Fail(c), UNCHANGED acked
      PROVE  LedgerInv'
  <2>1. ctx' \in [Context -> ContextType] /\ ~ctx'[c].ready
    BY <1>1, <1>5, UnreadyType DEF TypeOK, ContextType, Fail, Unready
  <2> QED
    BY <1>1, <1>3, <1>5, <2>1, ScanOnly DEF TypeOK
<1> QED
  BY <1>2, <1>4, <1>5

LEMMA LoadStep ==
  ASSUME LedgerInv, NEW c \in Context, Load(c)
  PROVE  LedgerInv'
<1>1. TypeOK /\ CommitsKnown /\ NewestHeld /\ IsPrefix(acked, durable)
  BY DEF LedgerInv
<1>2. PICK bad \in ReadFault, worse \in ReadFault :
        \/ \E s \in Slot : /\ Refreshed(c, Seen(media, bad), s)
                           /\ Snap(Seen(media, worse)[s]) = ctx[c].snap
                           /\ ctx' = [ctx EXCEPT ![c].slot = s]
                           /\ acked' = Snap(Seen(media, worse)[s])
        \/ /\ Fail(c)
           /\ UNCHANGED acked
  BY DEF Load
<1>3. UNCHANGED <<media, op, durable>>
  BY DEF Load
<1>4. ASSUME NEW s \in Slot, Refreshed(c, Seen(media, bad), s),
             Snap(Seen(media, worse)[s]) = ctx[c].snap,
             ctx' = [ctx EXCEPT ![c].slot = s],
             acked' = Snap(Seen(media, worse)[s])
      PROVE  LedgerInv'
  <2>1. Elects(Seen(media, bad), s) /\ Snap(Seen(media, bad)[s]) = ctx[c].snap
    BY <1>4 DEF Refreshed
  <2>2. Seen(media, bad)[s] = media[s] /\ Snap(media[s]) = durable
    BY <1>1, <2>1, ElectedIsNewest
  <2>3. Elects(media, s)
    BY <1>1, <2>1, ElectsWithoutFault
  <2>4. durable \in Seq(Value) /\ acked' = durable
    BY <1>1, <1>4, <2>1, <2>2 DEF TypeOK
  <2>5. ctx' \in [Context -> ContextType]
    BY <1>1, <1>4 DEF TypeOK, ContextType
  <2> QED
    BY <1>3, <2>3, <2>4, <2>5, PrefixOfItself, ScanOnly
<1>5. ASSUME Fail(c), UNCHANGED acked
      PROVE  LedgerInv'
  <2>1. ctx' \in [Context -> ContextType] /\ ~ctx'[c].ready
    BY <1>1, <1>5, UnreadyType DEF TypeOK, ContextType, Fail, Unready
  <2> QED
    BY <1>1, <1>3, <1>5, <2>1, ScanOnly DEF TypeOK
<1> QED
  BY <1>2, <1>4, <1>5

\* A call begins on the slot beside the one that holds its base.
LEMMA BeginKeeps ==
  ASSUME LedgerInv, NEW c \in Context, NEW v \in Value, NEW s \in Slot,
         NEW base \in Seq(Value), Begin(c, s, base, v),
         base = durable,
         IF base = << >> THEN Erased(media[1 - s]) ELSE Holds(1 - s, base),
         ctx' \in [Context -> ContextType],
         UNCHANGED <<media, durable, acked>>
  PROVE  LedgerInv'
<1>1. /\ op'.step = "erase" /\ op'.slot = s /\ op'.base = base
      /\ op'.page = 1 /\ op' \in Operation
  BY Pages DEF Begin, Operation
<1>2. op' # Idle
  BY <1>1 DEF Idle
<1>3. MediaInv /\ TypeOK
  BY LedgerIsMedia DEF LedgerInv
<1>4. TypeOK'
  BY <1>1, <1>3 DEF TypeOK, ContextType
<1>5. CommitsKnown' /\ NewerAtMostOne' /\ NewestHeld' /\ IsPrefix(acked, durable)'
  BY <1>3 DEF MediaInv, CommitsKnown, NewerAtMostOne, NewestHeld, Holds
<1>6. RunningCall'
  BY <1>1 DEF RunningCall, OtherSlotHoldsBase, Holds
<1>7. ReadyMeansElectable'
  BY <1>2 DEF ReadyMeansElectable
<1> QED
  BY <1>4, <1>5, <1>6, <1>7 DEF LedgerInv

LEMMA StoreStep ==
  ASSUME LedgerInv, NEW c \in Context, NEW v \in Value, Store(c, v)
  PROVE  LedgerInv'
<1>1. TypeOK /\ CommitsKnown /\ NewestHeld /\ IsPrefix(acked, durable)
  BY DEF LedgerInv
<1>2. PICK bad \in ReadFault :
        \/ \E s \in Slot : /\ Refreshed(c, Seen(media, bad), s)
                           /\ ctx' = [ctx EXCEPT ![c].slot = s]
                           /\ Begin(c, 1 - s, ctx[c].snap, v)
        \/ /\ Fail(c)
           /\ UNCHANGED op
  BY DEF Store
<1>3. UNCHANGED <<media, durable, acked>>
  BY DEF Store
<1>4. ASSUME NEW s \in Slot, Refreshed(c, Seen(media, bad), s),
             ctx' = [ctx EXCEPT ![c].slot = s],
             Begin(c, 1 - s, ctx[c].snap, v)
      PROVE  LedgerInv'
  <2>1. Elects(Seen(media, bad), s) /\ Snap(Seen(media, bad)[s]) = ctx[c].snap
    BY <1>4 DEF Refreshed
  <2>2. /\ Seen(media, bad)[s] = media[s] /\ Snap(media[s]) = durable
        /\ Valid(media[s]) /\ durable # << >>
    BY <1>1, <2>1, ElectedIsNewest
  <2>3. ctx[c].snap = durable /\ durable \in Seq(Value)
    BY <1>1, <2>1, <2>2 DEF TypeOK
  <2>4. 1 - s \in Slot /\ 1 - (1 - s) = s
    BY DEF Slot
  <2>5. Holds(1 - (1 - s), durable)
    BY <2>2, <2>4 DEF Holds
  <2>6. ctx' \in [Context -> ContextType]
    BY <1>1, <1>4 DEF TypeOK, ContextType
  <2>7. Begin(c, 1 - s, durable, v)
    BY <1>4, <2>3
  <2> QED
    BY <1>3, <2>2, <2>3, <2>4, <2>5, <2>6, <2>7, BeginKeeps
<1>5. ASSUME Fail(c), UNCHANGED op
      PROVE  LedgerInv'
  <2>1. ctx' \in [Context -> ContextType] /\ ~ctx'[c].ready
    BY <1>1, <1>5, UnreadyType DEF TypeOK, ContextType, Fail, Unready
  <2> QED
    BY <1>1, <1>3, <1>5, <2>1, ScanOnly DEF TypeOK
<1> QED
  BY <1>2, <1>4, <1>5

LEMMA ProvisionStep ==
  ASSUME LedgerInv, NEW c \in Context, NEW v \in Value, Provision(c, v)
  PROVE  LedgerInv'
<1>1. TypeOK /\ NewestHeld /\ IsPrefix(acked, durable)
  BY DEF LedgerInv
<1>2. PICK bad \in ReadFault :
        IF \A s \in Slot : Erased(Seen(media, bad)[s])
        THEN Begin(c, 0, << >>, v) ELSE UNCHANGED op
  BY DEF Provision
<1>3. Fail(c) /\ UNCHANGED <<media, durable, acked>>
  BY DEF Provision
<1>4. ctx' \in [Context -> ContextType] /\ ~ctx'[c].ready
  BY <1>1, <1>3, UnreadyType DEF TypeOK, ContextType, Fail, Unready
<1>5. CASE /\ \A s \in Slot : Erased(Seen(media, bad)[s])
           /\ Begin(c, 0, << >>, v)
  <2>1. \A s \in Slot : Erased(media[s])
    BY <1>1, <1>5, SeenErased DEF TypeOK
  <2>2. \A s \in Slot : ~Valid(media[s])
    BY <2>1, Pages DEF Erased, Valid, CommitValid, Blank
  <2>3. durable = << >>
    BY <1>1, <2>2 DEF NewestHeld, Holds
  <2>4. 0 \in Slot /\ 1 - 0 \in Slot /\ << >> \in Seq(Value)
    BY EmptySeq DEF Slot
  <2> QED
    BY <1>3, <1>4, <1>5, <2>1, <2>3, <2>4, BeginKeeps
<1>6. CASE UNCHANGED op
  BY <1>1, <1>3, <1>4, <1>6, ScanOnly DEF TypeOK
<1> QED
  BY <1>2, <1>5, <1>6

LEMMA EraseStep ==
  ASSUME LedgerInv, EraseInactive
  PROVE  LedgerInv'
<1> DEFINE t == 1 - op.slot
           blank == [p \in Page |-> Blank]
<1>0. /\ op.step = "erase" /\ op # Idle /\ MediaInv /\ TypeOK
      /\ media' = [media EXCEPT ![op.slot] = blank]
      /\ op' = [op EXCEPT !.step = "program"]
      /\ UNCHANGED <<ctx, durable, acked>>
  BY IdleStep, LedgerIsMedia DEF EraseInactive, LedgerInv
<1>1. /\ op \in Operation
      /\ op.slot \in Slot /\ t \in Slot /\ t # op.slot
      /\ \A s \in Slot : s = t \/ s = op.slot
  BY <1>0, Running DEF Slot
<1>2. durable = op.base /\ OtherSlotHoldsBase
  BY <1>0 DEF LedgerInv, RunningCall
<1>3. /\ media' \in [Slot -> [Page -> PageContent]]
      /\ media'[t] = media[t] /\ media'[op.slot] = blank
  BY <1>0, <1>1, Junk DEF MediaInv
<1>4. /\ op' \in Operation /\ op'.step = "program" /\ op'.slot = op.slot
      /\ op'.base = op.base /\ op'.value = op.value /\ op'.page = op.page
  BY <1>0, <1>1 DEF Operation
<1>5. ~CommitValid(media'[op.slot])
  BY <1>3, Junk, Pages DEF CommitValid
<1>6. CommitsKnown'
  BY <1>0, <1>1, <1>3, <1>5 DEF MediaInv, CommitsKnown
<1>7. NewerAtMostOne'
  <2>1. Len(durable) \in Nat
    BY <1>0, LenProperties DEF MediaInv
  <2>2. \A p \in Page : media'[op.slot][p] = Blank
    BY <1>3
  <2>3. \A p \in Page : Generation(media'[op.slot][p]) <= Len(durable) + 1
    BY <2>1, <2>2, Junk
  <2>4. \A p \in Page : Generation(media'[t][p]) <= Len(durable) + 1
    BY <1>0, <1>1, <1>3 DEF MediaInv, NewerAtMostOne
  <2>5. durable' = durable
    BY <1>0
  <2> QED
    BY <2>3, <2>4, <2>5, <1>1 DEF NewerAtMostOne
<1>8. NewestHeld'
  BY <1>0, <1>1, <1>2, <1>3 DEF NewestHeld, OtherSlotHoldsBase, Holds
<1>9. TypeOK'
  BY <1>0, <1>3, <1>4 DEF TypeOK
<1>10. RunningCall'
  <2>1. OtherSlotHoldsBase'
    BY <1>2, <1>3, <1>4 DEF OtherSlotHoldsBase, Holds
  <2>2. \A p \in Page : ~(p < op.page) \/ op.page # 1
    BY Pages
  <2>3. op.page = 1
    BY <1>0 DEF LedgerInv, RunningCall
  <2>4. ProgrammedSoFar'
    BY <2>2, <2>3, <1>3, <1>4 DEF ProgrammedSoFar
  <2> QED
    BY <2>1, <2>4, <1>0, <1>2, <1>4 DEF RunningCall
<1>11. ReadyMeansElectable'
  BY <1>4 DEF ReadyMeansElectable, Operation, Idle
<1> QED
  BY <1>0, <1>6, <1>7, <1>8, <1>9, <1>10, <1>11 DEF LedgerInv, MediaInv

\* The invariant of a call that goes on after programming a page.
LEMMA ProgramStep ==
  ASSUME LedgerInv, ProgramPage
  PROVE  LedgerInv'
<1> DEFINE want == Image(op.base, op.value)
           t    == 1 - op.slot
<1>0. /\ op.step = "program" /\ op # Idle /\ MediaInv /\ TypeOK
      /\ media' = [media EXCEPT ![op.slot][op.page] = want[op.page]]
      /\ UNCHANGED <<ctx, acked>>
  BY IdleStep, LedgerIsMedia DEF ProgramPage, LedgerInv
<1>1. /\ op \in Operation
      /\ op.slot \in Slot /\ t \in Slot /\ t # op.slot /\ op.page \in Page
      /\ op.base \in Seq(Value) /\ op.value \in Value
  BY <1>0, Running
<1>2. durable = op.base /\ ProgrammedSoFar /\ OtherSlotHoldsBase
  BY <1>0 DEF LedgerInv, RunningCall
<1>3. media'[t] = media[t]
  BY <1>0, <1>1 DEF MediaInv
<1>4. CASE op.page = CommitPage
  <2>1. op' = [op EXCEPT !.step = "verify"] /\ durable' = Candidate
    BY <1>4 DEF ProgramPage
  <2>2. MediaInv' /\ media'[op.slot] = want
    BY <1>0, <1>4, <2>1, CommitCompleted
  <2>3. /\ op' \in Operation /\ op'.step = "verify" /\ op'.slot = op.slot
        /\ op'.base = op.base /\ op'.value = op.value /\ op'.page = op.page
    BY <1>1, <2>1 DEF Operation
  <2>4. TypeOK'
    BY <1>0, <2>2, <2>3 DEF TypeOK, MediaInv
  <2>5. OtherSlotHoldsBase'
    BY <1>2, <1>3, <2>3 DEF OtherSlotHoldsBase, Holds
  <2>6. ProgrammedSoFar'
    BY <2>2, <2>3 DEF ProgrammedSoFar
  <2>7. RunningCall'
    BY <2>1, <2>3, <2>5, <2>6 DEF RunningCall, Candidate
  <2>8. ReadyMeansElectable'
    BY <2>3 DEF ReadyMeansElectable, Operation, Idle
  <2> QED
    BY <2>2, <2>4, <2>7, <2>8 DEF LedgerInv, MediaInv
<1>5. CASE op.page # CommitPage
  <2> DEFINE next == IF op.page <= Bodies[op.value] THEN op.page + 1 ELSE CommitPage
  <2>1. op' = [op EXCEPT !.page = next] /\ durable' = durable
    BY <1>5 DEF ProgramPage, NextPage
  <2>2. MediaInv'
    BY <1>0, <1>5, <2>1, PageProgrammed
  <2>3. Bodies[op.value] \in 0 .. MaxBodies /\ MaxBodies \in Nat
    BY <1>1, LedgerAssumption
  <2>4. next \in Page /\ op.page < next
    BY <1>1, <1>5, <2>3, Pages DEF Page, CommitPage
  <2>5. /\ op' \in Operation /\ op'.step = "program" /\ op'.slot = op.slot
        /\ op'.base = op.base /\ op'.value = op.value /\ op'.page = next
    <3> HIDE DEF next
    <3> QED
      BY <1>0, <1>1, <2>1, <2>4 DEF Operation
  <2>6. TypeOK'
    BY <1>0, <2>1, <2>2, <2>5 DEF TypeOK, MediaInv
  <2>7. OtherSlotHoldsBase'
    BY <1>2, <1>3, <2>5 DEF OtherSlotHoldsBase, Holds
  <2>8. ProgrammedSoFar'
    <3>1. ASSUME NEW p \in Page
          PROVE  media'[op.slot][p] = IF p < next THEN want[p] ELSE Blank
      <4>1. media'[op.slot][p] = IF p = op.page THEN want[p] ELSE media[op.slot][p]
        BY <1>0, <1>1 DEF MediaInv
      <4>2. media[op.slot][p] = IF p < op.page THEN want[p] ELSE Blank
        BY <1>0, <1>2 DEF ProgrammedSoFar
      <4>3. op.page < p /\ p < next => want[p] = Blank
        <5>1. SUFFICES ASSUME op.page < p, p < next
                       PROVE  want[p] = Blank
          OBVIOUS
        <5>2. p \in Nat /\ op.page \in Nat /\ 1 <= op.page /\ CommitPage \in Nat
          BY <1>1, Pages
        <5>3. ~(op.page <= Bodies[op.value]) /\ next = CommitPage
          BY <5>1, <5>2, <2>3
        <5>4. p # 1 /\ p # CommitPage /\ ~(p - 1 <= Bodies[op.value])
          BY <5>1, <5>2, <5>3, <2>3
        <5> QED
          BY <5>4 DEF Image
      <4>4. p \in Nat /\ op.page \in Nat /\ next \in Nat
        BY <1>1, <2>4, Pages
      <4> HIDE DEF want, next
      <4> QED
        BY <4>1, <4>2, <4>3, <4>4, <2>4
    <3> HIDE DEF next
    <3> QED
      BY <3>1, <2>5 DEF ProgrammedSoFar
  <2>9. RunningCall'
    BY <1>0, <1>2, <2>1, <2>5, <2>7, <2>8 DEF RunningCall
  <2>10. ReadyMeansElectable'
    BY <2>5 DEF ReadyMeansElectable, Operation, Idle
  <2> QED
    BY <2>2, <2>6, <2>9, <2>10 DEF LedgerInv, MediaInv
<1> QED
  BY <1>4, <1>5

\* A verified snapshot is elected: its parent is in the other slot.
LEMMA VerifiedIsElected ==
  ASSUME LedgerInv, op.step = "verify"
  PROVE  /\ Elects(media, op.slot)
         /\ media[op.slot] = Image(op.base, op.value)
         /\ Snap(media[op.slot]) = Candidate
         /\ durable = Candidate
<1> DEFINE t == 1 - op.slot
<1>0. op # Idle /\ MediaInv
  BY IdleStep, LedgerIsMedia
<1>1. /\ op.slot \in Slot /\ t \in Slot
      /\ op.base \in Seq(Value) /\ op.value \in Value
  BY <1>0, Running
<1>2. durable = Candidate /\ ProgrammedSoFar /\ OtherSlotHoldsBase
  BY <1>0 DEF LedgerInv, RunningCall
<1>3. media[op.slot] = Image(op.base, op.value)
  <2>1. /\ media[op.slot] \in [Page -> PageContent]
        /\ Image(op.base, op.value) \in [Page -> PageContent]
    BY <1>0, <1>1, ImageType DEF MediaInv
  <2>2. \A p \in Page : media[op.slot][p] = Image(op.base, op.value)[p]
    BY <1>2 DEF ProgrammedSoFar
  <2> QED
    BY <2>1, <2>2
<1>4. Valid(media[op.slot]) /\ Snap(media[op.slot]) = Candidate
  BY <1>1, <1>3, ImageValid DEF Candidate
<1>5. Linked(op.base, Candidate)
  BY <1>1, FrontOfAppend DEF Linked, Candidate
<1>6. Elects(media, op.slot)
  BY <1>2, <1>4, <1>5 DEF OtherSlotHoldsBase, Holds, Elects
<1> QED
  BY <1>2, <1>3, <1>4, <1>6

LEMMA VerifyStep ==
  ASSUME LedgerInv, VerifySnapshot
  PROVE  LedgerInv' /\ IsPrefix(acked, acked')
<1>0. /\ op.step = "verify" /\ op # Idle /\ op' = Idle
      /\ UNCHANGED <<media, durable>> /\ MediaInv /\ TypeOK
  BY IdleStep, LedgerIsMedia DEF VerifySnapshot, LedgerInv
<1>1. /\ Elects(media, op.slot) /\ durable = Candidate
      /\ op.slot \in Slot /\ op.owner \in Context
  BY <1>0, VerifiedIsElected, Running
<1>2. PICK bad \in ReadFault :
        IF Valid(Seen(media, bad)[op.slot]) /\ Snap(Seen(media, bad)[op.slot]) = Candidate
        THEN /\ ctx' = [ctx EXCEPT ![op.owner] = Selected(Seen(media, bad), op.slot)]
             /\ acked' = Candidate
        ELSE Fail(op.owner) /\ UNCHANGED acked
  BY DEF VerifySnapshot
<1>3. durable \in Seq(Value) /\ acked \in Seq(Value) /\ IsPrefix(acked, durable)
  BY <1>0 DEF MediaInv
<1>4. CASE /\ Snap(Seen(media, bad)[op.slot]) = Candidate
           /\ ctx' = [ctx EXCEPT ![op.owner] = Selected(Seen(media, bad), op.slot)]
           /\ acked' = Candidate
  <2>1. ctx' \in [Context -> ContextType]
    BY <1>0, <1>1, <1>3, <1>4 DEF TypeOK, ContextType, Selected
  <2>2. ReadyMeansElectable'
    BY <1>0, <1>1 DEF ReadyMeansElectable
  <2> QED
    BY <1>0, <1>1, <1>3, <1>4, <2>1, <2>2, PrefixOfItself
    DEF LedgerInv, MediaInv, TypeOK, ContextType, CommitsKnown, NewerAtMostOne,
        NewestHeld, Holds, RunningCall
<1>5. CASE Fail(op.owner) /\ UNCHANGED acked
  <2>1. ctx' \in [Context -> ContextType] /\ ~ctx'[op.owner].ready
    BY <1>0, <1>1, <1>5, UnreadyType DEF TypeOK, ContextType, Fail, Unready
  <2>2. ReadyMeansElectable'
    BY <1>1, <2>1 DEF ReadyMeansElectable
  <2> QED
    BY <1>0, <1>3, <1>5, <2>1, <2>2, PrefixOfItself
    DEF LedgerInv, MediaInv, TypeOK, ContextType, CommitsKnown, NewerAtMostOne,
        NewestHeld, Holds, RunningCall
<1> QED
  BY <1>2, <1>4, <1>5

LEMMA FailureStep ==
  ASSUME LedgerInv, StoreFails \/ PowerCut
  PROVE  LedgerInv'
<1>1. TypeOK /\ Interrupted /\ op' = Idle /\ UNCHANGED acked
  BY DEF LedgerInv, StoreFails, PowerCut
<1>2. MediaInv'
  BY <1>1, InterruptedKeepsMedia
<1>3. PICK c \in Context : ctx' \in [Context -> ContextType] /\ ~ctx'[c].ready
  <2>1. CASE StoreFails
    <3>1. op.owner \in Context
      BY <2>1, IdleStep, Running DEF StoreFails
    <3> QED
      BY <3>1, <2>1, <1>1, UnreadyType DEF StoreFails, Fail, TypeOK, ContextType, Unready
  <2>2. CASE PowerCut
    <3>1. PICK c \in Context : TRUE
      BY LedgerAssumption
    <3> QED
      BY <3>1, <2>2, UnreadyType DEF PowerCut, Unready
  <2> QED
    BY <2>1, <2>2
<1>4. TypeOK'
  BY <1>1, <1>2, <1>3 DEF TypeOK, MediaInv, ContextType
<1>5. RunningCall'
  BY <1>1 DEF RunningCall
<1>6. ReadyMeansElectable'
  BY <1>3 DEF ReadyMeansElectable
<1> QED
  BY <1>2, <1>4, <1>5, <1>6 DEF LedgerInv, MediaInv

LEMMA StutterStep ==
  ASSUME LedgerInv, UNCHANGED vars
  PROVE  LedgerInv'
BY DEF vars, LedgerInv, TypeOK, CommitsKnown, NewerAtMostOne, NewestHeld, Holds,
       RunningCall, OtherSlotHoldsBase, ProgrammedSoFar, Candidate, ReadyMeansElectable

LEMMA NextInv == LedgerInv /\ [Next]_vars => LedgerInv'
<1> SUFFICES ASSUME LedgerInv, [Next]_vars PROVE LedgerInv'
  OBVIOUS
<1> QED
  BY OpenStep, LoadStep, StoreStep, ProvisionStep, EraseStep, ProgramStep,
     VerifyStep, FailureStep, StutterStep DEF Next

\* The strengthened invariant of aura_control.c holds in every state, for any
\* contexts, values, block sizes, read faults and erase residues.
THEOREM LedgerInvariant == Spec => []LedgerInv
<1>1. Init => LedgerInv
  BY InitInv
<1>2. LedgerInv /\ [Next]_vars => LedgerInv'
  BY NextInv
<1> QED
  BY <1>1, <1>2, PTL DEF Spec

\* The variables of the ledger always have their types.
THEOREM LedgerTypes == Spec => []TypeOK
<1>1. LedgerInv => TypeOK
  BY DEF LedgerInv
<1> QED
  BY <1>1, LedgerInvariant, PTL

----------------------------------------------------------------------------
(* What the invariant gives the owner of the ledger.                       *)

\* Authority once reported is never lost: the newest complete snapshot always
\* stands in some slot, and every report is a prefix of it.
THEOREM AuthorityNeverLost == Spec => []AuthoritySurvives
<1>1. LedgerInv => AuthoritySurvives
  <2> SUFFICES ASSUME LedgerInv, acked # << >>
               PROVE  \E s \in Slot : Valid(media[s]) /\ IsPrefix(acked, Snap(media[s]))
    BY DEF AuthoritySurvives
  <2>1. MediaInv
    BY LedgerIsMedia
  <2>2. Len(acked) \in Nat \ {0} /\ Len(acked) <= Len(durable)
    BY <2>1, EmptySeq DEF MediaInv, IsPrefix
  <2>3. durable # << >>
    BY <2>2, EmptySeq
  <2> QED
    BY <2>1, <2>3 DEF MediaInv, NewestHeld, Holds
<1> QED
  BY <1>1, LedgerInvariant, PTL

\* No scan, whatever it fails to read, elects anything but the newest
\* complete snapshot.
THEOREM OneReading == Spec => []ElectionUnique
<1>1. LedgerInv => ElectionUnique
  BY ElectedIsNewest DEF LedgerInv, ElectionUnique
<1> QED
  BY <1>1, LedgerInvariant, PTL

\* An older slot is never elected while a page of a newer candidate stands.
THEOREM TornCandidateFailsClosed == Spec => []NoAuthorityBehindNewer
<1>1. LedgerInv => NoAuthorityBehindNewer
  <2> SUFFICES ASSUME LedgerInv, NEW s \in Slot, Elects(media, s),
                      NEW t \in Slot, NEW p \in Page
               PROVE  Generation(media[t][p]) <= Len(Snap(media[s]))
    BY DEF NoAuthorityBehindNewer
  <2>1. MediaInv
    BY LedgerIsMedia
  <2>2. Seen(media, {}) = media
    <3>1. media = [q \in Slot |-> media[q]] /\ \A q \in Slot : media[q] = [r \in Page |-> media[q][r]]
      BY <2>1 DEF MediaInv
    <3> QED
      BY <3>1 DEF Seen
  <2>3. Valid(media[s]) /\ Snap(media[s]) = durable
    BY <2>2, ElectedIsNewest DEF LedgerInv
  <2>4. CASE CommitValid(media[t])
    BY <2>1, <2>3, <2>4 DEF MediaInv, CommitsKnown
  <2>5. CASE ~CommitValid(media[t])
    <3>1. t # s /\ t = 1 - s
      BY <2>3, <2>5 DEF Valid, Slot
    <3>2. Erased(media[t])
      BY <2>5, <3>1 DEF Elects, Valid, Retained
    <3>3. Generation(media[t][p]) = 0
      BY <3>2, Junk DEF Erased
    <3> QED
      BY <2>1, <2>3, <3>3, LenProperties DEF MediaInv
  <2> QED
    BY <2>4, <2>5
<1> QED
  BY <1>1, LedgerInvariant, PTL

LEMMA NoRollbackStep ==
  ASSUME LedgerInv, [Next]_vars
  PROVE  IsPrefix(acked, acked')
<1>1. MediaInv /\ TypeOK /\ CommitsKnown /\ NewestHeld
  BY LedgerIsMedia DEF LedgerInv
<1>2. IsPrefix(acked, acked) /\ IsPrefix(acked, durable)
  BY <1>1, PrefixOfItself DEF MediaInv
<1>3. ASSUME NEW c \in Context, Open(c)
      PROVE  acked' = acked \/ acked' = durable
  BY <1>1, <1>3, ElectedIsNewest DEF Open
<1>4. ASSUME NEW c \in Context, Load(c)
      PROVE  acked' = acked \/ acked' = durable
  BY <1>1, <1>4, ElectedIsNewest DEF Load, Refreshed
<1>5. ASSUME NEW c \in Context, NEW v \in Value, Store(c, v) \/ Provision(c, v)
      PROVE  acked' = acked
  BY <1>5 DEF Store, Provision
<1>6. CASE EraseInactive \/ ProgramPage \/ StoreFails \/ PowerCut \/ UNCHANGED vars
  BY <1>2, <1>6 DEF EraseInactive, ProgramPage, StoreFails, PowerCut, vars
<1>7. CASE VerifySnapshot
  BY <1>7, VerifyStep
<1> QED
  BY <1>2, <1>3, <1>4, <1>5, <1>6, <1>7 DEF Next

\* What a successful call reports always extends every earlier report.
THEOREM ReportsNeverRollBack == Spec => NoRollback
<1>1. LedgerInv /\ [Next]_vars => [IsPrefix(acked, acked')]_acked
  BY NoRollbackStep
<1> QED
  BY <1>1, LedgerInvariant, PTL DEF Spec, NoRollback

LEMMA SpareSlotStep ==
  ASSUME LedgerInv, Next, NEW s \in Slot, media'[s] # media[s], durable # << >>
  PROVE  \E t \in Slot \ {s} : Valid(media[t]) /\ Snap(media[t]) = durable
<1>1. MediaInv
  BY LedgerIsMedia
<1>2. (op.step = "erase" \/ op.step = "program")
      /\ \/ \E b : media' = [media EXCEPT ![op.slot] = b]
         \/ \E x : media' = [media EXCEPT ![op.slot][op.page] = x]
  BY DEF Next, Open, Load, Store, Provision, EraseInactive, ProgramPage, VerifySnapshot,
         StoreFails, PowerCut, Interrupted, InterruptedErase, InterruptedProgram
<1>3. op # Idle
  BY <1>2, IdleStep
<1>4. op.slot \in Slot /\ 1 - op.slot \in Slot /\ 1 - op.slot # op.slot
  BY <1>3, Running
<1>5. s = op.slot
  BY <1>1, <1>2, <1>4 DEF MediaInv
<1>6. durable = op.base /\ Holds(1 - op.slot, op.base)
  BY <1>2, <1>3 DEF LedgerInv, RunningCall, OtherSlotHoldsBase
<1> QED
  BY <1>4, <1>5, <1>6 DEF Holds

\* Only the spare slot is ever erased or programmed: the newest complete
\* snapshot stands in the other one until its successor's commit completes.
THEOREM NewestNeverTouched == Spec => SpareSlotOnly
<1>1. LedgerInv /\ [Next]_vars =>
        [\A s \in Slot : media'[s] # media[s] /\ durable # << >> =>
           \E t \in Slot \ {s} : Valid(media[t]) /\ Snap(media[t]) = durable]_media
  BY SpareSlotStep DEF vars
<1> QED
  BY <1>1, LedgerInvariant, PTL DEF Spec, SpareSlotOnly

----------------------------------------------------------------------------
(* The ledger implements the atomic register.                              *)

LEMMA FailureLoses ==
  ASSUME TypeOK, NEW c \in Context, Fail(c)
  PROVE  View' = [d \in Context |-> IF d \in {c} THEN << >> ELSE View[d]]
BY DEF TypeOK, Fail, Unready, View

LEMMA SelectionObserves ==
  ASSUME TypeOK, NEW c \in Context, NEW s \in Slot, NEW m, Snap(m[s]) = durable,
         ctx' = [ctx EXCEPT ![c] = Selected(m, s)]
  PROVE  View' = [View EXCEPT ![c] = durable]
BY DEF TypeOK, Selected, View

LEMMA SameView ==
  ASSUME TypeOK, NEW c \in Context, NEW s \in Slot, ctx' = [ctx EXCEPT ![c].slot = s]
  PROVE  View' = View
BY DEF TypeOK, View

LEMMA RegisterStep ==
  ASSUME LedgerInv, [Next]_vars
  PROVE  [Register!Next]_(Register!vars)
<1>1. MediaInv /\ TypeOK /\ CommitsKnown /\ NewestHeld /\ RunningCall
  BY LedgerIsMedia DEF LedgerInv
<1> USE DEF Register!Next, Register!vars
<1>2. ASSUME NEW c \in Context, Fail(c), UNCHANGED durable
      PROVE  Register!Next
  <2>1. Register!Lose({c})
    BY <1>1, <1>2, FailureLoses DEF Register!Lose
  <2> QED
    BY <2>1
<1>3. ASSUME NEW c \in Context, NEW s \in Slot, NEW m, Snap(m[s]) = durable,
             durable # << >>, ctx' = [ctx EXCEPT ![c] = Selected(m, s)],
             UNCHANGED durable
      PROVE  Register!Next
  <2>1. View' = [View EXCEPT ![c] = durable]
    BY <1>1, <1>3, SelectionObserves
  <2>2. Register!Observe(c)
    BY <2>1, <1>3 DEF Register!Observe
  <2> QED
    BY <2>2
<1>4. ASSUME NEW c \in Context, NEW s \in Slot, ctx' = [ctx EXCEPT ![c].slot = s],
             UNCHANGED durable
      PROVE  UNCHANGED <<durable, View>>
  BY <1>1, <1>4, SameView
<1>5. ASSUME NEW c \in Context, Open(c)
      PROVE  Register!Next
  <2>1. PICK bad \in ReadFault :
          \/ \E s \in Slot : /\ Elects(Seen(media, bad), s)
                             /\ ctx' = [ctx EXCEPT ![c] = Selected(Seen(media, bad), s)]
          \/ Fail(c)
    BY <1>5 DEF Open
  <2>2. UNCHANGED durable
    BY <1>5 DEF Open
  <2>3. ASSUME NEW s \in Slot, Elects(Seen(media, bad), s)
        PROVE  Snap(Seen(media, bad)[s]) = durable /\ durable # << >>
    BY <1>1, <2>3, ElectedIsNewest
  <2> QED
    BY <1>2, <1>3, <2>1, <2>2, <2>3
<1>6. ASSUME NEW c \in Context, Load(c)
      PROVE  [Register!Next]_(Register!vars)
  <2>1. /\ Fail(c) \/ \E s \in Slot : ctx' = [ctx EXCEPT ![c].slot = s]
        /\ UNCHANGED durable
    BY <1>6 DEF Load
  <2> QED
    BY <1>2, <1>4, <2>1
<1>7. ASSUME NEW c \in Context, NEW v \in Value, Store(c, v)
      PROVE  [Register!Next]_(Register!vars)
  <2>1. /\ Fail(c) \/ \E s \in Slot : ctx' = [ctx EXCEPT ![c].slot = s]
        /\ UNCHANGED durable
    BY <1>7 DEF Store
  <2> QED
    BY <1>2, <1>4, <2>1
<1>8. ASSUME NEW c \in Context, NEW v \in Value, Provision(c, v)
      PROVE  Register!Next
  BY <1>2, <1>8 DEF Provision
<1>9. CASE EraseInactive \/ UNCHANGED vars
  BY <1>9 DEF EraseInactive, vars, View
<1>10. CASE ProgramPage
  <2>0. op # Idle /\ op.step = "program"
    BY <1>10, IdleStep DEF ProgramPage
  <2>1. op.base = durable /\ op.value \in Value
    BY <1>1, <2>0, Running DEF RunningCall
  <2>2. CASE op.page = CommitPage
    <3>1. Register!Commit(op.value)
      BY <1>10, <2>1, <2>2 DEF ProgramPage, Candidate, View, Register!Commit
    <3> QED
      BY <3>1, <2>1
  <2>3. CASE op.page # CommitPage
    BY <1>10, <2>3 DEF ProgramPage, View
  <2> QED
    BY <2>2, <2>3
<1>11. CASE VerifySnapshot
  <2>1. /\ op.step = "verify" /\ UNCHANGED durable
        /\ durable = Candidate /\ durable # << >>
        /\ op.owner \in Context /\ op.slot \in Slot
    BY <1>11, IdleStep, Running, VerifiedIsElected DEF VerifySnapshot
  <2>2. PICK bad \in ReadFault :
          \/ /\ Snap(Seen(media, bad)[op.slot]) = Candidate
             /\ ctx' = [ctx EXCEPT ![op.owner] = Selected(Seen(media, bad), op.slot)]
          \/ Fail(op.owner)
    BY <1>11 DEF VerifySnapshot
  <2> QED
    BY <1>2, <1>3, <2>1, <2>2
<1>12. ASSUME Interrupted, NEW S \in SUBSET Context,
              View' = [d \in Context |-> IF d \in S THEN << >> ELSE View[d]]
       PROVE  Register!Next
  <2>1. CASE durable' = durable
    <3>1. Register!Lose(S)
      BY <1>12, <2>1 DEF Register!Lose
    <3> QED
      BY <3>1
  <2>2. CASE durable' # durable
    <3>1. op.step = "program" /\ durable' = Candidate
      BY <1>12, <2>2 DEF Interrupted, InterruptedErase, InterruptedProgram
    <3>2. op.base = durable /\ op.value \in Value
      BY <1>1, <3>1, IdleStep, Running DEF RunningCall
    <3>3. Register!CommitAndLose(op.value, S)
      BY <1>12, <3>1, <3>2 DEF Candidate, Register!CommitAndLose
    <3> QED
      BY <3>2, <3>3
  <2> QED
    BY <2>1, <2>2
<1>13. CASE StoreFails
  <2>1. op.owner \in Context
    BY <1>13, IdleStep, Running DEF StoreFails
  <2>2. View' = [d \in Context |-> IF d \in {op.owner} THEN << >> ELSE View[d]]
    BY <1>1, <1>13, <2>1, FailureLoses DEF StoreFails
  <2> QED
    BY <1>12, <1>13, <2>1, <2>2 DEF StoreFails
<1>14. CASE PowerCut
  <2>1. View' = [d \in Context |-> IF d \in Context THEN << >> ELSE View[d]]
    BY <1>14 DEF PowerCut, View, Unready
  <2> QED
    BY <1>12, <1>14, <2>1 DEF PowerCut
<1> QED
  BY <1>5, <1>6, <1>7, <1>8, <1>9, <1>10, <1>11, <1>13, <1>14 DEF Next

\* Two blocks, torn pages and power cuts implement one atomic, durable
\* register of snapshots.
THEOREM LedgerImplementsRegister == Spec => ImplementsRegister
<1>1. Init => Register!Init
  BY DEF Init, Register!Init, View, Unready
<1>2. LedgerInv /\ [Next]_vars => [Register!Next]_(Register!vars)
  BY RegisterStep
<1> QED
  BY <1>1, <1>2, LedgerInvariant, PTL DEF Spec, ImplementsRegister, Register!Spec
===============================================================================
