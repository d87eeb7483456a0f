--------------------------- MODULE StorageOwnerProofs ---------------------------
(***************************************************************************)
(* The storage owner for every set of blocks, number of generations and    *)
(* releases, catalog size and number of failures: what a finished          *)
(* recording and a durable release are worth, and that the owner           *)
(* implements the capture vault.                                           *)
(***************************************************************************)
EXTENDS StorageOwner, SequenceTheorems, FiniteSetTheorems, WellFoundedInduction, TLAPS

Gens(r) == {cmd.gen : cmd \in r}

\* The parts of a capture, in any order of blocks: 0, 1, .. up to a last one.
Chained(m, g) ==
  /\ Linked(m, g)
  /\ \A b \in Parts(m, g) : \A k \in 0 .. m[b].part : \E c \in Parts(m, g) : m[c].part = k
  /\ Parts(m, g) # {} => \E b \in Block : LastPart(m, g, b)

-----------------------------------------------------------------------------
(* What survives a power cut: media m, ledger l, and the histories of      *)
(* opened (o), closed (c) and granted (r) captures.                        *)

\* Nothing is on the media, closed or granted that was not reserved first.
Reserved(m, l, o, c, r) ==
  /\ o \subseteq 1 .. l.counter
  /\ c \subseteq o /\ Gens(r) \subseteq o
  /\ \A b \in Block : IsPart(m, b) => m[b].gen \in o

\* Captures that are not released are readable, those that were closed whole.
Whole(m, c, r) ==
  /\ \A g \in Generation \ Gens(r) : Chained(m, g)
  /\ \A g \in c \ Gens(r) : Verified(m, g) /\ Receipt(m, g) = "final"

\* Nothing of a released capture is left outside the fence.
Fenced(m, l, r) == \A g \in Gens(r) : Parts(m, g) \subseteq Fence(l)

\* The ledger numbers the grants, and the running grant is the last one.
Numbered(l, r) ==
  /\ {cmd.seq : cmd \in r} = 1 .. l.floor
  /\ \A a, b \in r : a.seq = b.seq => a = b
  /\ l.phase = "granted" => l.last \in r /\ l.extents # << >>

Durable(m, l, o, c, r) ==
  /\ Reserved(m, l, o, c, r) /\ Whole(m, c, r) /\ Fenced(m, l, r) /\ Numbered(l, r)
  /\ Cardinality(Listed(m, l)) <= MaxCatalog

-----------------------------------------------------------------------------
(* What the journal j knows of it.                                         *)

\* What the journal may program is blank.
Blanks(m, j) ==
  /\ \A b \in Block : j.state[b] \in {"free", "prepared"} => m[b] = Blank
  /\ j.prepared # None => j.state[j.prepared] = "prepared"

\* The reserved generation is unused, the active capture unfinished.
Bindings(l, j, o, c, r) ==
  /\ j.bound <= l.counter
  /\ j.binding # 0 => j.binding = l.counter /\ j.binding \notin o
  /\ j.active # 0 => j.active \in o /\ j.active \notin c /\ j.active \notin Gens(r)
  /\ l.phase = "granted" => j.active = 0 /\ j.binding = 0

\* The active capture ends in the journal's last block, all before it is full.
Extended(m, j, p) ==
  /\ LastPart(m, j.active, j.last)
  /\ \A b \in Parts(m, j.active) \ {j.last} : m[b].end = "open" /\ m[b].ckpt = "valid"
  /\ j.current \in {None, j.last}
  /\ j.current = None => m[j.last].end = "open" /\ m[j.last].ckpt = "valid"
  /\ j.current # None /\ p.step # "checkpoint" => m[j.last].end \in {"none", "open"}

Beginning(p) == p.step = "header" /\ p.part = 0

Recording(m, j, p) ==
  j.active # 0 /\ ~j.fault /\ ~Beginning(p) => Extended(m, j, p)

\* A mounted release has erased its first extents and may write to none.
Erasing(m, l, w, j, p) ==
  w.ready /\ l.phase = "granted" =>
    /\ \A k \in 1 .. w.progress : m[l.extents[k]] = Blank
    /\ w.progress <= Len(l.extents)
    /\ p.step # "store" => w.progress < Len(l.extents)
    /\ \A b \in Fence(l) : j.state[b] = "excluded"

Volatile(m, l, w, j, p, o, c, r) ==
  /\ Blanks(m, j) /\ Bindings(l, j, o, c, r) /\ Recording(m, j, p)
  /\ Erasing(m, l, w, j, p)

-----------------------------------------------------------------------------
(* What the operation p in progress relies on.                             *)

Grant(m, l, cmd) == [l EXCEPT !.phase = "granted", !.floor = cmd.seq, !.last = cmd,
                              !.extents = Extents(m, cmd.gen)]

\* A store writes one of three snapshots, while nothing is recorded.
Storing(m, l, w, j, p, s) ==
  /\ w.ready /\ j.active = 0 /\ j.binding = 0
  /\ \/ /\ p.why = "reserve" /\ l.phase = "idle" /\ l.counter < MaxGeneration
        /\ p.next = [l EXCEPT !.counter = @ + 1]
     \/ /\ p.why = "grant" /\ l.phase = "idle"
        /\ \E cmd \in s : /\ cmd.seq = l.floor + 1
                          /\ Verified(m, cmd.gen) /\ Receipt(m, cmd.gen) = "final"
                          /\ p.next = Grant(m, l, cmd)
     \/ /\ p.why = "retire" /\ l.phase = "granted"
        /\ p.next = [l EXCEPT !.phase = "idle", !.extents = << >>]
        /\ \A b \in Fence(l) : m[b] = Blank

\* An erase is of the next extent, which holds nothing of another capture.
Wiping(m, l, w, p) ==
  /\ w.ready /\ l.phase = "granted"
  /\ w.progress + 1 \in 1 .. Len(l.extents)
  /\ p.block = l.extents[w.progress + 1]
  /\ IsPart(m, p.block) => m[p.block].gen = l.last.gen

\* A header goes to the prepared block, and begins or extends the capture.
Heading(m, l, j, p) ==
  /\ j.prepared # None /\ p.block = j.prepared /\ p.gen = j.active
  /\ p.part = 0 => /\ p.prev = None /\ p.end = "none"
                   /\ Parts(m, j.active) = {}
                   /\ Cardinality(Listed(m, l)) < MaxCatalog
  /\ p.part # 0 => /\ j.current = None /\ p.prev = j.last
                   /\ p.part = m[j.last].part + 1 /\ p.end # "none"

EndOf(p) == IF p.end = "full" THEN "open" ELSE p.end

Running(m, l, w, j, p, s) ==
  /\ p.step = "store" => Storing(m, l, w, j, p, s)
  /\ p.step = "erase" => Wiping(m, l, w, p)
  /\ p.step \in Programs => j.active # 0 /\ ~j.fault
  /\ p.step = "header" => Heading(m, l, j, p)
  /\ p.step \in {"page", "checkpoint"} => j.current # None /\ p.block = j.current
  /\ p.step = "checkpoint" => p.end # "open" /\ m[p.block].end = EndOf(p)

\* The inductive invariant.
StorageIInv ==
  /\ TypeOK
  /\ Durable(media, ledger, opened, closed, granted)
  /\ Volatile(media, ledger, owner, journal, op, opened, closed, granted)
  /\ Running(media, ledger, owner, journal, op, signed)

-----------------------------------------------------------------------------
(* The operators on the media.                                             *)

Media == [Block -> Content]

\* A block that holds a part holds all its fields.
LEMMA PartFacts ==
  ASSUME NEW m \in Media, NEW b \in Block, IsPart(m, b)
  PROVE  /\ m[b] \in [kind : {"part"}, gen : Generation, part : Nat, prev : Block \cup {None},
                      end : {"none", "open", "final", "interrupted"},
                      ckpt : {"blank", "valid", "unreadable"}]
         /\ m[b].gen \in Generation /\ m[b].part \in Nat
<1>1. m[b] \in Content
  BY DEF Media
<1>2. m[b] # Blank
  BY DEF IsPart, Blank
<1>3. m[b] \notin [kind : Damage]
  BY StorageAssumption DEF IsPart
<1> QED BY <1>1, <1>2, <1>3 DEF Content

\* Blocks of two captures differ, and every part belongs to one.
LEMMA PartsFacts ==
  ASSUME NEW m \in Media, NEW g, NEW b \in Parts(m, g)
  PROVE  b \in Block /\ IsPart(m, b) /\ m[b].gen = g /\ g \in Generation /\ m[b].part \in Nat
BY PartFacts DEF Parts

\* A capture has one last part.
LEMMA OneLast ==
  ASSUME NEW m \in Media, NEW g, Linked(m, g), NEW b, NEW c,
         LastPart(m, g, b), LastPart(m, g, c)
  PROVE  b = c
<1>1. b \in Parts(m, g) /\ c \in Parts(m, g)
  BY DEF LastPart
<1>2. m[b].part \in Nat /\ m[c].part \in Nat
  BY <1>1, PartsFacts
<1>3. m[b].part <= m[c].part /\ m[c].part <= m[b].part
  BY <1>1 DEF LastPart
<1> QED BY <1>1, <1>2, <1>3 DEF Linked

\* The receipt is read off the last part.
LEMMA ReceiptIs ==
  ASSUME NEW m \in Media, NEW g, Linked(m, g), NEW b, LastPart(m, g, b)
  PROVE  Receipt(m, g) = IF m[b].end \in {"final", "interrupted"} THEN m[b].end ELSE "open"
<1> DEFINE last == CHOOSE c \in Parts(m, g) : LastPart(m, g, c)
<1>1. LastPart(m, g, last)
  BY DEF LastPart
<1>2. last = b
  BY <1>1, OneLast
<1> HIDE DEF last
<1> QED BY <1>2 DEF Receipt, last

\* A capture whose blocks are as before is as before.
LEMMA SameCapture ==
  ASSUME NEW m, NEW n, NEW g, Parts(n, g) = Parts(m, g),
         \A b \in Parts(m, g) : n[b] = m[b]
  PROVE  /\ \A b : LastPart(n, g, b) <=> LastPart(m, g, b)
         /\ Linked(n, g) <=> Linked(m, g)
         /\ Chained(m, g) => Chained(n, g)
         /\ Verified(m, g) => Verified(n, g)
<1>1. \A b : LastPart(n, g, b) <=> LastPart(m, g, b)
  BY DEF LastPart
<1>2. Linked(n, g) <=> Linked(m, g)
  BY DEF Linked
<1>3. Chained(m, g) => Chained(n, g)
  BY <1>1, <1>2 DEF Chained
<1>4. Verified(m, g) => Verified(n, g)
  BY <1>1, <1>2 DEF Verified
<1> QED BY <1>1, <1>2, <1>3, <1>4

\* So is its receipt.
LEMMA SameReceipt ==
  ASSUME NEW m \in Media, NEW n \in Media, NEW g, Parts(n, g) = Parts(m, g),
         \A b \in Parts(m, g) : n[b] = m[b], Chained(m, g), Parts(m, g) # {}
  PROVE  Receipt(n, g) = Receipt(m, g)
<1>1. PICK b \in Block : LastPart(m, g, b)
  BY DEF Chained
<1>2. LastPart(n, g, b) /\ Linked(n, g) /\ Linked(m, g)
  BY <1>1, SameCapture DEF Chained
<1>3. n[b] = m[b]
  BY <1>1 DEF LastPart
<1> QED BY <1>1, <1>2, <1>3, ReceiptIs

\* A verified capture that is closed "final" ends in a final part.
LEMMA FinalLast ==
  ASSUME NEW m \in Media, NEW g, Chained(m, g), Verified(m, g), Receipt(m, g) = "final"
  PROVE  \E b \in Parts(m, g) : LastPart(m, g, b) /\ m[b].end = "final"
<1>1. PICK b \in Block : LastPart(m, g, b)
  BY DEF Chained, Verified
<1>2. m[b].end = "final"
  BY <1>1, ReceiptIs DEF Chained
<1> QED BY <1>1, <1>2 DEF LastPart

\* The extents of a capture are its blocks.
LEMMA ExtentsFacts ==
  ASSUME NEW m \in Media, NEW g, Chained(m, g), Parts(m, g) # {}
  PROVE  /\ Extents(m, g) \in Seq(Block) /\ Extents(m, g) # << >>
         /\ {Extents(m, g)[k] : k \in DOMAIN Extents(m, g)} = Parts(m, g)
         /\ \A k \in DOMAIN Extents(m, g) : m[Extents(m, g)[k]].part = k - 1
<1> DEFINE last == CHOOSE c \in Parts(m, g) : LastPart(m, g, c)
           n == m[last].part + 1
           e == [k \in 1 .. n |-> CHOOSE b \in Parts(m, g) : m[b].part = k - 1]
<1>1. LastPart(m, g, last)
  BY DEF LastPart, Chained
<1>2. last \in Parts(m, g) /\ m[last].part \in Nat
  BY <1>1, PartsFacts DEF LastPart
<1>3. Extents(m, g) = e
  BY DEF Extents
<1>4. n \in Nat /\ n # 0
  BY <1>2
<1>5. ASSUME NEW k \in 1 .. n  PROVE  e[k] \in Parts(m, g) /\ m[e[k]].part = k - 1
  <2>1. k - 1 \in 0 .. m[last].part
    BY <1>2, <1>5
  <2>2. \E b \in Parts(m, g) : m[b].part = k - 1
    BY <1>2, <2>1 DEF Chained
  <2> QED BY <2>2
<1> HIDE DEF n
<1>6. DOMAIN e = 1 .. n
  OBVIOUS
<1>7. ASSUME NEW k \in 1 .. n  PROVE  e[k] \in Block
  BY <1>5, <1>7, PartsFacts
<1>8. e \in [1 .. n -> Block]
  BY <1>6, <1>7
<1>9. e \in Seq(Block)
  BY <1>4, <1>8, SeqDef
<1>10. e # << >>
  BY <1>4, <1>6
<1>11. ASSUME NEW b \in Parts(m, g)  PROVE  \E k \in 1 .. n : e[k] = b
  <2>1. m[b].part \in Nat /\ m[b].part <= m[last].part
    BY <1>1, <1>11, PartsFacts DEF LastPart
  <2>2. m[b].part + 1 \in 1 .. n
    BY <1>2, <2>1 DEF n
  <2>3. e[m[b].part + 1] \in Parts(m, g) /\ m[e[m[b].part + 1]].part = m[b].part
    <3>1. (m[b].part + 1) - 1 = m[b].part
      BY <2>1
    <3> QED BY <1>5, <2>2, <3>1
  <2>4. e[m[b].part + 1] = b
    BY <1>11, <2>3 DEF Chained, Linked
  <2> QED BY <2>2, <2>4
<1>12. {e[k] : k \in DOMAIN e} = Parts(m, g)
  BY <1>5, <1>6, <1>11
<1>13. \A k \in DOMAIN e : m[e[k]].part = k - 1
  BY <1>5, <1>6
<1> HIDE DEF e
<1> QED BY <1>3, <1>9, <1>10, <1>12, <1>13

\* A set of naturals with an upper bound has a greatest element.
LEMMA Greatest ==
  ASSUME NEW S \in SUBSET Nat, S # {}, NEW n \in Nat, \A s \in S : s <= n
  PROVE  \E g \in S : \A f \in S : f <= g
<1> DEFINE T == {k \in Nat : n - k \in S}
<1>1. T \subseteq Nat
  OBVIOUS
<1>2. T # {}
  <2>1. PICK s \in S : TRUE
    OBVIOUS
  <2>2. n - s \in Nat /\ n - (n - s) = s
    BY <2>1
  <2> QED BY <2>1, <2>2
<1> HIDE DEF T
<1>3. PICK x \in T : \A y \in T : ~(<<y, x>> \in OpToRel(<, Nat))
  BY <1>1, <1>2, NatLessThanWellFounded, WFMin
<1>4. x \in Nat /\ n - x \in S
  BY <1>3 DEF T
<1>5. ASSUME NEW f \in S  PROVE  f <= n - x
  <2>1. f \in Nat /\ f <= n /\ n - f \in Nat /\ n - (n - f) = f
    BY <1>5
  <2>2. n - f \in T
    BY <1>5, <2>1 DEF T
  <2>3. ~(n - f < x)
    BY <1>3, <1>4, <2>1, <2>2 DEF OpToRel
  <2> QED BY <1>4, <2>1, <2>3
<1> QED BY <1>4, <1>5

\* The floor that a mount reads back is below any bound of the generations.
LEMMA FloorFacts ==
  ASSUME NEW m \in Media, NEW l, NEW n \in 0 .. MaxGeneration,
         \A b \in Block : IsPart(m, b) => m[b].gen <= n
  PROVE  HighestGeneration(m, l) \in 0 .. n
<1> DEFINE seen == {0} \cup {m[b].gen : b \in {c \in Block \ Fence(l) : IsPart(m, c)}}
<1>1. seen \in SUBSET Nat /\ seen # {} /\ \A s \in seen : s <= n
  BY PartFacts, StorageAssumption DEF Generation
<1>2. n \in Nat
  BY StorageAssumption
<1> HIDE DEF seen
<1>3. \E g \in seen : \A f \in seen : f <= g
  BY <1>1, <1>2, Greatest
<1>4. HighestGeneration(m, l) \in seen
  BY <1>3 DEF HighestGeneration, seen
<1>5. ASSUME NEW s \in seen  PROVE  s \in 0 .. n
  <2>1. s \in Nat /\ s <= n
    BY <1>1, <1>5
  <2> QED BY <1>2, <2>1
<1> QED BY <1>4, <1>5

\* A capture whose blocks are as before but for their seals is as before.
LEMMA SameShape ==
  ASSUME NEW m, NEW n, NEW g, Parts(n, g) = Parts(m, g),
         \A b \in Parts(m, g) : n[b].part = m[b].part /\ n[b].prev = m[b].prev
  PROVE  /\ \A b : LastPart(n, g, b) <=> LastPart(m, g, b)
         /\ Chained(m, g) => Chained(n, g)
<1>1. \A b : LastPart(n, g, b) <=> LastPart(m, g, b)
  BY DEF LastPart
<1>2. Linked(m, g) => Linked(n, g)
  BY DEF Linked
<1> QED BY <1>1, <1>2 DEF Chained

\* A catalog with fewer captures has room for them.
LEMMA Smaller ==
  ASSUME NEW m, NEW n, NEW l, NEW k, Listed(n, k) \subseteq Listed(m, l)
  PROVE  /\ IsFiniteSet(Listed(m, l)) /\ Cardinality(Listed(m, l)) \in Nat
         /\ Cardinality(Listed(n, k)) \in Nat
         /\ Cardinality(Listed(n, k)) <= Cardinality(Listed(m, l))
<1>1. IsFiniteSet(Generation)
  BY FS_Interval, StorageAssumption DEF Generation
<1>2. Listed(m, l) \in SUBSET Generation /\ Listed(n, k) \in SUBSET Listed(m, l)
  BY DEF Listed
<1>3. IsFiniteSet(Listed(m, l))
  BY <1>1, <1>2, FS_Subset
<1>4. IsFiniteSet(Listed(n, k)) /\ Cardinality(Listed(n, k)) <= Cardinality(Listed(m, l))
  BY <1>2, <1>3, FS_Subset
<1> QED BY <1>3, <1>4, FS_CardinalityType

\* The captures that a rewritten block does not belong to are as before.
LEMMA Untouched ==
  ASSUME NEW m \in Media, NEW n \in Media, NEW g, Chained(m, g),
         Parts(n, g) = Parts(m, g), \A b \in Parts(m, g) : n[b] = m[b]
  PROVE  /\ Chained(n, g)
         /\ Verified(m, g) /\ Receipt(m, g) = "final"
              => Verified(n, g) /\ Receipt(n, g) = "final"
<1>1. Chained(n, g) /\ (Verified(m, g) => Verified(n, g))
  BY SameCapture
<1>2. CASE Verified(m, g)
  <2>1. Receipt(n, g) = Receipt(m, g)
    BY <1>2, SameReceipt DEF Verified
  <2> QED BY <1>1, <2>1
<1> QED BY <1>1, <1>2

\* The outcome of a block's change, n for m, in a durable state.
Cleared(m, n, l, o, c, r, b) ==
  /\ Durable(n, l, o, c, r)
  /\ \A g : Parts(n, g) = Parts(m, g) \ {b}

Resealed(m, n, l, o, c, r, g, b) ==
  /\ Durable(n, l, o, c, r)
  /\ \A h : Parts(n, h) = Parts(m, h)
  /\ \A d : LastPart(n, g, d) <=> LastPart(m, g, d)
  /\ Chained(n, g)

Headed(m, n, l, o, c, r, g, b) ==
  /\ Durable(n, l, o, c, r)
  /\ Parts(n, g) = Parts(m, g) \cup {b}
  /\ \A h : h # g => Parts(n, h) = Parts(m, h)
  /\ LastPart(n, g, b)

\* What an erase, or a header that was torn, leaves in a block that held
\* nothing, or a part of a released capture, disturbs nothing.
LEMMA Wiped ==
  ASSUME NEW m \in Media, NEW n \in Media, NEW l, NEW o, NEW c \in SUBSET Generation, NEW r,
         Durable(m, l, o, c, r), NEW b \in Block, n[b].kind # "part",
         n = [m EXCEPT ![b] = n[b]], IsPart(m, b) => m[b].gen \in Gens(r)
  PROVE  Cleared(m, n, l, o, c, r, b)
<1> DEFINE x == n[b]
<1> HIDE DEF x
<1>1. x.kind # "part" /\ n[b] = x
  BY DEF x
<1>2. n[b] = x /\ \A d \in Block \ {b} : n[d] = m[d]
  BY <1>1 DEF Media
<1>3. \A g : Parts(n, g) = Parts(m, g) \ {b}
  BY <1>1, <1>2 DEF Parts, IsPart
<1>4. ASSUME NEW g, g \notin Gens(r)
      PROVE  Parts(n, g) = Parts(m, g) /\ \A d \in Parts(m, g) : n[d] = m[d]
  <2>1. b \notin Parts(m, g)
    BY <1>4 DEF Parts
  <2>2. \A d \in Parts(m, g) : d \in Block
    BY DEF Parts
  <2> QED BY <1>1, <1>2, <1>3, <2>1, <2>2
<1>5. Reserved(n, l, o, c, r)
  BY <1>1, <1>2 DEF Durable, Reserved, IsPart
<1>6. Whole(n, c, r)
  <2>1. \A g \in Generation \ Gens(r) : Chained(m, g)
    BY DEF Durable, Whole
  <2>2. \A g \in Generation \ Gens(r) : Chained(n, g)
    BY <1>4, <2>1, Untouched
  <2>3. ASSUME NEW g \in c \ Gens(r)  PROVE  Verified(n, g) /\ Receipt(n, g) = "final"
    <3>1. Chained(m, g) /\ Verified(m, g) /\ Receipt(m, g) = "final"
      BY <2>1, <2>3 DEF Durable, Whole
    <3> QED BY <1>4, <2>3, <3>1, Untouched
  <2> QED BY <2>2, <2>3 DEF Whole
<1>7. Fenced(n, l, r)
  BY <1>3 DEF Durable, Fenced
<1>8. Listed(n, l) \subseteq Listed(m, l)
  BY <1>3 DEF Listed
<1>9. Cardinality(Listed(n, l)) <= MaxCatalog
  <2>1. /\ Cardinality(Listed(n, l)) <= Cardinality(Listed(m, l))
        /\ Cardinality(Listed(n, l)) \in Nat /\ Cardinality(Listed(m, l)) \in Nat
    BY <1>8, Smaller
  <2>2. Cardinality(Listed(m, l)) <= MaxCatalog /\ MaxCatalog \in Nat
    BY StorageAssumption DEF Durable
  <2> QED BY <2>1, <2>2
<1> QED BY <1>3, <1>5, <1>6, <1>7, <1>9 DEF Durable, Cleared

\* A page that is programmed into the capture being recorded disturbs no other.
LEMMA Rewritten ==
  ASSUME NEW m \in Media, NEW n \in Media, NEW l, NEW o, NEW c \in SUBSET Generation, NEW r,
         Durable(m, l, o, c, r), NEW g \in Generation, g \notin c, g \notin Gens(r),
         NEW b \in Parts(m, g), IsPart(n, b), n[b].gen = g, n[b].part = m[b].part,
         n[b].prev = m[b].prev, n = [m EXCEPT ![b] = n[b]]
  PROVE  Resealed(m, n, l, o, c, r, g, b)
<1> DEFINE x == n[b]
<1> HIDE DEF x
<1>1. /\ x.kind = "part" /\ x.gen = g /\ x.part = m[b].part /\ x.prev = m[b].prev /\ n[b] = x
  BY DEF IsPart, x
<1>2. /\ n[b] = x /\ \A d \in Block \ {b} : n[d] = m[d]
      /\ b \in Block /\ IsPart(m, b) /\ m[b].gen = g
  BY <1>1, PartsFacts DEF Media
<1>3. \A h : Parts(n, h) = Parts(m, h)
  BY <1>1, <1>2 DEF Parts, IsPart
<1>4. ASSUME NEW h, h # g  PROVE  \A d \in Parts(m, h) : n[d] = m[d]
  BY <1>1, <1>2, <1>4 DEF Parts
<1>5. \A d \in Parts(m, g) : n[d].part = m[d].part /\ n[d].prev = m[d].prev
  BY <1>1, <1>2 DEF Parts
<1>6. Chained(m, g)
  BY DEF Durable, Whole
<1>7. Chained(n, g) /\ \A d : LastPart(n, g, d) <=> LastPart(m, g, d)
  BY <1>3, <1>5, <1>6, SameShape
<1>8. Reserved(n, l, o, c, r)
  BY <1>1, <1>2 DEF Durable, Reserved, IsPart
<1>9. Whole(n, c, r)
  <2>1. \A h \in Generation \ Gens(r) : Chained(m, h)
    BY DEF Durable, Whole
  <2>2. ASSUME NEW h \in Generation \ Gens(r)  PROVE  Chained(n, h)
    <3>1. CASE h = g
      BY <1>7, <3>1
    <3>2. CASE h # g
      BY <1>3, <1>4, <2>1, <2>2, <3>2, Untouched
    <3> QED BY <3>1, <3>2
  <2>3. ASSUME NEW h \in c \ Gens(r)  PROVE  Verified(n, h) /\ Receipt(n, h) = "final"
    <3>1. Chained(m, h) /\ Verified(m, h) /\ Receipt(m, h) = "final" /\ h # g
      BY <2>1, <2>3 DEF Durable, Whole
    <3>2. Parts(n, h) = Parts(m, h) /\ \A d \in Parts(m, h) : n[d] = m[d]
      BY <1>3, <1>4, <3>1
    <3> QED BY <3>1, <3>2, Untouched
  <2> QED BY <2>2, <2>3 DEF Whole
<1>10. Fenced(n, l, r)
  BY <1>3 DEF Durable, Fenced
<1>11. Listed(n, l) = Listed(m, l)
  BY <1>3 DEF Listed
<1> QED BY <1>3, <1>7, <1>8, <1>9, <1>10, <1>11 DEF Durable, Resealed

\* A header that is programmed into an empty block begins or extends a capture.
LEMMA Grown ==
  ASSUME NEW m \in Media, NEW n \in Media, NEW l, NEW o, NEW c \in SUBSET Generation, NEW r,
         Durable(m, l, o, c, r), l.phase = "idle",
         NEW g \in Generation, g \in o, g \notin c, g \notin Gens(r),
         NEW b \in Block, ~IsPart(m, b), IsPart(n, b), n[b].gen = g, n[b].part \in Nat,
         n = [m EXCEPT ![b] = n[b]],
         \/ /\ n[b].part = 0 /\ n[b].prev = None /\ Parts(m, g) = {}
            /\ Cardinality(Listed(m, l)) < MaxCatalog
         \/ /\ LastPart(m, g, n[b].prev) /\ n[b].part = m[n[b].prev].part + 1
  PROVE  Headed(m, n, l, o, c, r, g, b)
<1> DEFINE x == n[b]
<1> HIDE DEF x
<1>1. /\ x.kind = "part" /\ x.gen = g /\ x.part \in Nat /\ n[b] = x
      /\ \/ /\ x.part = 0 /\ x.prev = None /\ Parts(m, g) = {}
            /\ Cardinality(Listed(m, l)) < MaxCatalog
         \/ /\ LastPart(m, g, x.prev) /\ x.part = m[x.prev].part + 1
  BY DEF IsPart, x
<1>2. n[b] = x /\ \A d \in Block \ {b} : n[d] = m[d]
  BY <1>1 DEF Media
<1>3. Parts(n, g) = Parts(m, g) \cup {b}
  BY <1>1, <1>2 DEF Parts, IsPart
<1>4. ASSUME NEW h, h # g
      PROVE  Parts(n, h) = Parts(m, h) /\ \A d \in Parts(m, h) : n[d] = m[d]
  <2>1. Parts(n, h) = Parts(m, h)
    BY <1>1, <1>2, <1>4 DEF Parts, IsPart
  <2> QED BY <1>1, <1>2, <2>1, <1>4 DEF Parts
<1>5. \A d \in Parts(m, g) : n[d] = m[d] /\ d # b /\ d \in Block /\ m[d].part \in Nat
  <2>1. \A d \in Parts(m, g) : d \in Block /\ m[d].part \in Nat
    BY PartsFacts
  <2>2. b \notin Parts(m, g)
    BY DEF Parts
  <2> QED BY <1>1, <1>2, <2>1, <2>2
<1>6. \A d \in Parts(m, g) : m[d].part < x.part
  BY <1>1, <1>5 DEF LastPart
<1>7. LastPart(n, g, b)
  <2>1. ASSUME NEW d \in Parts(n, g)  PROVE  n[d].part <= n[b].part
    <3>1. CASE d = b
      BY <1>1, <1>2, <3>1
    <3>2. CASE d # b
      <4>1. n[d] = m[d] /\ m[d].part \in Nat /\ m[d].part < x.part
        BY <1>3, <1>5, <1>6, <2>1, <3>2
      <4> QED BY <1>1, <1>2, <4>1
    <3> QED BY <3>1, <3>2
  <2>2. b \in Parts(n, g)
    BY <1>3
  <2> QED BY <2>1, <2>2 DEF LastPart
<1>8. Chained(m, g)
  BY DEF Durable, Whole
<1>9. Linked(n, g)
  <2>1. ASSUME NEW d \in Parts(m, g)
        PROVE  /\ IF n[d].part = 0 THEN n[d].prev = None
                  ELSE n[d].prev \in Parts(n, g) /\ n[n[d].prev].part = n[d].part - 1
               /\ \A e \in Parts(n, g) : n[e].part = n[d].part => e = d
    <3>1. /\ IF m[d].part = 0 THEN m[d].prev = None
             ELSE m[d].prev \in Parts(m, g) /\ m[m[d].prev].part = m[d].part - 1
          /\ \A e \in Parts(m, g) : m[e].part = m[d].part => e = d
      BY <1>8 DEF Chained, Linked
    <3>2. /\ n[d] = m[d] /\ d # b /\ m[d].part \in Nat /\ m[d].part < x.part /\ n[b].part = x.part
          /\ \A e \in Parts(m, g) : n[e] = m[e]
      BY <1>1, <1>2, <1>5, <1>6, <2>1
    <3>3. n[b].part # n[d].part
      BY <3>2
    <3> QED BY <1>3, <3>1, <3>2, <3>3
  <2>2. IF x.part = 0 THEN x.prev = None
        ELSE x.prev \in Parts(n, g) /\ n[x.prev].part = x.part - 1
    <3>1. CASE x.part = 0
      <4>1. ~(LastPart(m, g, x.prev) /\ x.part = m[x.prev].part + 1)
        BY <1>5, <3>1 DEF LastPart
      <4> QED BY <1>1, <3>1, <4>1
    <3>2. CASE x.part # 0
      <4>1. x.prev \in Parts(m, g) /\ x.part = m[x.prev].part + 1
        BY <1>1, <3>2 DEF LastPart
      <4>2. n[x.prev] = m[x.prev] /\ m[x.prev].part \in Nat
        BY <1>5, <4>1
      <4>3. m[x.prev].part = (m[x.prev].part + 1) - 1
        BY <4>2
      <4> QED BY <1>3, <3>2, <4>1, <4>2, <4>3
    <3> QED BY <3>1, <3>2
  <2>3. ASSUME NEW e \in Parts(n, g), n[e].part = n[b].part  PROVE  e = b
    <3>1. ASSUME e # b  PROVE  FALSE
      <4>1. n[e] = m[e] /\ m[e].part \in Nat /\ m[e].part < x.part
        BY <1>3, <1>5, <1>6, <2>3, <3>1
      <4> QED BY <1>1, <1>2, <2>3, <4>1
    <3> QED BY <3>1
  <2>4. /\ IF n[b].part = 0 THEN n[b].prev = None
           ELSE n[b].prev \in Parts(n, g) /\ n[n[b].prev].part = n[b].part - 1
        /\ \A e \in Parts(n, g) : n[e].part = n[b].part => e = b
    BY <1>1, <1>2, <2>2, <2>3
  <2> QED BY <1>3, <2>1, <2>4 DEF Linked
<1>10. Chained(n, g)
  <2>1. ASSUME NEW d \in Parts(m, g), NEW k \in 0 .. n[d].part
        PROVE  \E e \in Parts(n, g) : n[e].part = k
    <3>1. k \in 0 .. m[d].part
      BY <1>5, <2>1
    <3>2. PICK e \in Parts(m, g) : m[e].part = k
      BY <1>8, <2>1, <3>1 DEF Chained
    <3> QED BY <1>3, <1>5, <3>2
  <2>2. ASSUME NEW k \in 0 .. x.part  PROVE  \E e \in Parts(n, g) : n[e].part = k
    <3>1. CASE k = x.part
      BY <1>1, <1>2, <1>3, <3>1
    <3>2. CASE k # x.part
      <4>1. LastPart(m, g, x.prev) /\ x.part = m[x.prev].part + 1
        BY <1>1, <2>2, <3>2
      <4>2. x.prev \in Parts(m, g) /\ k \in 0 .. m[x.prev].part
        BY <1>5, <2>2, <3>2, <4>1 DEF LastPart
      <4>3. k \in 0 .. n[x.prev].part
        BY <1>5, <4>2
      <4> QED BY <2>1, <4>2, <4>3
    <3> QED BY <3>1, <3>2
  <2> QED BY <1>1, <1>2, <1>3, <1>7, <1>9, <2>1, <2>2 DEF Chained
<1>11. Reserved(n, l, o, c, r)
  BY <1>1, <1>2 DEF Durable, Reserved, IsPart
<1>12. Whole(n, c, r)
  <2>1. \A h \in Generation \ Gens(r) : Chained(m, h)
    BY DEF Durable, Whole
  <2>2. ASSUME NEW h \in Generation \ Gens(r)  PROVE  Chained(n, h)
    <3>1. CASE h = g
      BY <1>10, <3>1
    <3>2. CASE h # g
      <4>1. Parts(n, h) = Parts(m, h) /\ \A d \in Parts(m, h) : n[d] = m[d]
        BY <1>4, <3>2
      <4> QED BY <2>1, <2>2, <4>1, Untouched
    <3> QED BY <3>1, <3>2
  <2>3. ASSUME NEW h \in c \ Gens(r)  PROVE  Verified(n, h) /\ Receipt(n, h) = "final"
    <3>1. Chained(m, h) /\ Verified(m, h) /\ Receipt(m, h) = "final" /\ h # g
      BY <2>1, <2>3 DEF Durable, Whole
    <3>2. Parts(n, h) = Parts(m, h) /\ \A d \in Parts(m, h) : n[d] = m[d]
      BY <1>4, <3>1
    <3> QED BY <3>1, <3>2, Untouched
  <2> QED BY <2>2, <2>3 DEF Whole
<1>13. Fenced(n, l, r)
  <2>1. \A h \in Gens(r) : Parts(m, h) \subseteq Fence(l)
    BY DEF Durable, Fenced
  <2> QED BY <1>4, <2>1 DEF Fenced
<1>14. Cardinality(Listed(n, l)) <= MaxCatalog
  <2>1. Fence(l) = {}
    BY DEF Fence
  <2>2. CASE Parts(m, g) = {}
    <3>1. Cardinality(Listed(m, l)) < MaxCatalog
      BY <2>2 DEF LastPart
    <3>2. Listed(n, l) = Listed(m, l) \cup {g}
      BY <1>3, <1>4, <2>1 DEF Listed
    <3>3. IsFiniteSet(Listed(m, l)) /\ Cardinality(Listed(m, l)) \in Nat
      BY Smaller
    <3>4. \/ Cardinality(Listed(n, l)) = Cardinality(Listed(m, l)) + 1
          \/ Cardinality(Listed(n, l)) = Cardinality(Listed(m, l))
      <4> DEFINE L == Listed(m, l)
      <4> HIDE DEF L
      <4>1. IsFiniteSet(L)
        BY <3>3 DEF L
      <4>2. Cardinality(L \cup {g}) = IF g \in L THEN Cardinality(L) ELSE Cardinality(L) + 1
        BY <4>1, FS_AddElement
      <4> QED BY <3>2, <4>2 DEF L
    <3>5. MaxCatalog \in Nat
      BY StorageAssumption
    <3> QED BY <3>1, <3>3, <3>4, <3>5
  <2>3. CASE Parts(m, g) # {}
    <3>1. Listed(n, l) = Listed(m, l)
      BY <1>3, <1>4, <2>1, <2>3 DEF Listed
    <3> QED BY <3>1 DEF Durable
  <2> QED BY <2>2, <2>3
<1> QED BY <1>3, <1>4, <1>7, <1>11, <1>12, <1>13, <1>14 DEF Durable, Headed

-----------------------------------------------------------------------------
(* The three snapshots that are ever stored.                               *)

\* A reserved generation leaves everything known as it was.
LEMMA Reserving ==
  ASSUME NEW m, NEW l \in Snapshot, NEW k, NEW o, NEW c, NEW r,
         Durable(m, l, o, c, r), l.phase = "idle", l.counter < MaxGeneration,
         k = [l EXCEPT !.counter = @ + 1]
  PROVE  /\ k \in Snapshot /\ k.phase = "idle" /\ k.counter = l.counter + 1
         /\ Durable(m, k, o, c, r)
<1>1. l.counter \in Nat /\ MaxGeneration \in Nat /\ l.counter + 1 \in 0 .. MaxGeneration
  BY StorageAssumption DEF Snapshot
<1>2. /\ k \in Snapshot /\ k.phase = "idle" /\ k.counter = l.counter + 1
      /\ k.floor = l.floor
  BY <1>1 DEF Snapshot
<1>3. Fence(k) = Fence(l)
  BY <1>2 DEF Fence
<1>4. Reserved(m, k, o, c, r)
  BY <1>1, <1>2 DEF Durable, Reserved
<1>5. Fenced(m, k, r) /\ Listed(m, k) = Listed(m, l)
  BY <1>3 DEF Durable, Fenced, Listed
<1>6. Numbered(k, r)
  BY <1>2 DEF Durable, Numbered
<1> QED BY <1>2, <1>4, <1>5, <1>6 DEF Durable

\* The snapshot k grants cmd in the state that l was the snapshot of.
Fencing(m, l, k, o, c, r, cmd) ==
  /\ k \in Snapshot /\ k.phase = "granted" /\ k.counter = l.counter
  /\ cmd.gen \notin Gens(r) /\ k.last = cmd /\ Fence(k) = Parts(m, cmd.gen)
  /\ Durable(m, k, o, c, r \cup {cmd})

\* The grant of a verified capture puts the fence around all its blocks.
LEMMA Granting ==
  ASSUME NEW m \in Media, NEW l \in Snapshot, NEW k, NEW o, NEW c, NEW r,
         Durable(m, l, o, c, r), l.phase = "idle", NEW cmd \in Command,
         cmd.seq = l.floor + 1, Verified(m, cmd.gen),
         k = [l EXCEPT !.phase = "granted", !.floor = cmd.seq, !.last = cmd,
                       !.extents = Extents(m, cmd.gen)]
  PROVE  Fencing(m, l, k, o, c, r, cmd)
<1> DEFINE g == cmd.gen
           q == r \cup {cmd}
<1>1. Fence(l) = {}
  BY DEF Fence
<1>2. Parts(m, g) # {} /\ g \in Generation
  BY DEF Verified, Command
<1>3. g \notin Gens(r)
  BY <1>1, <1>2 DEF Durable, Fenced
<1>4. Chained(m, g)
  BY <1>2, <1>3 DEF Durable, Whole
<1>5. /\ Extents(m, g) \in Seq(Block) /\ Extents(m, g) # << >>
      /\ {Extents(m, g)[i] : i \in DOMAIN Extents(m, g)} = Parts(m, g)
  BY <1>2, <1>4, ExtentsFacts
<1>6. /\ k \in Snapshot /\ k.phase = "granted" /\ k.counter = l.counter
      /\ k.floor = l.floor + 1 /\ k.last = cmd /\ k.extents = Extents(m, g)
  <2>1. cmd.seq \in 0 .. MaxRelease
    BY DEF Command
  <2> QED BY <1>5, <2>1 DEF Snapshot
<1>7. Fence(k) = Parts(m, g)
  BY <1>5, <1>6 DEF Fence
<1>8. Gens(q) = Gens(r) \cup {g}
  BY DEF Gens
<1>9. Reserved(m, k, o, c, q)
  <2>1. g \in o
    BY <1>2 DEF Durable, Reserved, Parts
  <2> QED BY <1>6, <1>8, <2>1 DEF Durable, Reserved
<1>10. Whole(m, c, q)
  BY <1>8 DEF Durable, Whole
<1>11. Fenced(m, k, q)
  BY <1>1, <1>7, <1>8 DEF Durable, Fenced
<1>12. Numbered(k, q)
  <2>1. l.floor \in Nat
    BY DEF Snapshot
  <2>2. {e.seq : e \in r} = 1 .. l.floor
    BY DEF Durable, Numbered
  <2>3. {e.seq : e \in q} = {e.seq : e \in r} \cup {cmd.seq}
    OBVIOUS
  <2>4. 1 .. (l.floor + 1) = (1 .. l.floor) \cup {l.floor + 1}
    BY <2>1
  <2>5. {e.seq : e \in q} = 1 .. k.floor
    BY <1>6, <2>2, <2>3, <2>4
  <2>6. ASSUME NEW a \in r  PROVE  a.seq # cmd.seq
    <3>1. a.seq \in 1 .. l.floor
      BY <2>2
    <3> QED BY <2>1, <3>1
  <2>7. \A a, b \in q : a.seq = b.seq => a = b
    BY <2>6 DEF Durable, Numbered
  <2>8. k.last \in q /\ k.extents # << >>
    BY <1>5, <1>6
  <2> QED BY <2>5, <2>7, <2>8 DEF Numbered
<1>13. Cardinality(Listed(m, k)) <= MaxCatalog
  <2>1. Listed(m, k) \subseteq Listed(m, l)
    BY <1>1 DEF Listed
  <2>2. /\ Cardinality(Listed(m, k)) <= Cardinality(Listed(m, l))
        /\ Cardinality(Listed(m, k)) \in Nat /\ Cardinality(Listed(m, l)) \in Nat
    BY <2>1, Smaller
  <2>3. Cardinality(Listed(m, l)) <= MaxCatalog /\ MaxCatalog \in Nat
    BY StorageAssumption DEF Durable
  <2> QED BY <2>2, <2>3
<1> QED BY <1>3, <1>6, <1>7, <1>9, <1>10, <1>11, <1>12, <1>13 DEF Durable, Fencing

\* The retirement lifts the fence when nothing is behind it any more.
LEMMA Retiring ==
  ASSUME NEW m, NEW l \in Snapshot, NEW k, NEW o, NEW c, NEW r,
         Durable(m, l, o, c, r), \A b \in Fence(l) : m[b] = Blank,
         k = [l EXCEPT !.phase = "idle", !.extents = << >>]
  PROVE  /\ k \in Snapshot /\ k.phase = "idle" /\ k.counter = l.counter
         /\ Durable(m, k, o, c, r)
<1>1. << >> \in Seq(Block)
  OBVIOUS
<1>2. /\ k \in Snapshot /\ k.phase = "idle" /\ k.counter = l.counter
      /\ k.floor = l.floor
  BY <1>1 DEF Snapshot
<1>3. Fence(k) = {}
  BY <1>2 DEF Fence
<1>4. \A g : Parts(m, g) \ Fence(l) = Parts(m, g)
  BY DEF Parts, IsPart, Blank
<1>5. Reserved(m, k, o, c, r)
  BY <1>2 DEF Durable, Reserved
<1>6. Fenced(m, k, r)
  BY <1>4 DEF Durable, Fenced
<1>7. Listed(m, k) = Listed(m, l)
  BY <1>3, <1>4 DEF Listed
<1>8. Numbered(k, r)
  BY <1>2 DEF Durable, Numbered
<1> QED BY <1>2, <1>5, <1>6, <1>7, <1>8 DEF Durable

-----------------------------------------------------------------------------
(* The state.                                                              *)

\* The invariant of a step's end, from what is known of the new values.
LEMMA Lift ==
  ASSUME TypeOK', Durable(media', ledger', opened', closed', granted'),
         Volatile(media', ledger', owner', journal', op', opened', closed', granted'),
         Running(media', ledger', owner', journal', op', signed')
  PROVE  StorageIInv'
BY DEF StorageIInv

Owners == [ready : BOOLEAN, progress : Nat]

StoreOp == [step : {"store"}, why : {"reserve", "grant", "retire"}, next : Snapshot]
HeaderOp == [step : {"header"}, block : Block, gen : Generation, part : Nat,
             prev : Block \cup {None}, end : End \cup {"none"}]
PageOp == [step : {"page", "checkpoint"}, block : Block, end : End]
EraseOp == [step : {"erase"}, block : Block]

\* The step tells what an operation consists of.
LEMMA OpFacts ==
  ASSUME NEW p \in Operation
  PROVE  /\ p.step \in {"idle", "store", "header", "page", "checkpoint", "erase"}
         /\ p.step = "idle" => p = Idle
         /\ p.step = "store" => p \in StoreOp
         /\ p.step = "header" => p \in HeaderOp
         /\ p.step \in {"page", "checkpoint"} => p \in PageOp
         /\ p.step = "erase" => p \in EraseOp
<1>1. Idle.step = "idle"
  BY DEF Idle
<1>2. p \in {Idle} \cup StoreOp \cup HeaderOp \cup PageOp \cup EraseOp
  BY DEF Operation, StoreOp, HeaderOp, PageOp, EraseOp
<1>3. /\ p \in StoreOp => p.step = "store"
      /\ p \in HeaderOp => p.step = "header"
      /\ p \in PageOp => p.step \in {"page", "checkpoint"}
      /\ p \in EraseOp => p.step = "erase"
  BY DEF StoreOp, HeaderOp, PageOp, EraseOp
<1> QED BY <1>1, <1>2, <1>3

\* And the operations are operations.
LEMMA OpTypes ==
  /\ Idle \in Operation /\ StoreOp \subseteq Operation /\ HeaderOp \subseteq Operation
  /\ PageOp \subseteq Operation /\ EraseOp \subseteq Operation
BY DEF Operation, StoreOp, HeaderOp, PageOp, EraseOp

\* An idle owner runs nothing.
LEMMA IdleRuns ==
  ASSUME NEW m, NEW l, NEW w, NEW j, NEW s
  PROVE  Running(m, l, w, j, Idle, s)
BY DEF Running, Idle, Programs

\* The fence is around data blocks.
LEMMA FenceFacts ==
  ASSUME NEW l \in Snapshot
  PROVE  /\ Fence(l) \subseteq Block
         /\ l.phase \in {"idle", "granted"}
         /\ l.phase = "granted" => \A k \in 1 .. Len(l.extents) : l.extents[k] \in Fence(l)
         /\ l.phase = "idle" => Fence(l) = {}
BY DEF Snapshot, Fence

\* A block that is not damaged and not a part is blank.
LEMMA StateFacts ==
  ASSUME NEW m \in Media, NEW b \in Block
  PROVE  /\ StateOf(m, b) \in {"owned", "free", "quarantined"}
         /\ StateOf(m, b) = "free" => m[b] = Blank
<1>1. m[b] \in Content
  BY DEF Media
<1>2. m[b].kind = "blank" => m[b] = Blank
  BY <1>1, StorageAssumption DEF Content, Blank
<1>3. CASE m[b].kind = "part"
  BY <1>3 DEF StateOf
<1>4. CASE m[b].kind = "blank"
  BY <1>2, <1>4 DEF StateOf
<1>5. CASE m[b].kind # "part" /\ m[b].kind # "blank"
  BY <1>5 DEF StateOf
<1> QED BY <1>3, <1>4, <1>5

\* A power cut, or a mount that fails, forgets everything.
LEMMA DownFacts ==
  ASSUME NEW m, NEW l, NEW o, NEW c, NEW r, l.counter \in Nat
  PROVE  /\ Down \in Owners /\ Unmounted \in Journal
         /\ Volatile(m, l, Down, Unmounted, Idle, o, c, r)
<1>1. Down \in Owners /\ ~Down.ready
  BY DEF Down, Owners
<1>2. /\ Unmounted \in Journal
      /\ Unmounted.active = 0 /\ Unmounted.binding = 0 /\ Unmounted.bound = 0
      /\ Unmounted.prepared = None /\ \A b \in Block : Unmounted.state[b] = "excluded"
  BY StorageAssumption DEF Unmounted, Journal
<1>3. Blanks(m, Unmounted) /\ Recording(m, Unmounted, Idle)
  BY <1>2 DEF Blanks, Recording
<1>4. Bindings(l, Unmounted, o, c, r)
  BY <1>2 DEF Bindings
<1>5. Erasing(m, l, Down, Unmounted, Idle)
  BY <1>1 DEF Erasing
<1> QED BY <1>1, <1>2, <1>3, <1>4, <1>5 DEF Volatile

\* A mount knows what is blank, and excludes what the ledger fences.
LEMMA MountedFacts ==
  ASSUME NEW m \in Media, NEW l \in Snapshot, NEW o, NEW c, NEW r,
         Durable(m, l, o, c, r)
  PROVE  LET w == [ready |-> TRUE, progress |-> 0]
         IN  /\ w \in Owners /\ Mounted(m, l) \in Journal
             /\ Volatile(m, l, w, Mounted(m, l), Idle, o, c, r)
<1> DEFINE w == [ready |-> TRUE, progress |-> 0]
           j == Mounted(m, l)
<1>1. w \in Owners /\ w.ready /\ w.progress = 0
  BY DEF Owners
<1>2. \A b \in Block : IsPart(m, b) => m[b].gen <= l.counter
  <2>1. ASSUME NEW b \in Block, IsPart(m, b)  PROVE  m[b].gen \in 1 .. l.counter
    BY <2>1 DEF Durable, Reserved
  <2> QED BY <2>1 DEF Snapshot
<1>3. HighestGeneration(m, l) \in 0 .. l.counter /\ l.counter \in 0 .. MaxGeneration
  BY <1>2, FloorFacts DEF Snapshot
<1>4. HighestGeneration(m, l) \in 0 .. MaxGeneration /\ HighestGeneration(m, l) <= l.counter
  BY <1>3, StorageAssumption
<1> DEFINE st == [b \in Block |-> IF b \in Fence(l) THEN "excluded" ELSE StateOf(m, b)]
           top == HighestGeneration(m, l)
<1>5. j = [Unmounted EXCEPT !.state = st, !.bound = top, !.fault = FALSE]
  BY DEF Mounted
<1> HIDE DEF j, st, top
<1>6. j = [state |-> st, active |-> 0, binding |-> 0, prepared |-> None, current |-> None,
           last |-> None, bound |-> top, fault |-> FALSE]
  BY <1>5 DEF Unmounted
<1>7. /\ j.state = st /\ j.active = 0 /\ j.binding = 0 /\ j.prepared = None /\ j.current = None
      /\ j.last = None /\ j.bound = top /\ j.fault = FALSE
  BY <1>6
<1>8. \A b \in Block : /\ j.state[b] = IF b \in Fence(l) THEN "excluded" ELSE StateOf(m, b)
                       /\ j.state[b] \in {"free", "owned", "quarantined", "excluded"}
                       /\ j.state[b] = "free" => m[b] = Blank
  BY <1>7, StateFacts DEF st
<1>9. j \in Journal
  <2>1. j.state \in [Block -> {"free", "owned", "quarantined", "excluded", "prepared"}]
    BY <1>7, <1>8 DEF st
  <2>2. 0 \in 0 .. MaxGeneration
    BY StorageAssumption
  <2>3. top \in 0 .. MaxGeneration
    BY <1>4 DEF top
  <2>4. st = j.state
    BY <1>7
  <2> QED BY <1>6, <2>1, <2>2, <2>3, <2>4 DEF Journal
<1>10. Blanks(m, j) /\ Recording(m, j, Idle)
  BY <1>7, <1>8 DEF Blanks, Recording
<1>11. Bindings(l, j, o, c, r)
  BY <1>4, <1>7 DEF Bindings, top
<1>12. Erasing(m, l, w, j, Idle)
  <2>1. SUFFICES ASSUME l.phase = "granted"
                 PROVE  /\ \A k \in 1 .. 0 : m[l.extents[k]] = Blank
                        /\ 0 < Len(l.extents)
                        /\ \A b \in Fence(l) : j.state[b] = "excluded"
    BY <1>1 DEF Erasing
  <2>2. l.extents \in Seq(Block) /\ l.extents # << >>
    BY <2>1 DEF Durable, Numbered, Snapshot
  <2>3. Len(l.extents) \in Nat /\ Len(l.extents) # 0
    BY <2>2
  <2>4. \A b \in Fence(l) : j.state[b] = "excluded"
    BY <1>8, FenceFacts
  <2> QED BY <2>3, <2>4
<1> QED BY <1>1, <1>9, <1>10, <1>11, <1>12 DEF Volatile, j

-----------------------------------------------------------------------------
(* Steps between two media operations.                                     *)

\* What the invariant says of the current state.
LEMMA Facts ==
  ASSUME StorageIInv
  PROVE  /\ media \in Media /\ ledger \in Snapshot /\ owner \in Owners /\ journal \in Journal
         /\ op \in Operation /\ signed \subseteq Command /\ granted \subseteq Command
         /\ opened \subseteq Generation /\ closed \in SUBSET Generation
         /\ faults \in 0 .. MaxFaults /\ openable \in BOOLEAN
         /\ Durable(media, ledger, opened, closed, granted)
         /\ Blanks(media, journal) /\ Bindings(ledger, journal, opened, closed, granted)
         /\ Recording(media, journal, op)
         /\ Erasing(media, ledger, owner, journal, op)
         /\ Running(media, ledger, owner, journal, op, signed)
BY DEF StorageIInv, TypeOK, Volatile, Media, Owners

\* A step that leaves the media, the ledger and the histories alone.
LEMMA LiftQuiet ==
  ASSUME StorageIInv, UNCHANGED <<media, ledger, openable, opened, closed, granted>>,
         owner' \in Owners, journal' \in Journal, op' \in Operation,
         signed' \subseteq Command, faults' \in 0 .. MaxFaults,
         Volatile(media, ledger, owner', journal', op', opened, closed, granted),
         Running(media, ledger, owner', journal', op', signed')
  PROVE  StorageIInv'
<1>1. TypeOK'
  BY DEF StorageIInv, TypeOK, Owners
<1> QED BY <1>1, Lift DEF StorageIInv

\* Mounting keeps the invariant.
LEMMA OpenKeeps ==
  ASSUME StorageIInv, Open
  PROVE  StorageIInv'
<1>1. ledger.counter \in Nat /\ op' = Idle
  BY Facts DEF Snapshot, Open
<1>2. /\ owner' \in Owners /\ journal' \in Journal
      /\ Volatile(media, ledger, owner', journal', Idle, opened, closed, granted)
  <2>1. CASE Mountable(media, ledger)
    BY <2>1, Facts, MountedFacts DEF Open, Mount
  <2>2. CASE ~Mountable(media, ledger)
    BY <1>1, <2>2, DownFacts DEF Open, Mount
  <2> QED BY <2>1, <2>2
<1> QED BY <1>1, <1>2, Facts, IdleRuns, LiftQuiet, OpTypes DEF Open

\* A reservation is prepared while nothing is recorded or released.
LEMMA PrepareCaptureKeeps ==
  ASSUME StorageIInv, PrepareCapture
  PROVE  StorageIInv'
<1> DEFINE k == [ledger EXCEPT !.counter = @ + 1]
<1>1. op' = [step |-> "store", why |-> "reserve", next |-> k] /\ op = Idle
  BY DEF PrepareCapture, Store
<1>2. /\ owner.ready /\ ledger.phase = "idle" /\ journal.active = 0 /\ journal.binding = 0
      /\ ledger.counter < MaxGeneration
  BY DEF PrepareCapture, MayReserve, Resting
<1>3. k \in Snapshot
  BY <1>2, Facts, Reserving
<1> HIDE DEF k
<1>4. op' \in StoreOp /\ op'.step = "store" /\ op'.why = "reserve" /\ op'.next = k
  BY <1>1, <1>3 DEF StoreOp
<1>5. Running(media, ledger, owner, journal, op', signed)
  BY <1>2, <1>4 DEF Running, Storing, Programs, k
<1>6. Volatile(media, ledger, owner, journal, op', opened, closed, granted)
  BY <1>2, Facts DEF Volatile, Recording, Erasing
<1> QED BY <1>4, <1>5, <1>6, Facts, LiftQuiet, OpTypes DEF PrepareCapture

\* A prepared reservation may be given up.
LEMMA CancelPreparedKeeps ==
  ASSUME StorageIInv, CancelPrepared
  PROVE  StorageIInv'
<1>1. op' = Idle /\ op = Idle
  BY DEF CancelPrepared
<1>2. journal' = [journal EXCEPT !.binding = 0] /\ 0 \in 0 .. MaxGeneration
  BY StorageAssumption DEF CancelPrepared
<1>3. /\ journal' \in Journal /\ journal'.binding = 0 /\ journal'.active = journal.active
      /\ journal'.bound = journal.bound /\ journal'.state = journal.state
      /\ journal'.prepared = journal.prepared /\ journal'.fault = journal.fault
      /\ journal'.current = journal.current /\ journal'.last = journal.last
  BY <1>2, Facts DEF Journal
<1>4. Volatile(media, ledger, owner, journal', Idle, opened, closed, granted)
  BY <1>1, <1>3, Facts DEF Volatile, Blanks, Bindings, Recording, Extended, Erasing
<1> QED BY <1>1, <1>3, <1>4, Facts, IdleRuns, LiftQuiet, OpTypes DEF CancelPrepared

\* A candidate that cannot be used is put aside.
LEMMA PrepareRetryKeeps ==
  ASSUME StorageIInv, PrepareRetry
  PROVE  StorageIInv'
<1>1. PICK b \in Free : \E s \in {"excluded", "quarantined"} :
        journal' = [journal EXCEPT !.state[b] = s]
  BY DEF PrepareRetry
<1>2. PICK s \in {"excluded", "quarantined"} : journal' = [journal EXCEPT !.state[b] = s]
  BY <1>1
<1>3. op' = Idle /\ op = Idle /\ journal.prepared = None /\ faults' \in 0 .. MaxFaults
  BY Facts, StorageAssumption DEF PrepareRetry
<1>4. b \in Block /\ journal.state[b] = "free"
  BY <1>1 DEF Free
<1>5. /\ journal' \in Journal /\ journal'.state = [journal.state EXCEPT ![b] = s]
      /\ journal'.binding = journal.binding /\ journal'.active = journal.active
      /\ journal'.bound = journal.bound
      /\ journal'.prepared = journal.prepared /\ journal'.fault = journal.fault
      /\ journal'.current = journal.current /\ journal'.last = journal.last
  BY <1>2, <1>4, Facts DEF Journal
<1>6. /\ journal'.state[b] = s
      /\ \A d \in Block : d # b => journal'.state[d] = journal.state[d]
  BY <1>4, <1>5, Facts DEF Journal
<1>7. Blanks(media, journal')
  BY <1>3, <1>5, <1>6, Facts DEF Blanks
<1>8. Erasing(media, ledger, owner, journal', Idle)
  BY <1>3, <1>4, <1>6, Facts, FenceFacts DEF Erasing
<1>9. Volatile(media, ledger, owner, journal', Idle, opened, closed, granted)
  BY <1>3, <1>5, <1>7, <1>8, Facts DEF Volatile, Bindings, Recording, Extended
<1> QED BY <1>3, <1>5, <1>9, Facts, IdleRuns, LiftQuiet, OpTypes DEF PrepareRetry

\* What taking block b as the prepared block does to a journal.
LEMMA TakeFacts ==
  ASSUME StorageIInv, NEW b \in Block, Prepared(b), op = Idle
  PROVE  LET j == [journal EXCEPT !.prepared = b, !.state[b] = "prepared"]
         IN  /\ j \in Journal /\ j.prepared = b /\ b # None
             /\ media[b] = Blank /\ Blanks(media, j)
             /\ j.binding = journal.binding /\ j.active = journal.active
             /\ j.bound = journal.bound /\ j.fault = journal.fault
             /\ j.current = journal.current /\ j.last = journal.last
             /\ \A d \in Block : d # b => j.state[d] = journal.state[d]
<1> DEFINE j == [journal EXCEPT !.prepared = b, !.state[b] = "prepared"]
<1>1. b # None
  BY StorageAssumption
<1>2. media[b] = Blank
  BY Facts DEF Prepared, Blanks, Free
<1>3. /\ j \in Journal /\ j.prepared = b /\ j.state = [journal.state EXCEPT ![b] = "prepared"]
      /\ j.binding = journal.binding /\ j.active = journal.active
      /\ j.bound = journal.bound /\ j.fault = journal.fault
      /\ j.current = journal.current /\ j.last = journal.last
  BY Facts DEF Journal
<1> HIDE DEF j
<1>4. j.state[b] = "prepared" /\ \A d \in Block : d # b => j.state[d] = journal.state[d]
  BY <1>3, Facts DEF Journal
<1>5. Blanks(media, j)
  BY <1>2, <1>3, <1>4, Facts DEF Blanks
<1> QED BY <1>1, <1>2, <1>3, <1>4, <1>5 DEF j

\* A block is prepared ahead of a recording.
LEMMA PrepareKeeps ==
  ASSUME StorageIInv, Prepare
  PROVE  StorageIInv'
<1>1. PICK b \in Block : /\ Prepared(b)
                         /\ journal' = [journal EXCEPT !.prepared = b, !.state[b] = "prepared"]
  BY DEF Prepare
<1>2. op' = Idle /\ op = Idle /\ ledger.phase = "idle"
  BY DEF Prepare
<1>3. /\ journal' \in Journal /\ Blanks(media, journal')
      /\ journal'.binding = journal.binding /\ journal'.active = journal.active
      /\ journal'.bound = journal.bound /\ journal'.fault = journal.fault
      /\ journal'.current = journal.current /\ journal'.last = journal.last
  BY <1>1, <1>2, TakeFacts
<1>4. Volatile(media, ledger, owner, journal', Idle, opened, closed, granted)
  BY <1>2, <1>3, Facts DEF Volatile, Bindings, Recording, Extended, Erasing
<1> QED BY <1>2, <1>3, <1>4, Facts, IdleRuns, LiftQuiet, OpTypes DEF Prepare

\* A first header may be attempted for any generation that was reserved.
LEMMA Opening ==
  ASSUME NEW m, NEW l, NEW o, NEW c, NEW r, Durable(m, l, o, c, r), NEW g \in 1 .. l.counter
  PROVE  Durable(m, l, o \cup {g}, c, r)
BY DEF Durable, Reserved

\* A recording starts with the reserved generation in an empty block.
LEMMA StartCaptureKeeps ==
  ASSUME StorageIInv, StartCapture
  PROVE  StorageIInv'
<1> DEFINE g == journal.binding
<1>1. PICK b \in Block :
        /\ Prepared(b)
        /\ Header(b, g, 0, None, "none")
        /\ journal' = [journal EXCEPT !.active = g, !.binding = 0, !.prepared = b,
                                      !.state[b] = "prepared"]
  BY DEF StartCapture
<1>2. /\ op = Idle /\ g # 0 /\ journal.active = 0 /\ g \notin Listed(media, ledger)
      /\ Cardinality(Listed(media, ledger)) < MaxCatalog /\ opened' = opened \cup {g}
      /\ ~journal.fault
  BY DEF StartCapture, CatalogRoom
<1>3. /\ ledger.phase = "idle" /\ g = ledger.counter /\ g \notin opened
      /\ g \in Generation /\ g \in 1 .. ledger.counter
  <2>1. ledger.phase = "idle" /\ g = ledger.counter /\ g \notin opened
    BY <1>2, Facts, FenceFacts DEF Bindings
  <2>2. g \in 0 .. MaxGeneration
    BY Facts DEF Journal
  <2> QED BY <1>2, <2>1, <2>2, StorageAssumption DEF Generation
<1>4. Parts(media, g) = {}
  BY <1>2, <1>3, Facts, FenceFacts DEF Listed
<1> DEFINE j0 == [journal EXCEPT !.prepared = b, !.state[b] = "prepared"]
<1>5. /\ j0 \in Journal /\ j0.prepared = b /\ b # None
      /\ Blanks(media, j0) /\ j0.bound = journal.bound /\ j0.fault = journal.fault
      /\ \A d \in Block : d # b => j0.state[d] = journal.state[d]
  BY <1>1, <1>2, TakeFacts
<1>6. journal' = [j0 EXCEPT !.active = g, !.binding = 0]
  BY <1>1, Facts DEF Journal
<1> HIDE DEF j0
<1>7. /\ journal' \in Journal /\ journal'.active = g /\ journal'.binding = 0
      /\ journal'.prepared = b /\ journal'.state = j0.state /\ journal'.bound = journal.bound
      /\ journal'.fault = journal.fault
  <2>1. g \in 0 .. MaxGeneration /\ 0 \in 0 .. MaxGeneration
    BY Facts, StorageAssumption DEF Journal
  <2> QED BY <1>5, <1>6, <2>1 DEF Journal
<1>8. op' = [step |-> "header", block |-> b, gen |-> g, part |-> 0, prev |-> None,
             end |-> "none"]
  BY <1>1 DEF Header
<1>9. op' \in HeaderOp /\ op' \in Operation
  BY <1>3, <1>8, OpTypes DEF HeaderOp
<1>10. Durable(media, ledger, opened', closed, granted)
  BY <1>2, <1>3, Facts, Opening
<1>11. Blanks(media, journal')
  BY <1>5, <1>7 DEF Blanks
<1>12. Bindings(ledger, journal', opened', closed, granted)
  <2>1. closed \subseteq opened /\ Gens(granted) \subseteq opened /\ journal.bound <= ledger.counter
    BY Facts DEF Durable, Reserved, Bindings
  <2> QED BY <1>2, <1>3, <1>7, <2>1 DEF Bindings
<1>13. Recording(media, journal', op') /\ Erasing(media, ledger, owner, journal', op')
  BY <1>3, <1>8 DEF Recording, Beginning, Erasing
<1>14. Running(media, ledger, owner, journal', op', signed)
  BY <1>2, <1>4, <1>5, <1>7, <1>8 DEF Running, Heading, Programs
<1>15. TypeOK'
  BY <1>2, <1>3, <1>7, <1>9 DEF StorageIInv, TypeOK, StartCapture
<1> QED BY <1>10, <1>11, <1>12, <1>13, <1>14, <1>15, Lift DEF StartCapture, Volatile

\* A page goes to the open block, or a successor is opened first.
LEMMA FlushKeeps ==
  ASSUME StorageIInv, NEW end \in End, Flush(end)
  PROVE  StorageIInv'
<1>1. op = Idle /\ ~journal.fault /\ journal.active # 0
  BY DEF Flush
<1>2. Extended(media, journal, op)
  BY <1>1, Facts DEF Recording, Beginning, Idle
<1>3. /\ journal.last \in Block /\ IsPart(media, journal.last)
      /\ journal.active \in Generation /\ media[journal.last].part \in Nat
  BY <1>2, Facts, PartsFacts DEF Extended, LastPart
<1>4. CASE journal.current # None
  <2>1. op' = [step |-> "page", block |-> journal.current, end |-> end] /\ journal' = journal
    BY <1>4 DEF Flush
  <2>2. journal.current \in Block
    BY <1>2, <1>3, <1>4 DEF Extended
  <2>3. op' \in PageOp /\ op' \in Operation
    BY <2>1, <2>2, OpTypes DEF PageOp
  <2>4. Running(media, ledger, owner, journal, op', signed)
    BY <1>1, <1>4, <2>1 DEF Running
  <2>5. Volatile(media, ledger, owner, journal, op', opened, closed, granted)
    BY <1>1, <1>2, <2>1, Facts DEF Volatile, Recording, Extended, Erasing, Idle
  <2> QED BY <2>1, <2>3, <2>4, <2>5, Facts, LiftQuiet DEF Flush
<1>5. CASE journal.current = None /\ journal.prepared = None /\ Free = {}
  <2>1. op' = Idle /\ journal' = [journal EXCEPT !.fault = TRUE]
    BY <1>1, <1>5 DEF Flush
  <2>2. /\ journal' \in Journal /\ journal'.fault = TRUE /\ journal'.active = journal.active
        /\ journal'.binding = journal.binding /\ journal'.bound = journal.bound
        /\ journal'.state = journal.state /\ journal'.prepared = journal.prepared
    BY <2>1, Facts DEF Journal
  <2>3. Volatile(media, ledger, owner, journal', Idle, opened, closed, granted)
    BY <1>1, <2>2, Facts DEF Volatile, Blanks, Bindings, Recording, Erasing
  <2> QED BY <2>1, <2>2, <2>3, Facts, IdleRuns, LiftQuiet, OpTypes DEF Flush
<1>6. CASE journal.current = None /\ ~(journal.prepared = None /\ Free = {})
  <2> DEFINE part == media[journal.last].part + 1
  <2>1. PICK b \in Block :
          /\ Prepared(b)
          /\ Header(b, journal.active, part, journal.last, end)
          /\ journal' = [journal EXCEPT !.prepared = b, !.state[b] = "prepared"]
    BY <1>6 DEF Flush
  <2>2. part \in Nat /\ part # 0
    BY <1>3
  <2> HIDE DEF part
  <2>3. /\ journal' \in Journal /\ journal'.prepared = b /\ b # None
        /\ Blanks(media, journal')
        /\ journal'.binding = journal.binding /\ journal'.active = journal.active
        /\ journal'.bound = journal.bound /\ journal'.fault = journal.fault
        /\ journal'.current = journal.current /\ journal'.last = journal.last
    BY <1>1, <2>1, TakeFacts
  <2>4. op' = [step |-> "header", block |-> b, gen |-> journal.active, part |-> part,
               prev |-> journal.last, end |-> end]
    BY <2>1 DEF Header
  <2>5. op' \in HeaderOp /\ op' \in Operation
    BY <1>3, <2>2, <2>4, OpTypes DEF HeaderOp
  <2>6. Running(media, ledger, owner, journal', op', signed)
    <3>1. end # "none"
      BY DEF End
    <3> QED BY <1>1, <1>6, <2>2, <2>3, <2>4, <3>1 DEF Running, Heading, part
  <2>7. ledger.phase = "idle"
    BY <1>1, Facts, FenceFacts DEF Bindings
  <2>8. Extended(media, journal', op')
    BY <1>1, <1>2, <1>6, <2>3, <2>4 DEF Extended
  <2>9. Volatile(media, ledger, owner, journal', op', opened, closed, granted)
    BY <2>3, <2>7, <2>8, Facts DEF Volatile, Bindings, Recording, Erasing
  <2> QED BY <2>3, <2>5, <2>6, <2>9, Facts, LiftQuiet DEF Flush
<1> QED BY <1>4, <1>5, <1>6

\* A receiver's owner may sign for any capture he holds.
LEMMA SignKeeps ==
  ASSUME StorageIInv, NEW seq \in 1 .. MaxRelease, NEW g \in Generation, Sign(seq, g)
  PROVE  StorageIInv'
<1>1. op = Idle /\ op' = Idle
  BY DEF Sign
<1>2. signed' \subseteq Command
  BY Facts DEF Sign, Command
<1>3. Volatile(media, ledger, owner, journal, Idle, opened, closed, granted)
  BY <1>1, Facts DEF Volatile
<1> QED BY <1>1, <1>2, <1>3, Facts, IdleRuns, LiftQuiet DEF Sign

\* A release that passes every check is about to be stored.
LEMMA RequestReleaseKeeps ==
  ASSUME StorageIInv, NEW cmd \in signed, RequestRelease(cmd)
  PROVE  StorageIInv'
<1> DEFINE k == Grant(media, ledger, cmd)
<1>1. /\ op = Idle /\ owner.ready /\ ledger.phase = "idle" /\ journal.active = 0
      /\ journal.binding = 0 /\ cmd.seq = ledger.floor + 1 /\ Verified(media, cmd.gen)
      /\ Receipt(media, cmd.gen) = "final" /\ cmd \in Command
  BY Facts DEF RequestRelease, Resting, NextSequence, FinishedReceipt
<1>2. op' = [step |-> "store", why |-> "grant", next |-> k]
  BY DEF RequestRelease, Store, Granted, Grant
<1>3. k \in Snapshot
  <2>1. Fencing(media, ledger, k, opened, closed, granted, cmd)
    BY <1>1, Facts, Granting DEF Grant
  <2> QED BY <2>1 DEF Fencing
<1> HIDE DEF k
<1>4. op' \in StoreOp /\ op' \in Operation
  BY <1>2, <1>3, OpTypes DEF StoreOp
<1>5. Running(media, ledger, owner, journal, op', signed)
  BY <1>1, <1>2 DEF Running, Storing, Programs, k
<1>6. Volatile(media, ledger, owner, journal, op', opened, closed, granted)
  BY <1>1, Facts DEF Volatile, Recording, Erasing
<1> QED BY <1>4, <1>5, <1>6, Facts, LiftQuiet DEF RequestRelease

\* The next extent is looked at before it is erased.
LEMMA ReleaseStepKeeps ==
  ASSUME StorageIInv, ReleaseStep
  PROVE  StorageIInv'
<1> DEFINE k == owner.progress + 1
           b == ledger.extents[k]
<1>1. op = Idle /\ owner.ready /\ ledger.phase = "granted" /\ journal.active = 0
  BY DEF ReleaseStep
<1>2. owner.progress < Len(ledger.extents)
  BY <1>1, Facts DEF Erasing, Idle
<1>3. k \in 1 .. Len(ledger.extents) /\ b \in Block
  <2>1. ledger.extents \in Seq(Block) /\ owner.progress \in Nat
    BY Facts DEF Snapshot, Owners
  <2>2. k \in 1 .. Len(ledger.extents)
    BY <1>2, <2>1
  <2> QED BY <2>1, <2>2
<1>4. CASE OnlyReleased(b, k)
  <2>1. op' = [step |-> "erase", block |-> b] /\ owner' = owner
    BY <1>4 DEF ReleaseStep
  <2>2. op' \in EraseOp /\ op' \in Operation
    BY <1>3, <2>1, OpTypes DEF EraseOp
  <2>3. Running(media, ledger, owner, journal, op', signed)
    BY <1>1, <1>3, <1>4, <2>1 DEF Running, Wiping, Programs, OnlyReleased
  <2>4. Volatile(media, ledger, owner, journal, op', opened, closed, granted)
    BY <1>1, <1>2, <2>1, Facts DEF Volatile, Recording, Erasing
  <2> QED BY <2>1, <2>2, <2>3, <2>4, Facts, LiftQuiet DEF ReleaseStep
<1>5. CASE ~OnlyReleased(b, k)
  <2>1. op' = Idle /\ owner' = Down
    BY <1>1, <1>5 DEF ReleaseStep
  <2>2. Down \in Owners /\ ~Down.ready
    BY DEF Down, Owners
  <2>3. Volatile(media, ledger, Down, journal, Idle, opened, closed, granted)
    BY <1>1, <2>2, Facts DEF Volatile, Recording, Erasing
  <2> QED BY <2>1, <2>2, <2>3, Facts, IdleRuns, LiftQuiet, OpTypes DEF ReleaseStep
<1> QED BY <1>4, <1>5

-----------------------------------------------------------------------------
(* What a media operation leaves on the media.                             *)

\* A program runs for an active capture, while no release does.
LEMMA Programming ==
  ASSUME StorageIInv, op.step \in Programs
  PROVE  /\ journal.active \in Generation /\ journal.active # 0 /\ ~journal.fault
         /\ journal.active \in opened /\ journal.active \notin closed
         /\ journal.active \notin Gens(granted)
         /\ ledger.phase = "idle" /\ op.block \in Block
<1>1. journal.active # 0 /\ ~journal.fault
  BY Facts DEF Running
<1>2. /\ journal.active \in opened /\ journal.active \notin closed
      /\ journal.active \notin Gens(granted) /\ ledger.phase = "idle"
  BY <1>1, Facts, FenceFacts DEF Bindings
<1>3. op.block \in Block
  BY Facts, OpFacts DEF Programs, HeaderOp, PageOp
<1> QED BY <1>1, <1>2, <1>3, Facts

\* A page or a checkpoint goes to the last part of the active capture.
LEMMA PageFacts ==
  ASSUME StorageIInv, op.step \in {"page", "checkpoint"}
  PROVE  /\ Extended(media, journal, op) /\ op.block = journal.last
         /\ journal.current = op.block /\ op.block \in Parts(media, journal.active)
         /\ op.end \in End
<1>1. journal.active # 0 /\ ~journal.fault
  BY Programming DEF Programs
<1>2. Extended(media, journal, op)
  BY <1>1, Facts DEF Recording, Beginning
<1>3. journal.current # None /\ op.block = journal.current
  BY Facts DEF Running
<1>4. op.end \in End
  BY Facts, OpFacts DEF PageOp
<1> QED BY <1>2, <1>3, <1>4 DEF Extended, LastPart

\* A programmed header is the last part of the active capture.
LEMMA HeaderMedia ==
  ASSUME StorageIInv, op.step = "header", NEW n, n = [media EXCEPT ![op.block] = Part]
  PROVE  /\ n \in Media /\ Durable(n, ledger, opened, closed, granted)
         /\ media[op.block] = Blank /\ n[op.block] = Part
         /\ \A b \in Block : b # op.block => n[b] = media[b]
         /\ Parts(n, journal.active) = Parts(media, journal.active) \cup {op.block}
         /\ \A h : h # journal.active => Parts(n, h) = Parts(media, h)
         /\ LastPart(n, journal.active, op.block)
<1> DEFINE g == journal.active
<1>1. /\ g \in Generation /\ g # 0 /\ ~journal.fault /\ g \in opened
      /\ g \notin closed /\ g \notin Gens(granted) /\ ledger.phase = "idle"
      /\ op.block \in Block
  BY Programming DEF Programs
<1>2. op \in HeaderOp /\ Heading(media, ledger, journal, op)
  BY Facts, OpFacts DEF Running
<1>3. media[op.block] = Blank
  BY <1>1, <1>2, Facts DEF Heading, Blanks
<1>4. /\ Part.kind = "part" /\ Part.gen = g /\ Part.part = op.part /\ Part.prev = op.prev
      /\ op.part \in Nat /\ Part \in Content
  <2>1. /\ op.part \in Nat /\ op.prev \in Block \cup {None} /\ op.gen \in Generation
        /\ op.gen = g
    BY <1>2 DEF HeaderOp, Heading
  <2> QED BY <2>1 DEF Part, Content
<1>5. n \in Media
  BY <1>4, Facts DEF Media
<1>6. ~IsPart(media, op.block)
  BY <1>3 DEF IsPart, Blank
<1>7. \/ /\ Part.part = 0 /\ Part.prev = None /\ Parts(media, g) = {}
         /\ Cardinality(Listed(media, ledger)) < MaxCatalog
      \/ /\ LastPart(media, g, Part.prev) /\ Part.part = media[Part.prev].part + 1
  <2>1. CASE op.part = 0
    BY <1>2, <1>4, <2>1 DEF Heading
  <2>2. CASE op.part # 0
    <3>1. Extended(media, journal, op)
      BY <1>1, <2>2, Facts DEF Recording, Beginning
    <3> QED BY <1>2, <1>4, <2>2, <3>1 DEF Heading, Extended
  <2> QED BY <2>1, <2>2
<1>8. /\ Durable(n, ledger, opened, closed, granted)
      /\ Parts(n, g) = Parts(media, g) \cup {op.block}
      /\ \A h : h # g => Parts(n, h) = Parts(media, h)
      /\ LastPart(n, g, op.block)
  <2> DEFINE x == Part
  <2> HIDE DEF x
  <2> DEFINE b == op.block
  <2> HIDE DEF b
  <2>1. /\ IsPart(n, b) /\ n[b].gen = g /\ n[b].part \in Nat /\ n = [media EXCEPT ![b] = n[b]]
        /\ \/ /\ n[b].part = 0 /\ n[b].prev = None /\ Parts(media, g) = {}
              /\ Cardinality(Listed(media, ledger)) < MaxCatalog
           \/ /\ LastPart(media, g, n[b].prev) /\ n[b].part = media[n[b].prev].part + 1
    <3>1. n[b] = x /\ n = [media EXCEPT ![b] = x]
      BY <1>1, Facts DEF Media, x, b
    <3>2. /\ x.kind = "part" /\ x.gen = g /\ x.part \in Nat
          /\ \/ /\ x.part = 0 /\ x.prev = None /\ Parts(media, g) = {}
                /\ Cardinality(Listed(media, ledger)) < MaxCatalog
             \/ /\ LastPart(media, g, x.prev) /\ x.part = media[x.prev].part + 1
      BY <1>4, <1>7 DEF x
    <3> QED BY <3>1, <3>2 DEF IsPart
  <2>2. /\ media \in Media /\ closed \in SUBSET Generation
        /\ Durable(media, ledger, opened, closed, granted)
    BY Facts
  <2> HIDE DEF g
  <2>3. b \in Block /\ ~IsPart(media, b)
    BY <1>1, <1>6 DEF b
  <2>4. Headed(media, n, ledger, opened, closed, granted, g, b)
    BY <1>1, <1>5, <2>1, <2>2, <2>3, Grown
  <2> QED BY <2>4 DEF Headed, b, g
<1>9. n[op.block] = Part /\ \A b \in Block : b # op.block => n[b] = media[b]
  BY <1>1, Facts DEF Media
<1> QED BY <1>3, <1>5, <1>8, <1>9

\* A part whose seal or whose checkpoint page is another one.
Seals(y) == {[y EXCEPT !.end = e] : e \in {"none", "open", "final", "interrupted"}}
              \cup {[y EXCEPT !.ckpt = c] : c \in {"blank", "valid", "unreadable"}}

\* The media n after the last part of the active capture has become x.
Sealing(n, x) ==
  /\ n \in Media /\ Durable(n, ledger, opened, closed, granted)
  /\ n[op.block] = x /\ \A b \in Block : b # op.block => n[b] = media[b]
  /\ \A h : Parts(n, h) = Parts(media, h)
  /\ LastPart(n, journal.active, op.block) /\ Chained(n, journal.active)

\* A rewritten seal or checkpoint of the active capture's last part.
LEMMA SealMedia ==
  ASSUME StorageIInv, op.step \in {"page", "checkpoint"}, NEW x \in Seals(media[op.block]),
         NEW n, n = [media EXCEPT ![op.block] = x]
  PROVE  Sealing(n, x)
<1> DEFINE g == journal.active
           y == media[op.block]
<1>1. /\ g \in Generation /\ g \notin closed /\ g \notin Gens(granted) /\ op.block \in Block
  BY Programming DEF Programs
<1>2. op.block \in Parts(media, g) /\ LastPart(media, g, op.block)
  BY PageFacts DEF Extended
<1>3. /\ y \in [kind : {"part"}, gen : Generation, part : Nat, prev : Block \cup {None},
                end : {"none", "open", "final", "interrupted"},
                ckpt : {"blank", "valid", "unreadable"}]
      /\ y.gen = g
  BY <1>2, Facts, PartsFacts, PartFacts
<1> HIDE DEF y
<1>4. /\ x \in [kind : {"part"}, gen : Generation, part : Nat, prev : Block \cup {None},
                end : {"none", "open", "final", "interrupted"},
                ckpt : {"blank", "valid", "unreadable"}]
      /\ x.kind = "part" /\ x.gen = g /\ x.part = y.part /\ x.prev = y.prev
  <2>1. CASE \E e \in {"none", "open", "final", "interrupted"} : x = [y EXCEPT !.end = e]
    BY <1>3, <2>1
  <2>2. CASE \E c \in {"blank", "valid", "unreadable"} : x = [y EXCEPT !.ckpt = c]
    BY <1>3, <2>2
  <2> QED BY <2>1, <2>2 DEF y, Seals
<1>5. n \in Media
  <2>1. x \in Content
    BY <1>4 DEF Content
  <2> QED BY <2>1, Facts DEF Media
<1>6. n[op.block] = x /\ \A b \in Block : b # op.block => n[b] = media[b]
  BY <1>1, Facts DEF Media
<1>7. /\ Durable(n, ledger, opened, closed, granted)
      /\ \A h : Parts(n, h) = Parts(media, h)
      /\ \A d : LastPart(n, g, d) <=> LastPart(media, g, d)
      /\ Chained(n, g)
  <2>1. x.part = media[op.block].part /\ x.prev = media[op.block].prev
    BY <1>4 DEF y
  <2>2. /\ media \in Media /\ closed \in SUBSET Generation
        /\ Durable(media, ledger, opened, closed, granted)
    BY Facts
  <2> HIDE DEF g
  <2> DEFINE b == op.block
  <2> HIDE DEF b
  <2>3. /\ b \in Parts(media, g) /\ IsPart(n, b) /\ n[b].gen = g
        /\ n[b].part = media[b].part /\ n[b].prev = media[b].prev
        /\ n = [media EXCEPT ![b] = n[b]]
    BY <1>2, <1>4, <1>6, <2>1 DEF b, IsPart
  <2>4. Resealed(media, n, ledger, opened, closed, granted, g, b)
    BY <1>1, <1>5, <2>2, <2>3, Rewritten
  <2> QED BY <2>4 DEF Resealed, g
<1> QED BY <1>2, <1>5, <1>6, <1>7 DEF Sealing

\* The damage that a media operation may do is no part.
LEMMA DamageFacts ==
  /\ Blank \in Content /\ Blank.kind # "part"
  /\ Damaged \subseteq Content
  /\ \A x \in Damaged : x.kind # "part"
BY StorageAssumption DEF Blank, Damaged, Content

\* The media n after a block that is worth nothing has become x.
Clearing(n, x) ==
  /\ n \in Media /\ Durable(n, ledger, opened, closed, granted)
  /\ n[op.block] = x /\ \A b \in Block : b # op.block => n[b] = media[b]
  /\ op.block \in Block
  /\ \A h : h \notin Gens(granted) => Parts(n, h) = Parts(media, h)

\* What an erase leaves, or a header that was torn: no part.
LEMMA WipeMedia ==
  ASSUME StorageIInv, op.step \in {"erase", "header"}, NEW x \in {Blank} \cup Damaged,
         NEW n, n = [media EXCEPT ![op.block] = x]
  PROVE  Clearing(n, x)
<1>1. op.block \in Block /\ (IsPart(media, op.block) => media[op.block].gen \in Gens(granted))
  <2>1. CASE op.step = "erase"
    <3>1. op.block \in Block /\ Wiping(media, ledger, owner, op)
      BY <2>1, Facts, OpFacts DEF EraseOp, Running
    <3>2. ledger.last \in granted
      BY <3>1, Facts DEF Wiping, Durable, Numbered
    <3> QED BY <3>1, <3>2 DEF Wiping, Gens
  <2>2. CASE op.step = "header"
    <3>1. op.block \in Block
      BY <2>2, Programming DEF Programs
    <3>2. media[op.block] = Blank
      BY <2>2, <3>1, Facts DEF Running, Heading, Blanks
    <3> QED BY <3>1, <3>2, DamageFacts DEF IsPart
  <2> QED BY <2>1, <2>2
<1>2. x.kind # "part" /\ x \in Content
  BY DamageFacts
<1>3. n \in Media
  BY <1>2, Facts DEF Media
<1>4. n[op.block] = x /\ \A b \in Block : b # op.block => n[b] = media[b]
  BY <1>1, Facts DEF Media
<1>5. /\ Durable(n, ledger, opened, closed, granted)
      /\ \A g : Parts(n, g) = Parts(media, g) \ {op.block}
  <2>1. /\ media \in Media /\ closed \in SUBSET Generation
        /\ Durable(media, ledger, opened, closed, granted)
    BY Facts
  <2> DEFINE b == op.block
  <2> HIDE DEF b
  <2>2. /\ b \in Block /\ n[b].kind # "part" /\ n = [media EXCEPT ![b] = n[b]]
        /\ IsPart(media, b) => media[b].gen \in Gens(granted)
    BY <1>1, <1>2, <1>4 DEF b
  <2>3. Cleared(media, n, ledger, opened, closed, granted, b)
    BY <1>3, <2>1, <2>2, Wiped
  <2> QED BY <2>3 DEF Cleared, b
<1>6. \A h : h \notin Gens(granted) => op.block \notin Parts(media, h)
  BY <1>1 DEF Parts
<1>7. \A h : h \notin Gens(granted) => Parts(n, h) = Parts(media, h)
  BY <1>5, <1>6
<1> QED BY <1>1, <1>3, <1>4, <1>5, <1>7 DEF Clearing

-----------------------------------------------------------------------------
(* Ends of media operations.                                               *)

\* The invariant after a change of the media or the ledger.
LEMMA LiftMedia ==
  ASSUME StorageIInv, UNCHANGED <<opened, signed>>,
         media' \in Media, ledger' \in Snapshot, openable' \in BOOLEAN, owner' \in Owners,
         journal' \in Journal, op' \in Operation, granted' \subseteq Command,
         closed' \subseteq Generation, faults' \in 0 .. MaxFaults,
         Durable(media', ledger', opened, closed', granted'),
         Volatile(media', ledger', owner', journal', op', opened, closed', granted'),
         Running(media', ledger', owner', journal', op', signed)
  PROVE  StorageIInv'
<1>1. TypeOK'
  BY DEF StorageIInv, TypeOK, Owners, Media
<1> QED BY <1>1, Lift

\* The header of a first block begins a capture, another one continues it.
LEMMA HeaderDoneKeeps ==
  ASSUME StorageIInv, HeaderDone
  PROVE  StorageIInv'
<1> DEFINE b == op.block
           g == journal.active
<1>1. /\ op.step = "header" /\ media' = [media EXCEPT ![b] = Part]
      /\ journal' = [journal EXCEPT !.prepared = None, !.current = b, !.last = b,
                                    !.state[b] = "owned"]
  BY DEF HeaderDone
<1>2. /\ media' \in Media /\ Durable(media', ledger, opened, closed, granted)
      /\ media[b] = Blank /\ media'[b] = Part
      /\ \A d \in Block : d # b => media'[d] = media[d]
      /\ Parts(media', g) = Parts(media, g) \cup {b}
      /\ LastPart(media', g, b)
  BY <1>1, HeaderMedia
<1>3. /\ g # 0 /\ ~journal.fault /\ b \in Block /\ b # None /\ ledger.phase = "idle"
  BY <1>1, Programming, StorageAssumption DEF Programs
<1>4. op \in HeaderOp /\ Heading(media, ledger, journal, op)
  BY <1>1, Facts, OpFacts DEF Running
<1>5. /\ journal' \in Journal /\ journal'.prepared = None /\ journal'.current = b
      /\ journal'.last = b /\ journal'.state = [journal.state EXCEPT ![b] = "owned"]
      /\ journal'.binding = journal.binding /\ journal'.active = g
      /\ journal'.bound = journal.bound /\ journal'.fault = journal.fault
  BY <1>1, <1>3, Facts DEF Journal
<1>6. journal'.state[b] = "owned" /\ \A d \in Block : d # b => journal'.state[d] = journal.state[d]
  BY <1>3, <1>5, Facts DEF Journal
<1>7. Blanks(media', journal')
  BY <1>2, <1>5, <1>6, Facts DEF Blanks
<1>8. \A d \in Parts(media', g) \ {b} : media'[d].end = "open" /\ media'[d].ckpt = "valid"
  <2>1. \A d \in Parts(media, g) : media[d].end = "open" /\ media[d].ckpt = "valid"
    <3>1. CASE op.part = 0
      BY <1>4, <3>1 DEF Heading
    <3>2. CASE op.part # 0
      <4>1. Extended(media, journal, op)
        BY <1>3, <3>2, Facts DEF Recording, Beginning
      <4> QED BY <1>4, <3>2, <4>1 DEF Heading, Extended
    <3> QED BY <3>1, <3>2
  <2> QED BY <1>2, <2>1 DEF Parts
<1>9. media'[b].end = "none"
  BY <1>2 DEF Part
<1>10. CASE op.end = "none"
  <2>1. op' = Idle
    BY <1>10 DEF HeaderDone
  <2>2. Extended(media', journal', Idle)
    BY <1>2, <1>3, <1>5, <1>8, <1>9 DEF Extended
  <2>3. Volatile(media', ledger, owner, journal', Idle, opened, closed, granted)
    BY <1>3, <1>5, <1>7, <2>2, Facts DEF Volatile, Bindings, Recording, Erasing
  <2> QED BY <1>2, <1>5, <2>1, <2>3, Facts, IdleRuns, LiftMedia, OpTypes DEF HeaderDone
<1>11. CASE op.end # "none"
  <2>1. op' = [step |-> "page", block |-> b, end |-> op.end]
    BY <1>11 DEF HeaderDone
  <2>2. op' \in PageOp /\ op' \in Operation
    BY <1>3, <1>4, <1>11, <2>1, OpTypes DEF PageOp, HeaderOp
  <2>3. Extended(media', journal', op')
    BY <1>2, <1>3, <1>5, <1>8, <1>9 DEF Extended
  <2>4. Volatile(media', ledger, owner, journal', op', opened, closed, granted)
    BY <1>3, <1>5, <1>7, <2>3, Facts DEF Volatile, Bindings, Recording, Erasing
  <2>5. Running(media', ledger, owner, journal', op', signed)
    BY <1>3, <1>5, <2>1 DEF Running
  <2> QED BY <1>2, <1>5, <2>2, <2>4, <2>5, Facts, LiftMedia DEF HeaderDone
<1> QED BY <1>10, <1>11

\* A page is programmed into the block that is open.
LEMMA PageDoneKeeps ==
  ASSUME StorageIInv, PageDone
  PROVE  StorageIInv'
<1> DEFINE b == op.block
           g == journal.active
           x == [media[b] EXCEPT !.end = PageEnd]
<1>1. op.step = "page" /\ op.step \in Programs /\ media' = [media EXCEPT ![b] = x]
  BY DEF PageDone, Programs
<1>2. /\ Extended(media, journal, op) /\ b = journal.last /\ journal.current = b
      /\ b \in Parts(media, g) /\ op.end \in End
  BY <1>1, PageFacts
<1>3. g # 0 /\ ~journal.fault /\ b \in Block /\ b # None /\ ledger.phase = "idle"
  BY <1>1, Programming, StorageAssumption
<1>4. PageEnd \in {"open", "final", "interrupted"} /\ PageEnd = EndOf(op)
  BY <1>2 DEF PageEnd, End, EndOf
<1>5. x \in Seals(media[b])
  BY <1>4 DEF Seals
<1>6. /\ media' \in Media /\ Durable(media', ledger, opened, closed, granted)
      /\ media'[b] = x /\ \A d \in Block : d # b => media'[d] = media[d]
      /\ \A h : Parts(media', h) = Parts(media, h)
      /\ LastPart(media', g, b)
  <2> HIDE DEF x
  <2>1. Sealing(media', x)
    BY <1>1, <1>5, SealMedia
  <2> QED BY <2>1 DEF Sealing
<1>7. media'[b].end = PageEnd
  <2>1. media[b] \in [kind : {"part"}, gen : Generation, part : Nat, prev : Block \cup {None},
                      end : {"none", "open", "final", "interrupted"},
                      ckpt : {"blank", "valid", "unreadable"}]
    BY <1>2, Facts, PartsFacts, PartFacts
  <2> QED BY <1>6, <2>1
<1> HIDE DEF x
<1>8. IsPart(media, b) /\ Blanks(media', journal)
  <2>1. IsPart(media, b)
    BY <1>2 DEF Parts
  <2>2. media[b] # Blank
    BY <2>1 DEF IsPart, Blank
  <2> QED BY <1>6, <2>1, <2>2, Facts DEF Blanks
<1>9. \A d \in Parts(media', g) \ {b} : media'[d].end = "open" /\ media'[d].ckpt = "valid"
  BY <1>2, <1>6 DEF Extended, Parts
<1>10. CASE op.end = "open"
  <2>1. op' = Idle
    BY <1>10 DEF PageDone
  <2>2. media'[b].end = "open"
    BY <1>4, <1>7, <1>10 DEF EndOf
  <2>3. Extended(media', journal, Idle)
    BY <1>2, <1>3, <1>6, <1>9, <2>2 DEF Extended
  <2>4. Volatile(media', ledger, owner, journal, Idle, opened, closed, granted)
    BY <1>3, <1>8, <2>3, Facts DEF Volatile, Recording, Erasing
  <2> QED BY <1>6, <2>1, <2>4, Facts, IdleRuns, LiftMedia, OpTypes DEF PageDone
<1>11. CASE op.end # "open"
  <2>1. op' = [op EXCEPT !.step = "checkpoint"]
    BY <1>11 DEF PageDone
  <2>2. op \in PageOp
    BY <1>1, Facts, OpFacts
  <2>3. /\ op' \in PageOp /\ op'.step = "checkpoint" /\ op'.block = b /\ op'.end = op.end
    BY <2>1, <2>2 DEF PageOp
  <2>4. Extended(media', journal, op')
    BY <1>2, <1>3, <1>6, <1>9, <2>3 DEF Extended
  <2>5. Volatile(media', ledger, owner, journal, op', opened, closed, granted)
    BY <1>3, <1>8, <2>4, Facts DEF Volatile, Recording, Erasing
  <2>6. Running(media', ledger, owner, journal, op', signed)
    BY <1>2, <1>3, <1>4, <1>7, <1>11, <2>3 DEF Running, EndOf
  <2> QED BY <1>6, <2>3, <2>5, <2>6, Facts, LiftMedia, OpTypes DEF PageDone
<1> QED BY <1>10, <1>11

\* A checkpoint that reads back ends its block, and with a seal the capture.
LEMMA CheckpointDoneKeeps ==
  ASSUME StorageIInv, CheckpointDone
  PROVE  StorageIInv'
<1> DEFINE b == op.block
           g == journal.active
           x == [media[b] EXCEPT !.ckpt = "valid"]
<1>1. op.step = "checkpoint" /\ op.step \in Programs /\ media' = [media EXCEPT ![b] = x]
  BY DEF CheckpointDone, Programs
<1>2. /\ Extended(media, journal, op) /\ b = journal.last /\ journal.current = b
      /\ b \in Parts(media, g) /\ op.end \in End
  BY <1>1, PageFacts
<1>3. /\ g # 0 /\ ~journal.fault /\ b \in Block /\ b # None /\ ledger.phase = "idle"
      /\ g \in Generation /\ g \in opened /\ g \notin closed /\ g \notin Gens(granted)
  BY <1>1, Programming, StorageAssumption
<1>4. op.end \in {"full", "final", "interrupted"} /\ media[b].end = EndOf(op)
  BY <1>1, <1>2, Facts DEF Running, End
<1>5. /\ media' \in Media /\ Durable(media', ledger, opened, closed, granted)
      /\ media'[b] = x /\ \A d \in Block : d # b => media'[d] = media[d]
      /\ \A h : Parts(media', h) = Parts(media, h)
      /\ LastPart(media', g, b) /\ Chained(media', g)
  <2>1. x \in Seals(media[b])
    BY DEF Seals
  <2> HIDE DEF x
  <2>2. Sealing(media', x)
    BY <1>1, <2>1, SealMedia
  <2> QED BY <2>2 DEF Sealing
<1>6. media'[b].end = EndOf(op) /\ media'[b].ckpt = "valid"
  <2>1. media[b] \in [kind : {"part"}, gen : Generation, part : Nat, prev : Block \cup {None},
                      end : {"none", "open", "final", "interrupted"},
                      ckpt : {"blank", "valid", "unreadable"}]
    BY <1>2, Facts, PartsFacts, PartFacts
  <2> QED BY <1>4, <1>5, <2>1
<1> HIDE DEF x
<1>7. IsPart(media, b) /\ Blanks(media', journal)
  <2>1. IsPart(media, b)
    BY <1>2 DEF Parts
  <2>2. media[b] # Blank
    BY <2>1 DEF IsPart, Blank
  <2> QED BY <1>5, <2>1, <2>2, Facts DEF Blanks
<1>8. \A d \in Parts(media', g) \ {b} : media'[d].end = "open" /\ media'[d].ckpt = "valid"
  BY <1>2, <1>5 DEF Extended, Parts
<1>9. journal' = [journal EXCEPT !.current = None,
                                 !.active = IF op.end = "full" THEN g ELSE 0]
  BY Facts DEF CheckpointDone, Journal
<1>10. /\ journal' \in Journal /\ journal'.current = None
       /\ journal'.active = IF op.end = "full" THEN g ELSE 0
       /\ journal'.last = journal.last /\ journal'.state = journal.state
       /\ journal'.binding = journal.binding /\ journal'.prepared = journal.prepared
       /\ journal'.bound = journal.bound /\ journal'.fault = journal.fault
  <2>1. (IF op.end = "full" THEN g ELSE 0) \in 0 .. MaxGeneration
    BY Facts, StorageAssumption DEF Journal
  <2> QED BY <1>9, <2>1, Facts DEF Journal
<1>11. Blanks(media', journal')
  BY <1>7, <1>10 DEF Blanks
<1>12. Recording(media', journal', Idle)
  <2>1. CASE op.end = "full"
    <3>1. media'[b].end = "open"
      BY <1>6, <2>1 DEF EndOf
    <3>2. Extended(media', journal', Idle)
      BY <1>2, <1>5, <1>6, <1>8, <1>10, <2>1, <3>1 DEF Extended
    <3> QED BY <3>2 DEF Recording
  <2>2. CASE op.end # "full"
    BY <1>10, <2>2 DEF Recording
  <2> QED BY <2>1, <2>2
<1>13. op' = Idle /\ Erasing(media', ledger, owner, journal', Idle)
  BY <1>3 DEF CheckpointDone, Erasing
<1>14. CASE op.end = "final"
  <2>1. closed' = closed \cup {g} /\ journal'.active = 0
    BY <1>10, <1>14 DEF CheckpointDone
  <2>2. media'[b].end = "final"
    BY <1>6, <1>14 DEF EndOf
  <2>3. Verified(media', g)
    <3>1. Parts(media', g) # {} /\ Linked(media', g)
      BY <1>5 DEF LastPart, Chained
    <3>2. /\ LastPart(media', g, b) /\ (media'[b].part = 0 => media'[b].end # "none")
          /\ media'[b].ckpt # "unreadable"
      BY <1>5, <1>6, <2>2
    <3> QED BY <1>8, <3>1, <3>2 DEF Verified
  <2>4. Receipt(media', g) = "final"
    BY <1>5, <2>2, ReceiptIs DEF Chained
  <2>5. Durable(media', ledger, opened, closed', granted)
    BY <1>3, <1>5, <2>1, <2>3, <2>4 DEF Durable, Reserved, Whole
  <2>6. Bindings(ledger, journal', opened, closed', granted)
    BY <1>10, <2>1, Facts DEF Bindings
  <2>7. closed' \subseteq Generation
    BY <1>3, <2>1, Facts
  <2>8. Volatile(media', ledger, owner, journal', Idle, opened, closed', granted)
    BY <1>11, <1>12, <1>13, <2>6 DEF Volatile
  <2> QED BY <1>5, <1>10, <1>13, <2>5, <2>7, <2>8, Facts, IdleRuns, LiftMedia, OpTypes
          DEF CheckpointDone
<1>15. CASE op.end # "final"
  <2>1. closed' = closed
    BY <1>15 DEF CheckpointDone
  <2>2. Bindings(ledger, journal', opened, closed, granted)
    BY <1>3, <1>10, Facts DEF Bindings
  <2>3. Volatile(media', ledger, owner, journal', Idle, opened, closed, granted)
    BY <1>11, <1>12, <1>13, <2>2 DEF Volatile
  <2>4. Durable(media', ledger, opened, closed', granted) /\ closed' \subseteq Generation
    BY <1>5, <2>1, Facts
  <2>5. Volatile(media', ledger, owner, journal', Idle, opened, closed', granted)
    BY <2>1, <2>3
  <2> QED BY <1>5, <1>10, <1>13, <2>4, <2>5, Facts, IdleRuns, LiftMedia, OpTypes
          DEF CheckpointDone
<1> QED BY <1>14, <1>15

\* An erased extent is blank; after the last one the fence can be lifted.
LEMMA EraseDoneKeeps ==
  ASSUME StorageIInv, EraseDone
  PROVE  StorageIInv'
<1> DEFINE b == op.block
           k == owner.progress + 1
           e == ledger.extents
<1>1. op.step = "erase" /\ media' = [media EXCEPT ![b] = Blank]
  BY DEF EraseDone
<1>2. Wiping(media, ledger, owner, op)
  BY <1>1, Facts DEF Running
<1>3. /\ media' \in Media /\ Durable(media', ledger, opened, closed, granted)
      /\ media'[b] = Blank /\ \A d \in Block : d # b => media'[d] = media[d]
  <2>1. Clearing(media', Blank)
    BY <1>1, WipeMedia
  <2> QED BY <2>1 DEF Clearing
<1>4. /\ owner.ready /\ ledger.phase = "granted" /\ e[k] = b /\ k \in 1 .. Len(e)
  BY <1>2 DEF Wiping
<1>5. journal.active = 0 /\ journal.binding = 0
  BY <1>4, Facts DEF Bindings
<1>6. owner' \in Owners /\ owner'.ready /\ owner'.progress = k
  BY <1>4, Facts DEF EraseDone, Owners
<1>7. /\ e \in Seq(Block) /\ Len(e) \in Nat /\ owner.progress \in Nat
      /\ Fence(ledger) = {e[i] : i \in 1 .. Len(e)}
  BY <1>4, Facts DEF Snapshot, Owners, Fence
<1>8. \A i \in 1 .. k : media'[e[i]] = Blank
  <2>1. ASSUME NEW i \in 1 .. k  PROVE  media'[e[i]] = Blank
    <3>1. i \in 1 .. Len(e) /\ e[i] \in Block
      BY <1>4, <1>7
    <3>2. CASE i = k
      BY <1>3, <1>4, <3>2
    <3>3. CASE i # k
      <4>1. i \in 1 .. owner.progress
        BY <1>7, <3>3
      <4>2. media[e[i]] = Blank
        BY <1>4, <4>1, Facts DEF Erasing
      <4> QED BY <1>3, <3>1, <4>2
    <3> QED BY <3>2, <3>3
  <2> QED BY <2>1
<1>9. Blanks(media', journal)
  BY <1>3, Facts DEF Blanks
<1>10. \A d \in Fence(ledger) : journal.state[d] = "excluded"
  BY <1>4, Facts DEF Erasing
<1> HIDE DEF e
<1>11. CASE LastExtent
  <2> DEFINE next == [ledger EXCEPT !.phase = "idle", !.extents = << >>]
  <2>1. op' = [step |-> "store", why |-> "retire", next |-> next]
    BY <1>11 DEF EraseDone, Store, Retired
  <2>2. k = Len(e)
    BY <1>11 DEF LastExtent, e
  <2>3. \A d \in Fence(ledger) : media'[d] = Blank
    BY <1>7, <1>8, <2>2
  <2>4. next \in Snapshot
    BY <1>3, <2>3, Facts, Retiring
  <2> HIDE DEF next
  <2>5. op' \in StoreOp /\ op' \in Operation
    BY <2>1, <2>4, OpTypes DEF StoreOp
  <2>6. Running(media', ledger, owner', journal, op', signed)
    BY <1>4, <1>5, <1>6, <2>1, <2>3 DEF Running, Storing, Programs, next
  <2>7. Volatile(media', ledger, owner', journal, op', opened, closed, granted)
    BY <1>4, <1>5, <1>6, <1>8, <1>9, <1>10, <2>1, Facts
       DEF Volatile, Recording, Erasing, e
  <2> QED BY <1>3, <1>6, <2>5, <2>6, <2>7, Facts, LiftMedia DEF EraseDone
<1>12. CASE ~LastExtent
  <2>1. op' = Idle
    BY <1>12 DEF EraseDone
  <2>2. k < Len(e)
    BY <1>4, <1>7, <1>12 DEF LastExtent, e
  <2>3. Volatile(media', ledger, owner', journal, Idle, opened, closed, granted)
    BY <1>4, <1>5, <1>6, <1>8, <1>9, <1>10, <2>2, Facts
       DEF Volatile, Recording, Erasing, e
  <2> QED BY <1>3, <1>6, <2>1, <2>3, Facts, IdleRuns, LiftMedia, OpTypes DEF EraseDone
<1> QED BY <1>11, <1>12

\* What a stored snapshot changes of the durable state.
Adopted(l, r) ==
  /\ l \in Snapshot /\ r \subseteq Command
  /\ Durable(media, l, opened, closed, r)
  /\ ledger.counter <= l.counter /\ l.counter \in Nat

\* A store that came through, reported or not, leaves a sound state.
LEMMA Adopting ==
  ASSUME StorageIInv, op.step = "store", Adopt(op.next)
  PROVE  /\ Adopted(ledger', granted') /\ ledger' = op.next
         /\ op.why = "reserve" =>
              ledger'.counter = ledger.counter + 1 /\ ledger'.phase = "idle" /\ granted' = granted
<1>1. Storing(media, ledger, owner, journal, op, signed)
  BY Facts DEF Running
<1>2. ledger' = op.next
  BY DEF Adopt
<1>3. ledger.counter \in Nat
  BY Facts DEF Snapshot
<1>4. CASE op.why = "reserve"
  <2>1. /\ ledger.phase = "idle" /\ ledger.counter < MaxGeneration
        /\ ledger' = [ledger EXCEPT !.counter = @ + 1]
    BY <1>1, <1>2, <1>4 DEF Storing
  <2>2. /\ ledger' \in Snapshot /\ ledger'.phase = "idle" /\ ledger'.counter = ledger.counter + 1
        /\ Durable(media, ledger', opened, closed, granted)
    BY <2>1, Facts, Reserving
  <2>3. granted' = granted
    BY <1>2, <2>2 DEF Adopt
  <2> QED BY <1>2, <1>3, <2>2, <2>3, Facts DEF Adopted
<1>5. CASE op.why = "grant"
  <2>1. PICK cmd \in signed : /\ cmd.seq = ledger.floor + 1 /\ Verified(media, cmd.gen)
                              /\ op.next = Grant(media, ledger, cmd)
    BY <1>1, <1>5 DEF Storing
  <2>2. ledger.phase = "idle" /\ cmd \in Command
    BY <1>1, <1>5, Facts DEF Storing
  <2>3. /\ ledger' \in Snapshot /\ ledger'.phase = "granted" /\ ledger'.counter = ledger.counter
        /\ ledger'.last = cmd
        /\ Durable(media, ledger', opened, closed, granted \cup {cmd})
    <3> DEFINE k == Grant(media, ledger, cmd)
    <3>1. k = [ledger EXCEPT !.phase = "granted", !.floor = cmd.seq, !.last = cmd,
                             !.extents = Extents(media, cmd.gen)]
      BY DEF Grant
    <3>2. /\ media \in Media /\ ledger \in Snapshot
          /\ Durable(media, ledger, opened, closed, granted)
      BY Facts
    <3>3. ledger' = k
      BY <1>2, <2>1
    <3> HIDE DEF k
    <3>4. /\ k \in Snapshot /\ k.phase = "granted" /\ k.counter = ledger.counter
          /\ k.last = cmd /\ Durable(media, k, opened, closed, granted \cup {cmd})
      <4>1. Fencing(media, ledger, k, opened, closed, granted, cmd)
        BY <2>1, <2>2, <3>1, <3>2, Granting
      <4> QED BY <4>1 DEF Fencing
    <3> QED BY <3>4, <3>3
  <2>4. granted' = granted \cup {cmd}
    BY <1>2, <2>3 DEF Adopt
  <2> QED BY <1>2, <1>3, <1>5, <2>2, <2>3, <2>4, Facts DEF Adopted
<1>6. CASE op.why = "retire"
  <2>1. /\ \A b \in Fence(ledger) : media[b] = Blank
        /\ ledger' = [ledger EXCEPT !.phase = "idle", !.extents = << >>]
    BY <1>1, <1>2, <1>6 DEF Storing
  <2>2. /\ ledger' \in Snapshot /\ ledger'.phase = "idle" /\ ledger'.counter = ledger.counter
        /\ Durable(media, ledger', opened, closed, granted)
    <3> DEFINE k == [ledger EXCEPT !.phase = "idle", !.extents = << >>]
    <3>1. /\ k \in Snapshot /\ k.phase = "idle" /\ k.counter = ledger.counter
          /\ Durable(media, k, opened, closed, granted)
      BY <2>1, Facts, Retiring
    <3> HIDE DEF k
    <3> QED BY <2>1, <3>1 DEF k
  <2>3. granted' = granted
    BY <1>2, <2>2 DEF Adopt
  <2> QED BY <1>2, <1>3, <1>6, <2>2, <2>3, Facts DEF Adopted
<1> QED BY <1>1, <1>4, <1>5, <1>6 DEF Storing

\* A store that returns binds the reserved generation or mounts again.
LEMMA StoreDoneKeeps ==
  ASSUME StorageIInv, StoreDone
  PROVE  StorageIInv'
<1>1. op.step = "store" /\ op' = Idle /\ Adopt(op.next) /\ media' = media /\ closed' = closed
  BY DEF StoreDone
<1>2. /\ ledger' \in Snapshot /\ granted' \subseteq Command /\ ledger' = op.next
      /\ Durable(media, ledger', opened, closed, granted')
      /\ ledger.counter <= ledger'.counter /\ ledger'.counter \in Nat
      /\ op.why = "reserve" =>
           ledger'.counter = ledger.counter + 1 /\ ledger'.phase = "idle" /\ granted' = granted
  BY <1>1, Adopting DEF Adopted
<1>3. /\ owner' \in Owners /\ journal' \in Journal
      /\ Volatile(media, ledger', owner', journal', Idle, opened, closed, granted')
  <2>1. CASE op.why = "reserve"
    <3>1. journal.active = 0 /\ journal.bound <= ledger.counter
      BY <1>1, Facts DEF Running, Storing, Bindings
    <3>2. journal.bound \in Nat /\ ledger.counter \in Nat
      BY Facts, StorageAssumption DEF Journal, Snapshot
    <3>3. ledger'.counter > journal.bound
      BY <1>2, <2>1, <3>1, <3>2
    <3>4. /\ journal' = [journal EXCEPT !.binding = ledger'.counter, !.bound = ledger'.counter]
          /\ owner' = owner
      BY <1>2, <2>1, <3>3 DEF StoreDone
    <3>5. ledger'.counter \in 0 .. MaxGeneration
      BY <1>2 DEF Snapshot
    <3>6. /\ journal' \in Journal /\ journal'.binding = ledger'.counter
          /\ journal'.bound = ledger'.counter
          /\ journal'.state = journal.state /\ journal'.active = 0
          /\ journal'.prepared = journal.prepared
      BY <3>1, <3>4, <3>5, Facts DEF Journal
    <3>7. ledger'.counter \notin opened
      <4>1. opened \subseteq 1 .. ledger.counter
        BY Facts DEF Durable, Reserved
      <4>2. ledger.counter + 1 \notin 1 .. ledger.counter
        BY <3>2
      <4> QED BY <1>2, <2>1, <4>1, <4>2
    <3>8. Bindings(ledger', journal', opened, closed, granted')
      BY <1>2, <2>1, <3>6, <3>7 DEF Bindings
    <3>9. Blanks(media, journal') /\ Recording(media, journal', Idle)
      BY <3>6, Facts DEF Blanks, Recording
    <3>10. Erasing(media, ledger', owner', journal', Idle)
      BY <1>2, <2>1 DEF Erasing
    <3> QED BY <3>4, <3>6, <3>8, <3>9, <3>10, Facts DEF Volatile
  <2>2. CASE op.why # "reserve" /\ Mountable(media, op.next)
    <3>1. /\ owner' = [ready |-> TRUE, progress |-> 0]
          /\ journal' = Mounted(media, ledger')
      BY <1>2, <2>2 DEF StoreDone, Mount
    <3> QED BY <1>2, <3>1, Facts, MountedFacts
  <2>3. CASE op.why # "reserve" /\ ~Mountable(media, op.next)
    <3>1. owner' = Down /\ journal' = Unmounted
      BY <1>2, <2>3 DEF StoreDone, Mount
    <3> QED BY <1>2, <3>1, DownFacts
  <2> QED BY <2>1, <2>2, <2>3
<1> QED BY <1>1, <1>2, <1>3, Facts, IdleRuns, LiftMedia, OpTypes DEF StoreDone

\* A failed program stops the journal, not the owner.
LEMMA BrokenKeeps ==
  ASSUME StorageIInv, op.step \in Programs, ProgramBroken,
         UNCHANGED <<ledger, openable, owner, signed, opened, closed, granted>>,
         faults' \in 0 .. MaxFaults, media' \in Media,
         \A d \in Block : d # op.block => media'[d] = media[d],
         Durable(media', ledger, opened, closed, granted)
  PROVE  StorageIInv'
<1> DEFINE b == op.block
           p == IF op.step = "header" THEN None ELSE journal.prepared
<1>1. op' = Idle
  BY DEF ProgramBroken
<1>2. b \in Block /\ journal.active # 0 /\ ledger.phase = "idle"
  BY Programming
<1>3. journal' = [journal EXCEPT !.fault = TRUE, !.state[b] = "quarantined", !.prepared = p]
  BY Facts DEF ProgramBroken, Journal
<1>4. p \in Block \cup {None}
  BY Facts DEF Journal
<1> HIDE DEF p
<1>5. /\ journal' \in Journal /\ journal'.fault = TRUE /\ journal'.prepared = p
      /\ journal'.state = [journal.state EXCEPT ![b] = "quarantined"]
      /\ journal'.active = journal.active /\ journal'.binding = journal.binding
      /\ journal'.bound = journal.bound
  BY <1>2, <1>3, <1>4, Facts DEF Journal
<1>6. /\ journal'.state[b] = "quarantined"
      /\ \A d \in Block : d # b => journal'.state[d] = journal.state[d]
  BY <1>2, <1>5, Facts DEF Journal
<1>7. p # None => p # b /\ p = journal.prepared
  <2>1. CASE op.step = "header"
    BY <2>1 DEF p
  <2>2. CASE op.step \in {"page", "checkpoint"}
    <3>1. IsPart(media, b)
      BY <2>2, PageFacts DEF Parts
    <3>2. p # None => media[p] = Blank
      BY <1>4, <2>2, Facts DEF Blanks, p
    <3> QED BY <2>2, <3>1, <3>2 DEF p, IsPart, Blank
  <2> QED BY <2>1, <2>2 DEF Programs
<1>8. Blanks(media', journal')
  BY <1>4, <1>5, <1>6, <1>7, Facts DEF Blanks
<1>9. Volatile(media', ledger, owner, journal', Idle, opened, closed, granted)
  BY <1>2, <1>5, <1>8, Facts DEF Volatile, Bindings, Recording, Erasing
<1> QED BY <1>1, <1>5, <1>9, Facts, IdleRuns, LiftMedia, OpTypes

\* A page is turned away because the owner failed.
LEMMA ProgramRefusedKeeps ==
  ASSUME StorageIInv, ProgramRefused
  PROVE  StorageIInv'
BY Facts, BrokenKeeps DEF ProgramRefused

\* What a step that did not return success may have done to media and ledger.
LEMMA Interruption ==
  ASSUME StorageIInv, Interrupted
  PROVE  /\ media' \in Media /\ Adopted(ledger', granted')
         /\ \/ media' = media
            \/ ledger' = ledger /\ granted' = granted
         /\ Durable(media', ledger', opened, closed, granted')
         /\ openable' \in BOOLEAN
         /\ op.step # "store" => UNCHANGED <<ledger, openable, granted>>
         /\ op.step = "idle" \/ op.step = "store" => media' = media
         /\ op.step = "erase" => media'[op.block] \in {media[op.block]} \cup {Blank} \cup Damaged
         /\ op.step \notin {"idle", "store"} =>
              \A d \in Block : d # op.block => media'[d] = media[d]
<1>1. Adopted(ledger, granted)
  BY Facts DEF Adopted, Snapshot
<1>2. CASE op = Idle
  BY <1>1, <1>2, Facts DEF Interrupted, Idle, Programs
<1>3. CASE op.step = "store"
  <2>1. media' = media /\ openable' \in Opens
    BY <1>3 DEF Interrupted, Idle, Programs
  <2>2. Adopted(ledger', granted')
    <3>1. CASE Adopt(op.next)
      BY <1>3, <3>1, Adopting
    <3>2. CASE UNCHANGED <<ledger, granted>>
      BY <1>1, <3>2
    <3> QED BY <1>3, <3>1, <3>2 DEF Interrupted, Idle, Programs
  <2> QED BY <1>3, <2>1, <2>2, Facts, StorageAssumption DEF Adopted
<1>4. CASE op.step = "erase"
  <2>1. /\ UNCHANGED <<ledger, openable, granted>>
        /\ \E x \in {media[op.block], Blank} \cup Damaged :
             media' = [media EXCEPT ![op.block] = x]
    BY <1>4 DEF Interrupted, Idle, Programs
  <2>2. PICK x \in {media[op.block], Blank} \cup Damaged :
          media' = [media EXCEPT ![op.block] = x]
    BY <2>1
  <2>3. CASE x \in {Blank} \cup Damaged
    <3>1. Clearing(media', x)
      BY <1>4, <2>2, <2>3, WipeMedia
    <3> QED BY <1>1, <1>4, <2>1, <2>3, <3>1, Facts DEF Clearing
  <2>4. CASE x = media[op.block]
    <3>1. op.block \in Block /\ media' = media
      BY <1>4, <2>2, <2>4, Facts, OpFacts DEF EraseOp, Media
    <3> QED BY <1>1, <1>4, <2>1, <3>1, Facts
  <2> QED BY <2>2, <2>3, <2>4
<1>5. CASE op.step \in Programs
  <2>1. UNCHANGED <<ledger, openable, granted>>
    BY <1>5 DEF Interrupted, Idle, Programs
  <2>2. PICK x \in Programmed(op.block) : media' = [media EXCEPT ![op.block] = x]
    BY <1>5 DEF Interrupted, Idle, Programs
  <2>3. op.block \in Block
    BY <1>5, Programming
  <2>4. /\ media' \in Media /\ Durable(media', ledger, opened, closed, granted)
        /\ \A d \in Block : d # op.block => media'[d] = media[d]
    <3>1. CASE x = media[op.block]
      <4>1. media' = media
        BY <2>2, <2>3, <3>1, Facts DEF Media
      <4> QED BY <4>1, Facts
    <3>2. CASE op.step = "header" /\ x # media[op.block]
      <4>1. x = Part \/ x \in Damaged
        BY <2>2, <3>2 DEF Programmed
      <4>2. CASE x = Part
        BY <2>2, <3>2, <4>2, HeaderMedia
      <4>3. CASE x \in Damaged
        <5>1. Clearing(media', x)
          BY <2>2, <3>2, <4>3, WipeMedia
        <5> QED BY <5>1 DEF Clearing
      <4> QED BY <4>1, <4>2, <4>3
    <3>3. CASE op.step \in {"page", "checkpoint"} /\ x # media[op.block]
      <4>1. x \in Seals(media[op.block])
        <5>1. CASE op.step = "page"
          <6>1. PageEnd \in {"none", "open", "final", "interrupted"}
            BY <3>3, PageFacts DEF PageEnd, End
          <6>2. x = [media[op.block] EXCEPT !.end = PageEnd]
            BY <2>2, <3>3, <5>1 DEF Programmed
          <6> QED BY <6>1, <6>2 DEF Seals
        <5>2. CASE op.step = "checkpoint"
          <6>1. \E c \in {"blank", "valid"} \cup (Damage \cap {"unreadable"}) :
                   x = [media[op.block] EXCEPT !.ckpt = c]
            BY <2>2, <5>2 DEF Programmed
          <6> QED BY <6>1 DEF Seals
        <5> QED BY <3>3, <5>1, <5>2
      <4>2. Sealing(media', x)
        BY <2>2, <3>3, <4>1, SealMedia
      <4> QED BY <4>2 DEF Sealing
    <3> QED BY <1>5, <3>1, <3>2, <3>3 DEF Programs
  <2> QED BY <1>1, <1>5, <2>1, <2>4, Facts DEF Programs
<1> QED BY <1>2, <1>3, <1>4, <1>5 DEF Interrupted

\* An error stops the journal during a program, else the owner.
LEMMA StepFailsKeeps ==
  ASSUME StorageIInv, StepFails
  PROVE  StorageIInv'
<1>1. faults' \in 0 .. MaxFaults /\ Interrupted
  BY Facts, StorageAssumption DEF StepFails, OneFault
<1>2. /\ media' \in Media /\ Adopted(ledger', granted')
      /\ Durable(media', ledger', opened, closed, granted')
      /\ openable' \in BOOLEAN
      /\ op.step # "store" => UNCHANGED <<ledger, openable, granted>>
      /\ op.step = "idle" \/ op.step = "store" => media' = media
      /\ op.step = "erase" => media'[op.block] \in {media[op.block]} \cup {Blank} \cup Damaged
      /\ op.step \notin {"idle", "store"} =>
           \A d \in Block : d # op.block => media'[d] = media[d]
  BY <1>1, Interruption
<1>3. CASE op # Idle /\ op.step \in Programs
  <2>1. ProgramBroken /\ UNCHANGED <<owner, signed, opened, closed>>
    BY <1>3 DEF StepFails
  <2>2. op.step \notin {"idle", "store"}
    BY <1>3 DEF Programs
  <2> QED BY <1>1, <1>2, <1>3, <2>1, <2>2, BrokenKeeps
<1>4. CASE ~(op # Idle /\ op.step \in Programs)
  <2>1. owner' = Down /\ op' = Idle /\ journal' = journal /\ UNCHANGED <<signed, opened, closed>>
    BY <1>4 DEF StepFails
  <2>2. op.step \in {"idle", "store", "erase"}
    <3>1. Idle.step = "idle"
      BY DEF Idle
    <3> QED BY <1>4, <3>1, Facts, OpFacts DEF Programs
  <2>3. Down \in Owners /\ ~Down.ready
    BY DEF Down, Owners
  <2>4. /\ Blanks(media', journal) /\ Recording(media', journal, Idle)
        /\ Bindings(ledger', journal, opened, closed, granted')
    <3>1. CASE op.step = "idle"
      <4>1. op = Idle
        BY <3>1, Facts, OpFacts
      <4> QED BY <1>2, <3>1, <4>1, Facts
    <3>2. CASE op.step = "store"
      <4>1. journal.active = 0 /\ journal.binding = 0
        BY <3>2, Facts DEF Running, Storing
      <4>2. journal.bound <= ledger'.counter
        <5>1. /\ journal.bound <= ledger.counter /\ ledger.counter <= ledger'.counter
              /\ journal.bound \in Nat /\ ledger.counter \in Nat /\ ledger'.counter \in Nat
          BY <1>2, Facts, StorageAssumption DEF Bindings, Adopted, Journal, Snapshot
        <5> QED BY <5>1
      <4> QED BY <1>2, <3>2, <4>1, <4>2, Facts DEF Recording, Bindings
    <3>3. CASE op.step = "erase"
      <4>1. ledger.phase = "granted" /\ owner.ready /\ op.block \in Fence(ledger)
        BY <3>3, Facts, FenceFacts DEF Running, Wiping
      <4>2. journal.state[op.block] = "excluded" /\ journal.active = 0
        BY <4>1, Facts DEF Erasing, Bindings
      <4>3. Blanks(media', journal)
        BY <1>2, <3>3, <4>2, Facts DEF Blanks
      <4> QED BY <1>2, <3>3, <4>2, <4>3, Facts DEF Recording
    <3> QED BY <2>2, <3>1, <3>2, <3>3
  <2>5. Volatile(media', ledger', Down, journal, Idle, opened, closed, granted')
    BY <2>3, <2>4 DEF Volatile, Erasing
  <2> QED BY <1>1, <1>2, <2>1, <2>3, <2>5, Facts, IdleRuns, LiftMedia, OpTypes DEF Adopted
<1> QED BY <1>3, <1>4

\* Power may go at any step.
LEMMA PowerCutKeeps ==
  ASSUME StorageIInv, PowerCut
  PROVE  StorageIInv'
<1>1. faults' \in 0 .. MaxFaults /\ Interrupted
  BY Facts, StorageAssumption DEF PowerCut, OneFault
<1>2. /\ media' \in Media /\ Adopted(ledger', granted')
      /\ Durable(media', ledger', opened, closed, granted')
      /\ openable' \in BOOLEAN
  BY <1>1, Interruption
<1>3. /\ owner' = Down /\ journal' = Unmounted /\ op' = Idle
      /\ UNCHANGED <<signed, opened, closed>>
  BY DEF PowerCut
<1>4. /\ owner' \in Owners /\ journal' \in Journal
      /\ Volatile(media', ledger', owner', journal', op', opened, closed, granted')
  BY <1>2, <1>3, DownFacts DEF Adopted
<1> QED BY <1>1, <1>2, <1>3, <1>4, Facts, IdleRuns, LiftMedia, OpTypes DEF Adopted

-----------------------------------------------------------------------------
(* The theorems about the invariant.                                       *)

\* An empty device is sound, and mounted.
LEMMA InitHolds ==
  ASSUME Init
  PROVE  StorageIInv
<1>1. /\ media = [b \in Block |-> Blank] /\ ledger.phase = "idle" /\ ledger.counter = 0
      /\ ledger.floor = 0 /\ ledger.extents = << >> /\ op = Idle
      /\ journal = Mounted(media, ledger)
      /\ owner = [ready |-> TRUE, progress |-> 0]
      /\ opened = {} /\ closed = {} /\ granted = {} /\ signed = {}
  BY DEF Init
<1>2. media \in Media
  BY <1>1, DamageFacts DEF Media
<1>3. ledger \in Snapshot
  <2>1. << >> \in Seq(Block) /\ 0 \in 0 .. MaxGeneration /\ 0 \in 0 .. MaxRelease
    BY StorageAssumption
  <2> QED BY <2>1 DEF Init, Snapshot
<1>4. \A b \in Block : ~IsPart(media, b)
  BY <1>1 DEF IsPart, Blank
<1>5. \A g : Parts(media, g) = {}
  BY <1>4 DEF Parts
<1>6. Gens(granted) = {}
  BY <1>1 DEF Gens
<1>7. Durable(media, ledger, opened, closed, granted)
  <2>1. Reserved(media, ledger, opened, closed, granted)
    BY <1>1, <1>4, <1>6 DEF Reserved
  <2>2. Whole(media, closed, granted)
    BY <1>1, <1>5 DEF Whole, Chained, Linked
  <2>3. Fenced(media, ledger, granted)
    BY <1>6 DEF Fenced
  <2>4. Numbered(ledger, granted)
    BY <1>1 DEF Numbered
  <2>5. Listed(media, ledger) = {}
    BY <1>5 DEF Listed
  <2>6. Cardinality({}) = 0
    BY FS_EmptySet
  <2>7. Cardinality(Listed(media, ledger)) <= MaxCatalog
    BY <2>5, <2>6, StorageAssumption
  <2> QED BY <2>1, <2>2, <2>3, <2>4, <2>7 DEF Durable
<1>8. /\ owner \in Owners /\ journal \in Journal
      /\ Volatile(media, ledger, owner, journal, op, opened, closed, granted)
  BY <1>1, <1>2, <1>3, <1>7, MountedFacts
<1>9. TypeOK
  <2>1. faults \in 0 .. MaxFaults /\ openable \in BOOLEAN
    BY StorageAssumption DEF Init
  <2> QED BY <1>1, <1>2, <1>3, <1>8, <2>1, OpTypes DEF TypeOK, Media, Owners
<1> QED BY <1>1, <1>7, <1>8, <1>9, IdleRuns DEF StorageIInv

\* Every step of the owner, every failure and every power cut keeps it.
LEMMA NextKeeps ==
  ASSUME StorageIInv, [Next]_vars
  PROVE  StorageIInv'
<1>1. CASE Next
  <2>1. CASE \E end \in {"open", "full", "final", "interrupted"} : Flush(end)
    BY <2>1, FlushKeeps DEF End
  <2>2. CASE \E seq \in 1 .. MaxRelease, g \in Generation : Sign(seq, g)
    BY <2>2, SignKeeps
  <2>3. CASE \E cmd \in signed : RequestRelease(cmd)
    BY <2>3, RequestReleaseKeeps
  <2>4. CASE Steps
    BY <2>4, HeaderDoneKeeps, PageDoneKeeps, CheckpointDoneKeeps, EraseDoneKeeps,
       StoreDoneKeeps DEF Steps
  <2> QED
    BY <1>1, <2>1, <2>2, <2>3, <2>4, OpenKeeps, PrepareCaptureKeeps, CancelPreparedKeeps,
       PrepareKeeps, PrepareRetryKeeps, StartCaptureKeeps, ReleaseStepKeeps,
       ProgramRefusedKeeps, StepFailsKeeps, PowerCutKeeps DEF Next
<1>2. CASE UNCHANGED vars
  <2>1. TypeOK'
    BY <1>2 DEF vars, StorageIInv, TypeOK
  <2> QED BY <1>2, <2>1, Lift DEF vars, StorageIInv
<1> QED BY <1>1, <1>2

\* Every step of the owner, every failure and every power cut preserves the
\* inductive invariant.
THEOREM StorageInductive == Spec => []StorageIInv
<1>1. Init => StorageIInv
  BY InitHolds
<1>2. StorageIInv /\ [Next]_vars => StorageIInv'
  BY NextKeeps
<1> QED BY <1>1, <1>2, PTL DEF Spec

\* A released capture stays gone, recording and release exclude each other,
\* the grants are numbered in sequence and no open is refused but for damage.
THEOREM StorageInvariant == Spec => []StorageInv
<1>1. ASSUME StorageIInv  PROVE  StorageInv
  <2>1. Durable(media, ledger, opened, closed, granted)
    BY <1>1, Facts
  <2>2. ReleasedStaysGone
    BY <2>1 DEF Durable, Fenced, ReleasedStaysGone, Released, Gens
  <2>3. ReleaseExcludesRecording
    BY <1>1, Facts DEF Bindings, ReleaseExcludesRecording
  <2>4. GrantsInSequence
    BY <2>1 DEF Durable, Numbered, GrantsInSequence
  <2>5. OpenNeverRefused
    <3>1. ledger.counter \in 0 .. MaxGeneration
      BY <1>1, Facts DEF Snapshot
    <3>2. ASSUME NEW b \in Block, IsPart(media, b)  PROVE  media[b].gen <= ledger.counter
      <4>1. media[b].gen \in 1 .. ledger.counter
        BY <2>1, <3>2 DEF Durable, Reserved
      <4> QED BY <3>1, <4>1
    <3>3. HighestGeneration(media, ledger) \in 0 .. ledger.counter
      BY <1>1, <3>1, <3>2, Facts, FloorFacts
    <3>4. HighestGeneration(media, ledger) <= ledger.counter
      BY <3>1, <3>3
    <3>5. Cardinality(Listed(media, ledger)) <= MaxCatalog
      BY <2>1 DEF Durable
    <3> QED BY <3>4, <3>5 DEF OpenNeverRefused, Mountable
  <2> QED BY <1>1, <2>2, <2>3, <2>4, <2>5 DEF StorageInv, StorageIInv
<1>2. StorageIInv => StorageInv
  BY <1>1
<1> QED BY <1>2, StorageInductive, PTL

\* A finished recording that was reported is whole on the media until its own
\* release is durable, whatever fails, restarts, is recorded or released.
THEOREM FinishedStaysWhole == Spec => []ReportedStaysWhole
<1>1. StorageIInv => ReportedStaysWhole
  BY Facts DEF Durable, Whole, ReportedStaysWhole, Released, Gens
<1> QED BY <1>1, StorageInductive, PTL

\* A mount, failed or not, rests.
LEMMA MountRests ==
  ASSUME NEW l, Mount(l)
  PROVE  journal'.active = 0
<1>1. Unmounted.active = 0
  BY DEF Unmounted
<1>2. \A st, top : [Unmounted EXCEPT !.state = st, !.bound = top, !.fault = FALSE].active = 0
  BY DEF Unmounted
<1>3. Mounted(media, l).active = 0
  BY <1>2 DEF Mounted
<1> QED BY <1>1, <1>3 DEF Mount

\* No generation is ever recorded twice, whatever became of its first header.
THEOREM IdentityUsedOnce == Spec => GenerationUsedOnce
<1> DEFINE A == journal'.active \notin {0, journal.active} => journal'.active \notin opened
<1>1. ASSUME StorageIInv, Next  PROVE  A
  <2>1. CASE StartCapture
    <3>1. journal'.active = journal.binding
      BY <1>1, <2>1, Facts DEF StartCapture, Journal
    <3>2. journal.binding \notin opened
      BY <1>1, <2>1, Facts DEF StartCapture, Bindings
    <3> QED BY <3>1, <3>2
  <2>2. CASE Open
    BY <2>2, MountRests DEF Open
  <2>3. CASE \E end \in {"open", "full", "final", "interrupted"} : Flush(end)
    <3>1. journal'.active = journal.active
      BY <1>1, <2>3, Facts DEF Flush, Journal
    <3> QED BY <3>1
  <2>4. CASE StoreDone
    <3>1. journal'.active \in {0, journal.active}
      BY <1>1, <2>4, Facts, MountRests DEF StoreDone, Journal
    <3> QED BY <3>1
  <2>5. CASE HeaderDone \/ PageDone \/ EraseDone
    <3>1. journal'.active = journal.active
      BY <1>1, <2>5, Facts DEF HeaderDone, PageDone, EraseDone, Journal
    <3> QED BY <3>1
  <2>6. CASE CheckpointDone
    <3>1. journal'.active \in {0, journal.active}
      BY <1>1, <2>6, Facts DEF CheckpointDone, Journal
    <3> QED BY <3>1
  <2>7. CASE CancelPrepared \/ Prepare \/ PrepareRetry
    <3>1. journal'.active = journal.active
      BY <1>1, <2>7, Facts DEF CancelPrepared, Prepare, PrepareRetry, Journal
    <3> QED BY <3>1
  <2>8. CASE ProgramRefused \/ StepFails
    <3>1. journal'.active = journal.active
      BY <1>1, <2>8, Facts DEF ProgramRefused, StepFails, ProgramBroken, Journal
    <3> QED BY <3>1
  <2>9. CASE PowerCut
    BY <2>9 DEF PowerCut, Unmounted
  <2>10. CASE \/ PrepareCapture \/ ReleaseStep
              \/ \E seq \in 1 .. MaxRelease, g \in Generation : Sign(seq, g)
              \/ \E cmd \in signed : RequestRelease(cmd)
    BY <2>10 DEF PrepareCapture, ReleaseStep, Sign, RequestRelease
  <2> QED
    BY <1>1, <2>1, <2>2, <2>3, <2>4, <2>5, <2>6, <2>7, <2>8, <2>9, <2>10 DEF Next, Steps
<1>2. StorageIInv /\ [Next]_vars => [A]_<<journal, opened>>
  BY <1>1 DEF vars
<1> QED BY <1>2, StorageInductive, PTL DEF Spec, GenerationUsedOnce

-----------------------------------------------------------------------------
(* A granted release can be carried on.                                    *)

\* An extent holds its own part, or what an erase left of it.
Resumable(m, l) ==
  l.phase = "granted" =>
    \A k \in 1 .. Len(l.extents) :
      IsPart(m, l.extents[k]) => m[l.extents[k]].gen = l.last.gen /\ m[l.extents[k]].part = k - 1

\* The extents of a new grant are the parts of its capture.
LEMMA StoreResumes ==
  ASSUME StorageIInv, op.step = "store"
  PROVE  Resumable(media, op.next)
<1>1. op \in StoreOp /\ op.next \in Snapshot
  BY Facts, OpFacts DEF StoreOp
<1>2. Storing(media, ledger, owner, journal, op, signed)
  BY Facts DEF Running
<1>3. CASE op.why = "reserve"
  <2>1. op.next.phase = "idle"
    BY <1>2, <1>3, Facts DEF Storing, Snapshot
  <2> QED BY <2>1 DEF Resumable
<1>4. CASE op.why = "retire"
  <2>1. op.next.phase = "idle"
    BY <1>2, <1>4, Facts DEF Storing, Snapshot
  <2> QED BY <2>1 DEF Resumable
<1>5. CASE op.why = "grant"
  <2>1. PICK cmd \in signed : /\ cmd.seq = ledger.floor + 1 /\ Verified(media, cmd.gen)
                              /\ op.next = Grant(media, ledger, cmd)
    BY <1>2, <1>5 DEF Storing
  <2>2. ledger.phase = "idle" /\ cmd \in Command
    BY <1>2, <1>5, Facts DEF Storing
  <2>3. Parts(media, cmd.gen) # {} /\ cmd.gen \in Generation
    BY <2>1, <2>2 DEF Verified, Command
  <2>4. Fencing(media, ledger, op.next, opened, closed, granted, cmd)
    BY <2>1, <2>2, Facts, Granting DEF Grant
  <2>5. Chained(media, cmd.gen)
    <3>1. cmd.gen \notin Gens(granted)
      BY <2>4 DEF Fencing
    <3> QED BY <2>3, <3>1, Facts DEF Durable, Whole
  <2>6. op.next.last = cmd /\ op.next.extents = Extents(media, cmd.gen)
    BY <2>1, <2>4, Facts DEF Grant, Snapshot, Fencing
  <2>7. /\ Extents(media, cmd.gen) \in Seq(Block)
        /\ \A k \in DOMAIN Extents(media, cmd.gen) :
             /\ Extents(media, cmd.gen)[k] \in Parts(media, cmd.gen)
             /\ media[Extents(media, cmd.gen)[k]].part = k - 1
    BY <2>3, <2>5, Facts, ExtentsFacts
  <2>8. \A k \in 1 .. Len(op.next.extents) :
          /\ op.next.extents[k] \in Parts(media, cmd.gen)
          /\ media[op.next.extents[k]].part = k - 1
    BY <2>6, <2>7
  <2> QED BY <2>6, <2>8, Facts, PartsFacts DEF Resumable
<1> QED BY <1>1, <1>3, <1>4, <1>5 DEF StoreOp

\* Whatever an erase leaves is its own part, blank or damaged.
LEMMA EraseResumes ==
  ASSUME StorageIInv, op.step = "erase", Resumable(media, ledger), NEW x \in {Blank} \cup Damaged,
         media' = [media EXCEPT ![op.block] = x]
  PROVE  Resumable(media', ledger)
<1>1. op.block \in Block /\ x.kind # "part"
  BY Facts, OpFacts, StorageAssumption DEF EraseOp, Blank, Damaged
<1>2. \A b \in Block : IsPart(media', b) => media'[b] = media[b] /\ IsPart(media, b)
  BY <1>1, Facts DEF Media, IsPart
<1>3. ledger.phase = "granted" => \A k \in 1 .. Len(ledger.extents) : ledger.extents[k] \in Block
  BY Facts, FenceFacts
<1> QED BY <1>2, <1>3 DEF Resumable

\* No step leaves an extent that the next attempt would refuse.
LEMMA NextResumes ==
  ASSUME StorageIInv, Resumable(media, ledger), Next
  PROVE  Resumable(media', ledger')
<1>1. CASE UNCHANGED <<media, ledger>>
  BY <1>1
<1>2. CASE op.step \in Programs /\ ledger' = ledger
  <2>1. ledger.phase # "granted"
    BY <1>2, Facts DEF Running, Bindings
  <2> QED BY <1>2, <2>1 DEF Resumable
<1>3. CASE EraseDone
  BY <1>3, EraseResumes DEF EraseDone
<1>4. CASE StoreDone
  BY <1>4, StoreResumes DEF StoreDone, Adopt
<1>5. CASE Interrupted
  <2>1. CASE op = Idle
    BY <1>1, <1>5, <2>1 DEF Interrupted, Idle, Programs
  <2>2. CASE op.step = "store"
    BY <1>5, <2>2, StoreResumes DEF Interrupted, Idle, Programs, Adopt
  <2>3. CASE op.step = "erase"
    <3>1. /\ ledger' = ledger
          /\ \E x \in {media[op.block], Blank} \cup Damaged :
               media' = [media EXCEPT ![op.block] = x]
      BY <1>5, <2>3 DEF Interrupted, Idle, Programs
    <3>2. PICK x \in {media[op.block], Blank} \cup Damaged :
            media' = [media EXCEPT ![op.block] = x]
      BY <3>1
    <3>3. CASE x = media[op.block]
      <4>1. media' = media
        BY <2>3, <3>2, <3>3, Facts, OpFacts DEF EraseOp, Media
      <4> QED BY <3>1, <4>1
    <3>4. CASE x \in {Blank} \cup Damaged
      BY <2>3, <3>1, <3>2, <3>4, EraseResumes
    <3> QED BY <3>2, <3>3, <3>4
  <2>4. CASE op.step \in Programs
    <3>1. ledger' = ledger
      BY <1>5, <2>4 DEF Interrupted, Idle, Programs
    <3> QED BY <1>2, <2>4, <3>1
  <2> QED BY <1>5, <2>1, <2>2, <2>3, <2>4 DEF Interrupted
<1>6. CASE HeaderDone \/ PageDone \/ CheckpointDone
  <2>1. op.step \in Programs /\ ledger' = ledger
    BY <1>6 DEF HeaderDone, PageDone, CheckpointDone, Programs
  <2> QED BY <1>2, <2>1
<1>7. CASE StepFails \/ PowerCut
  BY <1>5, <1>7 DEF StepFails, PowerCut
<1>8. CASE \/ Open \/ PrepareCapture \/ CancelPrepared \/ Prepare \/ PrepareRetry
           \/ StartCapture \/ ReleaseStep \/ ProgramRefused
  BY <1>1, <1>8 DEF Open, PrepareCapture, CancelPrepared, Prepare, PrepareRetry,
                    StartCapture, ReleaseStep, ProgramRefused
<1>9. CASE \/ \E end \in {"open", "full", "final", "interrupted"} : Flush(end)
           \/ \E seq \in 1 .. MaxRelease, g \in Generation : Sign(seq, g)
           \/ \E cmd \in signed : RequestRelease(cmd)
  BY <1>1, <1>9 DEF Flush, Sign, RequestRelease
<1> QED BY <1>3, <1>4, <1>6, <1>7, <1>8, <1>9 DEF Next, Steps

\* A durable release is never refused by what its own erases left behind: every
\* extent passes the check of a later attempt unless a page of it cannot be
\* read, and an idle owner that is open has one left to erase.
THEOREM ReleaseCarriesOn == Spec => []ReleaseNeverRefused
<1> DEFINE RInv == StorageIInv /\ Resumable(media, ledger)
<1>1. Init => RInv
  BY InitHolds DEF Init, Resumable
<1>2. RInv /\ [Next]_vars => RInv'
  <2>1. ASSUME RInv, Next  PROVE  RInv'
    <3>1. StorageIInv'
      BY <2>1, NextKeeps
    <3>2. Resumable(media', ledger')
      BY <2>1, NextResumes
    <3> QED BY <3>1, <3>2 DEF Resumable, IsPart
  <2>2. ASSUME RInv, UNCHANGED vars  PROVE  RInv'
    <3>1. StorageIInv'
      BY <2>2, NextKeeps
    <3> QED BY <2>2, <3>1 DEF vars, Resumable, IsPart
  <2> QED BY <2>1, <2>2
<1>3. RInv => ReleaseNeverRefused
  <2> SUFFICES ASSUME RInv, ledger.phase = "granted"
               PROVE  /\ \A k \in 1 .. Len(ledger.extents) :
                           media[ledger.extents[k]].kind # "unreadable"
                             => OnlyReleased(ledger.extents[k], k)
                      /\ owner.ready /\ op = Idle => owner.progress < Len(ledger.extents)
    BY DEF ReleaseNeverRefused
  <2>1. \A k \in 1 .. Len(ledger.extents) :
          media[ledger.extents[k]].kind # "unreadable" => OnlyReleased(ledger.extents[k], k)
    BY DEF Resumable, OnlyReleased
  <2>2. ASSUME owner.ready, op = Idle  PROVE  owner.progress < Len(ledger.extents)
    <3>1. Erasing(media, ledger, owner, journal, op) /\ op.step # "store"
      BY <2>2, Facts DEF Idle
    <3> QED BY <2>2, <3>1 DEF Erasing
  <2> QED BY <2>1, <2>2
<1> HIDE DEF RInv
<1> QED BY <1>1, <1>2, <1>3, PTL DEF Spec

-----------------------------------------------------------------------------
(* The owner implements the capture vault.                                 *)

\* What has become of capture g, read off the media, the ledger and the grants.
Status(m, l, r, g) ==
  IF g > l.counter THEN "unused"
  ELSE IF g \in Gens(r) THEN "released"
  ELSE IF Parts(m, g) = {} THEN "reserved"
  ELSE IF \E b \in Parts(m, g) : m[b].end = "final" THEN "final"
  ELSE "held"

Old(g) == Status(media, ledger, granted, g)
New(g) == Status(media', ledger', granted', g)

Statuses == [g \in Generation |-> StatusOf(g)]
Permitted == {cmd.gen : cmd \in signed}

VaultStep == [Vault!Next]_<<Statuses, Permitted>>

\* The refinement mapping is this status.
LEMMA StatusIs ==
  /\ Statuses = [g \in Generation |-> Old(g)]
  /\ Statuses' = [g \in Generation |-> New(g)]
<1>1. \A g : StatusOf(g) = Old(g)
  BY DEF StatusOf, Old, Status, Released, Gens
<1>2. \A g : StatusOf(g)' = New(g)
  BY DEF StatusOf, New, Status, Released, Gens, Parts, IsPart
<1> QED BY <1>1, <1>2 DEF Statuses

\* A step that changes no status is none of the vault.
LEMMA Stutters ==
  ASSUME \A g \in Generation : New(g) = Old(g), signed' = signed
  PROVE  VaultStep
<1>1. Statuses' = Statuses
  BY StatusIs
<1>2. Permitted' = Permitted
  BY DEF Permitted
<1> QED BY <1>1, <1>2 DEF VaultStep

\* A step that changes one status as the vault allows is one of the vault.
LEMMA Moves ==
  ASSUME NEW g \in Generation, \A h \in Generation \ {g} : New(h) = Old(h),
         signed' = signed,
         \/ Old(g) = "reserved" /\ New(g) = "held"
         \/ Old(g) = "held" /\ New(g) = "final"
         \/ Old(g) = "final" /\ New(g) = "released" /\ g \in Permitted
         \/ /\ Old(g) = "unused" /\ New(g) = "reserved"
            /\ \A f \in Generation : f < g <=> Old(f) # "unused"
  PROVE  VaultStep
<1>1. /\ Statuses' = [Statuses EXCEPT ![g] = New(g)]
      /\ \A h \in Generation : Statuses[h] = Old(h)
  BY StatusIs
<1>2. Permitted' = Permitted
  BY DEF Permitted
<1>3. CASE Old(g) = "reserved" /\ New(g) = "held"
  <2>1. Vault!Write(g)
    BY <1>1, <1>2, <1>3 DEF Vault!Write, Vault!Become, Statuses, Permitted
  <2> QED BY <2>1 DEF Vault!Next, VaultStep
<1>4. CASE Old(g) = "held" /\ New(g) = "final"
  <2>1. Vault!Finish(g)
    BY <1>1, <1>2, <1>4 DEF Vault!Finish, Vault!Become, Statuses, Permitted
  <2> QED BY <2>1 DEF Vault!Next, VaultStep
<1>5. CASE Old(g) = "final" /\ New(g) = "released" /\ g \in Permitted
  <2>1. Vault!Release(g)
    BY <1>1, <1>2, <1>5 DEF Vault!Release, Vault!Become, Statuses, Permitted
  <2> QED BY <2>1 DEF Vault!Next, VaultStep
<1>6. CASE /\ Old(g) = "unused" /\ New(g) = "reserved"
           /\ \A f \in Generation : f < g <=> Old(f) # "unused"
  <2>1. Vault!Reserve(g)
    BY <1>1, <1>2, <1>6 DEF Vault!Reserve, Vault!Become, Statuses, Permitted
  <2> QED BY <2>1 DEF Vault!Next, VaultStep
<1> QED BY <1>3, <1>4, <1>5, <1>6

\* A step that changes neither the blocks of a capture that is not released
\* nor which of them are final is none of the vault.
LEMMA SameEnds ==
  ASSUME UNCHANGED <<ledger, granted, signed>>,
         \A g : g \notin Gens(granted) =>
           /\ Parts(media', g) = Parts(media, g)
           /\ \A b \in Parts(media, g) : media'[b].end = "final" <=> media[b].end = "final"
  PROVE  VaultStep
<1>1. ASSUME NEW g \in Generation  PROVE  New(g) = Old(g)
  <2>1. CASE g \in Gens(granted)
    BY <2>1 DEF New, Old, Status
  <2>2. CASE g \notin Gens(granted)
    BY <2>2 DEF New, Old, Status
  <2> QED BY <2>1, <2>2
<1> QED BY <1>1, Stutters

\* A step that leaves media, ledger and permissions alone is none of the vault.
LEMMA UntouchedVault ==
  ASSUME UNCHANGED <<media, ledger, granted, signed>>
  PROVE  VaultStep
BY SameEnds

\* What an erase or a torn header does is none of the vault.
LEMMA WipeMoves ==
  ASSUME StorageIInv, op.step \in {"erase", "header"},
         UNCHANGED <<ledger, granted, signed>>,
         NEW x \in {Blank} \cup Damaged, media' = [media EXCEPT ![op.block] = x]
  PROVE  VaultStep
<1>1. Clearing(media', x)
  BY WipeMedia
<1>2. x.kind # "part"
  BY DamageFacts
<1>3. ASSUME NEW g, g \notin Gens(granted), NEW b \in Parts(media, g)
      PROVE  media'[b] = media[b]
  <2>1. b \in Parts(media', g)
    BY <1>1, <1>3 DEF Clearing
  <2>2. b # op.block
    BY <1>1, <1>2, <2>1 DEF Clearing, Parts, IsPart
  <2> QED BY <1>1, <1>3, <2>2 DEF Clearing, Parts
<1>4. \A g : g \notin Gens(granted) => Parts(media', g) = Parts(media, g)
  BY <1>1 DEF Clearing
<1> QED BY <1>3, <1>4, SameEnds

\* A capture that is held or final is counted.
LEMMA Counted ==
  ASSUME StorageIInv, NEW g \in Generation, Parts(media, g) # {}
  PROVE  g <= ledger.counter
<1>1. g \in 1 .. ledger.counter
  BY Facts DEF Durable, Reserved, Parts
<1> QED BY <1>1, Facts DEF Snapshot

\* A programmed header makes the reserved capture held, or adds to a held one.
LEMMA HeaderMoves ==
  ASSUME StorageIInv, op.step = "header", UNCHANGED <<ledger, granted, signed>>,
         media' = [media EXCEPT ![op.block] = Part]
  PROVE  VaultStep
<1> DEFINE g == journal.active
           b == op.block
<1>1. /\ media[b] = Blank /\ media'[b] = Part
      /\ \A d \in Block : d # b => media'[d] = media[d]
      /\ Parts(media', g) = Parts(media, g) \cup {b}
      /\ \A h : h # g => Parts(media', h) = Parts(media, h)
  BY HeaderMedia
<1>2. g \in Generation /\ g \notin Gens(granted) /\ g \in opened /\ b \in Block
  BY Programming DEF Programs
<1>3. b \notin UNION {Parts(media, h) : h \in Generation} /\ Part.end = "none"
  BY <1>1 DEF Parts, IsPart, Blank, Part
<1>4. \A h \in Generation : \A d \in Parts(media, h) : media'[d] = media[d]
  BY <1>1, <1>3 DEF Parts
<1>5. g <= ledger.counter
  <2>1. g \in 1 .. ledger.counter
    BY <1>2, Facts DEF Durable, Reserved
  <2> QED BY <2>1, Facts DEF Snapshot
<1>6. ~(g > ledger.counter)
  BY <1>2, <1>5, Facts DEF Snapshot, Generation
<1>7. \A h \in Generation \ {g} : New(h) = Old(h)
  <2>1. ASSUME NEW h \in Generation \ {g}  PROVE  New(h) = Old(h)
    <3>1. Parts(media', h) = Parts(media, h) /\ \A d \in Parts(media, h) : media'[d] = media[d]
      BY <1>1, <1>4
    <3> QED BY <3>1 DEF New, Old, Status
  <2> QED BY <2>1
<1>8. CASE Parts(media, g) = {}
  <2>1. Old(g) = "reserved"
    BY <1>2, <1>6, <1>8 DEF Old, Status
  <2>2. Parts(media', g) = {b} /\ media'[b].end = "none"
    BY <1>1, <1>3, <1>8
  <2>3. New(g) = "held"
    BY <1>2, <1>6, <2>2 DEF New, Status
  <2> HIDE DEF g
  <2> QED BY <1>2, <1>7, <2>1, <2>3, Moves
<1>9. CASE Parts(media, g) # {}
  <2>1. Parts(media', g) # {}
    BY <1>1
  <2>2. (\E d \in Parts(media', g) : media'[d].end = "final")
          <=> (\E d \in Parts(media, g) : media[d].end = "final")
    BY <1>1, <1>2, <1>3, <1>4
  <2>3. New(g) = Old(g)
    BY <1>9, <2>1, <2>2 DEF New, Old, Status
  <2> QED BY <1>7, <2>3, Stutters
<1> QED BY <1>8, <1>9

\* A programmed page finishes a held capture when it carries the final seal.
LEMMA PageMoves ==
  ASSUME StorageIInv, op.step = "page", UNCHANGED <<ledger, granted, signed>>,
         media' = [media EXCEPT ![op.block] = [media[op.block] EXCEPT !.end = PageEnd]]
  PROVE  VaultStep
<1> DEFINE g == journal.active
           b == op.block
           x == [media[b] EXCEPT !.end = PageEnd]
<1>1. /\ Extended(media, journal, op) /\ b = journal.last /\ journal.current = b
      /\ b \in Parts(media, g) /\ op.end \in End
  BY PageFacts
<1>2. /\ g \in Generation /\ g \notin Gens(granted) /\ b \in Block /\ b # None
  BY Programming, StorageAssumption DEF Programs
<1>3. PageEnd \in {"open", "final", "interrupted"}
  BY <1>1 DEF PageEnd, End
<1>4. x \in Seals(media[b])
  BY <1>3 DEF Seals
<1>5. /\ media'[b] = x /\ \A d \in Block : d # b => media'[d] = media[d]
      /\ \A h : Parts(media', h) = Parts(media, h)
  <2> HIDE DEF x
  <2>1. Sealing(media', x)
    BY <1>4, SealMedia DEF x
  <2> QED BY <2>1 DEF Sealing
<1>6. media'[b].end = PageEnd
  <2>1. media[b] \in [kind : {"part"}, gen : Generation, part : Nat, prev : Block \cup {None},
                      end : {"none", "open", "final", "interrupted"},
                      ckpt : {"blank", "valid", "unreadable"}]
    BY <1>1, Facts, PartsFacts, PartFacts
  <2> QED BY <1>5, <2>1
<1> HIDE DEF x
<1>7. \A d \in Parts(media, g) : media[d].end # "final"
  BY <1>1, <1>2 DEF Extended
<1>8. \A h \in Generation \ {g} : New(h) = Old(h)
  <2>1. ASSUME NEW h \in Generation \ {g}  PROVE  New(h) = Old(h)
    <3>1. b \notin Parts(media, h)
      BY <1>1 DEF Parts
    <3>2. Parts(media', h) = Parts(media, h) /\ \A d \in Parts(media, h) : media'[d] = media[d]
      BY <1>5, <3>1 DEF Parts
    <3> QED BY <3>2 DEF New, Old, Status
  <2> QED BY <2>1
<1>9. g <= ledger.counter
  BY <1>1, <1>2, Counted
<1>10. ~(g > ledger.counter)
  BY <1>2, <1>9, Facts DEF Snapshot, Generation
<1>11. Old(g) = "held"
  BY <1>1, <1>2, <1>7, <1>10 DEF Old, Status
<1>12. b \in Parts(media', g)
  BY <1>1, <1>5
<1>13. CASE PageEnd = "final"
  <2>1. New(g) = "final"
    BY <1>2, <1>6, <1>10, <1>12, <1>13 DEF New, Status
  <2> HIDE DEF g
  <2> QED BY <1>2, <1>8, <1>11, <2>1, Moves
<1>14. CASE PageEnd # "final"
  <2>1. \A d \in Parts(media', g) : media'[d].end # "final"
    BY <1>5, <1>6, <1>7, <1>14 DEF Parts
  <2>2. New(g) = "held"
    BY <1>2, <1>10, <1>12, <2>1 DEF New, Status
  <2> QED BY <1>8, <1>11, <2>2, Stutters
<1> QED BY <1>13, <1>14

\* A programmed checkpoint page, readable or not, moves nothing.
LEMMA CheckpointMoves ==
  ASSUME StorageIInv, op.step = "checkpoint", UNCHANGED <<ledger, granted, signed>>,
         NEW c \in {"blank", "valid", "unreadable"},
         media' = [media EXCEPT ![op.block] = [media[op.block] EXCEPT !.ckpt = c]]
  PROVE  VaultStep
<1> DEFINE b == op.block
           x == [media[b] EXCEPT !.ckpt = c]
<1>1. x \in Seals(media[b])
  BY DEF Seals
<1>2. /\ media'[b] = x /\ \A d \in Block : d # b => media'[d] = media[d]
      /\ \A h : Parts(media', h) = Parts(media, h)
  <2> HIDE DEF x
  <2>1. Sealing(media', x)
    BY <1>1, SealMedia DEF x
  <2> QED BY <2>1 DEF Sealing
<1>3. b \in Parts(media, journal.active)
  BY PageFacts
<1>4. media'[b].end = media[b].end
  <2>1. media[b] \in [kind : {"part"}, gen : Generation, part : Nat, prev : Block \cup {None},
                      end : {"none", "open", "final", "interrupted"},
                      ckpt : {"blank", "valid", "unreadable"}]
    BY <1>3, Facts, PartsFacts, PartFacts
  <2> QED BY <1>2, <2>1
<1>5. \A d \in Block : media'[d].end = media[d].end
  BY <1>2, <1>4
<1> HIDE DEF x
<1>6. \A h : \A d \in Parts(media, h) : media'[d].end = media[d].end
  BY <1>5 DEF Parts
<1> QED BY <1>2, <1>6, SameEnds

\* A stored reservation takes the next generation, a stored grant releases a
\* finished and permitted capture, and a retirement moves nothing.
LEMMA AdoptMoves ==
  ASSUME StorageIInv, op.step = "store", Adopt(op.next), UNCHANGED <<media, signed>>
  PROVE  VaultStep
<1>1. Storing(media, ledger, owner, journal, op, signed) /\ ledger' = op.next
  BY Facts DEF Running, Adopt
<1>2. ledger.counter \in Nat /\ MaxGeneration \in Nat
  BY Facts, StorageAssumption DEF Snapshot
<1>3. \A h \in Generation : h \in Nat /\ h >= 1
  BY DEF Generation
<1>4. \A h : Parts(media', h) = Parts(media, h)
  OBVIOUS
<1>5. CASE op.why = "reserve"
  <2> DEFINE g == ledger.counter + 1
  <2>1. /\ ledger.counter < MaxGeneration /\ ledger'.counter = g /\ granted' = granted
    BY <1>1, <1>5, Adopting DEF Storing
  <2>2. g \in Generation
    BY <1>2, <2>1 DEF Generation
  <2>3. Parts(media, g) = {} /\ g \notin Gens(granted)
    <3>1. opened \subseteq 1 .. ledger.counter
      BY Facts DEF Durable, Reserved
    <3>2. g \notin opened
      BY <1>2, <3>1
    <3> QED BY <3>2, Facts DEF Durable, Reserved, Parts
  <2>4. Old(g) = "unused"
    BY <1>2 DEF Old, Status
  <2>5. New(g) = "reserved"
    BY <1>2, <2>1, <2>3 DEF New, Status
  <2>6. ASSUME NEW h \in Generation \ {g}  PROVE  New(h) = Old(h)
    <3>1. h > ledger'.counter <=> h > ledger.counter
      BY <1>2, <1>3, <2>1, <2>6
    <3> QED BY <2>1, <3>1 DEF New, Old, Status
  <2>7. ASSUME NEW f \in Generation  PROVE  f < g <=> Old(f) # "unused"
    <3>1. f < g <=> ~(f > ledger.counter)
      BY <1>2, <1>3, <2>7
    <3> QED BY <3>1 DEF Old, Status
  <2> HIDE DEF g
  <2> QED BY <2>2, <2>4, <2>5, <2>6, <2>7, Moves
<1>6. CASE op.why = "grant"
  <2>1. ledger.phase = "idle"
    BY <1>1, <1>6 DEF Storing
  <2>2. PICK cmd \in signed : /\ cmd.seq = ledger.floor + 1 /\ Verified(media, cmd.gen)
                              /\ Receipt(media, cmd.gen) = "final"
                              /\ op.next = Grant(media, ledger, cmd)
    BY <1>1, <1>6 DEF Storing
  <2> DEFINE g == cmd.gen
  <2>3. cmd \in Command /\ g \in Generation /\ g \in Permitted
    BY <2>2, Facts DEF Command, Permitted
  <2>4. Fencing(media, ledger, ledger', opened, closed, granted, cmd)
    <3>1. /\ media \in Media /\ ledger \in Snapshot
          /\ Durable(media, ledger, opened, closed, granted)
      BY Facts
    <3> DEFINE k == Grant(media, ledger, cmd)
    <3>2. k = [ledger EXCEPT !.phase = "granted", !.floor = cmd.seq, !.last = cmd,
                             !.extents = Extents(media, cmd.gen)]
      BY DEF Grant
    <3> HIDE DEF k
    <3>3. Fencing(media, ledger, k, opened, closed, granted, cmd)
      BY <2>1, <2>2, <2>3, <3>1, <3>2, Granting
    <3> QED BY <1>1, <2>2, <3>3 DEF k
  <2>5. /\ g \notin Gens(granted) /\ ledger'.counter = ledger.counter
        /\ ledger'.phase = "granted" /\ ledger'.last = cmd
    BY <2>4 DEF Fencing
  <2>6. granted' = granted \cup {cmd}
    BY <1>1, <2>5 DEF Adopt
  <2>7. Gens(granted') = Gens(granted) \cup {g}
    BY <2>6 DEF Gens
  <2>8. Parts(media, g) # {}
    BY <2>2 DEF Verified
  <2>9. ~(g > ledger.counter)
    BY <1>2, <1>3, <2>3, <2>8, Counted
  <2>10. \E b \in Parts(media, g) : media[b].end = "final"
    <3>1. Chained(media, g) /\ media \in Media
      BY <2>3, <2>5, Facts DEF Durable, Whole
    <3> QED BY <2>2, <3>1, FinalLast
  <2>11. Old(g) = "final"
    BY <2>5, <2>8, <2>9, <2>10 DEF Old, Status
  <2>12. New(g) = "released"
    BY <2>5, <2>7, <2>9 DEF New, Status
  <2>13. \A h \in Generation \ {g} : New(h) = Old(h)
    BY <2>5, <2>7 DEF New, Old, Status
  <2> HIDE DEF g
  <2> QED BY <2>3, <2>11, <2>12, <2>13, Moves
<1>7. CASE op.why = "retire"
  <2>1. ledger' = [ledger EXCEPT !.phase = "idle", !.extents = << >>]
    BY <1>1, <1>7 DEF Storing
  <2>2. ledger'.phase = "idle" /\ ledger'.counter = ledger.counter
    BY <2>1, Facts DEF Snapshot
  <2>3. granted' = granted
    BY <1>1, <2>2 DEF Adopt
  <2> QED BY <2>2, <2>3, Stutters DEF New, Old, Status
<1> QED BY <1>1, <1>5, <1>6, <1>7 DEF Storing

\* A step that is cut short moves the vault as if it had been finished, or not
\* at all.
LEMMA InterruptedMoves ==
  ASSUME StorageIInv, Interrupted, signed' = signed
  PROVE  VaultStep
<1>1. CASE op = Idle
  BY <1>1, UntouchedVault DEF Interrupted, Idle, Programs
<1>2. CASE op.step = "store"
  <2>1. media' = media /\ (Adopt(op.next) \/ UNCHANGED <<ledger, granted>>)
    BY <1>2 DEF Interrupted, Idle, Programs
  <2> QED BY <1>2, <2>1, AdoptMoves, UntouchedVault
<1>3. CASE op.step = "erase"
  <2>1. /\ UNCHANGED <<ledger, granted>>
        /\ \E x \in {media[op.block], Blank} \cup Damaged :
             media' = [media EXCEPT ![op.block] = x]
    BY <1>3 DEF Interrupted, Idle, Programs
  <2>2. CASE media' = [media EXCEPT ![op.block] = media[op.block]]
    <3>1. media' = media
      BY <2>2, Facts DEF Media
    <3> QED BY <2>1, <3>1, UntouchedVault
  <2>3. CASE \E x \in {Blank} \cup Damaged : media' = [media EXCEPT ![op.block] = x]
    BY <1>3, <2>1, <2>3, WipeMoves
  <2> QED BY <2>1, <2>2, <2>3
<1>4. CASE op.step \in Programs
  <2>1. UNCHANGED <<ledger, granted>>
    BY <1>4 DEF Interrupted, Idle, Programs
  <2>2. PICK x \in Programmed(op.block) : media' = [media EXCEPT ![op.block] = x]
    BY <1>4 DEF Interrupted, Idle, Programs
  <2>3. CASE x = media[op.block]
    <3>1. media' = media
      BY <2>2, <2>3, Facts DEF Media
    <3> QED BY <2>1, <3>1, UntouchedVault
  <2>4. CASE op.step = "header" /\ x # media[op.block]
    <3>1. x = Part \/ x \in Damaged
      BY <2>2, <2>4 DEF Programmed
    <3>2. CASE x = Part
      BY <2>1, <2>2, <2>4, <3>2, HeaderMoves
    <3>3. CASE x \in Damaged
      BY <2>1, <2>2, <2>4, <3>3, WipeMoves
    <3> QED BY <3>1, <3>2, <3>3
  <2>5. CASE op.step = "page" /\ x # media[op.block]
    <3>1. x = [media[op.block] EXCEPT !.end = PageEnd]
      BY <2>2, <2>5 DEF Programmed
    <3> QED BY <2>1, <2>2, <2>5, <3>1, PageMoves
  <2>6. CASE op.step = "checkpoint"
    <3>1. \E c \in {"blank", "valid", "unreadable"} : x = [media[op.block] EXCEPT !.ckpt = c]
      BY <2>2, <2>6 DEF Programmed
    <3>2. PICK c \in {"blank", "valid", "unreadable"} :
            media' = [media EXCEPT ![op.block] = [media[op.block] EXCEPT !.ckpt = c]]
      BY <2>2, <3>1
    <3> QED BY <2>1, <2>6, <3>2, CheckpointMoves
  <2> QED BY <1>4, <2>3, <2>4, <2>5, <2>6 DEF Programs
<1> QED BY <1>1, <1>2, <1>3, <1>4 DEF Interrupted

\* The steps that come to their end do what the vault does.
LEMMA StepsMove ==
  ASSUME StorageIInv, Steps
  PROVE  VaultStep
<1>1. CASE HeaderDone
  BY <1>1, HeaderMoves DEF HeaderDone
<1>2. CASE PageDone
  <2>1. op.step = "page" /\ UNCHANGED <<ledger, granted, signed>>
    BY <1>2 DEF PageDone
  <2>2. media' = [media EXCEPT ![op.block] = [media[op.block] EXCEPT !.end = PageEnd]]
    BY <1>2 DEF PageDone
  <2> QED BY <2>1, <2>2, PageMoves
<1>3. CASE CheckpointDone
  <2>1. op.step = "checkpoint" /\ UNCHANGED <<ledger, granted, signed>>
    BY <1>3 DEF CheckpointDone
  <2>2. media' = [media EXCEPT ![op.block] = [media[op.block] EXCEPT !.ckpt = "valid"]]
    BY <1>3 DEF CheckpointDone
  <2> DEFINE c == "valid"
  <2>3. c \in {"blank", "valid", "unreadable"}
    OBVIOUS
  <2> QED BY <2>1, <2>2, CheckpointMoves
<1>4. CASE EraseDone
  BY <1>4, WipeMoves DEF EraseDone
<1>5. CASE StoreDone
  BY <1>5, AdoptMoves DEF StoreDone
<1> QED BY <1>1, <1>2, <1>3, <1>4, <1>5 DEF Steps

\* The owner of a listed recording permits its release.
LEMMA SignMoves ==
  ASSUME StorageIInv, NEW seq, NEW g \in Generation, Sign(seq, g)
  PROVE  VaultStep
<1>1. Statuses' = Statuses
  <2>1. UNCHANGED <<media, ledger, granted>>
    BY DEF Sign
  <2>2. \A h : New(h) = Old(h)
    BY <2>1 DEF New, Old, Status
  <2> QED BY <2>2, StatusIs
<1>2. Permitted' = Permitted \cup {g}
  <2> DEFINE e == IF Receipt(media, g) = "final" THEN "final" ELSE "interrupted"
             cmd == [seq |-> seq, gen |-> g, end |-> e]
  <2>1. signed' = signed \cup {cmd}
    BY DEF Sign
  <2>2. cmd.gen = g
    OBVIOUS
  <2> HIDE DEF cmd
  <2> QED BY <2>1, <2>2 DEF Permitted
<1>3. Parts(media, g) # {} /\ g \notin Gens(granted)
  <2>1. Parts(media, g) \ Fence(ledger) # {}
    BY DEF Sign, Listed
  <2> QED BY <2>1, Facts DEF Durable, Fenced
<1>4. ~(g > ledger.counter)
  BY <1>3, Counted, Facts DEF Snapshot, Generation
<1>5. Statuses[g] \in {"held", "final"}
  <2>1. Old(g) \in {"held", "final"}
    BY <1>3, <1>4 DEF Old, Status
  <2> QED BY <2>1, StatusIs
<1>6. Vault!Permit(g)
  BY <1>1, <1>2, <1>5 DEF Vault!Permit, Statuses, Permitted
<1> QED BY <1>6 DEF Vault!Next, VaultStep

\* Every step of the owner is one of the vault, or none.
LEMMA NextMoves ==
  ASSUME StorageIInv, [Next]_vars
  PROVE  VaultStep
<1>1. CASE \/ Open \/ PrepareCapture \/ CancelPrepared \/ Prepare \/ PrepareRetry
           \/ StartCapture \/ ReleaseStep \/ ProgramRefused \/ UNCHANGED vars
           \/ \E end \in {"open", "full", "final", "interrupted"} : Flush(end)
           \/ \E cmd \in signed : RequestRelease(cmd)
  <2>1. UNCHANGED <<media, ledger, granted, signed>>
    BY <1>1 DEF Open, PrepareCapture, CancelPrepared, Prepare, PrepareRetry, StartCapture,
       ReleaseStep, ProgramRefused, vars, Flush, RequestRelease
  <2> QED BY <2>1, UntouchedVault
<1>2. CASE \E seq \in 1 .. MaxRelease, g \in Generation : Sign(seq, g)
  BY <1>2, SignMoves
<1>3. CASE Steps
  BY <1>3, StepsMove
<1>4. CASE StepFails \/ PowerCut
  BY <1>4, InterruptedMoves DEF StepFails, PowerCut
<1> QED BY <1>1, <1>2, <1>3, <1>4 DEF Next

\* The storage owner implements the capture vault: through every interleaving
\* of failures and power cuts a capture only moves from unused over reserved,
\* held and final to released, the last with its owner's permission.
THEOREM StorageImplementsVault == Spec => ImplementsVault
<1>1. Init => Vault!Init
  <2>1. SUFFICES ASSUME Init  PROVE  Vault!Init
    OBVIOUS
  <2>2. ledger.counter = 0 /\ signed = {}
    BY <2>1 DEF Init
  <2>3. \A g \in Generation : StatusOf(g) = "unused"
    BY <2>2 DEF StatusOf, Generation
  <2> QED BY <2>2, <2>3 DEF Vault!Init
<1>2. StorageIInv /\ [Next]_vars => VaultStep
  BY NextMoves
<1> QED BY <1>1, <1>2, StorageInductive, PTL
        DEF Spec, ImplementsVault, Vault!Spec, VaultStep, Statuses, Permitted
===============================================================================
