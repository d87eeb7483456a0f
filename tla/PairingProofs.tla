----------------------------- MODULE PairingProofs -----------------------------
(***************************************************************************)
(* The pairing policy for every set of connection objects and keys, number *)
(* of attempts, events, windows and link generations: what the console     *)
(* shows goes forward, a connection whose attempt ended without success is *)
(* hung up, and no reference to a connection is lost or given back twice.  *)
(***************************************************************************)
EXTENDS Pairing, SequenceTheorems, FiniteSetTheorems, TLAPS

-----------------------------------------------------------------------------
(* Frames.                                                                 *)

Calls     == {"check", "hangup", "auth", "unref", "failed"}
Callbacks == {"accept", "secured", "weak", "display"}
Looks     == {"look", "report"}
Holders   == {"unref", "look", "report"}
Hanging   == {"check", "hangup", "auth", "failed"}

Ops(t) ==
  Calls \cup CASE t = "owner" -> Looks \cup {"expire", "open", "close", "pop", "arm"}
               [] t = "work"  -> {"expire", "poll", "arm"}
               [] OTHER       -> Callbacks \cup {"gone", "unlink"}

Op == Ops("owner") \cup Ops("work") \cup Ops("stack")

FrameType == [op : Op, conn : Conns \cup {None}, gen : Nat,
              arg : Passkeys \cup {None} \cup Event]

\* The frames of thread t carry what their sections use.
Fit(t) ==
  {f \in FrameType :
     /\ f.op \in Ops(t)
     /\ f.op \in Calls \cup Callbacks \cup Looks \cup {"gone", "unlink"} => f.conn \in Conns
     /\ f.op = "arm" => f.gen \in 0 .. MaxWindow
     /\ f.op = "display" => f.arg \in Passkeys
     /\ f.op \in Looks => f.arg \in Event}

Pending(s) == {s[i] : i \in DOMAIN s}

\* What may be left behind the frame that a thread executes.
Rests == {"open", "pop", "poll", "unref", "gone", "unlink"}

AtTop(s, ops) == s # <<>> /\ Head(s).op \in ops

\* What the threads have to do: only the top frame is about an attempt, a
\* callback is alone, and only its own frames are behind it.
Queued(td) ==
  /\ DOMAIN td = Threads
  /\ \A t \in Threads :
       /\ td[t] \in Seq(Fit(t))
       /\ td[t] # <<>> => \A f \in Pending(Tail(td[t])) : f.op \in Rests
  /\ AtTop(td["stack"], Callbacks) => Tail(td["stack"]) = <<>>
  /\ \A i, j \in DOMAIN td["stack"] :
       td["stack"][i].op = "unlink" /\ td["stack"][j].op = "unlink" => i = j

Busy(s) == s # <<>> /\ Head(s).op # "auth"

\* At most one cooperative thread runs.
Exclusive(td) == ~(Busy(td["stack"]) /\ Busy(td["work"]))

-----------------------------------------------------------------------------
(* The policy p, the link l, the threads td, the event d that was told     *)
(* last, and whether the link is spoiled.                                  *)

PolicyType ==
  [window : 0 .. MaxWindow, due : BOOLEAN, counter : 0 .. MaxWindow,
   attempt : Conns \cup {None}, attemptWindow : 0 .. MaxWindow,
   connection : 0 .. MaxGen, attempts : 0 .. AttemptsMax, events : Seq(Event)]

LinkType == [conn : Conns \cup {None}, gen : 0 .. MaxGen, counter : 0 .. MaxGen]

\* An attempt has a window and a connection, and the queue holds its keys; else
\* the queue holds at most how the last attempt ended.
Policy(p) ==
  /\ p \in PolicyType /\ Len(p.events) <= EventsMax
  /\ p.window \in {0, p.counter}
  /\ p.attempt = None => /\ p.connection = 0 /\ Len(p.events) <= 1
                         /\ \A e \in Pending(p.events) : e.kind # "passkey"
  /\ p.attempt # None => /\ p.attemptWindow \in 1 .. p.window /\ p.connection # 0
                         /\ \A e \in Pending(p.events) :
                              e.kind = "passkey" /\ e.connection = p.connection
  /\ \A e \in Pending(p.events) :
       /\ e.window = p.counter
       /\ e.kind \in {"complete", "expired"} => p.window = 0

\* Generations are new, and an attempt of the current one is on its connection.
Connected(p, l) ==
  /\ l \in LinkType
  /\ l.conn = None => l.gen = 0
  /\ l.gen \in {0, l.counter}
  /\ p.connection <= l.counter
  /\ \A e \in Pending(p.events) : e.connection <= l.counter
  /\ p.attempt # None /\ p.connection = l.gen => p.attempt = l.conn

\* What the frames know of the policy and the link.
Informed(td, p, l) ==
  /\ AtTop(td["stack"], Callbacks) =>
       Head(td["stack"]).conn = l.conn /\ Head(td["stack"]).gen = l.gen
  /\ AtTop(td["owner"], Hanging) => p.window = 0
  /\ \A f \in Pending(td["stack"]) :
       /\ f.op = "unlink" => f.conn = l.conn
       /\ f.op = "gone" => l.gen = 0 \/ \E h \in Pending(td["stack"]) : h.op = "unlink"

\* The event e may be told after d.
Later(e, d) ==
  /\ e.connection # 0 => e.connection >= d.connection
  /\ e.kind = "passkey" /\ d.kind = "cancelled" => e.connection > d.connection

\* The event d is not ahead of the attempts and events to come.
Behind(d, p, l) ==
  /\ d.connection <= l.counter
  /\ p.attempt # None => p.connection >= d.connection
  /\ \A e \in Pending(p.events) : e.connection # 0 => e.connection >= d.connection

\* Neither the key that the owner looks at nor what was told is ahead, and nothing
\* that contradicts what was told can still be told.
Forward(td, p, l, d) ==
  /\ AtTop(td["owner"], Looks) => /\ Head(td["owner"]).arg.kind = "passkey"
                                  /\ Behind(Head(td["owner"]).arg, p, l)
                                  /\ d # None => Later(Head(td["owner"]).arg, d)
  /\ d # None => /\ d \in Event /\ d.window <= p.counter /\ Behind(d, p, l)
                 /\ d.kind = "cancelled" /\ p.attempt # None => p.connection > d.connection
                 /\ d.kind \in {"complete", "expired"} /\ d.window = p.counter =>
                      p.window = 0 /\ p.events = <<>>

\* Of the current generation, what was cancelled is spoiled.
Cancelled(e, l) == e.kind = "cancelled" /\ e.connection = l.gen /\ l.gen # 0

Barred(p, l, d, sp) ==
  /\ \A e \in Pending(p.events) : Cancelled(e, l) => sp
  /\ d # None /\ Cancelled(d, l) => sp

\* A frame that hangs up the link.
Ending(f, l) ==
  /\ f.conn = l.conn
  /\ (f.op \in {"check", "hangup"} /\ f.gen = l.gen) \/ f.op = "unlink"

Doomed(td, l, sp) ==
  sp => l.gen # 0 /\ \E t \in Threads : \E f \in Pending(td[t]) : Ending(f, l)

\* References to connection c: of the frames, the link and the attempt.
Holds(f, c) == f.conn = c /\ f.op \in Holders
Count(s, c) == Cardinality({i \in DOMAIN s : Holds(s[i], c)})
Total(td, c) == Count(td["stack"], c) + Count(td["work"], c) + Count(td["owner"], c)
One(b) == IF b THEN 1 ELSE 0

Balanced(td, p, l, r) ==
  \A c \in Conns : r[c] = Total(td, c) + One(l.conn = c) + One(p.attempt = c)

\* The inductive invariant.
PairingIInv ==
  /\ timer \in 0 .. MaxWindow /\ refs \in [Conns -> Nat]
  /\ told \in Event \cup {None} /\ spoiled \in BOOLEAN
  /\ Queued(todo) /\ Exclusive(todo)
  /\ Policy(pairing) /\ Connected(pairing, link) /\ Informed(todo, pairing, link)
  /\ Forward(todo, pairing, link, told) /\ Barred(pairing, link, told, spoiled)
  /\ Doomed(todo, link, spoiled)
  /\ Balanced(todo, pairing, link, refs)

-----------------------------------------------------------------------------
(* Sequences of frames.                                                    *)

\* A sequence is its head and what is behind it.
LEMMA PendingParts ==
  ASSUME NEW S, NEW s \in Seq(S), s # <<>>
  PROVE  /\ Head(s) \in S /\ Tail(s) \in Seq(S)
         /\ Pending(s) = {Head(s)} \cup Pending(Tail(s))
         /\ Pending(s) \subseteq S
<1>1. /\ Len(s) \in Nat /\ Len(s) # 0 /\ DOMAIN s = 1 .. Len(s) /\ s[1] = Head(s)
      /\ Head(s) \in S /\ Tail(s) \in Seq(S) /\ Len(Tail(s)) = Len(s) - 1
      /\ \A i \in 1 .. Len(Tail(s)) : Tail(s)[i] = s[i + 1]
      /\ DOMAIN Tail(s) = 1 .. Len(Tail(s)) /\ \A i \in DOMAIN s : s[i] \in S
  BY HeadTailProperties, LenProperties
<1>2. ASSUME NEW i \in DOMAIN s  PROVE  s[i] \in {Head(s)} \cup Pending(Tail(s))
  <2>1. CASE i = 1
    BY <1>1, <2>1
  <2>2. CASE i # 1
    <3>1. i - 1 \in DOMAIN Tail(s) /\ Tail(s)[i - 1] = s[i]
      BY <1>1, <1>2, <2>2
    <3> QED BY <3>1 DEF Pending
  <2> QED BY <2>1, <2>2
<1>3. ASSUME NEW i \in DOMAIN Tail(s)  PROVE  Tail(s)[i] \in Pending(s)
  <2>1. i + 1 \in DOMAIN s /\ Tail(s)[i] = s[i + 1]
    BY <1>1, <1>3
  <2> QED BY <2>1 DEF Pending
<1>4. Head(s) \in Pending(s)
  <2>1. 1 \in DOMAIN s
    BY <1>1
  <2> QED BY <1>1, <2>1 DEF Pending
<1> QED BY <1>1, <1>2, <1>3, <1>4 DEF Pending

\* What is pending after frames were put in front of others.
LEMMA PendingConcat ==
  ASSUME NEW S, NEW s \in Seq(S), NEW r \in Seq(S)
  PROVE  Pending(s \o r) = Pending(s) \cup Pending(r)
<1>1. /\ Len(s) \in Nat /\ Len(r) \in Nat
      /\ DOMAIN s = 1 .. Len(s) /\ DOMAIN r = 1 .. Len(r)
      /\ DOMAIN (s \o r) = 1 .. (Len(s) + Len(r))
      /\ \A i \in 1 .. (Len(s) + Len(r)) :
           (s \o r)[i] = IF i <= Len(s) THEN s[i] ELSE r[i - Len(s)]
  BY ConcatProperties, LenProperties
<1>2. ASSUME NEW i \in DOMAIN (s \o r)  PROVE  (s \o r)[i] \in Pending(s) \cup Pending(r)
  <2>1. CASE i <= Len(s)
    BY <1>1, <1>2, <2>1 DEF Pending
  <2>2. CASE ~(i <= Len(s))
    <3>1. i - Len(s) \in DOMAIN r /\ (s \o r)[i] = r[i - Len(s)]
      BY <1>1, <1>2, <2>2
    <3> QED BY <3>1 DEF Pending
  <2> QED BY <2>1, <2>2
<1>3. ASSUME NEW i \in DOMAIN s  PROVE  s[i] \in Pending(s \o r)
  <2>1. i \in DOMAIN (s \o r) /\ (s \o r)[i] = s[i]
    BY <1>1, <1>3
  <2> QED BY <2>1 DEF Pending
<1>4. ASSUME NEW i \in DOMAIN r  PROVE  r[i] \in Pending(s \o r)
  <2>1. i + Len(s) \in DOMAIN (s \o r) /\ (s \o r)[i + Len(s)] = r[i]
    BY <1>1, <1>4
  <2> QED BY <2>1 DEF Pending
<1> QED BY <1>2, <1>3, <1>4 DEF Pending

\* No frame.
LEMMA Nothing ==
  ASSUME NEW S, NEW c
  PROVE  <<>> \in Seq(S) /\ Pending(<<>>) = {} /\ Count(<<>>, c) = 0
<1>1. {i \in DOMAIN <<>> : Holds(<<>>[i], c)} = {}
  OBVIOUS
<1>2. Count(<<>>, c) = 0
  BY <1>1, FS_EmptySet DEF Count
<1> QED BY <1>2 DEF Pending

\* One frame.
LEMMA Single ==
  ASSUME NEW S, NEW f \in S, NEW c
  PROVE  /\ <<f>> \in Seq(S) /\ <<f>> # <<>> /\ Head(<<f>>) = f /\ Tail(<<f>>) = <<>>
         /\ Pending(<<f>>) = {f} /\ Count(<<f>>, c) = One(Holds(f, c))
<1>1. Pending(<<f>>) = {f}
  BY DEF Pending
<1>2. CASE Holds(f, c)
  <2>1. {i \in DOMAIN <<f>> : Holds(<<f>>[i], c)} = {1}
    BY <1>2
  <2>2. Count(<<f>>, c) = 1
    BY <2>1, FS_Singleton DEF Count
  <2> QED BY <1>1, <1>2, <2>2 DEF One
<1>3. CASE ~Holds(f, c)
  <2>1. {i \in DOMAIN <<f>> : Holds(<<f>>[i], c)} = {}
    BY <1>3
  <2>2. Count(<<f>>, c) = 0
    BY <2>1, FS_EmptySet DEF Count
  <2> QED BY <1>1, <1>3, <2>2 DEF One
<1> QED BY <1>2, <1>3

\* Two frames.
LEMMA Pair ==
  ASSUME NEW S, NEW f \in S, NEW g \in S
  PROVE  /\ <<f, g>> \in Seq(S) /\ <<f, g>> # <<>> /\ Head(<<f, g>>) = f
         /\ Tail(<<f, g>>) = <<g>> /\ Pending(<<f, g>>) = {f, g}
         /\ <<f, g>> = <<f>> \o <<g>>
<1>3. /\ <<f, g>> \in Seq(S) /\ <<f, g>> # <<>> /\ Head(<<f, g>>) = f
      /\ Tail(<<f, g>>) = <<g>> /\ <<g>> \in Seq(S) /\ <<f>> \in Seq(S)
  OBVIOUS
<1>4. Pending(<<g>>) = {g}
  BY DEF Pending
<1>5. Pending(<<f, g>>) = {f, g}
  <2> DEFINE h == <<f, g>>
  <2>1. h \in Seq(S) /\ h # <<>> /\ Head(h) = f /\ Tail(h) = <<g>>
    BY <1>3
  <2> HIDE DEF h
  <2>2. Pending(h) = {Head(h)} \cup Pending(Tail(h))
    BY <2>1, PendingParts
  <2> QED BY <1>4, <2>1, <2>2 DEF h
<1>6. <<f, g>> = <<f>> \o <<g>>
  <2> DEFINE a == <<f>>
             b == <<g>>
             h == <<f, g>>
  <2>1. /\ a \in Seq(S) /\ b \in Seq(S) /\ h \in Seq(S) /\ Len(a) = 1 /\ Len(b) = 1
        /\ Len(h) = 2 /\ a[1] = f /\ b[1] = g /\ h[1] = f /\ h[2] = g
    OBVIOUS
  <2> HIDE DEF a, b, h
  <2>2. /\ a \o b \in Seq(S) /\ Len(a \o b) = Len(a) + Len(b)
        /\ \A i \in 1 .. Len(a) + Len(b) :
             (a \o b)[i] = IF i <= Len(a) THEN a[i] ELSE b[i - Len(a)]
    BY <2>1, ConcatProperties
  <2>3. (a \o b)[1] = f /\ (a \o b)[2] = g /\ Len(a \o b) = 2
    BY <2>1, <2>2
  <2>4. \A i \in 1 .. 2 : (a \o b)[i] = h[i]
    BY <2>1, <2>3
  <2>5. h = a \o b
    BY <2>1, <2>2, <2>3, <2>4, SeqEqual
  <2> QED BY <2>5 DEF a, b, h
<1> QED BY <1>3, <1>5, <1>6

\* The frames fr in the place of the head of s.
LEMMA Spliced ==
  ASSUME NEW S, NEW s \in Seq(S), s # <<>>, NEW fr \in Seq(S)
  PROVE  LET n == fr \o Tail(s)
         IN  /\ n \in Seq(S)
             /\ Pending(n) = Pending(fr) \cup Pending(Tail(s))
             /\ fr = <<>> => n = Tail(s)
             /\ fr # <<>> => /\ n # <<>> /\ Head(n) = Head(fr)
                             /\ Pending(Tail(n)) = Pending(Tail(fr)) \cup Pending(Tail(s))
<1> DEFINE r == Tail(s)
           n == fr \o r
<1>1. r \in Seq(S)
  BY PendingParts
<1> HIDE DEF r
<1>2. n \in Seq(S) /\ Pending(n) = Pending(fr) \cup Pending(r)
  BY <1>1, PendingConcat, ConcatProperties
<1>3. fr = <<>> => n = r
  BY <1>1, ConcatEmptySeq
<1>4. ASSUME fr # <<>>  PROVE  n # <<>> /\ Head(n) = Head(fr) /\ Tail(n) = Tail(fr) \o r
  <2>1. /\ Len(fr) \in Nat /\ Len(fr) # 0 /\ Len(r) \in Nat /\ Len(n) = Len(fr) + Len(r)
        /\ \A i \in 1 .. Len(fr) + Len(r) : n[i] = IF i <= Len(fr) THEN fr[i] ELSE r[i - Len(fr)]
        /\ Tail(fr) \in Seq(S) /\ Len(Tail(fr)) = Len(fr) - 1 /\ fr[1] = Head(fr)
        /\ \A i \in 1 .. Len(Tail(fr)) : Tail(fr)[i] = fr[i + 1]
    BY <1>1, <1>4, ConcatProperties, HeadTailProperties, LenProperties
  <2>2. n # <<>> /\ n[1] = fr[1]
    BY <1>2, <2>1
  <2>3. Head(n) = Head(fr)
    BY <1>2, <2>1, <2>2
  <2>4. /\ Tail(n) \in Seq(S) /\ Len(Tail(n)) = Len(n) - 1
        /\ \A i \in 1 .. Len(Tail(n)) : Tail(n)[i] = n[i + 1]
        /\ DOMAIN Tail(n) = 1 .. Len(Tail(n))
    BY <1>2, <2>2, HeadTailProperties, LenProperties
  <2> DEFINE m == Tail(fr) \o r
  <2>5. /\ m \in Seq(S) /\ Len(m) = Len(fr) - 1 + Len(r)
        /\ \A i \in 1 .. Len(m) :
             m[i] = IF i <= Len(fr) - 1 THEN Tail(fr)[i] ELSE r[i - (Len(fr) - 1)]
        /\ DOMAIN m = 1 .. Len(m)
    <3>1. /\ m \in Seq(S) /\ Len(m) = Len(Tail(fr)) + Len(r)
          /\ \A i \in 1 .. Len(Tail(fr)) + Len(r) :
               m[i] = IF i <= Len(Tail(fr)) THEN Tail(fr)[i] ELSE r[i - Len(Tail(fr))]
      BY <1>1, <2>1, ConcatProperties
    <3>2. DOMAIN m = 1 .. Len(m)
      BY <3>1, LenProperties
    <3> QED BY <2>1, <3>1, <3>2
  <2> HIDE DEF m, n
  <2>6. Len(Tail(n)) = Len(m)
    BY <2>1, <2>4, <2>5
  <2>7. ASSUME NEW i \in 1 .. Len(m)  PROVE  Tail(n)[i] = m[i]
    <3>1. Tail(n)[i] = n[i + 1] /\ i \in Nat /\ i >= 1 /\ i + 1 \in 1 .. Len(fr) + Len(r)
      BY <2>1, <2>4, <2>5, <2>6, <2>7
    <3>2. CASE i + 1 <= Len(fr)
      <4>1. i \in 1 .. Len(Tail(fr)) /\ i <= Len(fr) - 1
        BY <2>1, <3>1, <3>2
      <4> QED BY <2>1, <2>5, <2>7, <3>1, <3>2, <4>1
    <3>3. CASE ~(i + 1 <= Len(fr))
      <4>1. ~(i <= Len(fr) - 1) /\ (i + 1) - Len(fr) = i - (Len(fr) - 1)
        BY <2>1, <3>1, <3>3
      <4> QED BY <2>1, <2>5, <2>7, <3>1, <3>3, <4>1
    <3> QED BY <3>2, <3>3
  <2>8. Tail(n) = m
    BY <2>4, <2>5, <2>6, <2>7, SeqEqual
  <2> QED BY <2>2, <2>3, <2>8 DEF m
<1>5. ASSUME fr # <<>>  PROVE  Pending(Tail(n)) = Pending(Tail(fr)) \cup Pending(r)
  <2>1. Tail(fr) \in Seq(S)
    BY <1>5, PendingParts
  <2> QED BY <1>1, <1>4, <1>5, <2>1, PendingConcat
<1> QED BY <1>2, <1>3, <1>4, <1>5 DEF r

-----------------------------------------------------------------------------
(* References.                                                             *)

\* The frames that hold a reference are finitely many.
LEMMA CountNat ==
  ASSUME NEW S, NEW s \in Seq(S), NEW c
  PROVE  /\ IsFiniteSet({i \in DOMAIN s : Holds(s[i], c)}) /\ Count(s, c) \in Nat
<1>1. DOMAIN s = 1 .. Len(s) /\ Len(s) \in Nat
  BY LenProperties
<1>2. IsFiniteSet(DOMAIN s)
  BY <1>1, FS_Interval
<1>3. IsFiniteSet({i \in DOMAIN s : Holds(s[i], c)})
  BY <1>2, FS_Subset
<1> QED BY <1>3, FS_CardinalityType DEF Count

\* References add up.
LEMMA CountConcat ==
  ASSUME NEW S, NEW s \in Seq(S), NEW r \in Seq(S), NEW c
  PROVE  Count(s \o r, c) = Count(s, c) + Count(r, c)
<1> DEFINE n == s \o r
           A == {i \in DOMAIN s : Holds(s[i], c)}
           B == {i \in DOMAIN r : Holds(r[i], c)}
           D == {i \in DOMAIN n : Holds(n[i], c)}
           E == {i + Len(s) : i \in B}
<1>1. /\ Len(s) \in Nat /\ Len(r) \in Nat
      /\ DOMAIN s = 1 .. Len(s) /\ DOMAIN r = 1 .. Len(r)
      /\ DOMAIN n = 1 .. (Len(s) + Len(r))
      /\ \A i \in 1 .. (Len(s) + Len(r)) : n[i] = IF i <= Len(s) THEN s[i] ELSE r[i - Len(s)]
  BY ConcatProperties, LenProperties
<1> HIDE DEF n
<1>2. IsFiniteSet(A) /\ IsFiniteSet(B) /\ B \subseteq Nat
  <2>1. IsFiniteSet(A)
    BY CountNat
  <2>2. IsFiniteSet(B)
    BY CountNat
  <2>3. B \subseteq Nat
    BY <1>1
  <2> QED BY <2>1, <2>2, <2>3
<1>3. IsFiniteSet(E) /\ Cardinality(E) = Cardinality(B)
  <2> DEFINE h == [i \in B |-> i + Len(s)]
  <2>1. h \in Bijection(B, E)
    <3>1. h \in [B -> E]
      OBVIOUS
    <3>2. \A i, j \in B : h[i] = h[j] => i = j
      BY <1>1, <1>2
    <3>3. \A e \in E : \E i \in B : h[i] = e
      OBVIOUS
    <3> QED BY <3>1, <3>2, <3>3 DEF Bijection, Injection, Surjection, IsInjective
  <2>2. ExistsBijection(B, E)
    BY <2>1 DEF ExistsBijection
  <2> QED BY <1>2, <2>2, FS_Bijection
<1>4. D = A \cup E
  <2>1. ASSUME NEW i \in D  PROVE  i \in A \cup E
    <3>1. CASE i <= Len(s)
      BY <1>1, <2>1, <3>1
    <3>2. CASE ~(i <= Len(s))
      <4>1. i \in 1 .. (Len(s) + Len(r)) /\ Holds(n[i], c)
        BY <1>1, <2>1
      <4>2. i - Len(s) \in 1 .. Len(r) /\ i = (i - Len(s)) + Len(s) /\ n[i] = r[i - Len(s)]
        BY <1>1, <3>2, <4>1
      <4>3. i - Len(s) \in B
        BY <1>1, <4>1, <4>2
      <4> QED BY <4>2, <4>3
    <3> QED BY <3>1, <3>2
  <2>2. ASSUME NEW i \in A  PROVE  i \in D
    BY <1>1, <2>2
  <2>3. ASSUME NEW i \in B  PROVE  i + Len(s) \in D
    <3>1. i + Len(s) \in DOMAIN n /\ n[i + Len(s)] = r[i]
      BY <1>1, <2>3
    <3> QED BY <2>3, <3>1
  <2> QED BY <2>1, <2>2, <2>3
<1>5. A \cap E = {}
  <2>1. ASSUME NEW i \in B  PROVE  i + Len(s) \notin A
    BY <1>1, <2>1
  <2> QED BY <2>1
<1>6. Cardinality(A \cap E) = 0
  BY <1>5, FS_EmptySet
<1>7. Cardinality(D) = Cardinality(A) + Cardinality(E) - 0
  <2> HIDE DEF A, E, D
  <2> QED BY <1>2, <1>3, <1>4, <1>6, FS_Union
<1>8. Cardinality(A) \in Nat /\ Cardinality(B) \in Nat
  BY CountNat DEF Count
<1>9. Count(n, c) = Cardinality(D) /\ Count(s, c) = Cardinality(A) /\ Count(r, c) = Cardinality(B)
  BY DEF Count
<1> HIDE DEF A, B, D, E
<1> QED BY <1>3, <1>7, <1>8, <1>9 DEF n

\* The references of two frames.
LEMMA CountPair ==
  ASSUME NEW S, NEW f \in S, NEW g \in S, NEW c
  PROVE  Count(<<f, g>>, c) = One(Holds(f, c)) + One(Holds(g, c))
<1> DEFINE a == <<f>>
           b == <<g>>
<1>1. /\ a \in Seq(S) /\ Count(a, c) = One(Holds(f, c))
      /\ b \in Seq(S) /\ Count(b, c) = One(Holds(g, c))
  BY Single
<1>2. <<f, g>> = a \o b
  BY Pair
<1> HIDE DEF a, b
<1>3. Count(a \o b, c) = Count(a, c) + Count(b, c)
  BY <1>1, CountConcat
<1> QED BY <1>1, <1>2, <1>3

\* The references of a sequence whose head was replaced.
LEMMA CountSpliced ==
  ASSUME NEW S, NEW s \in Seq(S), s # <<>>, NEW fr \in Seq(S), NEW c
  PROVE  Count(fr \o Tail(s), c) + One(Holds(Head(s), c)) = Count(s, c) + Count(fr, c)
<1> DEFINE r == Tail(s)
           f == Head(s)
<1>1. r \in Seq(S) /\ f \in S
  BY HeadTailProperties
<1>2. s = <<f>> \o r
  <2>1. /\ Len(s) \in Nat /\ Len(s) # 0 /\ Len(r) = Len(s) - 1 /\ s[1] = f
        /\ \A i \in 1 .. Len(r) : r[i] = s[i + 1]
    BY HeadTailProperties, LenProperties
  <2> DEFINE n == <<f>> \o r
             h == <<f>>
  <2>2. h \in Seq(S) /\ Len(h) = 1 /\ h[1] = f
    BY <1>1
  <2> HIDE DEF h
  <2>3. /\ n \in Seq(S) /\ Len(n) = 1 + Len(r)
        /\ \A i \in 1 .. Len(h) + Len(r) : n[i] = IF i <= Len(h) THEN h[i] ELSE r[i - Len(h)]
    BY <1>1, <2>2, ConcatProperties DEF h
  <2> HIDE DEF n, r, f
  <2>4. Len(n) = Len(s)
    BY <2>1, <2>3
  <2>5. ASSUME NEW i \in 1 .. Len(s)  PROVE  n[i] = s[i]
    <3>1. CASE i = 1
      BY <2>1, <2>2, <2>3, <3>1
    <3>2. CASE i # 1
      <4>1. i - 1 \in 1 .. Len(r) /\ (i - 1) + 1 = i /\ ~(i <= 1) /\ i \in 1 .. 1 + Len(r)
        BY <2>1, <2>5, <3>2
      <4> QED BY <2>1, <2>2, <2>3, <4>1
    <3> QED BY <3>1, <3>2
  <2>6. s = n
    BY <2>3, <2>4, <2>5, SeqEqual
  <2> QED BY <2>6 DEF n, r, f
<1>3. /\ Count(<<f>>, c) \in Nat /\ Count(r, c) \in Nat /\ Count(fr, c) \in Nat
      /\ Count(<<f>>, c) = One(Holds(f, c)) /\ <<f>> \in Seq(S)
  <2>1. Count(<<f>>, c) = One(Holds(f, c)) /\ <<f>> \in Seq(S)
    BY <1>1, Single
  <2>2. Count(r, c) \in Nat
    BY <1>1, CountNat
  <2>3. Count(fr, c) \in Nat
    BY CountNat
  <2> QED BY <2>1, <2>2, <2>3 DEF One
<1> HIDE DEF r, f
<1>4. Count(s, c) = Count(<<f>>, c) + Count(r, c)
  BY <1>1, <1>2, <1>3, CountConcat
<1>5. Count(fr \o r, c) = Count(fr, c) + Count(r, c)
  BY <1>1, CountConcat
<1> QED BY <1>3, <1>4, <1>5 DEF r, f

\* No second "unlink" comes with frames that are none.
LEMMA OneUnlink ==
  ASSUME NEW S, NEW s \in Seq(S), s # <<>>, NEW fr \in Seq(S),
         \A f \in Pending(fr) : f.op # "unlink",
         \A i, j \in DOMAIN s : s[i].op = "unlink" /\ s[j].op = "unlink" => i = j
  PROVE  LET n == fr \o Tail(s)
         IN  \A i, j \in DOMAIN n : n[i].op = "unlink" /\ n[j].op = "unlink" => i = j
<1> DEFINE r == Tail(s)
           n == fr \o r
<1>1. /\ r \in Seq(S) /\ Len(s) \in Nat /\ Len(r) = Len(s) - 1
      /\ \A i \in 1 .. Len(r) : r[i] = s[i + 1]
      /\ DOMAIN s = 1 .. Len(s)
  BY HeadTailProperties, LenProperties
<1> HIDE DEF r
<1>2. /\ Len(fr) \in Nat /\ Len(r) \in Nat /\ DOMAIN fr = 1 .. Len(fr)
      /\ DOMAIN n = 1 .. (Len(fr) + Len(r))
      /\ \A i \in 1 .. (Len(fr) + Len(r)) : n[i] = IF i <= Len(fr) THEN fr[i] ELSE r[i - Len(fr)]
  <2>1. Len(fr) \in Nat /\ Len(r) \in Nat /\ DOMAIN fr = 1 .. Len(fr)
    BY <1>1, LenProperties
  <2>2. /\ n \in Seq(S) /\ Len(n) = Len(fr) + Len(r)
        /\ \A i \in 1 .. (Len(fr) + Len(r)) : n[i] = IF i <= Len(fr) THEN fr[i] ELSE r[i - Len(fr)]
    BY <1>1, ConcatProperties
  <2> HIDE DEF n
  <2>3. DOMAIN n = 1 .. Len(n)
    BY <2>2, LenProperties
  <2> QED BY <2>1, <2>2, <2>3
<1> HIDE DEF n
<1>3. ASSUME NEW i \in DOMAIN n, n[i].op = "unlink"
      PROVE  i \in Nat /\ (i - Len(fr)) + 1 \in DOMAIN s /\ n[i] = s[(i - Len(fr)) + 1]
  <2>1. CASE i <= Len(fr)
    <3>1. i \in DOMAIN fr /\ n[i] = fr[i]
      BY <1>2, <1>3, <2>1
    <3> QED BY <1>3, <3>1 DEF Pending
  <2>2. CASE ~(i <= Len(fr))
    <3>1. i - Len(fr) \in 1 .. Len(r) /\ n[i] = r[i - Len(fr)]
      BY <1>2, <1>3, <2>2
    <3> QED BY <1>1, <1>2, <1>3, <3>1
  <2> QED BY <2>1, <2>2
<1>4. ASSUME NEW i \in DOMAIN n, NEW j \in DOMAIN n, n[i].op = "unlink", n[j].op = "unlink"
      PROVE  i = j
  <2>1. (i - Len(fr)) + 1 = (j - Len(fr)) + 1 /\ i \in Nat /\ j \in Nat
    BY <1>3, <1>4
  <2> QED BY <1>2, <2>1
<1> QED BY <1>4 DEF n, r

-----------------------------------------------------------------------------
(* A thread takes a step.                                                  *)

\* The frames fr can be what a step of thread t puts in front.
Placed(t, fr) ==
  /\ fr \in Seq(Fit(t))
  /\ fr # <<>> => \A f \in Pending(Tail(fr)) : f.op \in Rests
  /\ \A f \in Pending(fr) : f.op \notin Callbacks \cup {"unlink", "gone"}

\* Thread t has executed its top frame, and fr has come in its place.
Moved(t, fr) ==
  /\ Queued(todo') /\ Exclusive(todo') /\ Placed(t, fr)
  /\ ~AtTop(todo'["stack"], Callbacks)
  /\ Top(t) \in Fit(t)
  /\ \A u \in Threads \ {t} : todo'[u] = todo[u]
  /\ Pending(todo'[t]) = Pending(fr) \cup Pending(Tail(todo[t]))
  /\ Pending(todo[t]) = {Top(t)} \cup Pending(Tail(todo[t]))
  /\ \A f \in Pending(Tail(todo[t])) : f.op \in Rests
  /\ \A ops : ops \cap Rests = {} /\ AtTop(todo'[t], ops) =>
       AtTop(fr, ops) /\ Head(todo'[t]) = Head(fr)
  /\ \A c : Total(todo', c) + One(Holds(Top(t), c)) = Total(todo, c) + Count(fr, c)

\* The references of the frames are a number.
LEMMA TotalNat ==
  ASSUME NEW td, Queued(td), NEW c
  PROVE  /\ Count(td["stack"], c) \in Nat /\ Count(td["work"], c) \in Nat
         /\ Count(td["owner"], c) \in Nat /\ Total(td, c) \in Nat
<1>1. /\ Count(td["stack"], c) \in Nat /\ Count(td["work"], c) \in Nat
      /\ Count(td["owner"], c) \in Nat
  BY CountNat DEF Queued, Threads
<1> QED BY <1>1 DEF Total

\* What a step of a thread does to all of them.
LEMMA Moving ==
  ASSUME Queued(todo), Exclusive(todo), NEW t \in Threads, Turn(t), todo[t] # <<>>,
         NEW fr, Placed(t, fr), Then(t, fr)
  PROVE  Moved(t, fr)
<1> DEFINE s == todo[t]
           n == fr \o Tail(s)
<1>1. /\ s \in Seq(Fit(t)) /\ s # <<>> /\ fr \in Seq(Fit(t))
      /\ \A f \in Pending(Tail(s)) : f.op \in Rests
      /\ DOMAIN todo = Threads
  BY DEF Queued, Placed
<1>2. todo' = [todo EXCEPT ![t] = n]
  BY <1>1 DEF Then
<1>3. /\ DOMAIN todo' = Threads /\ todo'[t] = n
      /\ \A u \in Threads \ {t} : todo'[u] = todo[u]
  BY <1>1, <1>2
<1> HIDE DEF s
<1>4. /\ n \in Seq(Fit(t)) /\ Pending(n) = Pending(fr) \cup Pending(Tail(s))
      /\ fr = <<>> => n = Tail(s)
      /\ fr # <<>> => /\ n # <<>> /\ Head(n) = Head(fr)
                      /\ Pending(Tail(n)) = Pending(Tail(fr)) \cup Pending(Tail(s))
  BY <1>1, Spliced
<1>5. /\ Pending(s) = {Head(s)} \cup Pending(Tail(s)) /\ Head(s) \in Fit(t)
      /\ Tail(s) \in Seq(Fit(t))
  BY <1>1, PendingParts
<1>6. \A c : Count(n, c) + One(Holds(Head(s), c)) = Count(s, c) + Count(fr, c)
  BY <1>1, CountSpliced
<1> HIDE DEF n
<1>7. ASSUME n # <<>>  PROVE  \A f \in Pending(Tail(n)) : f.op \in Rests
  <2>1. CASE fr = <<>>
    <3>1. n = Tail(s) /\ n \in Seq(Fit(t))
      BY <1>4, <2>1
    <3>2. n # <<>>
      BY <1>7
    <3>3. Pending(n) = {Head(n)} \cup Pending(Tail(n))
      BY <3>1, <3>2, PendingParts
    <3> QED BY <1>1, <3>1, <3>3
  <2>2. CASE fr # <<>>
    BY <1>1, <1>4, <2>2 DEF Placed
  <2> QED BY <2>1, <2>2
<1>8. ASSUME NEW ops, ops \cap Rests = {}, AtTop(n, ops)
      PROVE  AtTop(fr, ops) /\ Head(n) = Head(fr)
  <2>1. CASE fr = <<>>
    <3>1. n = Tail(s) /\ n \in Seq(Fit(t)) /\ n # <<>> /\ Head(n).op \in ops
      BY <1>4, <1>8, <2>1 DEF AtTop
    <3>2. Pending(n) = {Head(n)} \cup Pending(Tail(n))
      BY <3>1, PendingParts
    <3>3. Head(n).op \in Rests
      BY <1>1, <3>1, <3>2
    <3> QED BY <1>8, <3>1, <3>3
  <2>2. CASE fr # <<>>
    BY <1>4, <1>8, <2>2 DEF AtTop
  <2> QED BY <2>1, <2>2
<1>9. Exclusive(todo')
  <2>1. \A u \in {"stack", "work"} \ {t} : ~Busy(todo'[u])
    BY <1>3 DEF Turn, Runs, Busy, Threads
  <2> QED BY <2>1 DEF Exclusive
<1>10. ~AtTop(todo'["stack"], Callbacks)
  <2>1. CASE t = "stack"
    <3>1. Callbacks \cap Rests = {}
      BY DEF Callbacks, Rests
    <3>2. AtTop(n, Callbacks) => AtTop(fr, Callbacks)
      BY <1>8, <3>1
    <3>3. AtTop(fr, Callbacks) => Head(fr) \in Pending(fr)
      BY <1>1, PendingParts DEF AtTop
    <3> QED BY <1>3, <2>1, <3>2, <3>3 DEF Placed, AtTop
  <2>2. CASE t # "stack"
    <3>1. todo'["stack"] = todo["stack"] /\ ~Busy(todo["stack"])
      BY <1>3, <2>2 DEF Turn, Runs, Busy, Threads
    <3> QED BY <3>1 DEF AtTop, Busy, Callbacks
  <2> QED BY <2>1, <2>2
<1>11. \A i, j \in DOMAIN todo'["stack"] :
         todo'["stack"][i].op = "unlink" /\ todo'["stack"][j].op = "unlink" => i = j
  <2>1. CASE t = "stack"
    <3>1. /\ \A f \in Pending(fr) : f.op # "unlink"
          /\ \A i, j \in DOMAIN s : s[i].op = "unlink" /\ s[j].op = "unlink" => i = j
      BY <2>1 DEF Placed, Queued, s
    <3>2. \A i, j \in DOMAIN n : n[i].op = "unlink" /\ n[j].op = "unlink" => i = j
      BY <1>1, <3>1, OneUnlink DEF n
    <3> QED BY <1>3, <2>1, <3>2
  <2>2. CASE t # "stack"
    BY <1>3, <2>2 DEF Queued, Threads
  <2> QED BY <2>1, <2>2
<1>12. Queued(todo')
  <2>1. \A u \in Threads :
          /\ todo'[u] \in Seq(Fit(u))
          /\ todo'[u] # <<>> => \A f \in Pending(Tail(todo'[u])) : f.op \in Rests
    BY <1>3, <1>4, <1>7 DEF Queued
  <2> QED BY <1>3, <1>10, <1>11, <2>1 DEF Queued
<1>13. ASSUME NEW c
       PROVE  Total(todo', c) + One(Holds(Head(s), c)) = Total(todo, c) + Count(fr, c)
  <2>1. /\ Count(todo["stack"], c) \in Nat /\ Count(todo["work"], c) \in Nat
        /\ Count(todo["owner"], c) \in Nat /\ Count(todo'["stack"], c) \in Nat
        /\ Count(todo'["work"], c) \in Nat /\ Count(todo'["owner"], c) \in Nat
    BY <1>12, TotalNat
  <2>2. Count(fr, c) \in Nat /\ One(Holds(Head(s), c)) \in Nat
    BY <1>1, CountNat DEF One
  <2>3. Count(todo'[t], c) + One(Holds(Head(s), c)) = Count(todo[t], c) + Count(fr, c)
    BY <1>3, <1>6 DEF s
  <2>4. \A u \in Threads \ {t} : Count(todo'[u], c) = Count(todo[u], c)
    BY <1>3
  <2>5. CASE t = "stack"
    BY <2>1, <2>2, <2>3, <2>4, <2>5 DEF Total, Threads
  <2>6. CASE t = "work"
    BY <2>1, <2>2, <2>3, <2>4, <2>6 DEF Total, Threads
  <2>7. CASE t = "owner"
    <3>1. /\ Count(todo'["stack"], c) = Count(todo["stack"], c)
          /\ Count(todo'["work"], c) = Count(todo["work"], c)
      BY <2>4, <2>7 DEF Threads
    <3>2. Count(todo'["owner"], c) + One(Holds(Head(s), c)) = Count(todo["owner"], c) + Count(fr, c)
      BY <2>3, <2>7
    <3> QED BY <2>1, <2>2, <3>1, <3>2 DEF Total
  <2> QED BY <2>5, <2>6, <2>7 DEF Threads
<1> QED BY <1>1, <1>3, <1>4, <1>5, <1>8, <1>9, <1>10, <1>12, <1>13 DEF Moved, Top, s

\* A thread that is idle is called with the frames fr.
Called(t, fr) ==
  /\ Queued(todo') /\ Exclusive(todo')
  /\ \A u \in Threads \ {t} : todo'[u] = todo[u]
  /\ todo[t] = <<>> /\ todo'[t] = fr
  /\ \A c : Total(todo', c) = Total(todo, c)

\* What a call of a thread does to all of them.
LEMMA Calling ==
  ASSUME Queued(todo), Exclusive(todo), NEW t \in Threads, NEW fr, Call(t, fr),
         fr \in Seq(Fit(t)), fr # <<>> => \A f \in Pending(Tail(fr)) : f.op \in Rests,
         AtTop(fr, Callbacks) => Tail(fr) = <<>>,
         \A i, j \in DOMAIN fr : fr[i].op = "unlink" /\ fr[j].op = "unlink" => i = j,
         \A f \in Pending(fr) : f.op \notin Holders
  PROVE  Called(t, fr)
<1>1. /\ DOMAIN todo' = Threads /\ todo'[t] = fr /\ todo[t] = <<>>
      /\ \A u \in Threads \ {t} : todo'[u] = todo[u]
  BY DEF Call, Queued
<1>2. Exclusive(todo')
  <2>1. \A u \in {"stack", "work"} \ {t} : ~Busy(todo'[u])
    BY <1>1 DEF Call, Turn, Runs, Busy, Threads
  <2> QED BY <2>1 DEF Exclusive
<1>3. Queued(todo')
  <2>1. \A u \in Threads :
          /\ todo'[u] \in Seq(Fit(u))
          /\ todo'[u] # <<>> => \A f \in Pending(Tail(todo'[u])) : f.op \in Rests
    BY <1>1 DEF Queued
  <2>2. /\ AtTop(todo'["stack"], Callbacks) => Tail(todo'["stack"]) = <<>>
        /\ \A i, j \in DOMAIN todo'["stack"] :
             todo'["stack"][i].op = "unlink" /\ todo'["stack"][j].op = "unlink" => i = j
    <3>1. CASE t = "stack"
      BY <1>1, <3>1
    <3>2. CASE t # "stack"
      BY <1>1, <3>2 DEF Queued, Threads
    <3> QED BY <3>1, <3>2
  <2> QED BY <1>1, <2>1, <2>2 DEF Queued
<1>4. ASSUME NEW c  PROVE  Total(todo', c) = Total(todo, c)
  <2>1. Count(fr, c) = 0
    <3>1. {i \in DOMAIN fr : Holds(fr[i], c)} = {}
      BY DEF Pending, Holds
    <3> QED BY <3>1, FS_EmptySet DEF Count
  <2>2. Count(todo[t], c) = 0
    BY <1>1, Nothing
  <2>3. \A u \in Threads : Count(todo'[u], c) = Count(todo[u], c)
    BY <1>1, <2>1, <2>2
  <2> QED BY <2>3 DEF Total, Threads
<1> QED BY <1>1, <1>2, <1>3, <1>4 DEF Called

-----------------------------------------------------------------------------
(* What a step of a thread leaves true.                                    *)

\* The frames of a thread that go on are none of these.
LEMMA Apart ==
  Hanging \cap Rests = {} /\ Looks \cap Rests = {} /\ Callbacks \cap Rests = {}
<1> QED BY DEF Hanging, Looks, Callbacks, Rests

\* The frames still know the policy and the link when the link was at most closed
\* and the owner finds no window that another thread opened.
LEMMA InformedKept ==
  ASSUME NEW t \in Threads, NEW fr, Queued(todo), Informed(todo, pairing, link), Moved(t, fr),
         Top(t).op # "unlink", link'.conn = link.conn, link'.gen \in {0, link.gen},
         t # "owner" => pairing'.window \in {0, pairing.window},
         t = "owner" /\ AtTop(fr, Hanging) => pairing'.window = 0
  PROVE  Informed(todo', pairing', link')
<1>1. AtTop(todo'["owner"], Hanging) => pairing'.window = 0
  <2>1. CASE t = "owner"
    BY <2>1, Apart DEF Moved
  <2>2. CASE t # "owner"
    BY <2>2 DEF Moved, Informed, Threads
  <2> QED BY <2>1, <2>2
<1>2. ASSUME NEW f \in Pending(todo'["stack"]), f.op \in {"unlink", "gone"}
      PROVE  f \in Pending(todo["stack"])
  <2>1. CASE t = "stack"
    <3>1. f \notin Pending(fr)
      BY <1>2 DEF Moved, Placed
    <3> QED BY <1>2, <2>1, <3>1 DEF Moved
  <2>2. CASE t # "stack"
    BY <1>2, <2>2 DEF Moved, Threads
  <2> QED BY <2>1, <2>2
<1>3. ASSUME NEW f \in Pending(todo["stack"]), f.op = "unlink"
      PROVE  f \in Pending(todo'["stack"])
  <2>1. CASE t = "stack"
    BY <1>3, <2>1 DEF Moved
  <2>2. CASE t # "stack"
    BY <1>3, <2>2 DEF Moved, Threads
  <2> QED BY <2>1, <2>2
<1>4. ASSUME NEW f \in Pending(todo'["stack"])
      PROVE  /\ f.op = "unlink" => f.conn = link'.conn
             /\ f.op = "gone" => link'.gen = 0 \/ \E h \in Pending(todo'["stack"]) : h.op = "unlink"
  BY <1>2, <1>3, <1>4 DEF Informed
<1> QED BY <1>1, <1>4 DEF Informed, Moved

\* A spoiled link stays one that a frame hangs up.
LEMMA DoomedKept ==
  ASSUME NEW t \in Threads, NEW fr, Doomed(todo, link, spoiled), Moved(t, fr), link' = link,
         spoiled' => \/ spoiled /\ ~Ending(Top(t), link)
                     \/ link.gen # 0 /\ \E f \in Pending(fr) : Ending(f, link)
                     \/ link.gen # 0 /\ \E f \in Pending(Tail(todo[t])) : Ending(f, link)
  PROVE  Doomed(todo', link', spoiled')
<1> SUFFICES ASSUME spoiled'
             PROVE  link.gen # 0 /\ \E u \in Threads : \E f \in Pending(todo'[u]) : Ending(f, link)
  BY DEF Doomed
<1>1. CASE spoiled /\ ~Ending(Top(t), link)
  <2>1. PICK u \in Threads : \E f \in Pending(todo[u]) : Ending(f, link)
    BY <1>1 DEF Doomed
  <2>2. PICK f \in Pending(todo[u]) : Ending(f, link)
    BY <2>1
  <2>3. f \in Pending(todo'[u])
    BY <1>1, <2>2 DEF Moved
  <2> QED BY <1>1, <2>2, <2>3 DEF Doomed
<1>2. CASE link.gen # 0 /\ \E f \in Pending(fr) : Ending(f, link)
  BY <1>2 DEF Moved
<1>3. CASE link.gen # 0 /\ \E f \in Pending(Tail(todo[t])) : Ending(f, link)
  BY <1>3 DEF Moved
<1> QED BY <1>1, <1>2, <1>3

\* A step of thread t that puts the frames fr in front takes and gives back what they
\* and the policy hold.
Settled(t, fr) ==
  \A c \in Conns :
    refs'[c] + One(Holds(Top(t), c)) + One(link.conn = c) + One(pairing.attempt = c)
      = refs[c] + Count(fr, c) + One(link'.conn = c) + One(pairing'.attempt = c)

\* What both sides of an account have in common does not count.
LEMMA Accounts ==
  ASSUME NEW x \in Nat, NEW y \in Nat, NEW h \in Nat, NEW n \in Nat, NEW m \in Nat, NEW k \in Nat,
         NEW a \in Nat, NEW b \in Nat, NEW d \in Nat, NEW e \in Nat,
         x + h + a + b = y + n + d + e, m + h = k + n, y = k + a + b
  PROVE  x = m + d + e
<1> QED OBVIOUS

\* References stay balanced when what came for what went is.
LEMMA BalancedKept ==
  ASSUME NEW t \in Threads, NEW fr, Queued(todo), refs \in [Conns -> Nat],
         refs' \in [Conns -> Nat], Balanced(todo, pairing, link, refs), Moved(t, fr), Settled(t, fr)
  PROVE  Balanced(todo', pairing', link', refs')
<1> SUFFICES ASSUME NEW c \in Conns
             PROVE  refs'[c] = Total(todo', c) + One(link'.conn = c) + One(pairing'.attempt = c)
  BY DEF Balanced
<1>1. /\ One(Holds(Top(t), c)) \in Nat /\ One(link.conn = c) \in Nat
      /\ One(pairing.attempt = c) \in Nat /\ One(link'.conn = c) \in Nat
      /\ One(pairing'.attempt = c) \in Nat
  BY DEF One
<1>2. Total(todo, c) \in Nat /\ Total(todo', c) \in Nat
  <2>1. Queued(todo')
    BY DEF Moved
  <2>2. Total(todo, c) \in Nat
    BY TotalNat
  <2>3. Total(todo', c) \in Nat
    BY <2>1, TotalNat
  <2> QED BY <2>2, <2>3
<1>3. Count(fr, c) \in Nat
  BY CountNat DEF Moved, Placed
<1>4. Total(todo', c) + One(Holds(Top(t), c)) = Total(todo, c) + Count(fr, c)
  BY DEF Moved
<1>5. refs[c] = Total(todo, c) + One(link.conn = c) + One(pairing.attempt = c)
  BY DEF Balanced
<1>6. refs'[c] \in Nat /\ refs[c] \in Nat
  OBVIOUS
<1>7. refs'[c] + One(Holds(Top(t), c)) + One(link.conn = c) + One(pairing.attempt = c)
        = refs[c] + Count(fr, c) + One(link'.conn = c) + One(pairing'.attempt = c)
  BY DEF Settled
<1> DEFINE h == One(Holds(Top(t), c))
           a == One(link.conn = c)
           b == One(pairing.attempt = c)
           d == One(link'.conn = c)
           e == One(pairing'.attempt = c)
           m == Total(todo', c)
           k == Total(todo, c)
           n == Count(fr, c)
           x == refs'[c]
           y == refs[c]
<1>8. /\ x \in Nat /\ y \in Nat /\ h \in Nat /\ n \in Nat /\ m \in Nat /\ k \in Nat
      /\ a \in Nat /\ b \in Nat /\ d \in Nat /\ e \in Nat
      /\ x + h + a + b = y + n + d + e /\ m + h = k + n /\ y = k + a + b
  BY <1>1, <1>2, <1>3, <1>4, <1>5, <1>6, <1>7
<1>9. x = m + d + e
  <2> HIDE DEF h, a, b, d, e, m, k, n, x, y
  <2> QED BY <1>8, Accounts
<1> QED BY <1>9

\* An event stays behind when the policy gets no other attempt, and events of the
\* one that it has.
LEMMA BehindKept ==
  ASSUME NEW d, Behind(d, pairing, link), link'.counter = link.counter,
         pairing'.attempt # None => /\ pairing.attempt # None
                                    /\ pairing'.connection = pairing.connection,
         \A e \in Pending(pairing'.events) :
           \/ e \in Pending(pairing.events)
           \/ e.connection # 0 => pairing.attempt # None /\ e.connection = pairing.connection
  PROVE  Behind(d, pairing', link')
<1> QED BY DEF Behind

\* So do the key that the owner looks at and what was told.
LEMMA ForwardKept ==
  ASSUME NEW t \in Threads, NEW fr, Forward(todo, pairing, link, told), Moved(t, fr),
         told' = told, link'.counter = link.counter, pairing'.counter = pairing.counter,
         pairing'.attempt # None => /\ pairing.attempt # None
                                    /\ pairing'.connection = pairing.connection,
         \A e \in Pending(pairing'.events) :
           \/ e \in Pending(pairing.events)
           \/ e.connection # 0 => pairing.attempt # None /\ e.connection = pairing.connection,
         told # None /\ told.kind \in {"complete", "expired"} /\ told.window = pairing.counter =>
           pairing'.window = 0 /\ pairing'.events = <<>>,
         t = "owner" /\ AtTop(fr, Looks) =>
           /\ Head(fr).arg.kind = "passkey" /\ Behind(Head(fr).arg, pairing, link)
           /\ told # None => Later(Head(fr).arg, told)
  PROVE  Forward(todo', pairing', link', told')
<1> DEFINE d == Head(todo'["owner"]).arg
<1>1. AtTop(todo'["owner"], Looks) => /\ d.kind = "passkey" /\ Behind(d, pairing, link)
                                      /\ told # None => Later(d, told)
  <2>1. CASE t = "owner"
    BY <2>1, Apart DEF Moved
  <2>2. CASE t # "owner"
    BY <2>2 DEF Moved, Forward, Threads
  <2> QED BY <2>1, <2>2
<1>2. ASSUME NEW x, Behind(x, pairing, link)  PROVE  Behind(x, pairing', link')
  BY <1>2, BehindKept
<1>3. AtTop(todo'["owner"], Looks) => Behind(d, pairing', link')
  BY <1>1, <1>2
<1>4. told # None =>
        /\ told \in Event /\ told.window <= pairing'.counter /\ Behind(told, pairing', link')
        /\ told.kind = "cancelled" /\ pairing'.attempt # None => pairing'.connection > told.connection
        /\ told.kind \in {"complete", "expired"} /\ told.window = pairing'.counter =>
             pairing'.window = 0 /\ pairing'.events = <<>>
  BY <1>2 DEF Forward
<1> QED BY <1>1, <1>3, <1>4 DEF Forward

\* A step of a thread that leaves the policy and the link alone.
LEMMA StaysKeeps ==
  ASSUME PairingIInv, NEW t \in Threads, Turn(t), todo[t] # <<>>, NEW fr,
         Placed(t, fr), Then(t, fr), Top(t).op # "unlink",
         UNCHANGED <<pairing, link, told, spoiled>>,
         timer' \in 0 .. MaxWindow, refs' \in [Conns -> Nat],
         \A c \in Conns : refs'[c] + One(Holds(Top(t), c)) = refs[c] + Count(fr, c),
         t = "owner" /\ AtTop(fr, Hanging) => pairing.window = 0,
         t = "owner" /\ AtTop(fr, Looks) =>
           /\ Head(fr).arg.kind = "passkey" /\ Behind(Head(fr).arg, pairing, link)
           /\ told # None => Later(Head(fr).arg, told),
         spoiled /\ Ending(Top(t), link) => \E f \in Pending(fr) : Ending(f, link)
  PROVE  PairingIInv'
<1>1. Moved(t, fr)
  BY Moving DEF PairingIInv
<1>2. pairing' = pairing /\ link' = link /\ told' = told /\ spoiled' = spoiled
  OBVIOUS
<1>3. /\ Queued(todo) /\ Policy(pairing) /\ refs \in [Conns -> Nat]
      /\ Connected(pairing, link) /\ Informed(todo, pairing, link)
      /\ Forward(todo, pairing, link, told) /\ Barred(pairing, link, told, spoiled)
      /\ Doomed(todo, link, spoiled) /\ Balanced(todo, pairing, link, refs)
  BY DEF PairingIInv
<1>4. Informed(todo', pairing', link')
  BY <1>1, <1>2, <1>3, InformedKept
<1>5. Forward(todo', pairing', link', told')
  <2>1. /\ \A e \in Pending(pairing'.events) : e \in Pending(pairing.events)
        /\ told # None /\ told.kind \in {"complete", "expired"} /\ told.window = pairing.counter =>
             pairing'.window = 0 /\ pairing'.events = <<>>
    BY <1>2, <1>3 DEF Forward
  <2> QED BY <1>1, <1>2, <1>3, <2>1, ForwardKept
<1>6. Doomed(todo', link', spoiled')
  <2>1. spoiled => link.gen # 0
    BY <1>3 DEF Doomed
  <2> QED BY <1>1, <1>2, <1>3, <2>1, DoomedKept
<1>7. Balanced(todo', pairing', link', refs')
  <2>1. ASSUME NEW c \in Conns
        PROVE  refs'[c] + One(Holds(Top(t), c)) + One(link.conn = c) + One(pairing.attempt = c)
                 = refs[c] + Count(fr, c) + One(link'.conn = c) + One(pairing'.attempt = c)
    BY <1>2
  <2>9. Settled(t, fr)
    BY <2>1 DEF Settled
  <2> QED BY <1>1, <1>2, <1>3, <2>9, BalancedKept
<1> QED BY <1>1, <1>2, <1>3, <1>4, <1>5, <1>6, <1>7 DEF PairingIInv, Moved

\* A step after which only the thread's frames differ.
LEMMA GoesKeeps ==
  ASSUME PairingIInv, NEW t \in Threads, Turn(t), todo[t] # <<>>, NEW fr,
         Placed(t, fr), Goes(t, fr), Top(t).op # "unlink",
         \A c \in Conns : Count(fr, c) = One(Holds(Top(t), c)),
         t = "owner" => ~AtTop(fr, Looks) /\ (AtTop(fr, Hanging) => pairing.window = 0),
         spoiled /\ Ending(Top(t), link) => \E f \in Pending(fr) : Ending(f, link)
  PROVE  PairingIInv'
<1>1. /\ Then(t, fr) /\ UNCHANGED <<pairing, link, told, spoiled>>
      /\ timer' = timer /\ refs' = refs
  BY DEF Goes, policy
<1>2. timer' \in 0 .. MaxWindow /\ refs' \in [Conns -> Nat]
  BY <1>1 DEF PairingIInv
<1>3. \A c \in Conns : refs'[c] + One(Holds(Top(t), c)) = refs[c] + Count(fr, c)
  BY <1>1
<1> QED BY <1>1, <1>2, <1>3, StaysKeeps

-----------------------------------------------------------------------------
(* What ends an attempt.                                                   *)

\* A frame of a thread that may call it.
LEMMA Framed ==
  ASSUME PairingAssumption, NEW t \in Threads, NEW o \in Calls, NEW d \in Conns, NEW g \in Nat
  PROVE  /\ Frame(o, d, g, None) \in Fit(t)
         /\ Frame(o, d, g, None).op = o /\ Frame(o, d, g, None).conn = d
         /\ Frame(o, d, g, None).gen = g
<1> DEFINE f == Frame(o, d, g, None)
<1>1. f.op = o /\ f.conn = d /\ f.gen = g /\ f.arg = None
  BY DEF Frame
<1>2. o \in Ops(t) /\ o \in Op
  BY DEF Ops, Op
<1>3. f \in FrameType
  BY <1>2 DEF FrameType, Frame
<1>4. o \notin Looks /\ o # "arm" /\ o # "display"
  BY DEF Calls, Looks
<1> HIDE DEF f
<1> QED BY <1>1, <1>2, <1>3, <1>4 DEF Fit, f

\* The reference that is given back next.
LEMMA Unreffing ==
  ASSUME PairingAssumption, NEW t \in Threads, NEW d \in Conns
  PROVE  /\ Placed(t, <<Unref(d)>>) /\ Pending(<<Unref(d)>>) = {Unref(d)}
         /\ Unref(d).op = "unref" /\ Unref(d).conn = d
         /\ ~AtTop(<<Unref(d)>>, Looks) /\ ~AtTop(<<Unref(d)>>, Hanging)
         /\ \A c \in Conns : Count(<<Unref(d)>>, c) = One(d = c)
<1> DEFINE f == Unref(d)
<1>1. f \in Fit(t) /\ f.op = "unref" /\ f.conn = d
  BY Framed DEF Unref, Calls
<1> HIDE DEF f
<1>2. /\ <<f>> \in Seq(Fit(t)) /\ <<f>> # <<>> /\ Head(<<f>>) = f /\ Tail(<<f>>) = <<>>
      /\ Pending(<<f>>) = {f} /\ \A c : Count(<<f>>, c) = One(Holds(f, c))
  BY <1>1, Single
<1>3. Pending(<<>>) = {}
  BY Nothing
<1>4. \A c \in Conns : Holds(f, c) <=> d = c
  BY <1>1 DEF Holds, Holders
<1>5. \A c \in Conns : Count(<<f>>, c) = One(d = c)
  BY <1>2, <1>4 DEF One
<1>6. Placed(t, <<f>>)
  BY <1>1, <1>2, <1>3 DEF Placed, Callbacks
<1> QED BY <1>1, <1>2, <1>5, <1>6 DEF AtTop, Looks, Hanging, f

\* cancel_connection: a check of the attempt's link, and its reference.
LEMMA Cancelling ==
  ASSUME PairingAssumption, Policy(pairing), NEW t \in Threads
  PROVE  /\ Placed(t, CancelConnection) /\ ~AtTop(CancelConnection, Looks)
         /\ \A c \in Conns : Count(CancelConnection, c) = One(pairing.attempt = c)
         /\ pairing.attempt # None =>
              \E f \in Pending(CancelConnection) :
                f.op = "check" /\ f.conn = pairing.attempt /\ f.gen = pairing.connection
<1>1. pairing.attempt \in Conns \cup {None} /\ pairing.connection \in Nat
  BY DEF Policy, PolicyType, PairingAssumption
<1>2. CASE pairing.attempt = None
  <2>1. /\ CancelConnection = <<>> /\ <<>> \in Seq(Fit(t)) /\ Pending(<<>>) = {}
        /\ \A c : Count(<<>>, c) = 0
    BY <1>2, Nothing DEF CancelConnection
  <2>2. \A c \in Conns : One(pairing.attempt = c) = 0
    BY <1>2 DEF One, PairingAssumption
  <2> QED BY <1>2, <2>1, <2>2 DEF Placed, AtTop
<1>3. CASE pairing.attempt # None
  <2> DEFINE f == Frame("check", pairing.attempt, pairing.connection, None)
             g == Unref(pairing.attempt)
             fr == <<f, g>>
  <2>1. /\ f \in Fit(t) /\ f.op = "check" /\ f.conn = pairing.attempt
        /\ f.gen = pairing.connection
    BY <1>1, <1>3, Framed DEF Calls
  <2>2. g \in Fit(t) /\ g.op = "unref" /\ g.conn = pairing.attempt
    BY <1>1, <1>3, Framed DEF Calls, Unref
  <2>3. CancelConnection = fr
    BY <1>3 DEF CancelConnection
  <2> HIDE DEF f, g
  <2>4. /\ fr \in Seq(Fit(t)) /\ Head(fr) = f /\ Tail(fr) = <<g>> /\ Pending(fr) = {f, g}
        /\ \A c : Count(fr, c) = One(Holds(f, c)) + One(Holds(g, c))
    BY <2>1, <2>2, Pair, CountPair
  <2>5. Pending(<<g>>) = {g}
    BY <2>2, Single
  <2> HIDE DEF fr
  <2>6. Placed(t, fr)
    BY <2>1, <2>2, <2>4, <2>5 DEF Placed, Rests, Callbacks
  <2>7. ASSUME NEW c \in Conns  PROVE  Count(fr, c) = One(pairing.attempt = c)
    <3>1. ~Holds(f, c) /\ (Holds(g, c) <=> pairing.attempt = c)
      BY <2>1, <2>2 DEF Holds, Holders
    <3>2. One(Holds(f, c)) = 0 /\ One(Holds(g, c)) = One(pairing.attempt = c)
      BY <3>1 DEF One
    <3>3. One(pairing.attempt = c) \in Nat
      BY DEF One
    <3> QED BY <2>4, <3>2, <3>3
  <2>8. ~AtTop(fr, Looks)
    BY <2>1, <2>4 DEF AtTop, Looks
  <2> QED BY <2>1, <2>3, <2>4, <2>6, <2>7, <2>8
<1> QED BY <1>2, <1>3

\* What the section that ends an attempt leaves of the policy.
Over(p, kind, e) ==
  /\ Policy(p) /\ p.attempt = None /\ p.connection = 0 /\ p.counter = pairing.counter
  /\ p.window \in {0, pairing.window} /\ Pending(p.events) = {e}
  /\ p = CloseWindow(Terminal(kind)) => p.window = 0
  /\ e.kind = kind /\ e.connection = pairing.connection

\* terminal_locked and detach_locked, and the window that closes with them.
LEMMA TerminalFacts ==
  ASSUME PairingAssumption, Policy(pairing), pairing.window # 0,
         NEW kind \in {"cancelled", "complete", "expired"}, NEW p,
         \/ p = CloseWindow(Terminal(kind))
         \/ p = Spent(Terminal(kind)) /\ kind = "cancelled"
  PROVE  \E e \in Event : Over(p, kind, e)
<1> DEFINE e == [kind |-> kind, key |-> None, window |-> pairing.counter,
                 connection |-> pairing.connection]
           T == Terminal(kind)
           ev == <<e>>
<1>1. /\ pairing \in PolicyType /\ pairing.window = pairing.counter
      /\ AttemptsMax \in Nat \ {0} /\ EventsMax \in Nat \ {0}
      /\ MaxWindow \in Nat /\ MaxGen \in Nat
  BY DEF Policy, PairingAssumption
<1>2. e \in Event
  BY <1>1 DEF Event, PolicyType
<1>3. /\ e.kind = kind /\ e.connection = pairing.connection /\ e.window = pairing.counter
  OBVIOUS
<1> HIDE DEF e
<1>4. ev \in Seq(Event) /\ Len(ev) = 1 /\ Pending(ev) = {e}
  BY <1>2 DEF Pending
<1>5. /\ T \in PolicyType /\ T.window = pairing.window /\ T.counter = pairing.counter
      /\ T.attempt = None /\ T.connection = 0 /\ T.events = ev
  <2> DEFINE U == [pairing EXCEPT !.events = ev]
  <2>1. U \in PolicyType /\ U.window = pairing.window /\ U.counter = pairing.counter /\ U.events = ev
    BY <1>1, <1>4 DEF PolicyType
  <2>2. T = Detach(U)
    BY DEF Terminal, e, ev
  <2> HIDE DEF U, T, ev
  <2>3. 0 \in 0 .. MaxWindow /\ 0 \in 0 .. MaxGen
    BY <1>1
  <2>4. /\ T.window = pairing.window /\ T.counter = pairing.counter
        /\ T.attempt = None /\ T.connection = 0 /\ T.events = ev
    BY <2>1, <2>2 DEF Detach, PolicyType
  <2>5. T \in PolicyType
    BY <2>1, <2>2, <2>3 DEF Detach, PolicyType
  <2> QED BY <2>4, <2>5
<1> HIDE DEF T, ev
<1> DEFINE W == CloseWindow(T)
<1>6. /\ W \in PolicyType /\ W.window = 0 /\ W.counter = pairing.counter
      /\ W.attempt = None /\ W.connection = 0 /\ W.events = ev
  <2>1. 0 \in 0 .. MaxWindow
    BY <1>1
  <2>2. /\ W.window = 0 /\ W.counter = pairing.counter
        /\ W.attempt = None /\ W.connection = 0 /\ W.events = ev
    BY <1>5 DEF CloseWindow, PolicyType
  <2>3. W \in PolicyType
    BY <1>5, <2>1 DEF CloseWindow, PolicyType
  <2> QED BY <2>2, <2>3
<1> HIDE DEF W
<1>7. /\ p \in PolicyType /\ p.counter = pairing.counter /\ p.attempt = None
      /\ p.connection = 0 /\ p.events = ev /\ p.window \in {0, pairing.window}
      /\ kind \in {"complete", "expired"} => p.window = 0
      /\ p = W => p.window = 0
  <2>1. CASE p = W
    BY <1>6, <2>1
  <2>2. CASE p = T /\ kind = "cancelled"
    BY <1>5, <1>6, <2>2
  <2> QED BY <2>1, <2>2 DEF W, T, Spent
<1>8. Policy(p)
  <2>1. \A x \in Pending(p.events) : x = e
    BY <1>4, <1>7
  <2>2. Len(p.events) <= EventsMax /\ Len(p.events) <= 1
    <3>1. Len(p.events) = 1 /\ EventsMax \in Nat /\ EventsMax # 0
      BY <1>1, <1>4, <1>7
    <3> QED BY <3>1
  <2>3. p.window \in {0, p.counter}
    BY <1>1, <1>7
  <2>4. \A x \in Pending(p.events) : x.kind # "passkey" /\ x.window = p.counter
    BY <1>3, <1>7, <2>1
  <2>5. \A x \in Pending(p.events) : x.kind \in {"complete", "expired"} => p.window = 0
    BY <1>3, <1>7, <2>1
  <2> QED BY <1>7, <2>2, <2>3, <2>4, <2>5 DEF Policy
<1>9. Over(p, kind, e)
  BY <1>3, <1>4, <1>7, <1>8 DEF Over, W, T
<1> QED BY <1>2, <1>9

\* The section ended an attempt, or a window without one: p is what it leaves of
\* the policy, with success or without.
LEMMA Terminated ==
  ASSUME PairingAssumption, PairingIInv, NEW t \in Threads, Turn(t), todo[t] # <<>>,
         NEW fr, Placed(t, fr), Then(t, fr), pairing.window # 0,
         NEW kind \in {"cancelled", "complete", "expired"},
         \/ pairing' = CloseWindow(Terminal(kind))
         \/ pairing' = Spent(Terminal(kind)) /\ kind = "cancelled" /\ t # "owner",
         UNCHANGED <<timer, link, refs, told>>, spoiled' \in BOOLEAN,
         Top(t).op \notin Holders \cup {"check", "hangup", "unlink"}, ~AtTop(fr, Looks),
         \A c \in Conns : Count(fr, c) = One(pairing.attempt = c),
         spoiled => spoiled',
         kind = "cancelled" /\ pairing.connection \in {link.gen} \ {0} => spoiled',
         spoiled' => \/ spoiled
                     \/ link.gen # 0 /\ \E f \in Pending(fr) : Ending(f, link)
                     \/ link.gen # 0 /\ \E f \in Pending(Tail(todo[t])) : Ending(f, link)
  PROVE  PairingIInv'
<1>1. Moved(t, fr)
  BY Moving DEF PairingIInv
<1>2. timer' = timer /\ link' = link /\ refs' = refs /\ told' = told
  OBVIOUS
<1>3. /\ Queued(todo) /\ Policy(pairing) /\ refs \in [Conns -> Nat]
      /\ Connected(pairing, link) /\ Informed(todo, pairing, link)
      /\ Forward(todo, pairing, link, told) /\ Barred(pairing, link, told, spoiled)
      /\ Doomed(todo, link, spoiled) /\ Balanced(todo, pairing, link, refs)
  BY DEF PairingIInv
<1>4. PICK e \in Event : Over(pairing', kind, e)
  BY <1>3, TerminalFacts
<1>5. /\ Policy(pairing') /\ pairing'.attempt = None /\ pairing'.connection = 0
      /\ pairing'.counter = pairing.counter /\ pairing'.window \in {0, pairing.window}
      /\ Pending(pairing'.events) = {e} /\ e.kind = kind /\ e.connection = pairing.connection
  BY <1>4 DEF Over
<1>6. t = "owner" => pairing'.window = 0
  BY <1>4 DEF Over
<1>7. Informed(todo', pairing', link')
  BY <1>1, <1>2, <1>3, <1>5, <1>6, InformedKept
<1>8. pairing.connection \in Nat /\ (pairing.connection # 0 => pairing.attempt # None)
  BY <1>3 DEF Policy, PolicyType, PairingAssumption
<1>9. Forward(todo', pairing', link', told')
  <2>1. ASSUME NEW x \in Pending(pairing'.events), x.connection # 0
        PROVE  pairing.attempt # None /\ x.connection = pairing.connection
    BY <1>5, <1>8, <2>1
  <2>2. ~(told # None /\ told.kind \in {"complete", "expired"} /\ told.window = pairing.counter)
    BY <1>3 DEF Forward
  <2> QED BY <1>1, <1>2, <1>3, <1>5, <2>1, <2>2, ForwardKept
<1>10. Connected(pairing', link')
  BY <1>2, <1>3, <1>5 DEF Connected, LinkType, PairingAssumption
<1>11. Barred(pairing', link', told', spoiled')
  <2>1. ASSUME NEW x \in Pending(pairing'.events), Cancelled(x, link)  PROVE  spoiled'
    BY <1>5, <2>1 DEF Cancelled
  <2>2. told # None /\ Cancelled(told, link) => spoiled'
    BY <1>3 DEF Barred
  <2> QED BY <1>2, <2>1, <2>2 DEF Barred
<1>12. Doomed(todo', link', spoiled')
  <2>1. ~Ending(Top(t), link)
    BY DEF Ending
  <2> QED BY <1>1, <1>2, <1>3, <2>1, DoomedKept
<1>13. Balanced(todo', pairing', link', refs')
  <2>1. ASSUME NEW c \in Conns
        PROVE  refs'[c] + One(Holds(Top(t), c)) + One(link.conn = c) + One(pairing.attempt = c)
                 = refs[c] + Count(fr, c) + One(link'.conn = c) + One(pairing'.attempt = c)
    <3>1. One(Holds(Top(t), c)) = 0
      BY DEF Holds, One
    <3>2. One(pairing'.attempt = c) = 0
      BY <1>5 DEF One, PairingAssumption
    <3>3. /\ One(link.conn = c) \in Nat /\ One(pairing.attempt = c) \in Nat /\ refs[c] \in Nat
          /\ Count(fr, c) = One(pairing.attempt = c)
      BY <1>3 DEF One
    <3> QED BY <1>2, <3>1, <3>2, <3>3
  <2>9. Settled(t, fr)
    BY <2>1 DEF Settled
  <2> QED BY <1>1, <1>2, <1>3, <2>9, BalancedKept
<1> QED BY <1>1, <1>2, <1>5, <1>7, <1>9, <1>10, <1>11, <1>12, <1>13 DEF PairingIInv, Moved

\* Ends, by which the link is hung up when the attempt was the current one's.
LEMMA EndsKeeps ==
  ASSUME PairingAssumption, PairingIInv, NEW t \in Threads, Turn(t), todo[t] # <<>>,
         NEW kind \in {"cancelled", "expired"}, NEW p, NEW fr, Ends(t, p, fr),
         pairing.window # 0,
         \/ p = CloseWindow(Terminal(kind))
         \/ p = Spent(Terminal(kind)) /\ kind = "cancelled" /\ t # "owner",
         Top(t).op \notin Holders \cup {"check", "hangup", "unlink"},
         \/ fr = CancelConnection
         \/ /\ fr = <<Unref(pairing.attempt)>> /\ pairing.attempt \in Conns
            /\ t = "stack" /\ Top(t).op = "gone"
  PROVE  PairingIInv'
<1>1. /\ Queued(todo) /\ Exclusive(todo) /\ Policy(pairing) /\ Connected(pairing, link)
      /\ Informed(todo, pairing, link) /\ spoiled \in BOOLEAN
  BY DEF PairingIInv
<1>2. /\ Placed(t, fr) /\ ~AtTop(fr, Looks)
      /\ \A c \in Conns : Count(fr, c) = One(pairing.attempt = c)
  BY <1>1, Cancelling, Unreffing
<1>3. /\ pairing' = p /\ Then(t, fr) /\ UNCHANGED <<timer, link, refs, told>>
      /\ spoiled' = (spoiled \/ pairing.connection \in {link.gen} \ {0})
  BY DEF Ends
<1>4. spoiled' \in BOOLEAN /\ (spoiled => spoiled')
  BY <1>1, <1>3
<1>5. ASSUME pairing.connection \in {link.gen} \ {0}
      PROVE  \/ link.gen # 0 /\ \E f \in Pending(fr) : Ending(f, link)
             \/ link.gen # 0 /\ \E f \in Pending(Tail(todo[t])) : Ending(f, link)
  <2>1. /\ pairing.attempt # None /\ pairing.attempt = link.conn
        /\ link.gen = pairing.connection /\ link.gen # 0
    BY <1>1, <1>5 DEF Policy, Connected
  <2>2. CASE fr = CancelConnection
    <3>1. PICK f \in Pending(fr) :
            f.op = "check" /\ f.conn = pairing.attempt /\ f.gen = pairing.connection
      BY <1>1, <2>1, <2>2, Cancelling
    <3> QED BY <2>1, <3>1 DEF Ending
  <2>3. CASE t = "stack" /\ Top(t).op = "gone"
    <3>1. /\ todo[t] \in Seq(Fit(t))
          /\ Pending(todo[t]) = {Top(t)} \cup Pending(Tail(todo[t]))
      <4>1. todo[t] \in Seq(Fit(t))
        BY <1>1 DEF Queued
      <4> QED BY <4>1, PendingParts DEF Top
    <3>2. PICK h \in Pending(todo["stack"]) : h.op = "unlink"
      BY <1>1, <2>1, <2>3, <3>1 DEF Informed
    <3>3. h.conn = link.conn
      BY <1>1, <3>2 DEF Informed
    <3>4. h \in Pending(Tail(todo[t]))
      BY <2>3, <3>1, <3>2
    <3> QED BY <2>1, <3>2, <3>3, <3>4 DEF Ending
  <2> QED BY <2>2, <2>3
<1> QED BY <1>2, <1>3, <1>4, <1>5, Terminated

-----------------------------------------------------------------------------
(* Sections and calls that several threads execute.                        *)

\* What the invariant says of the frame that a thread executes.
LEMMA TopFacts ==
  ASSUME Queued(todo), NEW t \in Threads, todo[t] # <<>>
  PROVE  /\ Top(t) \in Fit(t) /\ Top(t) \in Pending(todo[t])
         /\ todo[t] \in Seq(Fit(t)) /\ Tail(todo[t]) \in Seq(Fit(t))
         /\ Pending(todo[t]) = {Top(t)} \cup Pending(Tail(todo[t]))
         /\ \A f \in Pending(Tail(todo[t])) : f.op \in Rests
         /\ \A ops : Top(t).op \in ops => AtTop(todo[t], ops)
<1>1. todo[t] \in Seq(Fit(t)) /\ \A f \in Pending(Tail(todo[t])) : f.op \in Rests
  BY DEF Queued
<1> QED BY <1>1, PendingParts DEF Top, AtTop

\* A thread may have nothing to put in front.
LEMMA NothingPlaced ==
  ASSUME NEW t \in Threads
  PROVE  /\ Placed(t, <<>>) /\ \A ops : ~AtTop(<<>>, ops)
         /\ \A c : Count(<<>>, c) = 0
<1> QED BY Nothing DEF Placed, AtTop

\* One frame that a thread puts in front.
LEMMA OnePlaced ==
  ASSUME NEW t \in Threads, NEW f \in Fit(t), f.op \notin Callbacks \cup {"unlink", "gone"}
  PROVE  /\ Placed(t, <<f>>) /\ Pending(<<f>>) = {f}
         /\ \A ops : AtTop(<<f>>, ops) <=> f.op \in ops
         /\ \A c : Count(<<f>>, c) = One(Holds(f, c))
<1>1. /\ <<f>> \in Seq(Fit(t)) /\ <<f>> # <<>> /\ Head(<<f>>) = f /\ Tail(<<f>>) = <<>>
      /\ Pending(<<f>>) = {f} /\ \A c : Count(<<f>>, c) = One(Holds(f, c))
  BY Single
<1>2. Pending(<<>>) = {}
  BY Nothing
<1> QED BY <1>1, <1>2 DEF Placed, AtTop

\* A frame that is no holder holds nothing.
LEMMA HoldsNot ==
  ASSUME NEW f, f.op \notin Holders
  PROVE  \A c : One(Holds(f, c)) = 0
<1> QED BY DEF Holds, One

\* The expiry of a window that is due.
LEMMA ExpireKeeps ==
  ASSUME PairingAssumption, PairingIInv, NEW t \in Threads, Expire(t)
  PROVE  PairingIInv'
<1>1. Turn(t) /\ todo[t] # <<>> /\ Top(t).op = "expire"
  BY DEF Expire, At
<1>2. Top(t).op \notin Holders \cup {"check", "hangup", "unlink"}
  BY <1>1 DEF Holders
<1>3. CASE pairing.window # 0 /\ pairing.due
  <2>1. Ends(t, CloseWindow(Terminal("expired")), CancelConnection)
    BY <1>3 DEF Expire
  <2> QED BY <1>1, <1>2, <1>3, <2>1, EndsKeeps
<1>4. CASE ~(pairing.window # 0 /\ pairing.due)
  <2>1. Goes(t, <<>>)
    BY <1>4 DEF Expire
  <2>2. \A c : One(Holds(Top(t), c)) = 0
    BY <1>2, HoldsNot
  <2>3. ~Ending(Top(t), link)
    BY <1>1 DEF Ending
  <2> QED BY <1>1, <2>1, <2>2, <2>3, NothingPlaced, GoesKeeps
<1> QED BY <1>3, <1>4

\* The generation that the thread reads before it hangs up.
LEMMA CheckKeeps ==
  ASSUME PairingAssumption, PairingIInv, NEW t \in Threads, Check(t)
  PROVE  PairingIInv'
<1> DEFINE f == Top(t)
           h == [f EXCEPT !.op = "hangup"]
<1>1. /\ Turn(t) /\ todo[t] # <<>> /\ f.op = "check"
      /\ Queued(todo) /\ Informed(todo, pairing, link) /\ Doomed(todo, link, spoiled)
  BY DEF Check, At, PairingIInv
<1>2. f \in Fit(t) /\ \A ops : f.op \in ops => AtTop(todo[t], ops)
  BY <1>1, TopFacts
<1>3. h \in Fit(t) /\ h.op = "hangup" /\ h.conn = f.conn /\ h.gen = f.gen
  <2>1. f \in FrameType /\ f.conn \in Conns
    BY <1>1, <1>2 DEF Fit, Calls
  <2>2. "hangup" \in Ops(t) /\ "hangup" \in Op /\ "hangup" \notin Looks
    BY DEF Ops, Op, Calls, Looks
  <2> HIDE DEF f
  <2>3. h \in FrameType /\ h.op = "hangup" /\ h.conn = f.conn /\ h.gen = f.gen
    BY <2>1, <2>2 DEF FrameType
  <2> HIDE DEF h
  <2> QED BY <2>1, <2>2, <2>3 DEF Fit
<1>4. t = "owner" => pairing.window = 0
  BY <1>1, <1>2 DEF Informed, Hanging
<1> HIDE DEF f, h
<1>5. \A c : One(Holds(f, c)) = 0
  BY <1>1, HoldsNot DEF Holders
<1>6. \A c : One(Holds(h, c)) = 0
  BY <1>3, HoldsNot DEF Holders
<1>7. CASE link.conn = f.conn /\ link.gen # 0 /\ link.gen = f.gen
  <2>1. Goes(t, <<h>>)
    BY <1>7 DEF Check, f, h
  <2>2. Ending(h, link)
    BY <1>3, <1>7 DEF Ending
  <2>3. /\ Placed(t, <<h>>) /\ Pending(<<h>>) = {h}
        /\ \A ops : AtTop(<<h>>, ops) <=> h.op \in ops
        /\ \A c : Count(<<h>>, c) = One(Holds(h, c))
    BY <1>3, OnePlaced DEF Callbacks
  <2>4. ~AtTop(<<h>>, Looks)
    BY <1>3, <2>3 DEF Looks
  <2> QED BY <1>1, <1>4, <1>5, <1>6, <2>1, <2>2, <2>3, <2>4, GoesKeeps DEF f
<1>8. CASE ~(link.conn = f.conn /\ link.gen # 0 /\ link.gen = f.gen)
  <2>1. Goes(t, <<>>)
    BY <1>8 DEF Check, f
  <2>2. ~(spoiled /\ Ending(f, link))
    BY <1>1, <1>8 DEF Ending, Doomed
  <2> QED BY <1>1, <1>5, <2>1, <2>2, NothingPlaced, GoesKeeps DEF f
<1> QED BY <1>7, <1>8

\* The disconnection of a generation that is still the link's.
LEMMA HangupKeeps ==
  ASSUME PairingAssumption, PairingIInv, NEW t \in Threads, Hangup(t)
  PROVE  PairingIInv'
<1> DEFINE f == Top(t)
           a == Frame("auth", f.conn, 0, None)
<1>1. /\ Turn(t) /\ todo[t] # <<>> /\ f.op = "hangup" /\ Then(t, <<a>>)
      /\ pairing' = pairing /\ timer' = timer /\ refs' = refs /\ told' = told
  BY DEF Hangup, At
<1>2. /\ Queued(todo) /\ Policy(pairing) /\ refs \in [Conns -> Nat]
      /\ Connected(pairing, link) /\ Informed(todo, pairing, link)
      /\ Forward(todo, pairing, link, told) /\ Barred(pairing, link, told, spoiled)
      /\ Doomed(todo, link, spoiled) /\ Balanced(todo, pairing, link, refs)
      /\ timer \in 0 .. MaxWindow /\ told \in Event \cup {None} /\ Exclusive(todo)
  BY DEF PairingIInv
<1>3. f \in Fit(t) /\ \A ops : f.op \in ops => AtTop(todo[t], ops)
  BY <1>1, <1>2, TopFacts
<1>4. f.conn \in Conns
  BY <1>1, <1>3 DEF Fit, Calls
<1>5. t = "owner" => pairing.window = 0
  BY <1>1, <1>2, <1>3 DEF Informed, Hanging
<1> HIDE DEF f
<1>6. a \in Fit(t) /\ a.op = "auth" /\ a.conn = f.conn
  BY <1>4, Framed DEF Calls
<1> HIDE DEF a
<1>7. /\ Placed(t, <<a>>) /\ Pending(<<a>>) = {a}
      /\ \A ops : AtTop(<<a>>, ops) <=> a.op \in ops
      /\ \A c : Count(<<a>>, c) = One(Holds(a, c))
  BY <1>6, OnePlaced DEF Callbacks
<1>8. ~AtTop(<<a>>, Looks)
  BY <1>6, <1>7 DEF Looks
<1>9. (\A c : One(Holds(f, c)) = 0) /\ \A c : Count(<<a>>, c) = 0
  <2>1. \A c : One(Holds(f, c)) = 0
    BY <1>1, HoldsNot DEF Holders
  <2>2. \A c : One(Holds(a, c)) = 0
    BY <1>6, HoldsNot DEF Holders
  <2> QED BY <1>7, <2>1, <2>2
<1>10. CASE link.gen = f.gen
  <2>1. link' = [link EXCEPT !.gen = 0] /\ spoiled' = FALSE
    BY <1>10 DEF Hangup, f
  <2>2. link'.conn = link.conn /\ link'.gen = 0 /\ link'.counter = link.counter /\ link' \in LinkType
    BY <1>2, <2>1 DEF Connected, LinkType, PairingAssumption
  <2>3. Moved(t, <<a>>)
    BY <1>1, <1>2, <1>7, Moving
  <2>4. Informed(todo', pairing', link')
    BY <1>1, <1>2, <1>5, <2>2, <2>3, InformedKept DEF f
  <2>5. Forward(todo', pairing', link', told')
    <3>1. /\ \A e \in Pending(pairing'.events) : e \in Pending(pairing.events)
          /\ told # None /\ told.kind \in {"complete", "expired"} /\ told.window = pairing.counter =>
               pairing'.window = 0 /\ pairing'.events = <<>>
      BY <1>1, <1>2 DEF Forward
    <3> QED BY <1>1, <1>2, <1>8, <2>2, <2>3, <3>1, ForwardKept
  <2>6. Connected(pairing', link')
    BY <1>1, <1>2, <2>2 DEF Connected, Policy
  <2>7. Barred(pairing', link', told', spoiled')
    BY <2>2 DEF Barred, Cancelled
  <2>8. Doomed(todo', link', spoiled')
    BY <2>1 DEF Doomed
  <2>9. Balanced(todo', pairing', link', refs')
    <3>1. \A c \in Conns :
            refs'[c] + One(Holds(Top(t), c)) + One(link.conn = c) + One(pairing.attempt = c)
              = refs[c] + Count(<<a>>, c) + One(link'.conn = c) + One(pairing'.attempt = c)
      BY <1>1, <1>9, <2>2 DEF f
    <3>9. Settled(t, <<a>>)
      BY <3>1 DEF Settled
    <3> QED BY <1>1, <1>2, <2>3, <3>9, BalancedKept
  <2> QED BY <1>1, <1>2, <2>1, <2>3, <2>4, <2>5, <2>6, <2>7, <2>8, <2>9 DEF PairingIInv, Moved
<1>11. CASE link.gen # f.gen
  <2>1. link' = link /\ spoiled' = spoiled
    BY <1>11 DEF Hangup, f
  <2>2. Goes(t, <<a>>)
    BY <1>1, <2>1 DEF Goes, policy
  <2>3. ~Ending(f, link)
    BY <1>1, <1>11 DEF Ending
  <2> QED BY <1>1, <1>5, <1>7, <1>8, <1>9, <2>2, <2>3, GoesKeeps DEF f
<1> QED BY <1>10, <1>11

\* The cancellation, which may call back.
LEMMA AuthCancelKeeps ==
  ASSUME PairingAssumption, PairingIInv, NEW t \in Threads, AuthCancel(t)
  PROVE  PairingIInv'
<1> DEFINE f == Top(t)
           a == Frame("failed", f.conn, 0, None)
<1>1. /\ Turn(t) /\ todo[t] # <<>> /\ f.op = "auth"
      /\ Queued(todo) /\ Informed(todo, pairing, link)
  BY DEF AuthCancel, At, PairingIInv
<1>2. f \in Fit(t) /\ \A ops : f.op \in ops => AtTop(todo[t], ops)
  BY <1>1, TopFacts
<1>3. f.conn \in Conns
  BY <1>1, <1>2 DEF Fit, Calls
<1>4. t = "owner" => pairing.window = 0
  BY <1>1, <1>2 DEF Informed, Hanging
<1>5. Goes(t, <<>>) \/ Goes(t, <<a>>)
  BY DEF AuthCancel
<1> HIDE DEF f
<1>6. a \in Fit(t) /\ a.op = "failed"
  BY <1>3, Framed DEF Calls
<1> HIDE DEF a
<1>7. /\ Placed(t, <<a>>) /\ \A ops : AtTop(<<a>>, ops) <=> a.op \in ops
      /\ \A c : Count(<<a>>, c) = One(Holds(a, c))
  BY <1>6, OnePlaced DEF Callbacks
<1>8. /\ ~AtTop(<<a>>, Looks) /\ ~Ending(f, link)
      /\ \A c : One(Holds(f, c)) = 0 /\ One(Holds(a, c)) = 0
  <2>1. \A c : One(Holds(f, c)) = 0
    BY <1>1, HoldsNot DEF Holders
  <2>2. \A c : One(Holds(a, c)) = 0
    BY <1>6, HoldsNot DEF Holders
  <2> QED BY <1>1, <1>6, <1>7, <2>1, <2>2 DEF Looks, Ending
<1>9. CASE Goes(t, <<>>)
  BY <1>1, <1>8, <1>9, NothingPlaced, GoesKeeps DEF f
<1>10. CASE Goes(t, <<a>>)
  BY <1>1, <1>4, <1>7, <1>8, <1>10, GoesKeeps DEF f
<1> QED BY <1>5, <1>9, <1>10

\* A frame that holds a reference is counted.
LEMMA HeldCounts ==
  ASSUME PairingIInv, NEW t \in Threads, Turn(t), todo[t] # <<>>, NEW fr, Placed(t, fr),
         Then(t, fr), Top(t).op \in Holders, Top(t).conn \in Conns
  PROVE  /\ refs[Top(t).conn] \in Nat /\ refs[Top(t).conn] >= 1
         /\ \A c \in Conns : One(Holds(Top(t), c)) = One(Top(t).conn = c)
<1> DEFINE c == Top(t).conn
<1>1. /\ Queued(todo) /\ Exclusive(todo) /\ refs \in [Conns -> Nat]
      /\ Balanced(todo, pairing, link, refs)
  BY DEF PairingIInv
<1>2. Moved(t, fr)
  BY <1>1, Moving
<1>3. Total(todo', c) + One(Holds(Top(t), c)) = Total(todo, c) + Count(fr, c)
  BY <1>2 DEF Moved
<1>4. \A d \in Conns : One(Holds(Top(t), d)) = One(Top(t).conn = d)
  BY DEF Holds, One
<1>5. One(Holds(Top(t), c)) = 1
  BY DEF Holds, One
<1>6. 1 <= Count(todo[t], c)
  <2>1. todo[t] \in Seq(Fit(t)) /\ Top(t) = Head(todo[t])
    BY <1>1 DEF Queued, Top
  <2>2. /\ Count(<<>>, c) = 0 /\ <<>> \in Seq(Fit(t))
    BY Nothing
  <2>3. Count(<<>> \o Tail(todo[t]), c) + One(Holds(Head(todo[t]), c)) = Count(todo[t], c) + Count(<<>>, c)
    BY <2>1, <2>2, CountSpliced
  <2>4. Count(<<>> \o Tail(todo[t]), c) \in Nat
    <3>1. Tail(todo[t]) \in Seq(Fit(t))
      BY <2>1, PendingParts
    <3>2. <<>> \o Tail(todo[t]) \in Seq(Fit(t))
      BY <2>2, <3>1, ConcatProperties
    <3> QED BY <3>2, CountNat
  <2>5. Count(todo[t], c) \in Nat
    BY <2>1, CountNat
  <2> QED BY <1>5, <2>1, <2>2, <2>3, <2>4, <2>5
<1>7. /\ Count(todo["stack"], c) \in Nat /\ Count(todo["work"], c) \in Nat
      /\ Count(todo["owner"], c) \in Nat
  BY <1>1, TotalNat
<1>8. Total(todo, c) \in Nat /\ Total(todo, c) >= 1
  BY <1>6, <1>7 DEF Total, Threads
<1>9. /\ refs[c] = Total(todo, c) + One(link.conn = c) + One(pairing.attempt = c)
      /\ One(link.conn = c) \in Nat /\ One(pairing.attempt = c) \in Nat
  BY <1>1 DEF Balanced, One
<1> HIDE DEF c
<1>10. refs[c] \in Nat /\ refs[c] >= 1
  BY <1>8, <1>9
<1> QED BY <1>4, <1>10 DEF c

\* The reference that a thread gives back.
LEMMA GiveBackKeeps ==
  ASSUME PairingAssumption, PairingIInv, NEW t \in Threads, GiveBack(t)
  PROVE  PairingIInv'
<1> DEFINE f == Top(t)
<1>1. /\ Turn(t) /\ todo[t] # <<>> /\ f.op = "unref" /\ Then(t, <<>>)
      /\ refs' = [refs EXCEPT ![f.conn] = @ - 1]
      /\ UNCHANGED <<pairing, link, told, spoiled>> /\ timer' = timer
      /\ Queued(todo) /\ refs \in [Conns -> Nat] /\ timer' \in 0 .. MaxWindow
  BY DEF GiveBack, At, PairingIInv
<1>2. f \in Fit(t)
  BY <1>1, TopFacts
<1>3. f.conn \in Conns
  BY <1>1, <1>2 DEF Fit, Calls
<1>4. /\ refs[f.conn] \in Nat /\ refs[f.conn] >= 1
      /\ \A c \in Conns : One(Holds(f, c)) = One(f.conn = c)
  BY <1>1, <1>3, NothingPlaced, HeldCounts DEF Holders
<1>5. ~Ending(f, link) /\ f.op # "unlink"
  BY <1>1 DEF Ending
<1>6. \A c : Count(<<>>, c) = 0
  BY NothingPlaced
<1> HIDE DEF f
<1>7. refs' \in [Conns -> Nat] /\ \A c \in Conns : refs'[c] + One(Holds(f, c)) = refs[c] + Count(<<>>, c)
  <2>1. refs[f.conn] - 1 \in Nat
    BY <1>4
  <2>2. refs' \in [Conns -> Nat]
    BY <1>1, <2>1
  <2>3. ASSUME NEW c \in Conns  PROVE  refs'[c] + One(Holds(f, c)) = refs[c] + Count(<<>>, c)
    <3>1. Count(<<>>, c) = 0 /\ refs[c] \in Nat
      BY <1>1, <1>6
    <3>2. CASE c = f.conn
      <4>1. refs'[c] = refs[c] - 1 /\ One(Holds(f, c)) = 1
        BY <1>1, <1>3, <1>4, <3>2 DEF One
      <4> QED BY <3>1, <4>1
    <3>3. CASE c # f.conn
      <4>1. refs'[c] = refs[c] /\ One(Holds(f, c)) = 0
        BY <1>1, <1>3, <1>4, <3>3 DEF One
      <4> QED BY <3>1, <4>1
    <3> QED BY <3>2, <3>3
  <2> QED BY <2>2, <2>3
<1> QED BY <1>1, <1>5, <1>7, NothingPlaced, StaysKeeps DEF f

\* An attempt that failed, or whose link is gone.
LEMMA FailedKeeps ==
  ASSUME PairingAssumption, PairingIInv, NEW t \in Threads, Failed(t)
  PROVE  PairingIInv'
<1> DEFINE f == Top(t)
<1>1. PICK op \in {"failed", "gone"} :
        /\ At(t, op)
        /\ IF pairing.attempt # f.conn THEN Goes(t, <<>>)
           ELSE Ends(t, Spent(Terminal("cancelled")),
                     IF op = "failed" THEN CancelConnection ELSE <<Unref(pairing.attempt)>>)
  BY DEF Failed
<1>2. /\ Turn(t) /\ todo[t] # <<>> /\ f.op = op
      /\ Queued(todo) /\ Informed(todo, pairing, link) /\ Policy(pairing)
  BY <1>1 DEF At, PairingIInv
<1>3. f \in Fit(t) /\ \A ops : f.op \in ops => AtTop(todo[t], ops)
  BY <1>2, TopFacts
<1>4. f.conn \in Conns /\ (op = "gone" => t = "stack")
  <2>1. f.conn \in Conns
    BY <1>2, <1>3 DEF Fit, Calls
  <2>2. f.op \in Ops(t)
    BY <1>3 DEF Fit
  <2> QED BY <1>2, <2>1, <2>2 DEF Ops, Calls, Looks, Threads
<1>5. f.op \notin Holders \cup {"check", "hangup", "unlink"} /\ ~Ending(f, link)
  BY <1>2 DEF Holders, Ending
<1>6. CASE pairing.attempt # f.conn
  <2>1. Goes(t, <<>>)
    BY <1>1, <1>6
  <2>2. \A c : One(Holds(f, c)) = 0
    BY <1>5, HoldsNot
  <2> QED BY <1>2, <1>5, <2>1, <2>2, NothingPlaced, GoesKeeps DEF f
<1>7. CASE pairing.attempt = f.conn
  <2>1. pairing.attempt # None /\ pairing.attempt \in Conns /\ pairing.window # 0
    BY <1>2, <1>4, <1>7 DEF Policy, PolicyType, PairingAssumption
  <2>2. t # "owner"
    BY <1>2, <1>3, <1>4, <2>1 DEF Informed, Hanging
  <2> DEFINE fr == IF op = "failed" THEN CancelConnection ELSE <<Unref(pairing.attempt)>>
  <2>3. Ends(t, Spent(Terminal("cancelled")), fr)
    BY <1>1, <1>7
  <2>4. \/ fr = CancelConnection
        \/ /\ fr = <<Unref(pairing.attempt)>> /\ pairing.attempt \in Conns
           /\ t = "stack" /\ Top(t).op = "gone"
    BY <1>2, <1>4, <2>1
  <2> HIDE DEF fr
  <2> QED BY <1>2, <1>5, <2>1, <2>2, <2>3, <2>4, EndsKeeps
<1> QED BY <1>6, <1>7

\* The timer is set to a window.
LEMMA ArmKeeps ==
  ASSUME PairingAssumption, PairingIInv, NEW t \in Threads, Arm(t)
  PROVE  PairingIInv'
<1> DEFINE f == Top(t)
<1>1. /\ Turn(t) /\ todo[t] # <<>> /\ f.op = "arm" /\ Then(t, <<>>) /\ timer' = f.gen
      /\ UNCHANGED <<pairing, link, told, spoiled>> /\ refs' = refs
      /\ Queued(todo) /\ refs' \in [Conns -> Nat]
  BY DEF Arm, At, PairingIInv
<1>2. f \in Fit(t)
  BY <1>1, TopFacts
<1>3. timer' \in 0 .. MaxWindow
  BY <1>1, <1>2 DEF Fit
<1>4. ~Ending(f, link) /\ f.op # "unlink"
  BY <1>1 DEF Ending
<1>5. \A c : One(Holds(f, c)) = 0
  BY <1>1, HoldsNot DEF Holders
<1>6. \A c \in Conns : refs'[c] + One(Holds(f, c)) = refs[c] + Count(<<>>, c)
  BY <1>1, <1>5, NothingPlaced
<1> QED BY <1>1, <1>3, <1>4, <1>6, NothingPlaced, StaysKeeps

\* What every thread may do.
LEMMA CommonKeeps ==
  ASSUME PairingAssumption, PairingIInv, NEW t \in Threads, Common(t)
  PROVE  PairingIInv'
<1> QED BY ExpireKeeps, CheckKeeps, HangupKeeps, AuthCancelKeeps, GiveBackKeeps, FailedKeeps,
           ArmKeeps DEF Common

-----------------------------------------------------------------------------
(* The owner.                                                              *)

\* A thread that is idle is called: its frames know the link, and end no attempt.
LEMMA CalledKeeps ==
  ASSUME PairingIInv, NEW t \in Threads, NEW fr, Called(t, fr),
         UNCHANGED <<pairing, link, refs, told, spoiled>>, timer' \in 0 .. MaxWindow,
         AtTop(fr, Callbacks) => Head(fr).conn = link.conn /\ Head(fr).gen = link.gen,
         t = "owner" => ~AtTop(fr, Hanging) /\ ~AtTop(fr, Looks),
         \A f \in Pending(fr) :
           /\ f.op = "unlink" => f.conn = link.conn
           /\ f.op = "gone" => \E h \in Pending(fr) : h.op = "unlink"
  PROVE  PairingIInv'
<1>1. /\ pairing' = pairing /\ link' = link /\ refs' = refs
      /\ told' = told /\ spoiled' = spoiled
  OBVIOUS
<1>2. /\ Queued(todo') /\ Exclusive(todo')
      /\ \A u \in Threads \ {t} : todo'[u] = todo[u]
      /\ todo[t] = <<>> /\ todo'[t] = fr
      /\ \A c : Total(todo', c) = Total(todo, c)
  BY DEF Called
<1>3. Informed(todo', pairing', link')
  <2>1. Informed(todo, pairing, link)
    BY DEF PairingIInv
  <2>2. AtTop(todo'["stack"], Callbacks) =>
          Head(todo'["stack"]).conn = link.conn /\ Head(todo'["stack"]).gen = link.gen
    <3>1. CASE t = "stack"
      BY <1>2, <3>1
    <3>2. CASE t # "stack"
      BY <1>2, <2>1, <3>2 DEF Informed, Threads
    <3> QED BY <3>1, <3>2
  <2>3. AtTop(todo'["owner"], Hanging) => pairing.window = 0
    <3>1. CASE t = "owner"
      BY <1>2, <3>1
    <3>2. CASE t # "owner"
      BY <1>2, <2>1, <3>2 DEF Informed, Threads
    <3> QED BY <3>1, <3>2
  <2>4. ASSUME NEW f \in Pending(todo'["stack"])
        PROVE  /\ f.op = "unlink" => f.conn = link.conn
               /\ f.op = "gone" => link.gen = 0 \/ \E h \in Pending(todo'["stack"]) : h.op = "unlink"
    <3>1. CASE t = "stack"
      BY <1>2, <2>4, <3>1
    <3>2. CASE t # "stack"
      <4>1. todo'["stack"] = todo["stack"]
        BY <1>2, <3>2 DEF Threads
      <4> QED BY <2>1, <2>4, <4>1 DEF Informed
    <3> QED BY <3>1, <3>2
  <2> QED BY <1>1, <2>2, <2>3, <2>4 DEF Informed
<1>4. Forward(todo', pairing', link', told')
  <2>1. Forward(todo, pairing, link, told)
    BY DEF PairingIInv
  <2>2. CASE t = "owner"
    BY <1>1, <1>2, <2>1, <2>2 DEF Forward
  <2>3. CASE t # "owner"
    <3>1. todo'["owner"] = todo["owner"]
      BY <1>2, <2>3 DEF Threads
    <3> QED BY <1>1, <2>1, <3>1 DEF Forward
  <2> QED BY <2>2, <2>3
<1>5. Doomed(todo', link', spoiled')
  <2> SUFFICES ASSUME spoiled
               PROVE  link.gen # 0 /\ \E u \in Threads : \E f \in Pending(todo'[u]) : Ending(f, link)
    BY <1>1 DEF Doomed
  <2>1. link.gen # 0 /\ \E u \in Threads : \E f \in Pending(todo[u]) : Ending(f, link)
    BY DEF PairingIInv, Doomed
  <2>2. PICK u \in Threads : \E f \in Pending(todo[u]) : Ending(f, link)
    BY <2>1
  <2>3. u # t
    BY <1>2, <2>2, Nothing
  <2> QED BY <1>2, <2>1, <2>2, <2>3
<1>6. Balanced(todo', pairing', link', refs')
  BY <1>1, <1>2 DEF PairingIInv, Balanced
<1> QED BY <1>1, <1>2, <1>3, <1>4, <1>5, <1>6 DEF PairingIInv

\* A frame that is about no connection.
LEMMA PlainFits ==
  ASSUME PairingAssumption, NEW t \in Threads,
         NEW o \in Ops(t) \cap {"expire", "open", "close", "pop", "poll", "arm"}, NEW g \in Nat,
         o = "arm" => g \in 0 .. MaxWindow
  PROVE  /\ Frame(o, None, g, None) \in Fit(t) /\ Frame(o, None, g, None).op = o
         /\ Frame(o, None, g, None).gen = g
<1> DEFINE f == Frame(o, None, g, None)
<1>1. f.op = o /\ f.conn = None /\ f.gen = g /\ f.arg = None
  BY DEF Frame
<1>2. o \in Op
  BY DEF Op, Threads
<1>3. f \in FrameType
  BY <1>2 DEF FrameType, Frame
<1>4. o \notin Calls \cup Callbacks \cup Looks \cup {"gone", "unlink", "display"}
  BY DEF Calls, Callbacks, Looks
<1> HIDE DEF f
<1> QED BY <1>1, <1>3, <1>4 DEF Fit, f

\* A call with frames about no connection: the first, and perhaps a second.
LEMMA PlainCalled ==
  ASSUME PairingIInv, NEW t \in Threads, NEW fr \in Seq(Fit(t)), Call(t, fr),
         UNCHANGED <<pairing, link, refs, told, spoiled>>, timer' \in 0 .. MaxWindow,
         \A f \in Pending(fr) : f.op \in {"expire", "open", "close", "pop", "poll"},
         fr # <<>> => \A f \in Pending(Tail(fr)) : f.op \in Rests
  PROVE  PairingIInv'
<1>1. Queued(todo) /\ Exclusive(todo)
  BY DEF PairingIInv
<1>2. \A f \in Pending(fr) : f.op \notin Holders \cup Callbacks \cup Hanging \cup Looks \cup {"unlink", "gone"}
  BY DEF Holders, Callbacks, Hanging, Looks
<1>3. AtTop(fr, Callbacks \cup Hanging \cup Looks) => Head(fr) \in Pending(fr)
  BY PendingParts DEF AtTop
<1>4. ~AtTop(fr, Callbacks) /\ ~AtTop(fr, Hanging) /\ ~AtTop(fr, Looks)
  BY <1>2, <1>3 DEF AtTop
<1>5. \A i, j \in DOMAIN fr : fr[i].op = "unlink" /\ fr[j].op = "unlink" => i = j
  BY <1>2 DEF Pending
<1>6. Called(t, fr)
  BY <1>1, <1>2, <1>4, <1>5, Calling
<1> QED BY <1>2, <1>4, <1>6, CalledKeeps

\* PAIR, LOCK or START, and the take of the radio tick.
LEMMA CommandKeeps ==
  ASSUME PairingAssumption, PairingIInv, Command
  PROVE  PairingIInv'
<1> DEFINE E == Plain("expire")
           O == Plain("open")
           C == Plain("close")
           P == Frame("pop", None, EventsMax, None)
<1>1. PICK fr \in {<<E, O>>, <<C>>, <<E, P>>} : Call("owner", fr)
  BY DEF Command
<1>2. UNCHANGED <<pairing, link, refs, told, spoiled>> /\ timer' \in 0 .. MaxWindow
  BY DEF Command, policy, PairingIInv
<1>3. {"expire", "open", "close", "pop"} \subseteq Ops("owner") /\ "owner" \in Threads
  BY DEF Ops, Threads
<1>4. EventsMax \in Nat
  BY DEF PairingAssumption
<1>5. /\ E \in Fit("owner") /\ E.op = "expire" /\ O \in Fit("owner") /\ O.op = "open"
      /\ C \in Fit("owner") /\ C.op = "close"
  BY <1>3, PlainFits DEF Plain
<1>6. P \in Fit("owner") /\ P.op = "pop"
  BY <1>3, <1>4, PlainFits
<1> HIDE DEF E, O, C, P
<1>7. CASE fr = <<E, O>>
  <2>1. /\ fr \in Seq(Fit("owner")) /\ Tail(fr) = <<O>> /\ Pending(fr) = {E, O}
        /\ Pending(<<O>>) = {O}
    BY <1>5, <1>7, Pair, Single
  <2> QED BY <1>1, <1>2, <1>3, <1>5, <2>1, PlainCalled DEF Rests
<1>8. CASE fr = <<C>>
  <2>1. /\ fr \in Seq(Fit("owner")) /\ Tail(fr) = <<>> /\ Pending(fr) = {C}
        /\ Pending(<<>>) = {}
    BY <1>5, <1>8, Single, Nothing
  <2> QED BY <1>1, <1>2, <1>3, <1>5, <2>1, PlainCalled DEF Rests
<1>9. CASE fr = <<E, P>>
  <2>1. /\ fr \in Seq(Fit("owner")) /\ Tail(fr) = <<P>> /\ Pending(fr) = {E, P}
        /\ Pending(<<P>>) = {P}
    BY <1>5, <1>6, <1>9, Pair, Single
  <2> QED BY <1>1, <1>2, <1>3, <1>5, <1>6, <2>1, PlainCalled DEF Rests
<1> QED BY <1>1, <1>7, <1>8, <1>9

\* aura_pairing_close.
LEMMA CloseKeeps ==
  ASSUME PairingAssumption, PairingIInv, Close
  PROVE  PairingIInv'
<1>1. /\ Turn("owner") /\ todo["owner"] # <<>> /\ Top("owner").op = "close" /\ "owner" \in Threads
      /\ Policy(pairing)
  BY DEF Close, At, PairingIInv, Threads
<1>2. Top("owner").op \notin Holders \cup {"check", "hangup", "unlink"}
  BY <1>1 DEF Holders
<1>3. CASE pairing.window = 0 /\ pairing.attempt = None
  <2>1. Goes("owner", <<>>)
    BY <1>3 DEF Close
  <2>2. \A c : One(Holds(Top("owner"), c)) = 0
    BY <1>2, HoldsNot
  <2>3. ~Ending(Top("owner"), link)
    BY <1>1 DEF Ending
  <2> QED BY <1>1, <2>1, <2>2, <2>3, NothingPlaced, GoesKeeps
<1>4. CASE ~(pairing.window = 0 /\ pairing.attempt = None)
  <2>1. Ends("owner", CloseWindow(Terminal("cancelled")), CancelConnection)
    BY <1>4 DEF Close
  <2>2. pairing.window # 0
    BY <1>1, <1>4 DEF Policy
  <2> QED BY <1>1, <1>2, <2>1, <2>2, EndsKeeps
<1> QED BY <1>3, <1>4

\* aura_pairing_open: the next window has no attempt and no event.
LEMMA OpenKeeps ==
  ASSUME PairingAssumption, PairingIInv, Open
  PROVE  PairingIInv'
<1> DEFINE w == pairing.counter + 1
           t == "owner"
           a == Frame("arm", None, w, None)
<1>1. /\ Turn(t) /\ todo[t] # <<>> /\ Top(t).op = "open" /\ t \in Threads
  BY DEF Open, At, Threads
<1>2. /\ Queued(todo) /\ Policy(pairing) /\ refs \in [Conns -> Nat]
      /\ Connected(pairing, link) /\ Informed(todo, pairing, link)
      /\ Forward(todo, pairing, link, told) /\ Barred(pairing, link, told, spoiled)
      /\ Doomed(todo, link, spoiled) /\ Balanced(todo, pairing, link, refs)
      /\ timer \in 0 .. MaxWindow /\ told \in Event \cup {None} /\ Exclusive(todo)
      /\ spoiled \in BOOLEAN
  BY DEF PairingIInv
<1>3. (\A c : One(Holds(Top(t), c)) = 0) /\ ~Ending(Top(t), link) /\ Top(t).op # "unlink"
  <2>1. \A c : One(Holds(Top(t), c)) = 0
    BY <1>1, HoldsNot DEF Holders
  <2> QED BY <1>1, <2>1 DEF Ending
<1>4. CASE OpenLocked \/ pairing.counter = MaxWindow
  <2>1. Goes(t, <<>>)
    BY <1>4 DEF Open
  <2> QED BY <1>1, <1>3, <2>1, NothingPlaced, GoesKeeps
<1>5. CASE ~(OpenLocked \/ pairing.counter = MaxWindow)
  <2>1. /\ pairing' = [pairing EXCEPT !.counter = w, !.window = w, !.due = FALSE,
                                      !.attempts = 0, !.events = <<>>]
        /\ Then(t, <<a>>) /\ timer' = timer /\ link' = link /\ refs' = refs /\ told' = told
        /\ spoiled' = spoiled
    BY <1>5 DEF Open
  <2>2. /\ pairing \in PolicyType /\ pairing.counter \in 0 .. MaxWindow /\ MaxWindow \in Nat
        /\ AttemptsMax \in Nat /\ EventsMax \in Nat /\ MaxGen \in Nat
        /\ pairing.counter # MaxWindow
    BY <1>2, <1>5 DEF Policy, PolicyType, PairingAssumption
  <2>3. w \in 0 .. MaxWindow /\ w \in Nat /\ w # 0 /\ w > pairing.counter /\ 0 \in 0 .. AttemptsMax
    BY <2>2
  <2> HIDE DEF w
  <2>4. /\ pairing'.counter = w /\ pairing'.window = w /\ pairing'.events = <<>>
        /\ pairing'.attempt = pairing.attempt /\ pairing'.connection = pairing.connection
        /\ pairing'.attemptWindow = pairing.attemptWindow
    BY <2>1, <2>2 DEF PolicyType
  <2>5. pairing' \in PolicyType
    <3>1. <<>> \in Seq(Event)
      OBVIOUS
    <3> QED BY <2>1, <2>2, <2>3, <3>1 DEF PolicyType
  <2>6. Pending(pairing'.events) = {} /\ Len(pairing'.events) = 0
    BY <2>4, Nothing
  <2>7. Policy(pairing')
    <3>1. pairing.attempt # None => pairing'.attemptWindow \in 1 .. pairing'.window
      BY <1>2, <2>2, <2>3, <2>4 DEF Policy, PolicyType
    <3> QED BY <1>2, <2>2, <2>4, <2>5, <2>6, <3>1 DEF Policy
  <2>8. a \in Fit(t) /\ a.op = "arm"
    <3>1. "arm" \in Ops(t)
      BY DEF Ops
    <3> QED BY <1>1, <2>3, <3>1, PlainFits
  <2> HIDE DEF a
  <2>9. /\ Placed(t, <<a>>) /\ ~AtTop(<<a>>, Hanging) /\ ~AtTop(<<a>>, Looks)
        /\ \A c : Count(<<a>>, c) = 0
    <3>1. /\ Placed(t, <<a>>)
          /\ \A ops : AtTop(<<a>>, ops) <=> a.op \in ops
          /\ \A c : Count(<<a>>, c) = One(Holds(a, c))
      BY <1>1, <2>8, OnePlaced DEF Callbacks
    <3>2. \A c : One(Holds(a, c)) = 0
      BY <2>8, HoldsNot DEF Holders
    <3> QED BY <2>8, <3>1, <3>2 DEF Hanging, Looks
  <2>10. Moved(t, <<a>>)
    BY <1>1, <1>2, <2>1, <2>9, Moving
  <2>11. Informed(todo', pairing', link')
    BY <1>1, <1>2, <1>3, <2>1, <2>9, <2>10, InformedKept
  <2>12. Connected(pairing', link')
    BY <1>2, <2>1, <2>4, <2>6 DEF Connected
  <2>13. Forward(todo', pairing', link', told')
    <3>1. ~AtTop(todo'["owner"], Looks)
      BY <2>9, <2>10, Apart DEF Moved
    <3>2. ASSUME told # None
          PROVE  /\ told \in Event /\ told.window <= w /\ told.window # w
                 /\ Behind(told, pairing', link')
                 /\ told.kind = "cancelled" /\ pairing'.attempt # None =>
                      pairing'.connection > told.connection
      <4>1. told \in Event /\ told.window <= pairing.counter /\ told.window \in Nat
        BY <1>2, <2>2, <3>2 DEF Forward, Event
      <4>2. told.window <= w /\ told.window # w
        BY <2>2, <2>3, <4>1
      <4>3. Behind(told, pairing', link')
        BY <1>2, <2>1, <2>4, <2>6, <3>2 DEF Forward, Behind
      <4> QED BY <1>2, <2>4, <3>2, <4>1, <4>2, <4>3 DEF Forward
    <3> QED BY <2>1, <2>4, <3>1, <3>2 DEF Forward
  <2>14. Barred(pairing', link', told', spoiled')
    BY <1>2, <2>1, <2>6 DEF Barred
  <2>15. Doomed(todo', link', spoiled')
    BY <1>1, <1>2, <1>3, <2>1, <2>10, DoomedKept DEF Doomed
  <2>16. Balanced(todo', pairing', link', refs')
    <3>1. \A c \in Conns :
            refs'[c] + One(Holds(Top(t), c)) + One(link.conn = c) + One(pairing.attempt = c)
              = refs[c] + Count(<<a>>, c) + One(link'.conn = c) + One(pairing'.attempt = c)
      BY <1>3, <2>1, <2>4, <2>9
    <3>9. Settled(t, <<a>>)
      BY <3>1 DEF Settled
    <3> QED BY <1>1, <1>2, <2>1, <2>10, <3>9, BalancedKept
  <2> QED BY <1>2, <2>1, <2>7, <2>10, <2>11, <2>12, <2>13, <2>14, <2>15, <2>16
          DEF PairingIInv, Moved
<1> QED BY <1>4, <1>5

\* What the owner has left of the queue when it took the first event.
LEMMA Popped ==
  ASSUME PairingAssumption, Policy(pairing), pairing.events # <<>>,
         pairing' = [pairing EXCEPT !.events = Tail(@)]
  PROVE  /\ Head(pairing.events) \in Pending(pairing.events)
         /\ Head(pairing.events) \in Event /\ Policy(pairing')
         /\ pairing'.window = pairing.window /\ pairing'.counter = pairing.counter
         /\ pairing'.attempt = pairing.attempt /\ pairing'.connection = pairing.connection
         /\ pairing'.events = Tail(pairing.events)
         /\ Pending(pairing'.events) \subseteq Pending(pairing.events)
         /\ pairing.attempt = None => pairing'.events = <<>>
<1> DEFINE s == pairing.events
           r == Tail(s)
<1>1. /\ pairing \in PolicyType /\ s \in Seq(Event) /\ s # <<>> /\ Len(s) <= EventsMax
      /\ EventsMax \in Nat
  BY DEF Policy, PolicyType, PairingAssumption
<1>2. /\ Head(s) \in Event /\ r \in Seq(Event)
      /\ Pending(s) = {Head(s)} \cup Pending(r)
  <2> HIDE DEF s
  <2> QED BY <1>1, PendingParts
<1>3. Len(s) \in Nat /\ Len(r) \in Nat /\ Len(r) = Len(s) - 1 /\ DOMAIN r = 1 .. Len(r)
  <2> HIDE DEF s
  <2>1. Len(r) = Len(s) - 1
    BY <1>1, HeadTailProperties
  <2> HIDE DEF r
  <2> QED BY <1>1, <1>2, <2>1, LenProperties
<1> HIDE DEF r, s
<1>4. pairing' = [pairing EXCEPT !.events = r]
  BY DEF r, s
<1>5. /\ pairing' \in PolicyType /\ pairing'.window = pairing.window
      /\ pairing'.counter = pairing.counter /\ pairing'.attempt = pairing.attempt
      /\ pairing'.connection = pairing.connection /\ pairing'.events = r
      /\ pairing'.attemptWindow = pairing.attemptWindow
  BY <1>1, <1>2, <1>4 DEF PolicyType
<1>6. Len(pairing'.events) <= EventsMax /\ (Len(s) <= 1 => Len(pairing'.events) <= 1)
  BY <1>1, <1>3, <1>5
<1>7. \A x \in Pending(pairing'.events) : x \in Pending(pairing.events)
  BY <1>2, <1>5 DEF s
<1>8. Policy(pairing')
  BY <1>5, <1>6, <1>7 DEF Policy, s
<1>9. pairing.attempt = None => r = <<>>
  <2>1. pairing.attempt = None => Len(s) <= 1
    BY DEF Policy, s
  <2>2. pairing.attempt = None => Len(r) = 0
    BY <1>1, <1>3, <2>1
  <2> QED BY <1>2, <2>2, EmptySeq
<1> QED BY <1>2, <1>5, <1>7, <1>8, <1>9 DEF r, s

\* What of an event the history keeps.
LEMMA ShownFacts ==
  ASSUME PairingAssumption, NEW e \in Event
  PROVE  /\ Shown(e) \in Event /\ Shown(e).kind = e.kind /\ Shown(e).window = e.window
         /\ Shown(e).connection = e.connection
<1> QED BY DEF Shown, Event

\* The owner took an event of the current window that is no key.
LEMMA TakenKeeps ==
  ASSUME PairingAssumption, PairingIInv, Turn("owner"), todo["owner"] # <<>>,
         Top("owner").op = "pop", pairing.events # <<>>,
         Head(pairing.events).kind # "passkey", Head(pairing.events).window = pairing.counter,
         pairing' = [pairing EXCEPT !.events = Tail(@)],
         told' = Shown(Head(pairing.events)), Then("owner", <<>>),
         UNCHANGED <<refs, timer, link, spoiled>>
  PROVE  PairingIInv'
<1> DEFINE e == Head(pairing.events)
           t == "owner"
<1>1. t \in Threads
  BY DEF Threads
<1>2. /\ Queued(todo) /\ Policy(pairing) /\ refs \in [Conns -> Nat]
      /\ Connected(pairing, link) /\ Informed(todo, pairing, link)
      /\ Barred(pairing, link, told, spoiled)
      /\ Doomed(todo, link, spoiled) /\ Balanced(todo, pairing, link, refs)
      /\ timer \in 0 .. MaxWindow /\ Exclusive(todo) /\ spoiled \in BOOLEAN
  BY DEF PairingIInv
<1>3. /\ e \in Pending(pairing.events) /\ e \in Event /\ Policy(pairing')
      /\ pairing'.window = pairing.window /\ pairing'.counter = pairing.counter
      /\ pairing'.attempt = pairing.attempt /\ pairing'.connection = pairing.connection
      /\ Pending(pairing'.events) \subseteq Pending(pairing.events)
      /\ pairing.attempt = None => pairing'.events = <<>>
  BY <1>2, Popped
<1> HIDE DEF e
<1>4. /\ told' \in Event /\ told'.kind = e.kind /\ told'.window = e.window
      /\ told'.connection = e.connection /\ told' # None
  BY <1>3, ShownFacts DEF e, PairingAssumption
<1>5. e.kind # "passkey" /\ e.window = pairing.counter
  BY DEF e
<1>6. pairing.attempt = None /\ pairing'.events = <<>> /\ Pending(pairing'.events) = {}
  BY <1>2, <1>3, <1>5, Nothing DEF Policy
<1>7. Moved(t, <<>>) /\ ~AtTop(<<>>, Looks) /\ ~AtTop(<<>>, Hanging) /\ \A c : Count(<<>>, c) = 0
  BY <1>1, <1>2, NothingPlaced, Moving
<1>8. (\A c : One(Holds(Top(t), c)) = 0) /\ ~Ending(Top(t), link) /\ Top(t).op # "unlink"
  <2>1. \A c : One(Holds(Top(t), c)) = 0
    BY HoldsNot DEF Holders
  <2> QED BY <2>1 DEF Ending
<1>9. link' = link /\ refs' = refs /\ timer' = timer /\ spoiled' = spoiled
  OBVIOUS
<1>10. Informed(todo', pairing', link')
  BY <1>1, <1>2, <1>7, <1>8, <1>9, InformedKept
<1>11. Connected(pairing', link')
  BY <1>2, <1>3, <1>6, <1>9 DEF Connected
<1>12. Forward(todo', pairing', link', told')
  <2>1. ~AtTop(todo'["owner"], Looks)
    BY <1>7, Apart DEF Moved
  <2>2. Behind(told', pairing', link')
    BY <1>2, <1>3, <1>4, <1>6, <1>9 DEF Behind, Connected
  <2>3. told'.window <= pairing'.counter
    <3>1. pairing.counter \in Nat
      BY <1>2 DEF Policy, PolicyType, PairingAssumption
    <3> QED BY <1>3, <1>4, <1>5, <3>1
  <2>4. told'.kind \in {"complete", "expired"} => pairing'.window = 0
    BY <1>2, <1>3, <1>4 DEF Policy
  <2> QED BY <1>3, <1>4, <1>6, <2>1, <2>2, <2>3, <2>4 DEF Forward
<1>13. Barred(pairing', link', told', spoiled')
  <2>1. Cancelled(told', link) => spoiled
    BY <1>2, <1>3, <1>4 DEF Barred, Cancelled
  <2> QED BY <1>6, <1>9, <2>1 DEF Barred
<1>14. Doomed(todo', link', spoiled')
  BY <1>1, <1>2, <1>7, <1>8, <1>9, DoomedKept DEF Doomed
<1>15. Balanced(todo', pairing', link', refs')
  <2>1. \A c \in Conns :
          refs'[c] + One(Holds(Top(t), c)) + One(link.conn = c) + One(pairing.attempt = c)
            = refs[c] + Count(<<>>, c) + One(link'.conn = c) + One(pairing'.attempt = c)
    BY <1>3, <1>7, <1>8, <1>9
  <2>2. /\ refs' \in [Conns -> Nat] /\ refs \in [Conns -> Nat] /\ Queued(todo)
        /\ Balanced(todo, pairing, link, refs) /\ Moved(t, <<>>)
    BY <1>2, <1>7, <1>9
  <2>9. Settled(t, <<>>)
    BY <2>1 DEF Settled
  <2> QED BY <1>1, <2>9, <2>2, BalancedKept
<1> QED BY <1>2, <1>3, <1>4, <1>7, <1>9, <1>10, <1>11, <1>12, <1>13, <1>14, <1>15
        DEF PairingIInv, Moved

\* The owner took an event that it does not show, or a key that it looks at again.
LEMMA LookedKeeps ==
  ASSUME PairingAssumption, PairingIInv, Turn("owner"), todo["owner"] # <<>>,
         Top("owner").op = "pop", pairing.events # <<>>,
         pairing' = [pairing EXCEPT !.events = Tail(@)],
         UNCHANGED <<timer, link, told, spoiled>>,
         NEW a \in Fit("owner"), Then("owner", <<a>>),
         refs' \in [Conns -> Nat], \A c \in Conns : refs'[c] = refs[c] + One(Holds(a, c)),
         \/ a.op = "pop"
         \/ /\ a.op = "look" /\ a.arg = Head(pairing.events) /\ a.arg.kind = "passkey"
            /\ pairing.attempt # None
  PROVE  PairingIInv'
<1> DEFINE e == Head(pairing.events)
           t == "owner"
<1>1. t \in Threads
  BY DEF Threads
<1>2. /\ Queued(todo) /\ Policy(pairing) /\ refs \in [Conns -> Nat]
      /\ Connected(pairing, link) /\ Informed(todo, pairing, link)
      /\ Forward(todo, pairing, link, told) /\ Barred(pairing, link, told, spoiled)
      /\ Doomed(todo, link, spoiled) /\ Balanced(todo, pairing, link, refs)
      /\ timer \in 0 .. MaxWindow /\ Exclusive(todo) /\ spoiled \in BOOLEAN
      /\ told \in Event \cup {None}
  BY DEF PairingIInv
<1>3. /\ e \in Pending(pairing.events) /\ e \in Event /\ Policy(pairing')
      /\ pairing'.window = pairing.window /\ pairing'.counter = pairing.counter
      /\ pairing'.attempt = pairing.attempt /\ pairing'.connection = pairing.connection
      /\ Pending(pairing'.events) \subseteq Pending(pairing.events)
  BY <1>2, Popped
<1>4. /\ Placed(t, <<a>>) /\ ~AtTop(<<a>>, Hanging)
      /\ AtTop(<<a>>, Looks) => a.op = "look" /\ Head(<<a>>) = a
      /\ \A c : Count(<<a>>, c) = One(Holds(a, c))
  BY <1>1, OnePlaced DEF Callbacks, Hanging, Looks
<1>5. Moved(t, <<a>>)
  BY <1>1, <1>2, <1>4, Moving
<1>6. (\A c : One(Holds(Top(t), c)) = 0) /\ ~Ending(Top(t), link) /\ Top(t).op # "unlink"
  <2>1. \A c : One(Holds(Top(t), c)) = 0
    BY HoldsNot DEF Holders
  <2> QED BY <2>1 DEF Ending
<1>7. link' = link /\ timer' = timer /\ spoiled' = spoiled /\ told' = told
  OBVIOUS
<1>8. Informed(todo', pairing', link')
  BY <1>1, <1>2, <1>4, <1>5, <1>6, <1>7, InformedKept
<1>9. Connected(pairing', link')
  BY <1>2, <1>3, <1>7 DEF Connected
<1>10. Forward(todo', pairing', link', told')
  <2>1. ASSUME a.op = "look"
        PROVE  /\ a.arg.kind = "passkey" /\ Behind(a.arg, pairing, link)
               /\ told # None => Later(a.arg, told)
    <3>1. a.arg = e /\ e.kind = "passkey" /\ pairing.attempt # None
      BY <2>1
    <3>2. e.connection = pairing.connection /\ pairing.connection \in Nat
      <4>1. e.connection = pairing.connection
        BY <1>2, <1>3, <3>1 DEF Policy
      <4>2. pairing.connection \in Nat
        BY <1>2 DEF Policy, PolicyType, PairingAssumption
      <4> QED BY <4>1, <4>2
    <3>3. \A x \in Pending(pairing.events) : x.connection = pairing.connection
      BY <1>2, <3>1 DEF Policy
    <3>4. Behind(e, pairing, link)
      BY <1>2, <1>3, <3>2, <3>3 DEF Behind, Connected
    <3>5. told # None => Later(e, told)
      BY <1>2, <1>3, <3>1, <3>2 DEF Later, Forward, Behind
    <3> QED BY <3>1, <3>4, <3>5
  <2>2. ~(told # None /\ told.kind \in {"complete", "expired"} /\ told.window = pairing.counter)
    BY <1>2 DEF Forward
  <2>3. AtTop(<<a>>, Looks) =>
           /\ Head(<<a>>).arg.kind = "passkey" /\ Behind(Head(<<a>>).arg, pairing, link)
           /\ told # None => Later(Head(<<a>>).arg, told)
    BY <1>4, <2>1
  <2>4. \A x \in Pending(pairing'.events) : x \in Pending(pairing.events)
    BY <1>3
  <2> QED BY <1>1, <1>2, <1>3, <1>5, <1>7, <2>2, <2>3, <2>4, ForwardKept
<1>11. Barred(pairing', link', told', spoiled')
  BY <1>2, <1>3, <1>7 DEF Barred
<1>12. Doomed(todo', link', spoiled')
  BY <1>1, <1>2, <1>5, <1>6, <1>7, DoomedKept DEF Doomed
<1>13. Balanced(todo', pairing', link', refs')
  <2>1. ASSUME NEW c \in Conns
        PROVE  refs'[c] + One(Holds(Top(t), c)) + One(link.conn = c) + One(pairing.attempt = c)
                 = refs[c] + Count(<<a>>, c) + One(link'.conn = c) + One(pairing'.attempt = c)
    <3>1. /\ refs'[c] = refs[c] + One(Holds(a, c)) /\ One(Holds(Top(t), c)) = 0
          /\ Count(<<a>>, c) = One(Holds(a, c)) /\ refs[c] \in Nat /\ One(Holds(a, c)) \in Nat
      BY <1>2, <1>4, <1>6 DEF One
    <3>2. One(link'.conn = c) = One(link.conn = c) /\ One(pairing'.attempt = c) = One(pairing.attempt = c)
      BY <1>3, <1>7
    <3> QED BY <3>1, <3>2
  <2>2. /\ refs' \in [Conns -> Nat] /\ refs \in [Conns -> Nat] /\ Queued(todo)
        /\ Balanced(todo, pairing, link, refs) /\ Moved(t, <<a>>)
    BY <1>2, <1>5
  <2>9. Settled(t, <<a>>)
    BY <2>1 DEF Settled
  <2> QED BY <1>1, <2>9, <2>2, BalancedKept
<1> QED BY <1>2, <1>3, <1>5, <1>7, <1>8, <1>9, <1>10, <1>11, <1>12, <1>13
        DEF PairingIInv, Moved

\* aura_pairing_take, its first section.
LEMMA PopKeeps ==
  ASSUME PairingAssumption, PairingIInv, Pop
  PROVE  PairingIInv'
<1> DEFINE f == Top("owner")
           e == Head(pairing.events)
<1>1. /\ Turn("owner") /\ todo["owner"] # <<>> /\ f.op = "pop" /\ "owner" \in Threads
      /\ UNCHANGED <<timer, link, spoiled>>
      /\ Queued(todo) /\ Policy(pairing) /\ refs \in [Conns -> Nat]
  BY DEF Pop, At, PairingIInv, Threads
<1>2. f \in Fit("owner")
  BY <1>1, TopFacts
<1>3. f \in FrameType
  BY <1>2 DEF Fit
<1>4. (\A c : One(Holds(f, c)) = 0) /\ ~Ending(f, link) /\ f.op # "unlink"
  <2>1. \A c : One(Holds(f, c)) = 0
    BY <1>1, HoldsNot DEF Holders
  <2> QED BY <1>1, <2>1 DEF Ending
<1>5. CASE pairing.events = <<>> \/ f.gen = 0
  <2>1. Then("owner", <<>>) /\ pairing' = pairing /\ refs' = refs /\ told' = told
    BY <1>5 DEF Pop
  <2>2. Goes("owner", <<>>)
    BY <1>1, <2>1 DEF Goes, policy
  <2> QED BY <1>1, <1>4, <2>2, NothingPlaced, GoesKeeps
<1>6. CASE ~(pairing.events = <<>> \/ f.gen = 0)
  <2> DEFINE valid == /\ e.window = pairing.counter
                      /\ e.kind = "passkey" => /\ OpenLocked /\ pairing.window = e.window
                                               /\ pairing.attempt # None
                                               /\ pairing.connection = e.connection
  <2>1. pairing' = [pairing EXCEPT !.events = Tail(@)] /\ pairing.events # <<>> /\ f.gen # 0
    BY <1>6 DEF Pop
  <2>2. e \in Event
    BY <1>1, <2>1, Popped
  <2>3. /\ ~valid => /\ Then("owner", <<[f EXCEPT !.gen = @ - 1]>>)
                     /\ refs' = refs /\ told' = told
        /\ valid /\ e.kind # "passkey" => told' = Shown(e) /\ Then("owner", <<>>) /\ refs' = refs
        /\ valid /\ e.kind = "passkey" =>
             /\ refs' = [refs EXCEPT ![pairing.attempt] = @ + 1]
             /\ Then("owner", <<Frame("look", pairing.attempt, f.gen - 1, e)>>)
             /\ told' = told
    BY <1>6 DEF Pop
  <2>4. f.gen - 1 \in Nat
    BY <1>3, <2>1 DEF FrameType
  <2>5. CASE ~valid
    <3> DEFINE a == [f EXCEPT !.gen = @ - 1]
    <3>1. a \in FrameType /\ a.op = "pop"
      <4> HIDE DEF f
      <4> QED BY <1>1, <1>3, <2>4 DEF FrameType
    <3>2. "pop" \in Ops("owner")
      BY DEF Ops
    <3>3. Then("owner", <<a>>) /\ refs' = refs /\ told' = told
      BY <2>3, <2>5
    <3> HIDE DEF a, valid, f
    <3>4. a \in Fit("owner")
      BY <3>1, <3>2 DEF Fit, Calls, Callbacks, Looks
    <3>5. \A c : One(Holds(a, c)) = 0
      BY <3>1, HoldsNot DEF Holders
    <3>6. refs' \in [Conns -> Nat] /\ \A c \in Conns : refs'[c] = refs[c] + One(Holds(a, c))
      BY <1>1, <3>3, <3>5
    <3> QED BY <1>1, <2>1, <3>1, <3>3, <3>4, <3>6, LookedKeeps DEF f
  <2>6. CASE valid /\ e.kind # "passkey"
    BY <1>1, <2>1, <2>3, <2>6, TakenKeeps
  <2>7. CASE valid /\ e.kind = "passkey"
    <3> DEFINE a == Frame("look", pairing.attempt, f.gen - 1, e)
    <3>1. pairing.attempt # None /\ pairing.attempt \in Conns
      BY <1>1, <2>7 DEF Policy, PolicyType
    <3>2. /\ refs' = [refs EXCEPT ![pairing.attempt] = @ + 1] /\ Then("owner", <<a>>)
          /\ told' = told
      BY <2>3, <2>7
    <3>3. a.op = "look" /\ a.conn = pairing.attempt /\ a.arg = e /\ e.kind = "passkey"
      BY <2>7 DEF Frame
    <3>4. "look" \in Ops("owner") /\ "look" \in Op
      BY DEF Ops, Op, Looks
    <3>5. a \in FrameType
      BY <2>2, <2>4, <3>1, <3>4 DEF FrameType, Frame
    <3> HIDE DEF a, valid, e, f
    <3>6. a \in Fit("owner")
      BY <2>2, <3>1, <3>3, <3>4, <3>5 DEF Fit
    <3>7. \A c \in Conns : One(Holds(a, c)) = One(pairing.attempt = c)
      BY <3>3 DEF Holds, Holders, One
    <3>8. refs' \in [Conns -> Nat] /\ \A c \in Conns : refs'[c] = refs[c] + One(Holds(a, c))
      BY <1>1, <3>1, <3>2, <3>7 DEF One
    <3> QED BY <1>1, <2>1, <3>1, <3>2, <3>3, <3>6, <3>8, LookedKeeps DEF f, e
  <2> QED BY <2>5, <2>6, <2>7
<1> QED BY <1>5, <1>6

\* aura_pairing_take, its second section: the key is shown, or looked for again.
LEMMA LookKeeps ==
  ASSUME PairingAssumption, PairingIInv, Look
  PROVE  PairingIInv'
<1> DEFINE t == "owner"
           f == Top(t)
           h == [f EXCEPT !.op = "report"]
           u == Unref(f.conn)
           p == Frame("pop", None, f.gen, None)
           seen == At("owner", "look") /\ link.conn = f.conn /\ link.gen = f.arg.connection
           valid == /\ At("owner", "report") /\ OpenLocked
                    /\ pairing.attempt = f.conn /\ pairing.window = f.arg.window
<1>1. /\ Turn(t) /\ todo[t] # <<>> /\ f.op \in Looks /\ t \in Threads
      /\ UNCHANGED <<pairing, timer, link, refs, spoiled>>
  BY DEF Look, At, Threads, Looks
<1>2. /\ Queued(todo) /\ Policy(pairing) /\ refs \in [Conns -> Nat]
      /\ Connected(pairing, link) /\ Informed(todo, pairing, link)
      /\ Forward(todo, pairing, link, told) /\ Barred(pairing, link, told, spoiled)
      /\ Doomed(todo, link, spoiled) /\ Balanced(todo, pairing, link, refs)
      /\ timer \in 0 .. MaxWindow /\ Exclusive(todo) /\ spoiled \in BOOLEAN
      /\ told \in Event \cup {None}
  BY DEF PairingIInv
<1>3. f \in Fit(t) /\ \A ops : f.op \in ops => AtTop(todo[t], ops)
  BY <1>1, <1>2, TopFacts
<1>4. f \in FrameType /\ f.conn \in Conns /\ f.arg \in Event /\ f.gen \in Nat
  <2>1. f \in FrameType /\ f.conn \in Conns /\ f.arg \in Event
    BY <1>1, <1>3 DEF Fit
  <2> QED BY <2>1 DEF FrameType
<1>5. /\ f.arg.kind = "passkey" /\ Behind(f.arg, pairing, link)
      /\ told # None => Later(f.arg, told)
  BY <1>1, <1>2, <1>3 DEF Forward, Top
<1>6. Then(t, CASE seen -> <<h>> [] valid -> <<u>> [] OTHER -> <<u, p>>)
  BY DEF Look
<1>7. told' = IF valid THEN Shown(f.arg) ELSE told
  BY DEF Look
<1>8. ~(seen /\ valid)
  BY DEF At
<1>9. \/ Then(t, <<h>>) /\ told' = told
      \/ Then(t, <<u>>) /\ valid /\ told' = Shown(f.arg)
      \/ Then(t, <<u, p>>) /\ told' = told
  <2>1. CASE seen
    BY <1>6, <1>7, <1>8, <2>1
  <2>2. CASE ~seen /\ valid
    BY <1>6, <1>7, <2>2
  <2>3. CASE ~seen /\ ~valid
    BY <1>6, <1>7, <2>3
  <2> QED BY <2>1, <2>2, <2>3
<1>10. /\ f.op # "unlink" /\ ~Ending(f, link)
       /\ \A c \in Conns : One(Holds(f, c)) = One(f.conn = c)
  BY <1>1 DEF Looks, Ending, Holds, Holders, One
<1>11. /\ timer' \in 0 .. MaxWindow /\ refs' \in [Conns -> Nat] /\ refs' = refs
       /\ UNCHANGED <<pairing, link, spoiled>>
  BY <1>1, <1>2
<1>12. CASE Then(t, <<h>>) /\ told' = told
  <2> HIDE DEF f, u, p, valid
  <2>1. h \in FrameType /\ h.op = "report" /\ h.conn = f.conn /\ h.arg = f.arg
    <3>1. "report" \in Op
      BY DEF Op, Ops, Looks
    <3> QED BY <1>4, <3>1 DEF FrameType
  <2> HIDE DEF h
  <2>2. h \in Fit(t)
    <3>1. "report" \in Ops(t)
      BY DEF Ops, Looks
    <3> QED BY <1>4, <2>1, <3>1 DEF Fit
  <2>3. /\ Placed(t, <<h>>) /\ ~AtTop(<<h>>, Hanging) /\ Head(<<h>>) = h
        /\ \A c : Count(<<h>>, c) = One(Holds(h, c))
    BY <1>1, <2>1, <2>2, OnePlaced DEF Callbacks, Hanging
  <2>4. \A c \in Conns : One(Holds(h, c)) = One(f.conn = c)
    BY <2>1 DEF Holds, Holders, One
  <2>5. \A c \in Conns : refs'[c] + One(Holds(f, c)) = refs[c] + Count(<<h>>, c)
    BY <1>10, <1>11, <2>3, <2>4
  <2>6. AtTop(<<h>>, Looks) =>
           /\ Head(<<h>>).arg.kind = "passkey" /\ Behind(Head(<<h>>).arg, pairing, link)
           /\ told # None => Later(Head(<<h>>).arg, told)
    BY <1>5, <2>1, <2>3
  <2>7. UNCHANGED <<pairing, link, told, spoiled>>
    BY <1>11, <1>12
  <2> QED BY <1>1, <1>10, <1>11, <1>12, <2>3, <2>5, <2>6, <2>7, StaysKeeps DEF f
<1>13. /\ Placed(t, <<u>>) /\ u.op = "unref" /\ u.conn = f.conn /\ u \in Fit(t)
       /\ ~AtTop(<<u>>, Looks) /\ ~AtTop(<<u>>, Hanging)
       /\ \A c \in Conns : Count(<<u>>, c) = One(f.conn = c)
  <2>1. u \in Fit(t)
    BY <1>1, <1>4, Framed DEF Unref, Calls
  <2> QED BY <1>1, <1>4, <2>1, Unreffing
<1>14. CASE Then(t, <<u, p>>) /\ told' = told
  <2> HIDE DEF u, f, h, valid
  <2>1. p \in Fit(t) /\ p.op = "pop"
    <3>1. "pop" \in Ops(t)
      BY DEF Ops
    <3> QED BY <1>1, <1>4, <3>1, PlainFits
  <2> HIDE DEF p
  <2> DEFINE fr == <<u, p>>
  <2>2. /\ fr \in Seq(Fit(t)) /\ Head(fr) = u /\ Tail(fr) = <<p>> /\ Pending(fr) = {u, p}
        /\ \A c : Count(fr, c) = One(Holds(u, c)) + One(Holds(p, c))
    BY <1>13, <2>1, Pair, CountPair
  <2>3. Pending(<<p>>) = {p}
    BY <2>1, Single
  <2>4. Then(t, fr)
    BY <1>14
  <2> HIDE DEF fr
  <2>5. Placed(t, fr) /\ ~AtTop(fr, Looks) /\ ~AtTop(fr, Hanging)
    BY <1>13, <2>1, <2>2, <2>3 DEF Placed, AtTop, Rests, Callbacks, Looks, Hanging
  <2>6. ASSUME NEW c \in Conns  PROVE  refs'[c] + One(Holds(f, c)) = refs[c] + Count(fr, c)
    <3>1. One(Holds(u, c)) = One(f.conn = c) /\ One(Holds(p, c)) = 0
      BY <1>13, <2>1 DEF Holds, Holders, One
    <3>2. One(f.conn = c) \in Nat /\ refs[c] \in Nat
      BY <1>2 DEF One
    <3> QED BY <1>10, <1>11, <2>2, <3>1, <3>2
  <2>7. UNCHANGED <<pairing, link, told, spoiled>>
    BY <1>11, <1>14
  <2> QED BY <1>1, <1>10, <1>11, <2>4, <2>5, <2>6, <2>7, StaysKeeps DEF f
<1>15. CASE Then(t, <<u>>) /\ valid /\ told' = Shown(f.arg)
  <2>1. OpenLocked /\ pairing.attempt = f.conn /\ pairing.window = f.arg.window
    BY <1>15
  <2>2. Then(t, <<u>>) /\ told' = Shown(f.arg)
    BY <1>15
  <2> HIDE DEF u, f, h, p, valid
  <2>3. /\ told' \in Event /\ told'.kind = "passkey" /\ told'.window = pairing.window
        /\ told'.connection = f.arg.connection /\ told' # None
    BY <1>4, <1>5, <2>1, <2>2, ShownFacts DEF PairingAssumption
  <2>4. Moved(t, <<u>>)
    BY <1>1, <1>2, <1>13, <2>2, Moving
  <2>5. pairing' = pairing /\ link' = link /\ spoiled' = spoiled
    BY <1>11
  <2>6. Informed(todo', pairing', link')
    BY <1>1, <1>2, <1>10, <1>13, <2>4, <2>5, InformedKept DEF f
  <2>7. Forward(todo', pairing', link', told')
    <3>1. ~AtTop(todo'["owner"], Looks)
      BY <1>13, <2>4, Apart DEF Moved
    <3>2. Behind(told', pairing', link')
      BY <1>5, <2>3, <2>5 DEF Behind
    <3>3. told'.window <= pairing'.counter
      <4>1. pairing.window = pairing.counter /\ pairing.counter \in Nat
        BY <1>2, <2>1 DEF OpenLocked, Policy, PolicyType, PairingAssumption
      <4> QED BY <2>3, <2>5, <4>1
    <3> QED BY <2>3, <3>1, <3>2, <3>3 DEF Forward
  <2>8. Barred(pairing', link', told', spoiled')
    BY <1>2, <2>3, <2>5 DEF Barred, Cancelled
  <2>9. Doomed(todo', link', spoiled')
    BY <1>1, <1>2, <1>10, <2>4, <2>5, DoomedKept DEF f, Doomed
  <2>10. Balanced(todo', pairing', link', refs')
    <3>1. \A c \in Conns :
            refs'[c] + One(Holds(Top(t), c)) + One(link.conn = c) + One(pairing.attempt = c)
              = refs[c] + Count(<<u>>, c) + One(link'.conn = c) + One(pairing'.attempt = c)
      BY <1>10, <1>11, <1>13, <2>5 DEF f
    <3>2. Settled(t, <<u>>)
      BY <3>1 DEF Settled
    <3> QED BY <1>1, <1>2, <1>11, <2>4, <3>2, BalancedKept
  <2>11. Policy(pairing') /\ Connected(pairing', link')
    BY <1>2, <2>5
  <2> QED BY <1>2, <1>11, <2>3, <2>4, <2>5, <2>6, <2>7, <2>8, <2>9, <2>10, <2>11
          DEF PairingIInv, Moved
<1> QED BY <1>9, <1>12, <1>14, <1>15

-----------------------------------------------------------------------------
(* The work queue and time.                                                *)

\* The expiry work.
LEMMA FiresKeeps ==
  ASSUME PairingAssumption, PairingIInv, Fires
  PROVE  PairingIInv'
<1> DEFINE E == Plain("expire")
           O == Plain("poll")
           fr == <<E, O>>
<1>1. /\ Call("work", fr) /\ UNCHANGED <<pairing, link, refs, told, spoiled>>
      /\ timer' \in 0 .. MaxWindow
  BY DEF Fires, PairingAssumption
<1>2. {"expire", "poll"} \subseteq Ops("work") /\ "work" \in Threads
  BY DEF Ops, Threads
<1>3. E \in Fit("work") /\ E.op = "expire" /\ O \in Fit("work") /\ O.op = "poll"
  BY <1>2, PlainFits DEF Plain
<1> HIDE DEF E, O
<1>4. /\ fr \in Seq(Fit("work")) /\ Tail(fr) = <<O>> /\ Pending(fr) = {E, O}
      /\ Pending(<<O>>) = {O}
  BY <1>3, Pair, Single
<1> HIDE DEF fr
<1> QED BY <1>1, <1>2, <1>3, <1>4, PlainCalled DEF Rests

\* The work waits for the window that it finds.
LEMMA PollKeeps ==
  ASSUME PairingAssumption, PairingIInv, Poll
  PROVE  PairingIInv'
<1> DEFINE t == "work"
           f == Top(t)
           a == Frame("arm", None, pairing.window, None)
<1>1. /\ Turn(t) /\ todo[t] # <<>> /\ f.op = "poll" /\ t \in Threads /\ Policy(pairing)
  BY DEF Poll, At, Threads, PairingIInv
<1>2. (\A c : One(Holds(f, c)) = 0) /\ ~Ending(f, link) /\ f.op # "unlink"
  <2>1. \A c : One(Holds(f, c)) = 0
    BY <1>1, HoldsNot DEF Holders
  <2> QED BY <1>1, <2>1 DEF Ending
<1>3. Goes(t, <<>>) \/ Goes(t, <<a>>)
  BY DEF Poll
<1>4. CASE Goes(t, <<>>)
  BY <1>1, <1>2, <1>4, NothingPlaced, GoesKeeps
<1>5. CASE Goes(t, <<a>>)
  <2>1. pairing.window \in 0 .. MaxWindow /\ pairing.window \in Nat
    BY <1>1 DEF Policy, PolicyType, PairingAssumption
  <2>2. "arm" \in Ops(t)
    BY DEF Ops
  <2>3. a \in Fit(t) /\ a.op = "arm"
    BY <1>1, <2>1, <2>2, PlainFits
  <2> HIDE DEF a
  <2>4. Placed(t, <<a>>) /\ \A c : Count(<<a>>, c) = One(Holds(a, c))
    BY <1>1, <2>3, OnePlaced DEF Callbacks
  <2>5. \A c : One(Holds(a, c)) = 0
    BY <2>3, HoldsNot DEF Holders
  <2> QED BY <1>1, <1>2, <1>5, <2>4, <2>5, GoesKeeps
<1> QED BY <1>3, <1>4, <1>5

\* The deadline passes.
LEMMA TimeKeeps ==
  ASSUME PairingAssumption, PairingIInv, Time
  PROVE  PairingIInv'
<1>1. /\ pairing' = [pairing EXCEPT !.due = TRUE] /\ pairing \in PolicyType
      /\ UNCHANGED <<timer, link, refs, todo, told, spoiled>>
  BY DEF Time, PairingIInv, Policy
<1>2. /\ pairing' \in PolicyType /\ pairing'.window = pairing.window
      /\ pairing'.counter = pairing.counter /\ pairing'.attempt = pairing.attempt
      /\ pairing'.attemptWindow = pairing.attemptWindow
      /\ pairing'.connection = pairing.connection /\ pairing'.events = pairing.events
  BY <1>1 DEF PolicyType
<1>3. Policy(pairing')
  BY <1>2 DEF PairingIInv, Policy
<1>4. Connected(pairing', link') /\ Informed(todo', pairing', link')
  BY <1>1, <1>2 DEF PairingIInv, Connected, Informed
<1>5. Forward(todo', pairing', link', told')
  BY <1>1, <1>2 DEF PairingIInv, Forward, Behind
<1>6. Barred(pairing', link', told', spoiled') /\ Doomed(todo', link', spoiled')
  BY <1>1, <1>2 DEF PairingIInv, Barred
<1>7. Balanced(todo', pairing', link', refs')
  BY <1>1, <1>2 DEF PairingIInv, Balanced
<1> QED BY <1>1, <1>3, <1>4, <1>5, <1>6, <1>7 DEF PairingIInv

-----------------------------------------------------------------------------
(* The stack's callbacks.                                                  *)

\* A callback's frame.
LEMMA CallbackFits ==
  ASSUME PairingAssumption, NEW o \in Callbacks \cup {"failed", "gone", "unlink"},
         NEW c \in Conns, NEW g \in Nat, NEW k \in Passkeys \cup {None},
         o = "display" => k \in Passkeys
  PROVE  /\ Frame(o, c, g, k) \in Fit("stack") /\ Frame(o, c, g, k).op = o
         /\ Frame(o, c, g, k).conn = c /\ Frame(o, c, g, k).gen = g
<1> DEFINE f == Frame(o, c, g, k)
<1>1. f.op = o /\ f.conn = c /\ f.gen = g /\ f.arg = k
  BY DEF Frame
<1>2. o \in Ops("stack") /\ o \in Op
  BY DEF Ops, Op, Calls
<1>3. f \in FrameType
  BY <1>2 DEF FrameType, Frame
<1>4. o \notin Looks /\ o # "arm"
  BY DEF Callbacks, Looks
<1> HIDE DEF f
<1> QED BY <1>1, <1>2, <1>3, <1>4 DEF Fit, f

\* A callback begins, and has read the generation.
LEMMA CallbackKeeps ==
  ASSUME PairingAssumption, PairingIInv, NEW c \in Conns, Callback(c)
  PROVE  PairingIInv'
<1>1. /\ link.conn = c /\ UNCHANGED <<pairing, link, refs, told, spoiled>>
      /\ timer' \in 0 .. MaxWindow /\ Queued(todo) /\ Exclusive(todo) /\ link.gen \in Nat
      /\ "stack" \in Threads
  BY DEF Callback, policy, PairingIInv, Connected, LinkType, PairingAssumption, Threads
<1>2. PICK o \in Callbacks \cup {"failed"}, k \in Passkeys \cup {None} :
        /\ Call("stack", <<Frame(o, c, link.gen, k)>>)
        /\ o = "display" => k \in Passkeys
  BY DEF Callback, Callbacks
<1> DEFINE f == Frame(o, c, link.gen, k)
<1>3. f \in Fit("stack") /\ f.op = o /\ f.conn = c /\ f.gen = link.gen
  BY <1>1, <1>2, CallbackFits
<1>4. Call("stack", <<f>>)
  BY <1>2
<1> HIDE DEF f
<1> DEFINE fr == <<f>>
<1>5. /\ fr \in Seq(Fit("stack")) /\ Head(fr) = f /\ Tail(fr) = <<>> /\ Pending(fr) = {f}
      /\ DOMAIN fr = {1} /\ Pending(<<>>) = {}
  BY <1>3, Single, Nothing
<1>6. Call("stack", fr)
  BY <1>4
<1> HIDE DEF fr
<1>7. f.op \notin Holders /\ f.op # "unlink" /\ f.op # "gone"
  BY <1>3 DEF Callbacks, Holders
<1>8. Called("stack", fr)
  BY <1>1, <1>5, <1>6, <1>7, Calling
<1> QED BY <1>1, <1>3, <1>5, <1>7, <1>8, CalledKeeps

\* What a callback finds at its top: its link, and no link to be hung up while a
\* window is open.
LEMMA CallbackFacts ==
  ASSUME PairingAssumption, PairingIInv, todo["stack"] # <<>>, Top("stack").op \in Callbacks
  PROVE  /\ "stack" \in Threads /\ Top("stack") \in Fit("stack")
         /\ Top("stack").conn = link.conn /\ Top("stack").gen = link.gen
         /\ link.conn \in Conns /\ link.gen \in Nat
         /\ pairing.window # 0 => ~spoiled
         /\ ~Ending(Top("stack"), link) /\ \A c : One(Holds(Top("stack"), c)) = 0
         /\ Top("stack").op \notin Holders \cup {"check", "hangup", "unlink"}
<1> DEFINE f == Top("stack")
<1>1. /\ Queued(todo) /\ Exclusive(todo) /\ Informed(todo, pairing, link)
      /\ Doomed(todo, link, spoiled) /\ Connected(pairing, link) /\ "stack" \in Threads
  BY DEF PairingIInv, Threads
<1>2. /\ f \in Fit("stack") /\ AtTop(todo["stack"], Callbacks)
      /\ Pending(todo["stack"]) = {f} \cup Pending(Tail(todo["stack"]))
  BY <1>1, TopFacts
<1>3. f.conn = link.conn /\ f.gen = link.gen
  BY <1>1, <1>2 DEF Informed, Top
<1>4. f.conn \in Conns
  BY <1>2 DEF Fit
<1>5. link.gen \in Nat
  BY <1>1 DEF Connected, LinkType, PairingAssumption
<1>6. f.op \notin Holders \cup {"check", "hangup", "unlink"}
  BY DEF Callbacks, Holders
<1>7. ~Ending(f, link)
  BY <1>6 DEF Ending
<1>8. \A c : One(Holds(f, c)) = 0
  BY <1>6, HoldsNot
<1>9. ASSUME pairing.window # 0, spoiled  PROVE  FALSE
  <2>1. PICK u \in Threads : \E h \in Pending(todo[u]) : Ending(h, link)
    BY <1>1, <1>9 DEF Doomed
  <2>2. PICK h \in Pending(todo[u]) : Ending(h, link)
    BY <2>1
  <2>3. todo[u] # <<>>
    BY <2>2, Nothing
  <2>4. /\ Pending(todo[u]) = {Top(u)} \cup Pending(Tail(todo[u]))
        /\ \A x \in Pending(Tail(todo[u])) : x.op \in Rests
        /\ Top(u) \in Fit(u) /\ \A ops : Top(u).op \in ops => AtTop(todo[u], ops)
    BY <1>1, <2>3, TopFacts
  <2>5. CASE u = "stack"
    <3>1. Pending(todo["stack"]) = {f}
      BY <1>1, <1>2, Nothing DEF Queued
    <3> QED BY <1>7, <2>2, <2>5, <3>1
  <2>6. CASE u # "stack"
    <3>1. h.op \in Ops(u)
      <4>1. todo[u] \in Seq(Fit(u))
        BY <1>1 DEF Queued
      <4>2. h \in Fit(u)
        BY <2>2, <2>3, <4>1, PendingParts
      <4> QED BY <4>2 DEF Fit
    <3>2. h.op \in {"check", "hangup"}
      BY <2>2, <2>6, <3>1 DEF Ending, Ops, Calls, Looks, Threads
    <3>3. h = Top(u)
      BY <2>2, <2>4, <3>2 DEF Rests
    <3>4. CASE u = "work"
      BY <1>1, <1>2, <2>3, <3>2, <3>3, <3>4 DEF Exclusive, Busy, Top, AtTop, Callbacks
    <3>5. CASE u = "owner"
      BY <1>1, <1>9, <2>4, <3>2, <3>3, <3>5 DEF Informed, Hanging
    <3> QED BY <2>6, <3>4, <3>5 DEF Threads
  <2> QED BY <2>5, <2>6
<1> QED BY <1>1, <1>2, <1>3, <1>4, <1>5, <1>6, <1>7, <1>8, <1>9

\* A new attempt, on the link's generation.
LEMMA AcceptKeeps ==
  ASSUME PairingAssumption, PairingIInv, Accept
  PROVE  PairingIInv'
<1> DEFINE t == "stack"
           f == Top(t)
<1>1. Turn(t) /\ todo[t] # <<>> /\ f.op = "accept"
  BY DEF Accept, At
<1>2. /\ Queued(todo) /\ Policy(pairing) /\ refs \in [Conns -> Nat]
      /\ Connected(pairing, link) /\ Informed(todo, pairing, link)
      /\ Forward(todo, pairing, link, told) /\ Barred(pairing, link, told, spoiled)
      /\ Doomed(todo, link, spoiled) /\ Balanced(todo, pairing, link, refs)
      /\ timer \in 0 .. MaxWindow /\ Exclusive(todo) /\ spoiled \in BOOLEAN
      /\ told \in Event \cup {None}
  BY DEF PairingIInv
<1>3. /\ t \in Threads /\ f \in Fit(t) /\ f.conn = link.conn /\ f.gen = link.gen
      /\ link.conn \in Conns /\ link.gen \in Nat
      /\ pairing.window # 0 => ~spoiled
      /\ ~Ending(f, link) /\ (\A c : One(Holds(f, c)) = 0) /\ f.op # "unlink"
  BY <1>1, CallbackFacts DEF Callbacks
<1>4. CASE \/ f.gen = 0 \/ ~OpenLocked
           \/ pairing.attempt # None \/ pairing.attempts = AttemptsMax
  <2>1. Goes(t, <<>>)
    BY <1>4 DEF Accept
  <2> QED BY <1>1, <1>3, <2>1, NothingPlaced, GoesKeeps
<1>5. CASE ~(\/ f.gen = 0 \/ ~OpenLocked
             \/ pairing.attempt # None \/ pairing.attempts = AttemptsMax)
  <2>1. /\ pairing' = [pairing EXCEPT !.events = <<>>, !.attempt = f.conn, !.attempts = @ + 1,
                                      !.connection = f.gen, !.attemptWindow = pairing.window]
        /\ refs' = [refs EXCEPT ![f.conn] = @ + 1] /\ Then(t, <<>>)
        /\ timer' = timer /\ link' = link /\ told' = told /\ spoiled' = spoiled
    BY <1>5 DEF Accept
  <2>2. /\ f.gen # 0 /\ pairing.window # 0 /\ pairing.attempt = None
        /\ pairing.attempts # AttemptsMax
    BY <1>5 DEF OpenLocked
  <2> DEFINE c == f.conn
             g == f.gen
  <2>3. /\ c \in Conns /\ c # None /\ c = link.conn /\ g = link.gen /\ g # 0 /\ g = link.counter
        /\ g \in 0 .. MaxGen /\ g \in Nat /\ MaxGen \in Nat
    <3>1. link.gen \in 0 .. MaxGen /\ (link.gen = 0 \/ link.gen = link.counter)
      BY <1>2 DEF Connected, LinkType
    <3>2. MaxGen \in Nat /\ None \notin Conns
      BY DEF PairingAssumption
    <3> QED BY <1>3, <2>2, <3>1, <3>2
  <2> HIDE DEF c, g, f
  <2>4. /\ pairing \in PolicyType /\ pairing.window = pairing.counter
        /\ pairing.window \in 0 .. MaxWindow /\ pairing.attempts + 1 \in 0 .. AttemptsMax
    <3>1. /\ pairing \in PolicyType /\ pairing.window = pairing.counter
          /\ pairing.window \in 0 .. MaxWindow /\ pairing.attempts \in 0 .. AttemptsMax
      BY <1>2, <2>2 DEF Policy, PolicyType
    <3>2. AttemptsMax \in Nat
      BY DEF PairingAssumption
    <3> QED BY <2>2, <3>1, <3>2
  <2>5. /\ pairing' = [pairing EXCEPT !.events = <<>>, !.attempt = c,
                                      !.attempts = pairing.attempts + 1,
                                      !.connection = g, !.attemptWindow = pairing.window]
        /\ refs' = [refs EXCEPT ![c] = refs[c] + 1]
    BY <2>1 DEF c, g
  <2>6. /\ pairing'.window = pairing.window /\ pairing'.counter = pairing.counter
        /\ pairing'.attempt = c /\ pairing'.connection = g
        /\ pairing'.attemptWindow = pairing.window /\ pairing'.events = <<>>
    BY <2>4, <2>5 DEF PolicyType
  <2>7. pairing' \in PolicyType
    <3>1. <<>> \in Seq(Event)
      OBVIOUS
    <3> QED BY <2>3, <2>4, <2>5, <3>1 DEF PolicyType
  <2>8. Pending(pairing'.events) = {} /\ Len(pairing'.events) = 0
    BY <2>6, Nothing
  <2>9. Policy(pairing')
    <3>1. EventsMax \in Nat /\ pairing.window \in 1 .. pairing.window
      BY <2>2, <2>4 DEF PairingAssumption
    <3> QED BY <2>2, <2>3, <2>4, <2>6, <2>7, <2>8, <3>1 DEF Policy
  <2>10. Connected(pairing', link')
    BY <1>2, <2>1, <2>3, <2>6, <2>8 DEF Connected
  <2>11. Moved(t, <<>>) /\ \A x : Count(<<>>, x) = 0
    BY <1>1, <1>2, <1>3, <2>1, NothingPlaced, Moving
  <2>12. Informed(todo', pairing', link')
    BY <1>2, <1>3, <2>1, <2>6, <2>11, InformedKept DEF f
  <2>13. ASSUME NEW x, Behind(x, pairing, link)  PROVE  Behind(x, pairing', link')
    BY <2>1, <2>3, <2>6, <2>8, <2>13 DEF Behind
  <2>14. Forward(todo', pairing', link', told')
    <3>1. todo'["owner"] = todo["owner"]
      BY <2>11 DEF Moved, Threads
    <3>2. ASSUME told # None, told.kind = "cancelled"  PROVE  g > told.connection
      <4>1. told \in Event /\ told.connection <= g
        BY <1>2, <2>3, <3>2 DEF Forward, Behind
      <4>2. told.connection \in Nat
        BY <4>1 DEF Event, PairingAssumption
      <4>3. told.connection # g
        BY <1>2, <1>3, <2>2, <2>3, <3>2 DEF Barred, Cancelled
      <4> QED BY <2>3, <4>1, <4>2, <4>3
    <3> QED BY <1>2, <2>1, <2>2, <2>6, <2>13, <3>1, <3>2 DEF Forward
  <2>15. Barred(pairing', link', told', spoiled')
    BY <1>2, <2>1, <2>8 DEF Barred
  <2>16. Doomed(todo', link', spoiled')
    BY <1>3, <2>1, <2>2 DEF Doomed
  <2>17. refs' \in [Conns -> Nat] /\ Balanced(todo', pairing', link', refs')
    <3>1. refs' \in [Conns -> Nat]
      BY <1>2, <2>3, <2>5
    <3>2. ASSUME NEW d \in Conns
          PROVE  refs'[d] + One(Holds(Top(t), d)) + One(link.conn = d) + One(pairing.attempt = d)
                   = refs[d] + Count(<<>>, d) + One(link'.conn = d) + One(pairing'.attempt = d)
      <4>1. /\ One(Holds(Top(t), d)) = 0 /\ Count(<<>>, d) = 0 /\ One(link'.conn = d) = One(link.conn = d)
            /\ One(link.conn = d) \in Nat /\ refs[d] \in Nat
        BY <1>2, <1>3, <2>1, <2>11 DEF One, f
      <4>2. One(pairing.attempt = d) = 0
        BY <2>2 DEF One, PairingAssumption
      <4>3. refs'[d] = refs[d] + One(pairing'.attempt = d)
        BY <1>2, <2>3, <2>5, <2>6 DEF One
      <4>4. One(pairing'.attempt = d) \in Nat
        BY DEF One
      <4> QED BY <4>1, <4>2, <4>3, <4>4
    <3>3. Settled(t, <<>>)
      BY <3>2 DEF Settled
    <3> QED BY <1>2, <1>3, <2>11, <3>1, <3>3, BalancedKept
  <2> QED BY <1>2, <2>1, <2>9, <2>10, <2>11, <2>12, <2>14, <2>15, <2>16, <2>17
          DEF PairingIInv, Moved
<1> QED BY <1>4, <1>5

\* A key that is queued is one of the attempt.
LEMMA KeyQueued ==
  ASSUME PairingAssumption, Policy(pairing), pairing.attempt # None, pairing.window # 0,
         Len(pairing.events) < EventsMax, NEW k \in Passkeys,
         NEW e, e = [kind |-> "passkey", key |-> k, window |-> pairing.window,
                     connection |-> pairing.connection],
         pairing' = [pairing EXCEPT !.events = Append(@, e)]
  PROVE  /\ Policy(pairing') /\ pairing'.window = pairing.window
         /\ pairing'.counter = pairing.counter /\ pairing'.attempt = pairing.attempt
         /\ pairing'.connection = pairing.connection
         /\ Pending(pairing'.events) = Pending(pairing.events) \cup {e}
<1> DEFINE s == pairing.events
           n == Append(s, e)
<1>1. /\ pairing \in PolicyType /\ s \in Seq(Event) /\ Len(s) < EventsMax /\ Len(s) \in Nat
      /\ EventsMax \in Nat /\ pairing.window = pairing.counter
      /\ pairing.window \in 0 .. MaxWindow /\ pairing.connection \in 0 .. MaxGen
  <2>1. pairing \in PolicyType /\ pairing.window = pairing.counter /\ EventsMax \in Nat
    BY DEF Policy, PairingAssumption
  <2>2. /\ s \in Seq(Event) /\ pairing.window \in 0 .. MaxWindow
        /\ pairing.connection \in 0 .. MaxGen
    BY <2>1 DEF PolicyType
  <2> QED BY <2>1, <2>2, LenProperties
<1>2. e \in Event /\ e.kind = "passkey" /\ e.window = pairing.counter
      /\ e.connection = pairing.connection
  BY <1>1 DEF Event
<1>3. pairing' = [pairing EXCEPT !.events = n]
  OBVIOUS
<1> HIDE DEF s
<1>4. n \in Seq(Event) /\ Len(n) = Len(s) + 1 /\ Pending(n) = Pending(s) \cup {e}
  <2>1. /\ n \in Seq(Event) /\ Len(n) = Len(s) + 1
        /\ \A i \in 1 .. Len(s) : n[i] = s[i]
        /\ n[Len(s) + 1] = e
    BY <1>1, <1>2, AppendProperties
  <2> HIDE DEF n
  <2>2. DOMAIN n = 1 .. Len(s) + 1 /\ DOMAIN s = 1 .. Len(s)
    BY <1>1, <2>1, LenProperties
  <2>3. ASSUME NEW i \in DOMAIN n  PROVE  n[i] \in Pending(s) \cup {e}
    <3>1. CASE i = Len(s) + 1
      BY <2>1, <3>1
    <3>2. CASE i # Len(s) + 1
      <4>1. i \in DOMAIN s /\ n[i] = s[i]
        BY <1>1, <2>1, <2>2, <2>3, <3>2
      <4> QED BY <4>1 DEF Pending
    <3> QED BY <3>1, <3>2
  <2>4. ASSUME NEW i \in DOMAIN s  PROVE  s[i] \in Pending(n)
    <3>1. i \in DOMAIN n /\ n[i] = s[i]
      BY <1>1, <2>1, <2>2, <2>4
    <3> QED BY <3>1 DEF Pending
  <2>5. e \in Pending(n)
    <3>1. Len(s) + 1 \in DOMAIN n
      BY <1>1, <2>2
    <3> QED BY <2>1, <3>1 DEF Pending
  <2> QED BY <2>1, <2>3, <2>4, <2>5 DEF Pending
<1> HIDE DEF n
<1>5. /\ pairing' \in PolicyType /\ pairing'.window = pairing.window
      /\ pairing'.counter = pairing.counter /\ pairing'.attempt = pairing.attempt
      /\ pairing'.connection = pairing.connection /\ pairing'.events = n
      /\ pairing'.attemptWindow = pairing.attemptWindow
  BY <1>1, <1>3, <1>4 DEF PolicyType
<1>6. Len(pairing'.events) <= EventsMax
  BY <1>1, <1>4, <1>5
<1>7. \A x \in Pending(pairing'.events) : x \in Pending(pairing.events) \/ x = e
  BY <1>4, <1>5 DEF s
<1>8. \A x \in Pending(pairing'.events) :
        /\ x.kind = "passkey" /\ x.connection = pairing.connection
        /\ x.window = pairing.counter
  BY <1>2, <1>7 DEF Policy
<1>9. Policy(pairing')
  BY <1>5, <1>6, <1>8 DEF Policy
<1> QED BY <1>4, <1>5, <1>9 DEF s

\* display: a key is queued, or its attempt ends.
LEMMA DisplayKeeps ==
  ASSUME PairingAssumption, PairingIInv, Display
  PROVE  PairingIInv'
<1> DEFINE t == "stack"
           f == Top(t)
           n == Len(pairing.events)
           same == n # 0 /\ pairing.events[n].key = f.arg
           owns == pairing.attempt = f.conn
           accepted == owns /\ Current(f) /\ (same \/ n < EventsMax)
           e == [kind |-> "passkey", key |-> f.arg, window |-> pairing.window,
                 connection |-> f.gen]
           a == [f EXCEPT !.op = "failed", !.arg = None]
<1>1. /\ Turn(t) /\ todo[t] # <<>> /\ f.op = "display"
      /\ timer' = timer /\ link' = link /\ refs' = refs /\ told' = told /\ spoiled' = spoiled
  BY DEF Display, At
<1>2. /\ Queued(todo) /\ Policy(pairing) /\ refs \in [Conns -> Nat]
      /\ Connected(pairing, link) /\ Informed(todo, pairing, link)
      /\ Forward(todo, pairing, link, told) /\ Barred(pairing, link, told, spoiled)
      /\ Doomed(todo, link, spoiled) /\ Balanced(todo, pairing, link, refs)
      /\ timer \in 0 .. MaxWindow /\ Exclusive(todo) /\ spoiled \in BOOLEAN
      /\ told \in Event \cup {None}
  BY DEF PairingIInv
<1>3. /\ t \in Threads /\ f \in Fit(t) /\ link.conn \in Conns /\ f.conn = link.conn
      /\ ~Ending(f, link) /\ (\A c : One(Holds(f, c)) = 0) /\ f.op # "unlink"
  BY <1>1, CallbackFacts DEF Callbacks
<1>4. f \in FrameType /\ f.arg \in Passkeys
  BY <1>1, <1>3 DEF Fit
<1>5. /\ accepted /\ ~same => pairing' = [pairing EXCEPT !.events = Append(@, e)]
      /\ ~(accepted /\ ~same) => pairing' = pairing
      /\ owns /\ ~accepted => Then(t, <<a>>)
      /\ ~(owns /\ ~accepted) => Then(t, <<>>)
  BY DEF Display
<1>6. CASE owns /\ ~accepted
  <2>1. Goes(t, <<a>>)
    <3>1. pairing' = pairing /\ Then(t, <<a>>)
      BY <1>5, <1>6
    <3> QED BY <1>1, <3>1 DEF Goes, policy
  <2> HIDE DEF f
  <2>2. a \in FrameType /\ a.op = "failed" /\ a.conn = f.conn
    <3>1. "failed" \in Op
      BY DEF Op, Ops, Calls
    <3> QED BY <1>4, <3>1 DEF FrameType
  <2> HIDE DEF a
  <2>3. a \in Fit(t)
    <3>1. "failed" \in Ops(t) /\ "failed" \notin Looks
      BY DEF Ops, Calls, Looks
    <3> QED BY <1>3, <2>2, <3>1 DEF Fit
  <2>4. Placed(t, <<a>>) /\ \A c : Count(<<a>>, c) = One(Holds(a, c))
    BY <1>3, <2>2, <2>3, OnePlaced DEF Callbacks
  <2>5. \A c : One(Holds(a, c)) = 0
    BY <2>2, HoldsNot DEF Holders
  <2> QED BY <1>1, <1>3, <2>1, <2>4, <2>5, GoesKeeps DEF f
<1>7. CASE ~(owns /\ ~accepted) /\ ~(accepted /\ ~same)
  <2>1. Goes(t, <<>>)
    <3>1. pairing' = pairing /\ Then(t, <<>>)
      BY <1>5, <1>7
    <3> QED BY <1>1, <3>1 DEF Goes, policy
  <2> QED BY <1>1, <1>3, <2>1, NothingPlaced, GoesKeeps
<1>8. CASE accepted /\ ~same
  <2>1. pairing' = [pairing EXCEPT !.events = Append(@, e)] /\ Then(t, <<>>)
    BY <1>5, <1>8
  <2>2. /\ pairing.attempt = f.conn /\ f.gen = pairing.connection /\ pairing.window # 0
        /\ Len(pairing.events) < EventsMax
    BY <1>8 DEF Current, OpenLocked
  <2>3. pairing.attempt # None
    BY <1>3, <2>2 DEF PairingAssumption
  <2>4. e = [kind |-> "passkey", key |-> f.arg, window |-> pairing.window,
             connection |-> pairing.connection]
    BY <2>2
  <2>5. e.kind = "passkey" /\ e.connection = pairing.connection
    BY <2>2
  <2> HIDE DEF e, same, owns, accepted, n, a, f
  <2>6. /\ Policy(pairing') /\ pairing'.window = pairing.window
        /\ pairing'.counter = pairing.counter /\ pairing'.attempt = pairing.attempt
        /\ pairing'.connection = pairing.connection
        /\ Pending(pairing'.events) = Pending(pairing.events) \cup {e}
    BY <1>2, <1>4, <2>1, <2>2, <2>3, <2>4, KeyQueued
  <2>7. Moved(t, <<>>) /\ ~AtTop(<<>>, Looks) /\ \A c : Count(<<>>, c) = 0
    BY <1>1, <1>2, <1>3, <2>1, NothingPlaced, Moving
  <2>8. Informed(todo', pairing', link')
    BY <1>1, <1>2, <1>3, <2>6, <2>7, InformedKept DEF f
  <2>9. \A x \in Pending(pairing'.events) : x \in Pending(pairing.events) \/ x = e
    BY <2>6
  <2>10. Connected(pairing', link')
    BY <1>1, <1>2, <2>5, <2>6, <2>9 DEF Connected
  <2>11. Forward(todo', pairing', link', told')
    <3>1. \A x \in Pending(pairing'.events) :
            \/ x \in Pending(pairing.events)
            \/ x.connection # 0 => pairing.attempt # None /\ x.connection = pairing.connection
      BY <2>3, <2>5, <2>9
    <3>2. ~(told # None /\ told.kind \in {"complete", "expired"} /\ told.window = pairing.counter)
      BY <1>2, <2>2 DEF Forward
    <3> QED BY <1>1, <1>2, <1>3, <2>3, <2>6, <2>7, <3>1, <3>2, ForwardKept
  <2>12. Barred(pairing', link', told', spoiled')
    BY <1>1, <1>2, <2>5, <2>9 DEF Barred, Cancelled
  <2>13. Doomed(todo', link', spoiled')
    BY <1>1, <1>2, <1>3, <2>7, DoomedKept DEF f, Doomed
  <2>14. Balanced(todo', pairing', link', refs')
    <3>1. \A c \in Conns :
            refs'[c] + One(Holds(Top(t), c)) + One(link.conn = c) + One(pairing.attempt = c)
              = refs[c] + Count(<<>>, c) + One(link'.conn = c) + One(pairing'.attempt = c)
      BY <1>1, <1>3, <2>6, <2>7 DEF f
    <3>2. Settled(t, <<>>)
      BY <3>1 DEF Settled
    <3>3. refs' \in [Conns -> Nat]
      BY <1>1, <1>2
    <3> QED BY <1>2, <1>3, <2>7, <3>2, <3>3, BalancedKept
  <2> QED BY <1>1, <1>2, <2>6, <2>7, <2>8, <2>10, <2>11, <2>12, <2>13, <2>14
          DEF PairingIInv, Moved
<1> QED BY <1>6, <1>7, <1>8

\* complete: with success or without, the window is used up.
LEMMA CompleteKeeps ==
  ASSUME PairingAssumption, PairingIInv, NEW op \in {"secured", "weak"}, Complete(op)
  PROVE  PairingIInv'
<1> DEFINE t == "stack"
           f == Top(t)
           success == Current(f) /\ op = "secured"
<1>1. Turn(t) /\ todo[t] # <<>> /\ f.op = op /\ Policy(pairing) /\ spoiled \in BOOLEAN
  BY DEF Complete, At, PairingIInv
<1>2. /\ t \in Threads /\ f \in Fit(t) /\ link.conn \in Conns /\ f.conn = link.conn
      /\ ~Ending(f, link) /\ (\A c : One(Holds(f, c)) = 0)
      /\ f.op \notin Holders \cup {"check", "hangup", "unlink"}
  BY <1>1, CallbackFacts DEF Callbacks
<1>3. CASE pairing.attempt # f.conn
  <2>1. Goes(t, <<>>)
    BY <1>3 DEF Complete
  <2> QED BY <1>1, <1>2, <2>1, NothingPlaced, GoesKeeps
<1>4. CASE pairing.attempt = f.conn /\ ~success
  <2>1. Ends(t, CloseWindow(Terminal("cancelled")), CancelConnection)
    BY <1>4 DEF Complete
  <2>2. pairing.window # 0
    BY <1>1, <1>2, <1>4 DEF Policy, PolicyType, PairingAssumption
  <2> QED BY <1>1, <1>2, <2>1, <2>2, EndsKeeps
<1>5. CASE pairing.attempt = f.conn /\ success
  <2>1. /\ pairing' = CloseWindow(Terminal("complete")) /\ Then(t, <<Unref(f.conn)>>)
        /\ UNCHANGED <<timer, link, refs, told>> /\ spoiled' = spoiled
    BY <1>5 DEF Complete, Paired
  <2>2. pairing.window # 0
    BY <1>1, <1>2, <1>5 DEF Policy, PolicyType, PairingAssumption
  <2> DEFINE fr == <<Unref(f.conn)>>
  <2>3. /\ Placed(t, fr) /\ ~AtTop(fr, Looks)
        /\ \A c \in Conns : Count(fr, c) = One(pairing.attempt = c)
    BY <1>2, <1>5, Unreffing
  <2>4. Then(t, fr)
    BY <2>1
  <2> HIDE DEF fr
  <2> QED BY <1>1, <1>2, <2>1, <2>2, <2>3, <2>4, Terminated
<1> QED BY <1>3, <1>4, <1>5

-----------------------------------------------------------------------------
(* The link.                                                               *)

\* A new link has a generation that nothing knows.
LEMMA ConnectKeeps ==
  ASSUME PairingAssumption, PairingIInv, NEW c \in Conns, Connect(c)
  PROVE  PairingIInv'
<1>1. /\ Call("stack", <<>>) /\ link.conn = None /\ refs[c] = 0 /\ link.counter < MaxGen
      /\ link' = [conn |-> c, gen |-> link.counter + 1, counter |-> link.counter + 1]
      /\ refs' = [refs EXCEPT ![c] = 1]
      /\ pairing' = pairing /\ timer' = timer /\ told' = told /\ spoiled' = spoiled
  BY DEF Connect
<1>2. /\ Queued(todo) /\ Policy(pairing) /\ refs \in [Conns -> Nat]
      /\ Connected(pairing, link) /\ Informed(todo, pairing, link)
      /\ Forward(todo, pairing, link, told) /\ Barred(pairing, link, told, spoiled)
      /\ Doomed(todo, link, spoiled) /\ Balanced(todo, pairing, link, refs)
      /\ timer \in 0 .. MaxWindow /\ Exclusive(todo) /\ spoiled \in BOOLEAN
      /\ told \in Event \cup {None}
  BY DEF PairingIInv
<1> DEFINE g == link.counter + 1
<1>3. /\ MaxGen \in Nat /\ link.counter \in 0 .. MaxGen /\ link.counter \in Nat
      /\ g \in 0 .. MaxGen /\ g \in Nat /\ g > link.counter /\ g # 0 /\ c # None
  BY <1>1, <1>2 DEF Connected, LinkType, PairingAssumption
<1>4. link'.conn = c /\ link'.gen = g /\ link'.counter = g /\ link' \in LinkType
  BY <1>1, <1>3 DEF LinkType
<1> HIDE DEF g
<1>5. /\ "stack" \in Threads /\ Called("stack", <<>>)
      /\ Pending(<<>>) = {} /\ \A ops : ~AtTop(<<>>, ops)
  <2>1. "stack" \in Threads
    BY DEF Threads
  <2>2. <<>> \in Seq(Fit("stack")) /\ Pending(<<>>) = {} /\ DOMAIN <<>> = {}
    BY Nothing
  <2>3. \A ops : ~AtTop(<<>>, ops)
    BY DEF AtTop
  <2> QED BY <1>1, <1>2, <2>1, <2>2, <2>3, Calling
<1>6. /\ Queued(todo') /\ Exclusive(todo') /\ todo'["stack"] = <<>>
      /\ todo'["owner"] = todo["owner"] /\ \A x : Total(todo', x) = Total(todo, x)
  BY <1>5 DEF Called, Threads
<1>7. link.gen = 0 /\ ~spoiled
  BY <1>1, <1>2 DEF Connected, Doomed
<1>8. /\ pairing.connection \in Nat /\ pairing.connection <= link.counter
      /\ \A e \in Pending(pairing.events) : e.connection \in Nat /\ e.connection <= link.counter
  <2>1. pairing.connection \in Nat /\ pairing.connection <= link.counter /\ pairing.events \in Seq(Event)
    BY <1>2 DEF Policy, PolicyType, Connected, PairingAssumption
  <2>2. ASSUME NEW e \in Pending(pairing.events)  PROVE  e \in Event
    <3>1. DOMAIN pairing.events = 1 .. Len(pairing.events)
      BY <2>1, LenProperties
    <3> QED BY <2>1, <2>2, <3>1 DEF Pending
  <2>3. \A e \in Pending(pairing.events) : e.connection \in Nat
    BY <2>2 DEF Event, PairingAssumption
  <2> QED BY <1>2, <2>1, <2>3 DEF Connected
<1>9. Connected(pairing', link')
  BY <1>1, <1>3, <1>4, <1>8 DEF Connected
<1>10. Informed(todo', pairing', link')
  BY <1>1, <1>2, <1>5, <1>6 DEF Informed
<1>11. ASSUME told # None
       PROVE  told.connection \in Nat /\ told.connection <= link.counter
  BY <1>2, <1>11 DEF Forward, Behind, Event, PairingAssumption
<1>12. Forward(todo', pairing', link', told')
  <2>1. ASSUME AtTop(todo["owner"], Looks)
        PROVE  Head(todo["owner"]).arg.connection \in Nat
    <3>1. todo["owner"] # <<>> /\ "owner" \in Threads /\ Top("owner").op \in Looks
      BY <2>1 DEF AtTop, Top, Threads
    <3>2. Top("owner") \in Fit("owner")
      BY <1>2, <3>1, TopFacts
    <3>3. Top("owner").arg \in Event
      BY <3>1, <3>2 DEF Fit
    <3> QED BY <3>3 DEF Event, Top, PairingAssumption
  <2>2. ASSUME NEW x, Behind(x, pairing, link), x.connection \in Nat
        PROVE  Behind(x, pairing', link')
    BY <1>1, <1>3, <1>4, <2>2 DEF Behind
  <2> QED BY <1>1, <1>2, <1>6, <1>11, <2>1, <2>2 DEF Forward
<1>13. Barred(pairing', link', told', spoiled')
  BY <1>1, <1>3, <1>4, <1>8, <1>11 DEF Barred, Cancelled
<1>14. Doomed(todo', link', spoiled')
  BY <1>1, <1>7 DEF Doomed
<1>15. refs' \in [Conns -> Nat]
  BY <1>1, <1>2
<1>16. Balanced(todo', pairing', link', refs')
  <2>1. ASSUME NEW d \in Conns
        PROVE  refs'[d] = Total(todo', d) + One(link'.conn = d) + One(pairing'.attempt = d)
    <3>1. /\ refs[d] = Total(todo, d) + One(link.conn = d) + One(pairing.attempt = d)
          /\ Total(todo, d) \in Nat /\ Total(todo', d) = Total(todo, d)
          /\ pairing'.attempt = pairing.attempt
      BY <1>1, <1>2, <1>6, TotalNat DEF Balanced
    <3>2. One(link.conn = d) = 0
      BY <1>1 DEF One, PairingAssumption
    <3>3. One(pairing.attempt = d) \in Nat
      BY DEF One
    <3>4. CASE d = c
      <4>1. refs'[d] = 1 /\ refs[d] = 0 /\ One(link'.conn = d) = 1
        BY <1>1, <1>2, <1>4, <3>4 DEF One
      <4> QED BY <3>1, <3>2, <3>3, <4>1
    <3>5. CASE d # c
      <4>1. refs'[d] = refs[d] /\ One(link'.conn = d) = 0
        BY <1>1, <1>2, <1>4, <3>5 DEF One
      <4> QED BY <3>1, <3>2, <3>3, <4>1
    <3> QED BY <3>4, <3>5
  <2> QED BY <2>1 DEF Balanced
<1> QED BY <1>1, <1>2, <1>6, <1>9, <1>10, <1>12, <1>13, <1>14, <1>15, <1>16 DEF PairingIInv

\* A link whose generation is renewed or closed is no longer the one that was spoiled.
LEMMA InvalidateKeeps ==
  ASSUME PairingAssumption, PairingIInv, Invalidate
  PROVE  PairingIInv'
<1>1. /\ Turn("owner") /\ link.gen # 0 /\ spoiled' = FALSE
      /\ pairing' = pairing /\ timer' = timer /\ refs' = refs /\ todo' = todo /\ told' = told
  BY DEF Invalidate
<1>2. /\ Queued(todo) /\ Policy(pairing) /\ refs \in [Conns -> Nat]
      /\ Connected(pairing, link) /\ Informed(todo, pairing, link)
      /\ Forward(todo, pairing, link, told) /\ Barred(pairing, link, told, spoiled)
      /\ Balanced(todo, pairing, link, refs)
      /\ timer \in 0 .. MaxWindow /\ Exclusive(todo) /\ told \in Event \cup {None}
  BY DEF PairingIInv
<1>3. /\ MaxGen \in Nat /\ link.counter \in 0 .. MaxGen /\ link.counter \in Nat /\ link \in LinkType
  BY <1>2 DEF Connected, LinkType, PairingAssumption
<1>4. /\ link'.conn = link.conn /\ link' \in LinkType
      /\ link'.counter \in Nat /\ link'.counter >= link.counter
      /\ \/ link'.gen = 0
         \/ link'.gen = link'.counter /\ link'.gen > link.counter
  <2>1. CASE link.counter < MaxGen /\ link' = [link EXCEPT !.gen = link.counter + 1, !.counter = @ + 1]
    <3>1. link.counter + 1 \in 0 .. MaxGen
      BY <1>3, <2>1
    <3>2. /\ link'.conn = link.conn /\ link' \in LinkType
          /\ link'.counter = link.counter + 1 /\ link'.gen = link.counter + 1
      BY <1>3, <2>1, <3>1 DEF LinkType
    <3>3. /\ link.counter + 1 \in Nat /\ link.counter + 1 >= link.counter
          /\ link.counter + 1 > link.counter
      BY <1>3
    <3> QED BY <3>2, <3>3
  <2>2. CASE link' = [link EXCEPT !.gen = 0]
    <3>1. 0 \in 0 .. MaxGen
      BY <1>3
    <3>2. /\ link'.conn = link.conn /\ link' \in LinkType
          /\ link'.counter = link.counter /\ link'.gen = 0
      BY <1>3, <2>2, <3>1 DEF LinkType
    <3>3. link'.counter \in Nat /\ link'.counter >= link.counter
      BY <1>3, <3>2
    <3> QED BY <3>2, <3>3
  <2> QED BY <2>1, <2>2 DEF Invalidate
<1>5. /\ pairing.connection \in Nat /\ pairing.connection <= link.counter
      /\ \A e \in Pending(pairing.events) : e.connection \in Nat /\ e.connection <= link.counter
  <2>1. pairing.connection \in Nat /\ pairing.connection <= link.counter /\ pairing.events \in Seq(Event)
    BY <1>2 DEF Policy, PolicyType, Connected, PairingAssumption
  <2>2. ASSUME NEW e \in Pending(pairing.events)  PROVE  e \in Event
    <3>1. DOMAIN pairing.events = 1 .. Len(pairing.events)
      BY <2>1, LenProperties
    <3> QED BY <2>1, <2>2, <3>1 DEF Pending
  <2>3. \A e \in Pending(pairing.events) : e.connection \in Nat
    BY <2>2 DEF Event, PairingAssumption
  <2> QED BY <1>2, <2>1, <2>3 DEF Connected
<1>6. ASSUME told # None
      PROVE  told.connection \in Nat /\ told.connection <= link.counter
  BY <1>2, <1>6 DEF Forward, Behind, Event, PairingAssumption
<1>7. Connected(pairing', link')
  <2>1. link'.conn = None => link'.gen = 0
    BY <1>1, <1>2, <1>4 DEF Connected
  <2>2. pairing.connection <= link'.counter
    BY <1>3, <1>4, <1>5
  <2>3. \A e \in Pending(pairing.events) : e.connection <= link'.counter
    BY <1>3, <1>4, <1>5
  <2>4. pairing.attempt # None => pairing.connection # link'.gen
    BY <1>2, <1>3, <1>4, <1>5 DEF Policy
  <2> QED BY <1>1, <1>4, <2>1, <2>2, <2>3, <2>4 DEF Connected
<1>8. Informed(todo', pairing', link')
  <2>1. ~AtTop(todo["stack"], Callbacks)
    BY <1>1 DEF Turn, Runs, AtTop, Callbacks
  <2>2. \A f \in Pending(todo["stack"]) :
          /\ f.op = "unlink" => f.conn = link'.conn
          /\ f.op = "gone" => \E h \in Pending(todo["stack"]) : h.op = "unlink"
    BY <1>1, <1>2, <1>4 DEF Informed
  <2> QED BY <1>1, <1>2, <2>1, <2>2 DEF Informed
<1>9. Forward(todo', pairing', link', told')
  <2>1. ASSUME AtTop(todo["owner"], Looks)
        PROVE  Head(todo["owner"]).arg.connection \in Nat
    <3>1. todo["owner"] # <<>> /\ "owner" \in Threads /\ Top("owner").op \in Looks
      BY <2>1 DEF AtTop, Top, Threads
    <3>2. Top("owner") \in Fit("owner")
      BY <1>2, <3>1, TopFacts
    <3>3. Top("owner").arg \in Event
      BY <3>1, <3>2 DEF Fit
    <3> QED BY <3>3 DEF Event, Top, PairingAssumption
  <2>2. ASSUME NEW x, Behind(x, pairing, link), x.connection \in Nat
        PROVE  Behind(x, pairing', link')
    BY <1>1, <1>3, <1>4, <2>2 DEF Behind
  <2> QED BY <1>1, <1>2, <1>6, <2>1, <2>2 DEF Forward
<1>10. Barred(pairing', link', told', spoiled')
  BY <1>1, <1>3, <1>4, <1>5, <1>6 DEF Barred, Cancelled
<1>11. Doomed(todo', link', spoiled')
  BY <1>1 DEF Doomed
<1>12. Balanced(todo', pairing', link', refs')
  BY <1>1, <1>2, <1>4 DEF Balanced
<1> QED BY <1>1, <1>2, <1>7, <1>8, <1>9, <1>10, <1>11, <1>12 DEF PairingIInv

\* The frames that a disconnection brings.
LEMMA EndingFits ==
  ASSUME PairingAssumption, NEW o \in {"failed", "gone", "unlink"}, NEW c \in Conns
  PROVE  /\ Frame(o, c, 0, None) \in Fit("stack") /\ Frame(o, c, 0, None).op = o
         /\ Frame(o, c, 0, None).conn = c
<1>1. o \in Callbacks \cup {"failed", "gone", "unlink"} /\ o # "display" /\ 0 \in Nat
  OBVIOUS
<1>2. None \in Passkeys \cup {None} /\ (o = "display" => None \in Passkeys)
  BY <1>1
<1> QED BY <1>1, <1>2, CallbackFits

\* Three frames.
LEMMA Triple ==
  ASSUME NEW S, NEW f \in S, NEW g \in S, NEW h \in S
  PROVE  /\ <<f>> \o <<g, h>> \in Seq(S) /\ <<f>> \o <<g, h>> = <<f, g, h>>
         /\ Tail(<<f, g, h>>) = <<g, h>> /\ Head(<<f, g, h>>) = f
         /\ <<f, g, h>> # <<>> /\ Pending(<<f, g, h>>) = {f, g, h}
<1> DEFINE a == <<f>>
           b == <<g, h>>
           n == <<f, g, h>>
<1>1. /\ a \in Seq(S) /\ b \in Seq(S) /\ n \in Seq(S) /\ Len(a) = 1 /\ Len(b) = 2 /\ Len(n) = 3
      /\ a[1] = f /\ b[1] = g /\ b[2] = h /\ n[1] = f /\ n[2] = g /\ n[3] = h
      /\ n # <<>> /\ Head(n) = f /\ Tail(n) = b
  OBVIOUS
<1>2. Pending(b) = {g, h}
  BY Pair
<1> HIDE DEF a, b, n
<1>3. /\ a \o b \in Seq(S) /\ Len(a \o b) = 3
      /\ \A i \in 1 .. 3 : (a \o b)[i] = IF i <= 1 THEN a[i] ELSE b[i - 1]
  BY <1>1, ConcatProperties
<1>4. (a \o b)[1] = f /\ (a \o b)[2] = g /\ (a \o b)[3] = h
  BY <1>1, <1>3
<1>5. \A i \in 1 .. 3 : (a \o b)[i] = n[i]
  <2>1. \A i \in 1 .. 3 : i = 1 \/ i = 2 \/ i = 3
    OBVIOUS
  <2> QED BY <1>1, <1>4, <2>1
<1>6. a \o b = n
  BY <1>1, <1>3, <1>5, SeqEqual
<1>7. Pending(n) = {Head(n)} \cup Pending(Tail(n))
  BY <1>1, PendingParts
<1> QED BY <1>1, <1>2, <1>3, <1>6, <1>7 DEF a, b, n

\* The disconnected callbacks begin.
LEMMA DisconnectKeeps ==
  ASSUME PairingAssumption, PairingIInv, Disconnect
  PROVE  PairingIInv'
<1> DEFINE t == "stack"
           d == Frame("failed", link.conn, 0, None)
           g == Frame("gone", link.conn, 0, None)
           u == Frame("unlink", link.conn, 0, None)
<1>1. /\ link.conn \in Conns /\ UNCHANGED <<pairing, link, refs, told, spoiled>>
      /\ timer' \in 0 .. MaxWindow /\ Queued(todo) /\ Exclusive(todo) /\ t \in Threads
  BY DEF Disconnect, policy, PairingIInv, Connected, LinkType, Threads
<1>2. \E before \in {<<>>, <<d>>}, order \in {<<g, u>>, <<u, g>>} : Call(t, before \o order)
  BY DEF Disconnect
<1>3. /\ d \in Fit(t) /\ d.op = "failed" /\ d.conn = link.conn
      /\ g \in Fit(t) /\ g.op = "gone" /\ g.conn = link.conn
      /\ u \in Fit(t) /\ u.op = "unlink" /\ u.conn = link.conn
  <2>1. link.conn \in Conns
    BY <1>1
  <2>2. d \in Fit(t) /\ d.op = "failed" /\ d.conn = link.conn
    BY <2>1, EndingFits
  <2>3. g \in Fit(t) /\ g.op = "gone" /\ g.conn = link.conn
    BY <2>1, EndingFits
  <2>4. u \in Fit(t) /\ u.op = "unlink" /\ u.conn = link.conn
    BY <2>1, EndingFits
  <2> QED BY <2>2, <2>3, <2>4
<1> HIDE DEF d, g, u
<1>4. PICK x \in {g, u}, y \in {g, u} :
        /\ x.op # y.op
        /\ Call(t, <<>> \o <<x, y>>) \/ Call(t, <<d>> \o <<x, y>>)
  BY <1>2, <1>3
<1>5. /\ x \in Fit(t) /\ y \in Fit(t) /\ {x.op, y.op} = {"gone", "unlink"}
      /\ x.conn = link.conn /\ y.conn = link.conn
      /\ x.op \notin Callbacks /\ x.op \notin Holders /\ y.op \notin Holders
  BY <1>3, <1>4 DEF Callbacks, Holders
<1>6. /\ <<x, y>> \in Seq(Fit(t)) /\ <<x, y>> # <<>> /\ Head(<<x, y>>) = x
      /\ Tail(<<x, y>>) = <<y>> /\ Pending(<<x, y>>) = {x, y} /\ Pending(<<y>>) = {y}
  BY <1>5, Pair, Single
<1>7. CASE Call(t, <<>> \o <<x, y>>)
  <2> DEFINE fr == <<x, y>>
  <2>1. Call(t, fr)
    BY <1>6, <1>7, ConcatEmptySeq
  <2>2. DOMAIN fr = {1, 2} /\ fr[1] = x /\ fr[2] = y
    OBVIOUS
  <2> HIDE DEF fr
  <2>3. \A i, j \in DOMAIN fr : fr[i].op = "unlink" /\ fr[j].op = "unlink" => i = j
    BY <1>4, <2>2
  <2>4. /\ fr \in Seq(Fit(t)) /\ fr # <<>> /\ Head(fr) = x /\ Tail(fr) = <<y>>
        /\ Pending(fr) = {x, y}
    BY <1>6 DEF fr
  <2>5. (\A f \in Pending(Tail(fr)) : f.op \in Rests) /\ ~AtTop(fr, Callbacks)
        /\ \A f \in Pending(fr) : f.op \notin Holders
    BY <1>5, <1>6, <2>4 DEF Rests, AtTop
  <2>6. Called(t, fr)
    BY <1>1, <2>1, <2>3, <2>4, <2>5, Calling
  <2>7. \A f \in Pending(fr) :
          /\ f.op = "unlink" => f.conn = link.conn
          /\ f.op = "gone" => \E h \in Pending(fr) : h.op = "unlink"
    BY <1>5, <2>4
  <2> QED BY <1>1, <2>5, <2>6, <2>7, CalledKeeps
<1>8. CASE Call(t, <<d>> \o <<x, y>>)
  <2> DEFINE fr == <<d, x, y>>
  <2>0. /\ <<d>> \o <<x, y>> = fr /\ fr \in Seq(Fit(t)) /\ fr # <<>> /\ Head(fr) = d
        /\ Tail(fr) = <<x, y>> /\ Pending(fr) = {d, x, y}
    BY <1>3, <1>5, Triple
  <2>1. Call(t, fr)
    BY <1>8, <2>0
  <2>2. DOMAIN fr = {1, 2, 3} /\ fr[1] = d /\ fr[2] = x /\ fr[3] = y
    OBVIOUS
  <2> HIDE DEF fr
  <2>3. \A i, j \in DOMAIN fr : fr[i].op = "unlink" /\ fr[j].op = "unlink" => i = j
    BY <1>3, <1>4, <2>2
  <2>4. /\ fr \in Seq(Fit(t)) /\ fr # <<>> /\ Head(fr) = d /\ Tail(fr) = <<x, y>>
        /\ Pending(fr) = {d, x, y}
    BY <2>0
  <2>5. (\A f \in Pending(Tail(fr)) : f.op \in Rests) /\ ~AtTop(fr, Callbacks)
        /\ \A f \in Pending(fr) : f.op \notin Holders
    BY <1>3, <1>5, <1>6, <2>4 DEF Rests, AtTop, Callbacks, Holders
  <2>6. Called(t, fr)
    BY <1>1, <2>1, <2>3, <2>4, <2>5, Calling
  <2>7. \A f \in Pending(fr) :
          /\ f.op = "unlink" => f.conn = link.conn
          /\ f.op = "gone" => \E h \in Pending(fr) : h.op = "unlink"
    BY <1>3, <1>5, <2>4
  <2> QED BY <1>1, <2>5, <2>6, <2>7, CalledKeeps
<1> QED BY <1>4, <1>7, <1>8

\* The adapter lets go of its connection.
LEMMA UnlinkKeeps ==
  ASSUME PairingAssumption, PairingIInv, Unlink
  PROVE  PairingIInv'
<1> DEFINE t == "stack"
           f == Top(t)
           a == Unref(link.conn)
<1>1. /\ Turn(t) /\ todo[t] # <<>> /\ f.op = "unlink" /\ t \in Threads /\ Then(t, <<a>>)
      /\ link' = [link EXCEPT !.conn = None, !.gen = 0] /\ spoiled' = FALSE
      /\ pairing' = pairing /\ timer' = timer /\ refs' = refs /\ told' = told
  BY DEF Unlink, At, Threads
<1>2. /\ Queued(todo) /\ Policy(pairing) /\ refs \in [Conns -> Nat]
      /\ Connected(pairing, link) /\ Informed(todo, pairing, link)
      /\ Forward(todo, pairing, link, told) /\ Barred(pairing, link, told, spoiled)
      /\ Balanced(todo, pairing, link, refs)
      /\ timer \in 0 .. MaxWindow /\ Exclusive(todo) /\ told \in Event \cup {None}
  BY DEF PairingIInv
<1>3. /\ f \in Fit(t) /\ f \in Pending(todo[t]) /\ todo[t] \in Seq(Fit(t))
  BY <1>1, <1>2, TopFacts
<1>4. f.conn = link.conn /\ link.conn \in Conns
  <2>1. f.conn = link.conn
    BY <1>1, <1>2, <1>3 DEF Informed
  <2>2. f.conn \in Conns
    BY <1>1, <1>3 DEF Fit
  <2> QED BY <2>1, <2>2
<1>5. link'.conn = None /\ link'.gen = 0 /\ link'.counter = link.counter /\ link' \in LinkType
  <2>1. MaxGen \in Nat /\ link \in LinkType
    BY <1>2 DEF Connected, PairingAssumption
  <2>2. 0 \in 0 .. MaxGen
    BY <2>1
  <2> QED BY <1>1, <2>1, <2>2 DEF LinkType
<1>6. /\ Placed(t, <<a>>) /\ Pending(<<a>>) = {a} /\ a.op = "unref"
      /\ \A c \in Conns : Count(<<a>>, c) = One(link.conn = c)
  BY <1>1, <1>4, Unreffing
<1> HIDE DEF a
<1>7. Moved(t, <<a>>)
  BY <1>1, <1>2, <1>6, Moving
<1>8. \A h \in Pending(Tail(todo[t])) : h.op # "unlink"
  <2> DEFINE s == todo[t]
  <2>1. /\ s \in Seq(Fit(t)) /\ s # <<>> /\ s[1] = f
        /\ \A i, j \in DOMAIN s : s[i].op = "unlink" /\ s[j].op = "unlink" => i = j
    BY <1>1, <1>2, <1>3 DEF Queued, Top
  <2> HIDE DEF s
  <2>2. /\ Len(s) \in Nat /\ DOMAIN s = 1 .. Len(s) /\ Len(Tail(s)) = Len(s) - 1
        /\ \A i \in 1 .. Len(Tail(s)) : Tail(s)[i] = s[i + 1]
        /\ Tail(s) \in Seq(Fit(t)) /\ Len(s) # 0
    BY <2>1, HeadTailProperties, LenProperties
  <2>3. DOMAIN Tail(s) = 1 .. Len(Tail(s))
    BY <2>2, LenProperties
  <2>4. ASSUME NEW i \in DOMAIN Tail(s), Tail(s)[i].op = "unlink"  PROVE  FALSE
    <3>1. /\ i + 1 \in DOMAIN s /\ s[i + 1].op = "unlink" /\ 1 \in DOMAIN s
          /\ i + 1 # 1
      BY <2>2, <2>3, <2>4
    <3> QED BY <1>1, <2>1, <3>1
  <2> QED BY <2>4 DEF Pending, s
<1>9. Informed(todo', pairing', link')
  <2>1. todo'["owner"] = todo["owner"] /\ ~AtTop(todo'["stack"], Callbacks)
    BY <1>7 DEF Moved, Threads
  <2>2. \A h \in Pending(todo'["stack"]) : h.op # "unlink"
    BY <1>6, <1>7, <1>8 DEF Moved
  <2> QED BY <1>1, <1>2, <1>5, <2>1, <2>2 DEF Informed
<1>10. Connected(pairing', link')
  BY <1>1, <1>2, <1>5 DEF Connected, Policy
<1>11. Forward(todo', pairing', link', told')
  <2>1. todo'["owner"] = todo["owner"]
    BY <1>7 DEF Moved, Threads
  <2>2. ASSUME NEW x, Behind(x, pairing, link)  PROVE  Behind(x, pairing', link')
    BY <1>1, <1>5, <2>2 DEF Behind
  <2> QED BY <1>1, <1>2, <2>1, <2>2 DEF Forward
<1>12. Barred(pairing', link', told', spoiled')
  BY <1>5 DEF Barred, Cancelled
<1>13. Doomed(todo', link', spoiled')
  BY <1>1 DEF Doomed
<1>14. Balanced(todo', pairing', link', refs')
  <2>1. \A c : One(Holds(f, c)) = 0
    BY <1>1, HoldsNot DEF Holders
  <2>2. ASSUME NEW c \in Conns
        PROVE  refs'[c] + One(Holds(Top(t), c)) + One(link.conn = c) + One(pairing.attempt = c)
                 = refs[c] + Count(<<a>>, c) + One(link'.conn = c) + One(pairing'.attempt = c)
    <3>1. One(link'.conn = c) = 0
      BY <1>5 DEF One, PairingAssumption
    <3>2. /\ One(link.conn = c) \in Nat /\ One(pairing.attempt = c) \in Nat /\ refs[c] \in Nat
          /\ refs'[c] = refs[c] /\ One(pairing'.attempt = c) = One(pairing.attempt = c)
          /\ Count(<<a>>, c) = One(link.conn = c) /\ One(Holds(Top(t), c)) = 0
      BY <1>1, <1>2, <1>6, <2>1 DEF One
    <3> QED BY <3>1, <3>2
  <2>3. Settled(t, <<a>>)
    BY <2>2 DEF Settled
  <2>4. refs' \in [Conns -> Nat]
    BY <1>1, <1>2
  <2> QED BY <1>1, <1>2, <1>7, <2>3, <2>4, BalancedKept
<1> QED BY <1>1, <1>2, <1>7, <1>9, <1>10, <1>11, <1>12, <1>13, <1>14 DEF PairingIInv, Moved

-----------------------------------------------------------------------------
(* The references as PairingInv counts them.                               *)

\* The places of a thread's frames s that hold c.
HeldBy(t, s, c) ==
  {t} \X {i \in DOMAIN s : s[i].conn = c /\ s[i].op \in {"unref", "look", "report"}}

\* The link and the attempt, if c is their connection.
Users(a, b, c) == {x \in {<<"link", a>>, <<"attempt", b>>} : x[2] = c}

\* They are as many as the frames that hold c.
LEMMA HeldByThread ==
  ASSUME NEW td, Queued(td), NEW t \in Threads, NEW c
  PROVE  /\ IsFiniteSet(HeldBy(t, td[t], c)) /\ Count(td[t], c) \in Nat
         /\ Cardinality(HeldBy(t, td[t], c)) = Count(td[t], c)
<1> DEFINE I == {i \in DOMAIN td[t] : Holds(td[t][i], c)}
           H == {t} \X I
<1>1. td[t] \in Seq(Fit(t))
  BY DEF Queued
<1>2. IsFiniteSet(I) /\ Count(td[t], c) \in Nat /\ Cardinality(I) = Count(td[t], c)
  BY <1>1, CountNat DEF Count
<1>3. IsFiniteSet(H) /\ Cardinality(H) = Cardinality(I)
  <2> HIDE DEF I
  <2> DEFINE h == [i \in I |-> <<t, i>>]
  <2>1. h \in Bijection(I, H)
    <3>1. h \in [I -> H]
      OBVIOUS
    <3>2. \A i, j \in I : h[i] = h[j] => i = j
      OBVIOUS
    <3>3. \A e \in H : \E i \in I : h[i] = e
      OBVIOUS
    <3> QED BY <3>1, <3>2, <3>3 DEF Bijection, Injection, Surjection, IsInjective
  <2>2. ExistsBijection(I, H)
    BY <2>1 DEF ExistsBijection
  <2> QED BY <1>2, <2>2, FS_Bijection
<1>4. H = HeldBy(t, td[t], c)
  BY DEF Holds, Holders, HeldBy
<1> QED BY <1>2, <1>3, <1>4

\* The link and the attempt, of which c may be the connection.
LEMMA UsersCount ==
  ASSUME NEW a, NEW b, NEW c
  PROVE  Cardinality(Users(a, b, c)) = One(a = c) + One(b = c)
<1> DEFINE U == {x \in {<<"link", a>>, <<"attempt", b>>} : x[2] = c}
           l == <<"link", a>>
           m == <<"attempt", b>>
<1>1. l # m /\ Users(a, b, c) = U
  BY DEF Users
<1> SUFFICES Cardinality(U) = One(a = c) + One(b = c)
  BY <1>1
<1>2. CASE a = c /\ b = c
  <2>1. U = {l, m}
    BY <1>2
  <2> HIDE DEF U, l, m
  <2>2. Cardinality({l}) = 1 /\ IsFiniteSet({l})
    BY FS_Singleton
  <2>3. Cardinality({l} \cup {m}) = Cardinality({l}) + 1
    BY <1>1, <2>2, FS_AddElement
  <2>4. U = {l} \cup {m}
    BY <2>1
  <2>5. Cardinality(U) = 2
    BY <2>2, <2>3, <2>4
  <2>6. One(a = c) = 1 /\ One(b = c) = 1
    BY <1>2 DEF One
  <2> QED BY <2>5, <2>6
<1>3. CASE a = c /\ b # c
  <2>1. U = {l}
    BY <1>3
  <2>2. Cardinality(U) = 1
    BY <2>1, FS_Singleton
  <2>3. One(a = c) = 1 /\ One(b = c) = 0
    BY <1>3 DEF One
  <2> HIDE DEF U
  <2> QED BY <2>2, <2>3
<1>4. CASE a # c /\ b = c
  <2>1. U = {m}
    BY <1>4
  <2>2. Cardinality(U) = 1
    BY <2>1, FS_Singleton
  <2>3. One(a = c) = 0 /\ One(b = c) = 1
    BY <1>4 DEF One
  <2> HIDE DEF U
  <2> QED BY <2>2, <2>3
<1>5. CASE a # c /\ b # c
  <2>1. U = {}
    BY <1>5
  <2>2. Cardinality(U) = 0
    BY <2>1, FS_EmptySet
  <2>3. One(a = c) = 0 /\ One(b = c) = 0
    BY <1>5 DEF One
  <2> HIDE DEF U
  <2> QED BY <2>2, <2>3
<1> QED BY <1>2, <1>3, <1>4, <1>5

\* The union of three finite sets that share nothing.
LEMMA ThreeSets ==
  ASSUME NEW A, NEW B, NEW C, IsFiniteSet(A), IsFiniteSet(B), IsFiniteSet(C),
         A \cap B = {}, (A \cup B) \cap C = {}
  PROVE  /\ Cardinality(A \cup B \cup C) = Cardinality(A) + Cardinality(B) + Cardinality(C)
<1>1. Cardinality(A) \in Nat /\ Cardinality(B) \in Nat /\ Cardinality(C) \in Nat
  BY FS_CardinalityType
<1>2. Cardinality(A \cap B) = 0 /\ Cardinality((A \cup B) \cap C) = 0
  BY FS_EmptySet
<1>3. /\ IsFiniteSet(A \cup B)
      /\ Cardinality(A \cup B) = Cardinality(A) + Cardinality(B) - Cardinality(A \cap B)
  BY FS_Union
<1>4. Cardinality((A \cup B) \cup C)
        = Cardinality(A \cup B) + Cardinality(C) - Cardinality((A \cup B) \cap C)
  BY <1>3, FS_Union
<1> DEFINE a == Cardinality(A)
           b == Cardinality(B)
           d == Cardinality(C)
           e == Cardinality(A \cup B)
           x == Cardinality((A \cup B) \cup C)
<1>5. a \in Nat /\ b \in Nat /\ d \in Nat /\ e = a + b - 0 /\ x = e + d - 0
  BY <1>1, <1>2, <1>3, <1>4
<1>6. x = a + b + d
  <2> HIDE DEF a, b, d, e, x
  <2> QED BY <1>5
<1> QED BY <1>6

\* Balanced is RefsBalanced.
LEMMA BalancedIsRefsBalanced ==
  ASSUME Queued(todo), Balanced(todo, pairing, link, refs)
  PROVE  RefsBalanced
<1> SUFFICES ASSUME NEW c \in Conns
             PROVE  LET Held(t) == {t} \X {i \in DOMAIN todo[t] :
                              /\ todo[t][i].conn = c
                              /\ todo[t][i].op \in {"unref", "look", "report"}}
                        users == {x \in {<<"link", link.conn>>, <<"attempt", pairing.attempt>>} : x[2] = c}
                    IN refs[c] = Cardinality(UNION {Held(t) : t \in Threads}) + Cardinality(users)
  BY DEF RefsBalanced
<1> DEFINE A == HeldBy("stack", todo["stack"], c)
           B == HeldBy("work", todo["work"], c)
           C == HeldBy("owner", todo["owner"], c)
           users == Users(link.conn, pairing.attempt, c)
           held == UNION {HeldBy(t, todo[t], c) : t \in Threads}
<1>1. /\ IsFiniteSet(A) /\ Cardinality(A) = Count(todo["stack"], c)
      /\ IsFiniteSet(B) /\ Cardinality(B) = Count(todo["work"], c)
      /\ IsFiniteSet(C) /\ Cardinality(C) = Count(todo["owner"], c)
  <2>1. "stack" \in Threads /\ "work" \in Threads /\ "owner" \in Threads
    BY DEF Threads
  <2>2. IsFiniteSet(A) /\ Cardinality(A) = Count(todo["stack"], c)
    BY <2>1, HeldByThread
  <2>3. IsFiniteSet(B) /\ Cardinality(B) = Count(todo["work"], c)
    BY <2>1, HeldByThread
  <2>4. IsFiniteSet(C) /\ Cardinality(C) = Count(todo["owner"], c)
    BY <2>1, HeldByThread
  <2> QED BY <2>2, <2>3, <2>4
<1>2. A \cap B = {} /\ (A \cup B) \cap C = {}
  BY DEF HeldBy
<1>3. held = A \cup B \cup C
  BY DEF Threads
<1>4. Cardinality(users) = One(link.conn = c) + One(pairing.attempt = c)
  BY UsersCount
<1>5. /\ Count(todo["stack"], c) \in Nat /\ Count(todo["work"], c) \in Nat
      /\ Count(todo["owner"], c) \in Nat
      /\ One(link.conn = c) \in Nat /\ One(pairing.attempt = c) \in Nat
  BY TotalNat DEF One
<1>6. /\ refs[c] = Total(todo, c) + One(link.conn = c) + One(pairing.attempt = c)
      /\ Total(todo, c) = Count(todo["stack"], c) + Count(todo["work"], c) + Count(todo["owner"], c)
  BY DEF Balanced, Total
<1> HIDE DEF A, B, C, held, users
<1>7. Cardinality(A \cup B \cup C) = Cardinality(A) + Cardinality(B) + Cardinality(C)
  BY <1>1, <1>2, ThreeSets
<1> DEFINE i == Count(todo["stack"], c)
           j == Count(todo["work"], c)
           k == Count(todo["owner"], c)
           l == One(link.conn = c)
           m == One(pairing.attempt = c)
           r == refs[c]
<1>8. /\ i \in Nat /\ j \in Nat /\ k \in Nat /\ l \in Nat /\ m \in Nat
      /\ Cardinality(held) = i + j + k /\ Cardinality(users) = l + m
      /\ r = (i + j + k) + l + m
  BY <1>1, <1>3, <1>4, <1>5, <1>6, <1>7
<1>9. r = Cardinality(held) + Cardinality(users)
  <2> HIDE DEF i, j, k, l, m, r
  <2> QED BY <1>8
<1> QED BY <1>9 DEF held, users, HeldBy, Users

-----------------------------------------------------------------------------
(* The theorems.                                                           *)

\* The invariant holds at the start.
LEMMA PairingStarts ==
  ASSUME PairingAssumption, Init
  PROVE  PairingIInv
<1>1. /\ pairing = [window |-> 0, due |-> FALSE, counter |-> 0, attempt |-> None,
                    attemptWindow |-> 0, connection |-> 0, attempts |-> 0, events |-> <<>>]
      /\ timer = 0 /\ link = [conn |-> None, gen |-> 0, counter |-> 0]
      /\ refs = [c \in Conns |-> 0] /\ todo = [t \in Threads |-> <<>>]
      /\ told = None /\ spoiled = FALSE
  BY DEF Init
<1>2. /\ 0 \in 0 .. MaxWindow /\ 0 \in 0 .. MaxGen /\ 0 \in 0 .. AttemptsMax /\ EventsMax \in Nat
      /\ 0 <= EventsMax
  BY DEF PairingAssumption
<1>3. <<>> \in Seq(Event) /\ Len(<<>>) = 0 /\ Pending(<<>>) = {} /\ \A c : Count(<<>>, c) = 0
  BY Nothing
<1>4. Policy(pairing)
  <2>1. pairing \in PolicyType
    BY <1>1, <1>2, <1>3 DEF PolicyType
  <2>2. /\ pairing.window = 0 /\ pairing.counter = 0 /\ pairing.attempt = None
        /\ pairing.connection = 0 /\ pairing.events = <<>>
    BY <1>1
  <2> QED BY <1>2, <1>3, <2>1, <2>2 DEF Policy
<1>5. Queued(todo) /\ Exclusive(todo)
  <2>1. \A t \in Threads : todo[t] = <<>> /\ <<>> \in Seq(Fit(t))
    BY <1>1
  <2>2. DOMAIN todo = Threads /\ "stack" \in Threads /\ DOMAIN <<>> = {}
    BY <1>1 DEF Threads
  <2> QED BY <2>1, <2>2 DEF Queued, Exclusive, Busy, AtTop
<1>6. todo["stack"] = <<>> /\ todo["work"] = <<>> /\ todo["owner"] = <<>>
  BY <1>1 DEF Threads
<1>7. Connected(pairing, link)
  <2>1. link \in LinkType /\ link.conn = None /\ link.gen = 0 /\ link.counter = 0
    BY <1>1, <1>2 DEF LinkType
  <2> QED BY <1>1, <1>3, <2>1 DEF Connected
<1>8. Informed(todo, pairing, link) /\ Forward(todo, pairing, link, told)
  BY <1>1, <1>3, <1>6 DEF Informed, Forward, AtTop
<1>9. Barred(pairing, link, told, spoiled) /\ Doomed(todo, link, spoiled)
  BY <1>1, <1>3 DEF Barred, Doomed
<1>10. Balanced(todo, pairing, link, refs)
  <2>1. ASSUME NEW c \in Conns
        PROVE  /\ refs[c] = 0 /\ Total(todo, c) = 0 /\ One(link.conn = c) = 0
               /\ One(pairing.attempt = c) = 0
    BY <1>1, <1>3, <1>6 DEF Total, One, PairingAssumption
  <2> QED BY <2>1 DEF Balanced
<1>11. timer \in 0 .. MaxWindow /\ refs \in [Conns -> Nat] /\ told \in Event \cup {None}
  BY <1>1, <1>2
<1> QED BY <1>1, <1>4, <1>5, <1>7, <1>8, <1>9, <1>10, <1>11 DEF PairingIInv

\* Every step preserves it.
LEMMA PairingSteps ==
  ASSUME PairingAssumption, PairingIInv, [Next]_vars
  PROVE  PairingIInv'
<1>1. CASE OwnerStep
  <2>1. "owner" \in Threads
    BY DEF Threads
  <2> QED BY <1>1, <2>1, CommonKeeps, OpenKeeps, CloseKeeps, PopKeeps, LookKeeps DEF OwnerStep
<1>2. CASE WorkStep
  <2>1. "work" \in Threads
    BY DEF Threads
  <2> QED BY <1>2, <2>1, CommonKeeps, PollKeeps DEF WorkStep
<1>3. CASE StackStep
  <2>1. "stack" \in Threads
    BY DEF Threads
  <2> QED BY <1>3, <2>1, CommonKeeps, AcceptKeeps, DisplayKeeps, CompleteKeeps, UnlinkKeeps
          DEF StackStep
<1>4. CASE Command \/ Fires \/ Time \/ Invalidate \/ Disconnect
  BY <1>4, CommandKeeps, FiresKeeps, TimeKeeps, InvalidateKeeps, DisconnectKeeps
<1>5. CASE \E c \in Conns : Callback(c) \/ Connect(c)
  BY <1>5, CallbackKeeps, ConnectKeeps
<1>6. CASE UNCHANGED vars
  <2>1. /\ pairing' = pairing /\ timer' = timer /\ link' = link /\ refs' = refs
        /\ todo' = todo /\ told' = told /\ spoiled' = spoiled
    BY <1>6 DEF vars
  <2> QED BY <2>1 DEF PairingIInv
<1> QED BY <1>1, <1>2, <1>3, <1>4, <1>5, <1>6 DEF Next

\* The inductive invariant of the pairing policy.
THEOREM PairingInductive == Spec => []PairingIInv
<1>1. Init => PairingIInv
  BY PairingAssumption, PairingStarts
<1>2. PairingIInv /\ [Next]_vars => PairingIInv'
  BY PairingAssumption, PairingSteps
<1> QED BY <1>1, <1>2, PTL DEF Spec

\* The types hold, every reference is someone's, and an attempt has a window.
THEOREM PairingInvariant == Spec => []PairingInv
<1>1. PairingIInv => PairingInv
  <2> SUFFICES ASSUME PairingIInv  PROVE  PairingInv
    OBVIOUS
  <2>1. TypeOK
    <3>1. Policy(pairing) /\ link \in LinkType /\ DOMAIN todo = Threads
      BY DEF PairingIInv, Connected, Queued
    <3> QED BY <3>1 DEF PairingIInv, TypeOK, Policy, PolicyType, LinkType
  <2>2. RefsBalanced
    BY BalancedIsRefsBalanced DEF PairingIInv
  <2>3. pairing.attempt # None => pairing.attemptWindow \in 1 .. pairing.window
    BY DEF PairingIInv, Policy
  <2> QED BY <2>1, <2>2, <2>3 DEF PairingInv
<1> QED BY <1>1, PairingInductive, PTL

\* A connection whose attempt ended without success is hung up before the thread that
\* ended it has returned.
THEOREM SpoiledHungUp == Spec => []SpoiledIsHungUp
<1>1. PairingIInv => SpoiledIsHungUp
  <2> SUFFICES ASSUME PairingIInv, spoiled  PROVE  SpoiledIsHungUp
    BY DEF SpoiledIsHungUp
  <2>1. PICK t \in Threads : \E f \in Pending(todo[t]) : Ending(f, link)
    BY DEF PairingIInv, Doomed
  <2>2. PICK i \in DOMAIN todo[t] : Ending(todo[t][i], link)
    BY <2>1 DEF Pending
  <2> QED BY <2>2 DEF SpoiledIsHungUp, Ending
<1> QED BY <1>1, PairingInductive, PTL

\* What the owner is told next, after what it was told last.
Ordered ==
  told # None =>
       /\ told'.window >= told.window
       /\ told.kind \in {"complete", "expired"} => told'.window > told.window
       /\ told'.window = told.window /\ 0 \notin {told.connection, told'.connection} =>
            /\ told'.connection >= told.connection
            /\ told.kind = "cancelled" /\ told'.kind = "passkey" =>
                 told'.connection > told.connection

\* An event of the current window may be told when it is not older than the last one
\* and nothing final was told of this window.
LEMMA TellsInOrder ==
  ASSUME PairingAssumption, PairingIInv, NEW e \in Event, told' = Shown(e),
         e.window = pairing.counter, told # None => Later(e, told),
         told # None /\ told.kind \in {"complete", "expired"} => told.window # pairing.counter
  PROVE  Ordered
<1> SUFFICES ASSUME told # None  PROVE  Ordered
  BY DEF Ordered
<1>1. told \in Event /\ told.window <= pairing.counter /\ pairing.counter \in Nat
  BY DEF PairingIInv, Forward, Policy, PolicyType, PairingAssumption
<1>2. /\ told.window \in Nat /\ told.connection \in Nat
      /\ e.window \in Nat /\ e.connection \in Nat
  BY <1>1 DEF Event, PairingAssumption
<1>3. /\ told'.kind = e.kind /\ told'.window = pairing.counter
      /\ told'.connection = e.connection
  BY ShownFacts
<1>4. told'.window >= told.window
  BY <1>1, <1>2, <1>3
<1>5. told.kind \in {"complete", "expired"} => told'.window > told.window
  BY <1>1, <1>2, <1>3
<1>6. told'.connection # 0 => told'.connection >= told.connection
  BY <1>3 DEF Later
<1>7. told'.kind = "passkey" /\ told.kind = "cancelled" => told'.connection > told.connection
  BY <1>3 DEF Later
<1> QED BY <1>4, <1>5, <1>6, <1>7 DEF Ordered

\* aura_pairing_take tells in order, when it pops and when it has looked.
LEMMA TakesInOrder ==
  ASSUME PairingAssumption, PairingIInv, Pop \/ Look, told' # told
  PROVE  Ordered
<1>1. /\ Policy(pairing) /\ Queued(todo) /\ Forward(todo, pairing, link, told)
      /\ told \in Event \cup {None}
  BY DEF PairingIInv
<1>2. CASE Pop
  <2> DEFINE e == Head(pairing.events)
  <2>1. /\ pairing.events # <<>> /\ pairing' = [pairing EXCEPT !.events = Tail(@)]
        /\ told' = Shown(e) /\ e.window = pairing.counter /\ e.kind # "passkey"
    BY <1>2 DEF Pop
  <2>2. e \in Event /\ e \in Pending(pairing.events)
    BY <1>1, <2>1, Popped
  <2> HIDE DEF e
  <2>3. told # None => Later(e, told)
    BY <1>1, <2>1, <2>2 DEF Forward, Behind, Later
  <2>4. told # None /\ told.kind \in {"complete", "expired"} => told.window # pairing.counter
    BY <1>1, <2>1 DEF Forward
  <2> QED BY <2>1, <2>2, <2>3, <2>4, TellsInOrder
<1>3. CASE Look
  <2> DEFINE f == Top("owner")
  <2>1. /\ Turn("owner") /\ todo["owner"] # <<>> /\ f.op \in Looks /\ "owner" \in Threads
    BY <1>3 DEF Look, At, Threads, Looks
  <2>2. OpenLocked /\ pairing.window = f.arg.window /\ told' = Shown(f.arg)
    BY <1>3 DEF Look
  <2>3. f \in Fit("owner") /\ AtTop(todo["owner"], Looks)
    BY <1>1, <2>1, TopFacts
  <2>4. f.arg \in Event /\ (told # None => Later(f.arg, told))
    BY <1>1, <2>1, <2>3 DEF Forward, Top, Fit
  <2>5. pairing.window # 0 /\ pairing.window = pairing.counter
    BY <1>1, <2>2 DEF OpenLocked, Policy
  <2>6. told # None /\ told.kind \in {"complete", "expired"} => told.window # pairing.counter
    BY <1>1, <2>5 DEF Forward
  <2> HIDE DEF f
  <2> QED BY <2>2, <2>4, <2>5, <2>6, TellsInOrder
<1> QED BY <1>2, <1>3

\* Nothing else tells the owner anything.
LEMMA OnlyTakesTell ==
  ASSUME [Next]_vars, told' # told
  PROVE  Pop \/ Look
<1>1. \A t : Common(t) => told' = told
  <2> SUFFICES ASSUME NEW t, Common(t)  PROVE  told' = told
    OBVIOUS
  <2>1. CASE Expire(t)
    BY <2>1 DEF Expire, Ends, Goes, policy
  <2>2. CASE Check(t) \/ AuthCancel(t)
    BY <2>2 DEF Check, AuthCancel, Goes, policy
  <2>3. CASE Hangup(t) \/ GiveBack(t) \/ Arm(t)
    BY <2>3 DEF Hangup, GiveBack, Arm
  <2>4. CASE Failed(t)
    BY <2>4 DEF Failed, Ends, Goes, policy
  <2> QED BY <2>1, <2>2, <2>3, <2>4 DEF Common
<1>2. Open \/ Close \/ Poll => told' = told
  BY DEF Open, Close, Poll, Ends, Goes, policy
<1>3. Accept \/ Display \/ Unlink => told' = told
  BY DEF Accept, Display, Unlink, Goes, policy
<1>4. \A op : Complete(op) => told' = told
  <2> SUFFICES ASSUME NEW op, Complete(op)  PROVE  told' = told
    OBVIOUS
  <2> DEFINE c == Top("stack").conn
             success == Current(Top("stack")) /\ op = "secured"
  <2>1. CASE pairing.attempt # c
    BY <2>1 DEF Complete, Goes, policy
  <2>2. CASE pairing.attempt = c /\ ~success
    BY <2>2 DEF Complete, Ends
  <2>3. CASE pairing.attempt = c /\ success
    BY <2>3 DEF Complete
  <2> QED BY <2>1, <2>2, <2>3
<1>5. Command \/ Fires \/ Time \/ Invalidate \/ Disconnect => told' = told
  BY DEF Command, Fires, Time, Invalidate, Disconnect, policy
<1>6. \A c : Callback(c) \/ Connect(c) => told' = told
  BY DEF Callback, Connect, policy
<1>7. UNCHANGED vars => told' = told
  BY DEF vars
<1> QED BY <1>1, <1>2, <1>3, <1>4, <1>5, <1>6, <1>7 DEF Next, OwnerStep, WorkStep, StackStep

\* What the console shows goes forward: windows and attempts in their order, nothing
\* of a window that expired or whose pairing was complete, and no key of an attempt
\* whose cancellation was shown.
THEOREM ConsoleGoesForward == Spec => ToldInOrder
<1>1. PairingIInv /\ [Next]_vars => [Ordered]_told
  <2> SUFFICES ASSUME PairingIInv, [Next]_vars, told' # told  PROVE  Ordered
    OBVIOUS
  <2> QED BY PairingAssumption, OnlyTakesTell, TakesInOrder
<1>2. ToldInOrder <=> [][Ordered]_told
  BY PTL DEF ToldInOrder, Ordered
<1> QED BY <1>1, <1>2, PairingInductive, PTL DEF Spec
===============================================================================
