--------------------------- MODULE EventStreamProofs ---------------------------
(***************************************************************************)
(* Proofs about EventStream, for any journal, any max_replay and any       *)
(* number of broken connections.                                           *)
(*                                                                         *)
(* Every sequence of events the stream computes (the tail it reads, the    *)
(* replay window, what a poll has not sent) is a window k + 1, ..., n of   *)
(* the gapless journal.  A connection therefore continues what the client  *)
(* received from some k, which is the client's last event unless it was    *)
(* away for too long, and StreamInv follows.                               *)
(***************************************************************************)
EXTENDS EventStream, EventLogProofs, WellFoundedInduction

\* A set of naturals that is not empty has a least element.
LEMMA LeastNumber ==
  ASSUME NEW T \in SUBSET Nat, T # {}
  PROVE  \E m \in T : \A n \in T : m <= n
<1> DEFINE R == OpToRel(<, Nat)
<1>0. IsWellFoundedOn(R, Nat)
  BY NatLessThanWellFounded
<1>2. \A x, y \in Nat : <<x, y>> \in R <=> x < y
  BY DEF OpToRel
<1> HIDE DEF R
<1>1. PICK m \in T : \A n \in T : <<n, m>> \notin R
  BY <1>0, WFMin
<1>3. \A n \in T : ~(n < m)
  <2> TAKE n \in T
  <2>1. <<n, m>> \in R <=> n < m
    BY <1>2, Zenon
  <2> QED
    BY <1>1, <2>1, Zenon
<1> QED
  BY <1>3

\* A longer prefix of a suffix is the shorter one and the next element.
LEMMA ExtendedSubSeq ==
  ASSUME NEW S, NEW s \in Seq(S), NEW d \in Nat, NEW n \in Nat, d < n, n <= Len(s)
  PROVE  SubSeq(s, d + 1, n) = Append(SubSeq(s, d + 1, n - 1), s[n])
<1> DEFINE long == SubSeq(s, d + 1, n)
           short == SubSeq(s, d + 1, n - 1)
<1>1. long \in Seq(S) /\ Len(long) = n - d /\ \A i \in 1..(n - d) : long[i] = s[d + i]
  OBVIOUS
<1>2. short \in Seq(S) /\ Len(short) = n - 1 - d /\ \A i \in 1..(n - 1 - d) : short[i] = s[d + i]
  OBVIOUS
<1>3. s[n] \in S /\ s[n] = s[d + (n - d)]
  OBVIOUS
<1> HIDE DEF long, short
<1>4. Append(short, s[n]) \in Seq(S) /\ Len(Append(short, s[n])) = n - d
  BY <1>2, <1>3
<1>5. \A i \in 1..(n - d) : Append(short, s[n])[i] = long[i]
  BY <1>1, <1>2, <1>3
<1>6. long = Append(short, s[n])
  BY <1>1, <1>4, <1>5, SeqEqual
<1> QED
  BY <1>6 DEF long, short

\* Where the events later than a are a suffix, Later returns that suffix.
LEMMA LaterIsSuffix ==
  ASSUME NEW s \in Seq(Events), NEW a, NEW d \in 0..Len(s),
         \A i \in 1..Len(s) : s[i].seq > a <=> d < i
  PROVE  Later(s, a) = SubSeq(s, d + 1, Len(s))
<1> DEFINE Next1(f, n) == IF n = 0 THEN <<>>
                         ELSE IF s[n].seq > a THEN Append(f[n - 1], s[n]) ELSE f[n - 1]
           Kept(f) == f = [n \in 0..Len(s) |-> Next1(f, n)]
           suffix == [n \in 0..Len(s) |-> SubSeq(s, d + 1, n)]
<1>1. Len(s) \in Nat /\ d \in Nat
  OBVIOUS
<1>2. \A n \in 0..d : SubSeq(s, d + 1, n) = <<>>
  BY <1>1
<1>3. ASSUME NEW f, NEW n \in 0..Len(s), n # 0 => f[n - 1] = SubSeq(s, d + 1, n - 1)
      PROVE  Next1(f, n) = SubSeq(s, d + 1, n)
  <2>1. CASE n <= d
    BY <1>1, <1>2, <1>3, <2>1
  <2>2. CASE d < n
    <3>1. n \in Nat /\ n \in 1..Len(s) /\ n # 0 /\ s[n].seq > a
      BY <1>1, <2>2
    <3>2. SubSeq(s, d + 1, n) = Append(SubSeq(s, d + 1, n - 1), s[n])
      BY <1>1, <2>2, <3>1, ExtendedSubSeq
    <3>3. f[n - 1] = SubSeq(s, d + 1, n - 1)
      BY <1>3, <3>1
    <3>4. Next1(f, n) = Append(f[n - 1], s[n])
      BY <3>1, Zenon
    <3> HIDE DEF Next1
    <3> QED
      BY <3>2, <3>3, <3>4, Zenon
  <2>3. n <= d \/ d < n
    BY <1>1
  <2> QED
    BY <2>1, <2>2, <2>3, Zenon
<1>4. Kept(suffix)
  <2>1. ASSUME NEW n \in 0..Len(s) PROVE suffix[n] = Next1(suffix, n)
    <3>1. n # 0 => suffix[n - 1] = SubSeq(s, d + 1, n - 1)
      <4>1. n # 0 => n - 1 \in 0..Len(s)
        BY <1>1
      <4> QED
        BY <4>1, Zenon
    <3> HIDE DEF Next1
    <3>2. Next1(suffix, n) = SubSeq(s, d + 1, n)
      BY <1>3, <3>1
    <3> QED
      BY <3>2
  <2> HIDE DEF Next1
  <2> QED
    BY <2>1
<1>5. ASSUME NEW f, Kept(f) PROVE f[Len(s)] = SubSeq(s, d + 1, Len(s))
  <2> DEFINE wrong == {n \in 0..Len(s) : f[n] # SubSeq(s, d + 1, n)}
  <2>1. \A n \in 0..Len(s) : f[n] = Next1(f, n)
    <3> HIDE DEF Next1
    <3> QED
      BY <1>5
  <2>2. wrong = {}
    <3> SUFFICES ASSUME wrong # {} PROVE FALSE
      OBVIOUS
    <3>1. wrong \in SUBSET Nat
      BY <1>1
    <3>2. PICK n \in wrong : \A k \in wrong : n <= k
      <4> HIDE DEF wrong
      <4> QED
        BY <3>1, LeastNumber
    <3>3. n # 0 => f[n - 1] = SubSeq(s, d + 1, n - 1)
      <4> SUFFICES ASSUME n # 0 PROVE f[n - 1] = SubSeq(s, d + 1, n - 1)
        OBVIOUS
      <4>1. n - 1 \in 0..Len(s) /\ ~(n <= n - 1)
        BY <1>1
      <4>2. n - 1 \notin wrong
        <5> HIDE DEF wrong
        <5> QED BY <3>2, <4>1
      <4> QED
        BY <4>1, <4>2
    <3> HIDE DEF Next1
    <3>4. Next1(f, n) = SubSeq(s, d + 1, n)
      BY <1>3, <3>3
    <3> QED
      BY <2>1, <3>4
  <2> QED
    BY <1>1, <2>2
<1>6. Later(s, a) = (CHOOSE f : Kept(f))[Len(s)]
  BY DEF Later
<1> HIDE DEF Kept
<1> QED
  BY <1>4, <1>5, <1>6

-----------------------------------------------------------------------------
(* Windows of a gapless journal.                                           *)

\* t holds the events k + 1, ..., n.
From(t, k, n) ==
  /\ t \in Seq(Events) /\ Len(t) = n - k
  /\ \A i \in 1..(n - k) : t[i].seq = k + i

\* What is left of a window after its first d events is a window.
LEMMA SuffixFrom ==
  ASSUME NEW n \in Nat, NEW k \in 0..n, NEW t, From(t, k, n), NEW d \in 0..(n - k)
  PROVE  From(SubSeq(t, d + 1, n - k), k + d, n)
<1>1. t \in Seq(Events) /\ Len(t) = n - k /\ \A i \in 1..(n - k) : t[i].seq = k + i
  BY DEF From
<1> DEFINE u == SubSeq(t, d + 1, n - k)
<1>2. u \in Seq(Events) /\ Len(u) = n - k - d /\ \A i \in 1..(n - k - d) : u[i] = t[d + i]
  BY <1>1
<1> HIDE DEF u
<1>3. From(u, k + d, n)
  BY <1>1, <1>2 DEF From
<1> QED
  BY <1>3 DEF u

\* The last m events of a window are a window.
LEMMA LastOfFrom ==
  ASSUME NEW n \in Nat, NEW k \in 0..n, NEW t, From(t, k, n), NEW m \in Nat
  PROVE  From(LastOf(t, m), IF m >= n - k THEN k ELSE n - m, n)
<1>1. Len(t) = n - k
  BY DEF From
<1>2. CASE m >= n - k
  BY <1>1, <1>2 DEF LastOf
<1>3. CASE ~(m >= n - k)
  <2>1. n - k - m \in 0..(n - k) /\ k + (n - k - m) = n - m
    BY <1>3
  <2>2. From(SubSeq(t, n - k - m + 1, n - k), k + (n - k - m), n)
    BY <2>1, SuffixFrom
  <2>3. LastOf(t, m) = SubSeq(t, n - k - m + 1, n - k)
    BY <1>1, <1>3 DEF LastOf
  <2> QED
    BY <1>3, <2>1, <2>2, <2>3
<1> QED
  BY <1>2, <1>3

\* The events of a window that come after a are the window from a on.
LEMMA LaterFrom ==
  ASSUME NEW n \in Nat, NEW k \in 0..n, NEW t, From(t, k, n), NEW a \in k..n
  PROVE  From(Later(t, a), a, n)
<1>1. t \in Seq(Events) /\ Len(t) = n - k /\ \A i \in 1..(n - k) : t[i].seq = k + i
  BY DEF From
<1>2. a - k \in 0..(n - k) /\ k + (a - k) = a
  OBVIOUS
<1>3. \A i \in 1..(n - k) : t[i].seq > a <=> a - k < i
  BY <1>1
<1>4. Later(t, a) = SubSeq(t, (a - k) + 1, n - k)
  BY <1>1, <1>2, <1>3, LaterIsSuffix
<1>5. From(SubSeq(t, (a - k) + 1, n - k), k + (a - k), n)
  BY <1>2, SuffixFrom
<1> QED
  BY <1>2, <1>4, <1>5

\* The sequence numbers of a window count up from its start.
LEMMA SequencesFrom ==
  ASSUME NEW n \in Nat, NEW k \in 0..n, NEW t, From(t, k, n)
  PROVE  /\ Sequences(t) \in Seq(Nat) /\ Len(Sequences(t)) = n - k
         /\ \A i \in 1..(n - k) : Sequences(t)[i] = k + i
<1>1. t \in Seq(Events) /\ Len(t) = n - k /\ \A i \in 1..(n - k) : t[i].seq = k + i
  BY DEF From
<1>2. Sequences(t) = [i \in 1..(n - k) |-> t[i].seq] /\ n - k \in Nat
  BY <1>1 DEF Sequences
<1>3. Sequences(t) \in [1..(n - k) -> Nat]
  BY <1>1, <1>2
<1> QED
  BY <1>1, <1>2, <1>3, SeqDef, LenProperties

\* An exact journal is a window of itself.
LEMMA JournalFrom ==
  ASSUME LogInv
  PROVE  /\ Len(journal) \in Nat /\ DOMAIN journal = 1..Len(journal)
         /\ From(journal, 0, Len(journal))
BY DEF LogInv, TypeOK, JournalIsExact, From

\* The replay starts after the client's last event, or max_replay events before
\* the end of the journal.
LEMMA ReplayIsWindow ==
  ASSUME LogInv, NEW n \in Nat, n = Len(journal), Anchor \in 0..n, NEW k,
         k = IF n - Anchor <= MaxReplay THEN Anchor ELSE n - MaxReplay
  PROVE  From(ReplayWindow(LastOf(journal, MaxReplay + 1)), k, n)
<1> DEFINE tail == LastOf(journal, MaxReplay + 1)
           j == IF MaxReplay + 1 >= n THEN 0 ELSE n - (MaxReplay + 1)
<1>0. MaxReplay \in Nat
  BY StreamBoundsAreNaturals
<1>1. From(tail, j, n) /\ j \in 0..n
  <2>1. From(journal, 0, n)
    BY JournalFrom
  <2>2. From(tail, IF MaxReplay + 1 >= n - 0 THEN 0 ELSE n - (MaxReplay + 1), n)
    BY <1>0, <2>1, LastOfFrom
  <2> QED
    BY <1>0, <2>2
<1>2. tail \in Seq(Events) /\ Len(tail) = n - j /\ \A i \in 1..(n - j) : tail[i].seq = j + i
  BY <1>1 DEF From
<1>3. (\E i \in DOMAIN tail : tail[i].seq = Anchor) <=> j < Anchor
  <2>1. DOMAIN tail = 1..(n - j)
    BY <1>2
  <2>2. ASSUME NEW i \in DOMAIN tail, tail[i].seq = Anchor PROVE j < Anchor
    BY <1>1, <1>2, <2>1, <2>2
  <2>3. ASSUME j < Anchor PROVE \E i \in DOMAIN tail : tail[i].seq = Anchor
    <3>1. j \in Nat /\ j <= n /\ Anchor \in Nat /\ Anchor <= n
      BY <1>1
    <3> HIDE DEF tail, j, Anchor
    <3>2. Anchor - j \in 1..(n - j) /\ j + (Anchor - j) = Anchor
      BY <2>3, <3>1
    <3>3. tail[Anchor - j].seq = Anchor
      BY <1>2, <3>2
    <3> QED
      BY <2>1, <3>2, <3>3
  <2> QED
    BY <2>2, <2>3
<1>4. CASE j < Anchor
  <2>1. From(AfterAnchor(tail, Anchor), Anchor, n)
    <3>1. Anchor \in j..n
      BY <1>1, <1>4
    <3> HIDE DEF tail, j
    <3> QED
      BY <1>1, <3>1, LaterFrom DEF AfterAnchor
  <2>2. From(LastOf(AfterAnchor(tail, Anchor), MaxReplay),
             IF MaxReplay >= n - Anchor THEN Anchor ELSE n - MaxReplay, n)
    BY <1>0, <2>1, LastOfFrom
  <2>3. ReplayWindow(tail) = LastOf(AfterAnchor(tail, Anchor), MaxReplay)
    BY <1>3, <1>4 DEF ReplayWindow
  <2>4. k = IF MaxReplay >= n - Anchor THEN Anchor ELSE n - MaxReplay
    BY <1>0
  <2> QED
    BY <2>2, <2>3, <2>4
<1>5. CASE ~(j < Anchor)
  <2>1. From(LastOf(tail, MaxReplay), IF MaxReplay >= n - j THEN j ELSE n - MaxReplay, n)
    <3> HIDE DEF tail, j
    <3> QED
      BY <1>0, <1>1, LastOfFrom
  <2>2. ReplayWindow(tail) = LastOf(tail, MaxReplay)
    BY <1>3, <1>5 DEF ReplayWindow
  <2>3. k = IF MaxReplay >= n - j THEN j ELSE n - MaxReplay
    BY <1>0, <1>5
  <2> QED
    BY <2>1, <2>2, <2>3
<1> QED
  BY <1>4, <1>5

\* What a poll may send are the events after lastSequence.
LEMMA UnsentIsRest ==
  ASSUME LogInv, NEW n \in Nat, n = Len(journal), offset \in Nat, last \in Nat,
         offset <= last, last <= n
  PROVE  /\ Unsent \in Seq(Nat) /\ Len(Unsent) = n - last
         /\ \A i \in 1..(n - last) : Unsent[i] = last + i
<1>1. From(journal, 0, n)
  BY JournalFrom
<1>2. From(SubSeq(journal, offset + 1, n - 0), 0 + offset, n)
  BY <1>1, SuffixFrom
<1>3. From(SubSeq(journal, offset + 1, n), offset, n)
  BY <1>2
<1>4. From(Later(SubSeq(journal, offset + 1, n), last), last, n)
  BY <1>3, LaterFrom
<1> QED
  BY <1>4, SequencesFrom DEF Unsent

\* Sequences are joined in any order.
LEMMA Associative ==
  ASSUME NEW q \in Seq(Nat), NEW r \in Seq(Nat), NEW t \in Seq(Nat)
  PROVE  (q \o r) \o t = q \o (r \o t)
<1> DEFINE x == (q \o r) \o t
           y == q \o (r \o t)
<1>1. q \o r \in Seq(Nat) /\ r \o t \in Seq(Nat)
  OBVIOUS
<1>2. x \in Seq(Nat) /\ Len(x) = Len(q) + Len(r) + Len(t)
  BY <1>1
<1>3. y \in Seq(Nat) /\ Len(y) = Len(q) + Len(r) + Len(t)
  BY <1>1
<1>4. \A i \in 1..Len(x) : x[i] = y[i]
  BY <1>1
<1> HIDE DEF x, y
<1>5. x = y
  BY <1>2, <1>3, <1>4, SeqEqual
<1> QED
  BY <1>5 DEF x, y

\* Sequences sent one after the other, continued by the next ones.
LEMMA Continued ==
  ASSUME NEW q \in Seq(Nat), NEW r \in Seq(Nat), NEW l \in Nat,
         \A i \in 1..Len(q) : 1 <= q[i] /\ q[i] <= l,
         \A i, j \in 1..Len(q) : i < j => q[i] < q[j],
         \A i \in 1..Len(r) : r[i] = l + i
  PROVE  /\ q \o r \in Seq(Nat) /\ Len(q \o r) = Len(q) + Len(r)
         /\ \A i \in 1..Len(q \o r) : 1 <= (q \o r)[i] /\ (q \o r)[i] <= l + Len(r)
         /\ \A i, j \in 1..Len(q \o r) : i < j => (q \o r)[i] < (q \o r)[j]
         /\ (\A i \in 1..Len(q) : q[i] = i) /\ l = Len(q) =>
              \A i \in 1..Len(q \o r) : (q \o r)[i] = i
<1> DEFINE s == q \o r
<1>1. s \in Seq(Nat) /\ Len(s) = Len(q) + Len(r) /\ Len(q) \in Nat /\ Len(r) \in Nat
  OBVIOUS
<1>2. \A i \in 1..Len(s) : i <= Len(q) => s[i] = q[i]
  OBVIOUS
<1>3. \A i \in 1..Len(s) : ~(i <= Len(q)) => s[i] = l + (i - Len(q)) /\ i - Len(q) \in 1..Len(r)
  <2>1. \A i \in 1..Len(s) : ~(i <= Len(q)) => s[i] = r[i - Len(q)] /\ i - Len(q) \in 1..Len(r)
    OBVIOUS
  <2> HIDE DEF s
  <2> QED
    BY <2>1
<1>4. \A i \in 1..Len(q) : q[i] \in Nat
  OBVIOUS
<1> HIDE DEF s
<1>5. ASSUME NEW i \in 1..Len(s) PROVE 1 <= s[i] /\ s[i] <= l + Len(r)
  <2>0. i \in Nat
    BY <1>1
  <2>1. CASE i <= Len(q)
    <3>1. i \in 1..Len(q) /\ s[i] = q[i]
      BY <1>1, <1>2, <2>0, <2>1
    <3>2. q[i] \in Nat /\ 1 <= q[i] /\ q[i] <= l
      BY <1>4, <3>1
    <3> QED
      BY <1>1, <3>1, <3>2
  <2>2. CASE ~(i <= Len(q))
    <3>1. s[i] = l + (i - Len(q)) /\ i - Len(q) \in 1..Len(r)
      BY <1>3, <2>2
    <3> QED
      BY <1>1, <2>0, <3>1
  <2> QED
    BY <2>1, <2>2
<1>6. ASSUME NEW i \in 1..Len(s), NEW j \in 1..Len(s), i < j PROVE s[i] < s[j]
  <2>0. i \in Nat /\ j \in Nat
    BY <1>1
  <2>1. CASE j <= Len(q)
    <3>1. i \in 1..Len(q) /\ j \in 1..Len(q)
      BY <1>1, <1>6, <2>0, <2>1
    <3>2. s[i] = q[i] /\ s[j] = q[j]
      BY <1>1, <1>2, <3>1
    <3>3. q[i] < q[j]
      BY <1>6, <3>1
    <3> QED
      BY <3>2, <3>3
  <2>2. CASE ~(j <= Len(q)) /\ i <= Len(q)
    <3>1. i \in 1..Len(q) /\ s[i] = q[i]
      BY <1>1, <1>2, <2>0, <2>2
    <3>2. q[i] \in Nat /\ q[i] <= l
      BY <1>4, <3>1
    <3>3. s[j] = l + (j - Len(q)) /\ j - Len(q) \in 1..Len(r)
      BY <1>3, <2>2
    <3>4. j - Len(q) >= 1 /\ j - Len(q) \in Nat
      BY <1>1, <2>0, <3>3
    <3>5. l < s[j] /\ s[j] \in Nat
      BY <3>3, <3>4
    <3> QED
      BY <3>1, <3>2, <3>5
  <2>3. CASE ~(i <= Len(q))
    <3>1. ~(j <= Len(q))
      BY <1>1, <1>6, <2>0, <2>3
    <3>2. s[i] = l + (i - Len(q)) /\ s[j] = l + (j - Len(q))
      BY <1>3, <2>3, <3>1
    <3> QED
      BY <1>1, <1>6, <2>0, <3>2
  <2> QED
    BY <2>1, <2>2, <2>3
<1>7. ASSUME \A i \in 1..Len(q) : q[i] = i, l = Len(q), NEW i \in 1..Len(s) PROVE s[i] = i
  <2>0. i \in Nat
    BY <1>1
  <2>1. CASE i <= Len(q)
    BY <1>1, <1>2, <1>7, <2>0, <2>1
  <2>2. CASE ~(i <= Len(q))
    BY <1>1, <1>3, <1>7, <2>0, <2>2
  <2> QED
    BY <2>1, <2>2
<1> QED
  BY <1>1, <1>5, <1>6, <1>7 DEF s

-----------------------------------------------------------------------------
(* The inductive invariant.                                                *)

\* s, what was sent over all connections, of which the current one reached l: in
\* order, in the journal of length n and gapless unless the client was away too long.
SentInv(s, c, l, n, away) ==
  /\ s \in Seq(Nat)
  /\ \A i \in 1..Len(s) : 1 <= s[i] /\ s[i] <= n /\ (c = "open" => s[i] <= l)
  /\ \A i, j \in 1..Len(s) : i < j => s[i] < s[j]
  /\ ~away => \A i \in 1..Len(s) : s[i] = i
  /\ ~away /\ c = "open" => l = Len(s)

\* Nothing is under way before the tail is read; an open stream has sent all the
\* events its subscription has read.
ConnInv ==
  /\ conn \in {"off", "sized"} => wire = <<>>
  /\ conn = "sized" => offset <= Len(journal)
  /\ conn = "open" => offset <= last /\ last <= Len(journal)

StreamInv == StreamTypeOK /\ ConnInv /\ SentInv(got \o wire, conn, last, Len(journal), overrun)

\* No step takes an event out of the journal.
LEMMA JournalGrows ==
  ASSUME LogInv, [Next]_vars
  PROVE  Len(journal) \in Nat /\ Len(journal)' \in Nat /\ Len(journal) <= Len(journal)'
<1>0. journal \in Seq(Events) /\ txn \in Events \cup {NoEvent}
  BY DEF LogInv, TypeOK
<1>1. CASE UNCHANGED journal
  BY <1>0, <1>1
<1>2. CASE WriteJournal
  <2>1. txn \in Events
    BY <1>0, <1>2 DEF LogInv, StepInv, WriteJournal
  <2> QED
    BY <1>0, <1>2, <2>1, AppendedJournal DEF WriteJournal
<1>3. WriteJournal \/ UNCHANGED journal
  BY DEF Next, Enter, Replay, WriteTransaction, Finish, Interrupt, Retry, WriteCursor,
         WriteRequest, vars, fileVars
<1> QED
  BY <1>1, <1>2, <1>3

\* A step of the journal leaves what was sent true of the stream.
LEMMA StreamLogStep ==
  ASSUME LogInv, StreamInv, [Next]_vars, UNCHANGED streamVars
  PROVE  StreamInv'
<1>1. Len(journal) \in Nat /\ Len(journal)' \in Nat /\ Len(journal) <= Len(journal)'
  BY JournalGrows
<1>2. UNCHANGED <<conn, offset, last, wire, got, overrun, drops>>
  BY DEF streamVars
<1>3. StreamTypeOK'
  BY <1>2 DEF StreamInv, StreamTypeOK
<1>4. ConnInv'
  BY <1>1, <1>2 DEF StreamInv, StreamTypeOK, ConnInv
<1>5. SentInv(got \o wire, conn, last, Len(journal)', overrun)
  <2> DEFINE s == got \o wire
  <2>1. SentInv(s, conn, last, Len(journal), overrun)
    BY DEF StreamInv
  <2> HIDE DEF s
  <2>2. ASSUME NEW i \in 1..Len(s) PROVE s[i] <= Len(journal)'
    <3>1. s[i] \in Nat /\ s[i] <= Len(journal)
      BY <2>1 DEF SentInv
    <3> QED
      BY <1>1, <3>1
  <2>3. SentInv(s, conn, last, Len(journal)', overrun)
    BY <2>1, <2>2 DEF SentInv
  <2> QED
    BY <2>3 DEF s
<1> QED
  BY <1>2, <1>3, <1>4, <1>5 DEF StreamInv

\* ReadTail continues what the client received by the events of its window.
LEMMA ReadTailStep ==
  ASSUME LogInv, StreamInv, ReadTail PROVE StreamInv'
<1> DEFINE n == Len(journal)
           tail == LastOf(journal, MaxReplay + 1)
           replay == Sequences(ReplayWindow(tail))
           k == IF n - Anchor <= MaxReplay THEN Anchor ELSE n - MaxReplay
<1>0. n \in Nat /\ MaxReplay \in Nat /\ From(journal, 0, n)
  BY JournalFrom, StreamBoundsAreNaturals
<1>1. got \in Seq(Nat) /\ wire = <<>> /\ got \o wire = got /\ offset <= n
  BY DEF StreamInv, StreamTypeOK, ConnInv, ReadTail
<1>2. SentInv(got, conn, last, n, overrun)
  BY <1>1 DEF StreamInv
<1>3. Anchor \in 0..n /\ \A i \in 1..Len(got) : 1 <= got[i] /\ got[i] <= Anchor
  <2>1. CASE got = <<>>
    BY <1>0, <2>1 DEF Anchor
  <2>2. CASE got # <<>>
    <3>1. Len(got) \in 1..Len(got) /\ Anchor = got[Len(got)]
      BY <1>1, <2>2 DEF Anchor
    <3>2. Anchor \in 0..n
      BY <1>0, <1>1, <1>2, <3>1 DEF SentInv
    <3>3. ASSUME NEW i \in 1..Len(got) PROVE 1 <= got[i] /\ got[i] <= Anchor
      <4>1. i = Len(got) \/ i < Len(got)
        BY <1>1
      <4>2. got[i] \in Nat /\ 1 <= got[i] /\ (i < Len(got) => got[i] < Anchor)
        BY <1>1, <1>2, <3>1 DEF SentInv
      <4> QED
        BY <3>1, <3>2, <4>1, <4>2
    <3> QED
      BY <3>2, <3>3
  <2> QED
    BY <2>1, <2>2
<1>4. k \in 0..n /\ Anchor <= k /\ k \in Nat
  BY <1>0, <1>3
<1>5. /\ replay \in Seq(Nat) /\ Len(replay) = n - k
      /\ \A i \in 1..(n - k) : replay[i] = k + i
  <2> HIDE DEF Anchor
  <2>1. From(ReplayWindow(tail), k, n)
    BY <1>0, <1>3, ReplayIsWindow
  <2> HIDE DEF tail, k, n
  <2> QED
    BY <1>0, <1>4, <2>1, SequencesFrom
<1>6. last' = n
  <2>1. /\ tail # <<>> => tail[Len(tail)].seq = n
        /\ tail = <<>> => n = 0
    <3> DEFINE j == IF MaxReplay + 1 >= n - 0 THEN 0 ELSE n - (MaxReplay + 1)
    <3>1. From(tail, j, n)
      BY <1>0, LastOfFrom
    <3>2. j \in 0..n /\ (j = n => n = 0)
      BY <1>0
    <3>3. tail \in Seq(Events) /\ Len(tail) = n - j /\ \A i \in 1..(n - j) : tail[i].seq = j + i
      BY <3>1 DEF From
    <3> HIDE DEF tail, j, n
    <3> QED
      BY <1>0, <3>2, <3>3
  <2>2. CASE replay # <<>>
    <3>1. last' = replay[Len(replay)]
      BY <2>2 DEF ReadTail
    <3> HIDE DEF replay, k, n
    <3>2. Len(replay) \in 1..(n - k)
      BY <1>0, <1>4, <1>5, <2>2
    <3> QED
      BY <1>0, <1>4, <1>5, <3>1, <3>2
  <2>3. CASE replay = <<>>
    <3>1. last' = IF MaxReplay = 0 /\ tail # <<>> THEN tail[Len(tail)].seq
                  ELSE IF tail # <<>> THEN Anchor ELSE 0
      BY <2>3 DEF ReadTail
    <3>2. k = n
      <4> HIDE DEF replay, k, n
      <4> QED
        BY <1>0, <1>4, <1>5, <2>3
    <3>3. MaxReplay = 0 \/ Anchor = n
      <4> HIDE DEF Anchor, n
      <4> QED
        BY <1>0, <1>3, <3>2
    <3> HIDE DEF tail, Anchor, n
    <3> QED
      BY <2>1, <3>1, <3>3
  <2> QED
    BY <2>2, <2>3
<1>7. /\ journal' = journal /\ wire' = replay /\ got' = got /\ offset' = offset /\ drops' = drops
      /\ overrun' = (overrun \/ n - Anchor > MaxReplay) /\ conn' \in {"open", "ended"}
  BY DEF ReadTail, vars, fileVars
<1>8. StreamTypeOK'
  <2> HIDE DEF n, replay
  <2>1. overrun' \in BOOLEAN
    BY <1>7, Zenon DEF StreamInv, StreamTypeOK
  <2> QED
    BY <1>0, <1>5, <1>6, <1>7, <2>1 DEF StreamInv, StreamTypeOK
<1>9. ConnInv'
  <2>1. offset \in Nat
    BY DEF StreamInv, StreamTypeOK
  <2> QED
    BY <1>0, <1>1, <1>6, <1>7, <2>1 DEF ConnInv
<1>10. SentInv(got \o replay, conn', n, n, overrun')
  <2>1. \A i \in 1..Len(got) : 1 <= got[i] /\ got[i] <= k
    <3> HIDE DEF k, Anchor
    <3> QED
      BY <1>1, <1>3, <1>4
  <2>2. \A i, j \in 1..Len(got) : i < j => got[i] < got[j]
    BY <1>2 DEF SentInv
  <2>3. \A i \in 1..Len(replay) : replay[i] = k + i
    BY <1>5
  <2>4. ~overrun' => (\A i \in 1..Len(got) : got[i] = i) /\ k = Len(got)
    <3> SUFFICES ASSUME ~overrun' PROVE (\A i \in 1..Len(got) : got[i] = i) /\ k = Len(got)
      OBVIOUS
    <3>1. ~overrun /\ ~(n - Anchor > MaxReplay)
      BY <1>7
    <3>2. \A i \in 1..Len(got) : got[i] = i
      BY <1>2, <3>1 DEF SentInv
    <3>3. k = Anchor
      <4> HIDE DEF Anchor, n
      <4> QED
        BY <1>0, <1>3, <3>1
    <3>4. Anchor = Len(got)
      BY <1>1, <3>2 DEF Anchor
    <3> QED
      BY <3>2, <3>3, <3>4
  <2> HIDE DEF k, replay, n
  <2>5. /\ got \o replay \in Seq(Nat) /\ Len(got \o replay) = Len(got) + Len(replay)
        /\ \A i \in 1..Len(got \o replay) :
             1 <= (got \o replay)[i] /\ (got \o replay)[i] <= k + Len(replay)
        /\ \A i, j \in 1..Len(got \o replay) : i < j => (got \o replay)[i] < (got \o replay)[j]
        /\ (\A i \in 1..Len(got) : got[i] = i) /\ k = Len(got) =>
             \A i \in 1..Len(got \o replay) : (got \o replay)[i] = i
    BY <1>1, <1>4, <1>5, <2>1, <2>2, <2>3, Continued
  <2>6. k + Len(replay) = n
    BY <1>0, <1>4, <1>5
  <2> QED
    BY <2>4, <2>5, <2>6 DEF SentInv
<1> QED
  BY <1>6, <1>7, <1>8, <1>9, <1>10 DEF StreamInv

\* Poll continues what was sent by the next events.
LEMMA PollStep ==
  ASSUME LogInv, StreamInv, Poll PROVE StreamInv'
<1> DEFINE n == Len(journal)
           s == got \o wire
<1>0. n \in Nat /\ offset \in Nat /\ last \in Nat /\ offset <= last /\ last <= n
  BY JournalFrom DEF StreamInv, StreamTypeOK, ConnInv, Poll
<1>1. /\ Unsent \in Seq(Nat) /\ Len(Unsent) = n - last
      /\ \A i \in 1..(n - last) : Unsent[i] = last + i
  BY <1>0, UnsentIsRest
<1>2. SentInv(s, "open", last, n, overrun) /\ s \in Seq(Nat) /\ got \in Seq(Nat) /\ wire \in Seq(Nat)
  BY DEF StreamInv, StreamTypeOK, Poll
<1>3. /\ journal' = journal /\ got' = got /\ offset' = n /\ drops' = drops /\ overrun' = overrun
  BY DEF Poll, vars, fileVars
<1>4. CASE Unsent = <<>>
  <2>1. UNCHANGED <<conn, last, wire>> /\ conn = "open"
    BY <1>4 DEF Poll
  <2>2. last = n
    BY <1>0, <1>1, <1>4
  <2>3. StreamTypeOK' /\ ConnInv'
    BY <1>0, <1>3, <2>1, <2>2 DEF StreamInv, StreamTypeOK, ConnInv
  <2> QED
    BY <1>2, <1>3, <2>1, <2>3 DEF StreamInv
<1>5. CASE Unsent # <<>>
  <2>1. PICK m \in DOMAIN Unsent :
          /\ wire' = wire \o SubSeq(Unsent, 1, m)
          /\ last' = Unsent[m]
          /\ conn' = "ended" \/ (m = Len(Unsent) /\ conn' = "open")
    BY <1>5 DEF Poll
  <2> DEFINE r == SubSeq(Unsent, 1, m)
  <2>2. m \in 1..(n - last) /\ m \in Nat /\ last' = last + m
    BY <1>0, <1>1, <2>1
  <2> HIDE DEF n
  <2>3. r \in Seq(Nat) /\ Len(r) = m /\ \A i \in 1..Len(r) : r[i] = last + i
    <3>1. m \in 1..Len(Unsent) /\ Len(Unsent) = n - last /\ n - last \in Nat
      BY <1>0, <1>1, <2>2
    <3> HIDE DEF Unsent
    <3>2. r \in Seq(Nat) /\ Len(r) = m /\ \A i \in 1..m : r[i] = Unsent[i]
      BY <1>1, <2>2, <3>1
    <3>3. \A i \in 1..m : i \in 1..(n - last)
      BY <1>0, <2>2
    <3> HIDE DEF r
    <3> QED
      BY <1>1, <3>2, <3>3
  <2>4. (got \o wire)' = s \o r
    <3>1. (got \o wire)' = got \o (wire \o r)
      BY <1>3, <2>1
    <3> HIDE DEF r
    <3>2. got \o (wire \o r) = (got \o wire) \o r
      BY <1>2, <2>3, Associative, Zenon
    <3> QED
      BY <3>1, <3>2, Zenon
  <2>5. StreamTypeOK' /\ ConnInv'
    <3>1. wire' \in Seq(Nat) /\ last' \in Nat
      BY <1>0, <1>2, <2>1, <2>2, <2>3
    <3>2. conn' = "open" => last' = n
      BY <1>0, <1>1, <2>1, <2>2
    <3>3. StreamTypeOK'
      BY <1>0, <1>3, <2>1, <3>1 DEF StreamInv, StreamTypeOK
    <3>4. Len(journal)' = n
      BY <1>3 DEF n
    <3> QED
      BY <1>0, <1>3, <2>1, <3>2, <3>3, <3>4 DEF ConnInv
  <2> HIDE DEF s, r
  <2>6. /\ s \o r \in Seq(Nat) /\ Len(s \o r) = Len(s) + Len(r)
        /\ \A i \in 1..Len(s \o r) : 1 <= (s \o r)[i] /\ (s \o r)[i] <= last + Len(r)
        /\ \A i, j \in 1..Len(s \o r) : i < j => (s \o r)[i] < (s \o r)[j]
        /\ (\A i \in 1..Len(s) : s[i] = i) /\ last = Len(s) =>
             \A i \in 1..Len(s \o r) : (s \o r)[i] = i
    <3>1. /\ \A i \in 1..Len(s) : 1 <= s[i] /\ s[i] <= last
          /\ \A i, j \in 1..Len(s) : i < j => s[i] < s[j]
      BY <1>2 DEF SentInv
    <3> QED
      BY <1>0, <1>2, <2>3, <3>1, Continued
  <2>7. SentInv(s \o r, conn', last', n, overrun)
    <3>1. last' = last + Len(r) /\ last' <= n /\ last' \in Nat
      BY <1>0, <2>2, <2>3
    <3>2. ASSUME NEW i \in 1..Len(s \o r)
          PROVE  1 <= (s \o r)[i] /\ (s \o r)[i] <= n /\ (s \o r)[i] <= last'
      <4>1. (s \o r)[i] \in Nat /\ 1 <= (s \o r)[i] /\ (s \o r)[i] <= last'
        BY <2>6, <3>1
      <4> QED
        BY <1>0, <3>1, <4>1
    <3>3. ~overrun => (\A i \in 1..Len(s) : s[i] = i) /\ last = Len(s)
      BY <1>2 DEF SentInv
    <3> QED
      BY <2>6, <3>1, <3>2, <3>3 DEF SentInv
  <2>8. Len(journal)' = n
    BY <1>3 DEF n
  <2> QED
    BY <1>3, <2>4, <2>5, <2>7, <2>8 DEF StreamInv
<1> QED
  BY <1>4, <1>5

\* The other steps of the stream send nothing.
LEMMA QuietStep ==
  ASSUME LogInv, StreamInv, Connect \/ Receive \/ Reconnect \/ Drop PROVE StreamInv'
<1> DEFINE n == Len(journal)
<1>0. n \in Nat /\ got \in Seq(Nat) /\ wire \in Seq(Nat)
  BY JournalFrom DEF StreamInv, StreamTypeOK
<1>s. SentInv(got \o wire, conn, last, n, overrun)
  BY DEF StreamInv
<1>1. CASE Connect
  <2>1. /\ journal' = journal /\ UNCHANGED <<last, wire, got, overrun, drops>>
        /\ conn = "off" /\ conn' = "sized" /\ offset' = n
    BY <1>1 DEF Connect, vars, fileVars
  <2>2. StreamTypeOK' /\ ConnInv'
    BY <1>0, <2>1 DEF StreamInv, StreamTypeOK, ConnInv
  <2>3. SentInv(got \o wire, "sized", last, n, overrun)
    BY <1>s, <2>1 DEF SentInv
  <2> QED
    BY <2>1, <2>2, <2>3 DEF StreamInv
<1>2. CASE Receive
  <2>1. /\ journal' = journal /\ UNCHANGED <<conn, offset, last, overrun, drops>>
        /\ wire # <<>> /\ got' = Append(got, Head(wire)) /\ wire' = Tail(wire)
    BY <1>2 DEF Receive, vars, fileVars
  <2>2. (got \o wire)' = got \o wire /\ got' \in Seq(Nat) /\ wire' \in Seq(Nat)
    <3>1. Head(wire) \in Nat /\ Tail(wire) \in Seq(Nat) /\ <<Head(wire)>> \in Seq(Nat)
      BY <1>0, <2>1
    <3>2. wire = <<Head(wire)>> \o Tail(wire)
      BY <1>0, <2>1
    <3>3. got' = got \o <<Head(wire)>>
      BY <1>0, <2>1, <3>1
    <3> DEFINE h == <<Head(wire)>>
               t == Tail(wire)
    <3> HIDE DEF h, t
    <3>4. (got \o h) \o t = got \o (h \o t)
      BY <1>0, <3>1, Associative, Zenon DEF h, t
    <3>5. (got \o wire)' = (got \o h) \o t /\ got \o wire = got \o (h \o t)
      BY <2>1, <3>2, <3>3, Zenon DEF h, t
    <3>6. got' \in Seq(Nat) /\ wire' \in Seq(Nat)
      BY <1>0, <2>1, <3>1
    <3> QED
      BY <3>4, <3>5, <3>6, Zenon
  <2>3. StreamTypeOK' /\ ConnInv'
    BY <2>1, <2>2 DEF StreamInv, StreamTypeOK, ConnInv
  <2> QED
    BY <1>s, <2>1, <2>2, <2>3 DEF StreamInv
<1>3. CASE Reconnect
  <2>1. /\ journal' = journal /\ UNCHANGED <<offset, last, wire, got, overrun, drops>>
        /\ wire = <<>> /\ conn' = "off"
    BY <1>3 DEF Reconnect, vars, fileVars
  <2>2. StreamTypeOK' /\ ConnInv'
    BY <2>1 DEF StreamInv, StreamTypeOK, ConnInv
  <2>3. SentInv(got \o wire, "off", last, n, overrun)
    BY <1>s DEF SentInv
  <2> QED
    BY <2>1, <2>2, <2>3 DEF StreamInv
<1>4. CASE Drop
  <2>1. /\ journal' = journal /\ UNCHANGED <<offset, last, got, overrun>>
        /\ drops' = drops + 1 /\ conn' = "off" /\ wire' = <<>>
    BY <1>4 DEF Drop, vars, fileVars
  <2>2. StreamTypeOK' /\ ConnInv'
    BY <2>1 DEF StreamInv, StreamTypeOK, ConnInv
  <2>3. (got \o wire)' = got
    BY <1>0, <2>1
  <2>4. SentInv(got, "off", last, n, overrun)
    <3>1. \A i \in 1..Len(got) : i \in 1..Len(got \o wire) /\ (got \o wire)[i] = got[i]
      BY <1>0
    <3> QED
      BY <1>0, <1>s, <3>1 DEF SentInv
  <2> QED
    BY <2>1, <2>2, <2>3, <2>4 DEF StreamInv
<1> QED
  BY <1>1, <1>2, <1>3, <1>4

\* Every step keeps the stream in step with the journal.
LEMMA StreamStep ==
  ASSUME LogInv, StreamInv, [StreamNext]_<<vars, streamVars>> PROVE LogInv' /\ StreamInv'
<1>1. ASSUME [Next]_vars, UNCHANGED streamVars PROVE LogInv' /\ StreamInv'
  BY <1>1, LogStep, StreamLogStep
<1>2. ASSUME UNCHANGED vars PROVE LogInv'
  BY <1>2, LogStep
<1>3. Connect \/ ReadTail \/ Poll \/ Receive \/ Reconnect \/ Drop => UNCHANGED vars
  BY DEF Connect, ReadTail, Poll, Receive, Reconnect, Drop
<1> QED
  BY <1>1, <1>2, <1>3, ReadTailStep, PollStep, QuietStep DEF StreamNext

\* The journal stays exact, and the stream in step with it.
THEOREM StreamInvariant == StreamSpec => [](LogInv /\ StreamInv)
<1>1. StreamInit => LogInv /\ StreamInv
  <2> SUFFICES ASSUME StreamInit PROVE LogInv /\ StreamInv
    OBVIOUS
  <2>1. LogInv
    BY LogInit DEF StreamInit
  <2>2. got \o wire = <<>> /\ <<>> \in Seq(Nat) /\ Len(<<>>) = 0
    BY DEF StreamInit
  <2>3. StreamTypeOK /\ ConnInv
    <3>1. overrun \in BOOLEAN
      BY Zenon DEF StreamInit
    <3> QED
      BY <3>1 DEF StreamInit, StreamTypeOK, ConnInv
  <2>4. SentInv(<<>>, conn, last, Len(journal), overrun)
    BY <2>2 DEF StreamInit, SentInv
  <2>5. StreamInv
    BY <2>2, <2>3, <2>4, Zenon DEF StreamInv
  <2> QED
    BY <2>1, <2>5
<1>2. LogInv /\ StreamInv /\ [StreamNext]_<<vars, streamVars>> => (LogInv /\ StreamInv)'
  BY StreamStep
<1>3. QED
  BY <1>1, <1>2, PTL DEF StreamSpec

\* The types of the connection, the wire and the client.
THEOREM StreamTypeCorrect == StreamSpec => []StreamTypeOK
BY StreamInvariant, PTL DEF StreamInv

\* The client receives the events in their order and none twice, over all its
\* connections (openLiveRunEventStream, resolveReplayWindow).
THEOREM ReceivesInOrder == StreamSpec => []InOrder
<1>1. StreamInv => InOrder
  <2> SUFFICES ASSUME StreamInv PROVE InOrder
    OBVIOUS
  <2> DEFINE s == got \o wire
  <2>1. SentInv(s, conn, last, Len(journal), overrun)
    BY DEF StreamInv
  <2>2. DOMAIN s = 1..Len(s)
    BY DEF StreamInv, StreamTypeOK
  <2> QED
    BY <2>1, <2>2 DEF SentInv, InOrder
<1>2. QED
  BY <1>1, StreamInvariant, PTL

\* A client that was never away for more than max_replay events misses none,
\* wherever the response ended or the connection broke.
THEOREM ReceivesEveryEvent == StreamSpec => []NothingMissed
<1>1. StreamInv => NothingMissed
  <2> SUFFICES ASSUME StreamInv PROVE NothingMissed
    OBVIOUS
  <2> DEFINE s == got \o wire
  <2>1. SentInv(s, conn, last, Len(journal), overrun)
    BY DEF StreamInv
  <2>2. DOMAIN s = 1..Len(s)
    BY DEF StreamInv, StreamTypeOK
  <2> QED
    BY <2>1, <2>2 DEF SentInv, NothingMissed
<1>2. QED
  BY <1>1, StreamInvariant, PTL
=============================================================================
