------------------------- MODULE DequePurge_proofs -------------------------
(***************************************************************************)
(* What the purge of main_thread_cleanup loses, for queues of any length.  *)
(***************************************************************************)
EXTENDS DequePurge, SeqKeep_proofs, TLAPS

\* What is left to look at lies in the cells up to hi - 1, shifted by as many
\* cells as the end of the deque has moved.
Shift == Len(kind) + 1 - hi

\* After an erase that shifted the front the iterator is at a cell the loop has
\* been at: the cell of an event that stays, or, when the first event was erased,
\* the cell before the deque, where the deleted event still is.
Stale == it < hi /\ freed[it + Shift] > 0

\* The events the loop has decided on, and the cell after those that stay.
Passed == IF Stale THEN it + Shift ELSE it + Shift - 1
Edge == IF Stale THEN it + 1 ELSE it

Shape ==
  /\ kind \in Seq(Kinds) /\ Len(kind) >= 1
  /\ DOMAIN cells = 0..Len(kind)
  /\ lo \in Int /\ hi \in Int /\ it \in Int
  /\ 1 <= lo /\ lo - 1 <= it /\ 1 <= it /\ it <= hi /\ hi <= Len(kind) + 1
  /\ freed \in [Events -> Nat]
  /\ done \in BOOLEAN /\ (done => it = hi)

\* Before the loop: the rest of the initial queue, in order.
Ahead ==
  /\ \A j \in (it + 1)..(hi - 1) : cells[j] = j + Shift
  /\ it < hi /\ (Stale => it < lo) => cells[it] = it + Shift
  /\ Stale => it + 1 < hi

\* Behind it: the last ones of the events that stay.
Behind ==
  /\ Edge - lo <= Len(StayingOf(Passed))
  /\ \A j \in 1..(Edge - lo) :
       cells[Edge - j] = StayingOf(Passed)[Len(StayingOf(Passed)) + 1 - j]

FreedInv == \A e \in Events : freed[e] > 0 <=> Doomed(e) /\ e <= Passed

\* If the first event stays the iterator never leaves the deque.
ExactInv ==
  ~Doomed(1) => /\ lo <= it
                /\ Edge - lo = Len(StayingOf(Passed))
                /\ Passed >= 1 => Edge > lo
                /\ \A e \in Events : freed[e] <= 1

\* If the last one stays the deque never has less than no elements.
LastInv == ~Doomed(Len(kind)) => lo <= hi

PurgeInv == Shape /\ Ahead /\ Behind /\ FreedInv /\ ExactInv /\ LastInv
-----------------------------------------------------------------------------
(***************************************************************************)
(* The events that stay.                                                   *)
(***************************************************************************)
LEMMA Staying0 ==
  ASSUME kind \in Seq(Kinds)
  PROVE  /\ StayingOf(0) = <<>>
         /\ \A m \in 1..Len(kind) :
              StayingOf(m) = IF m \in Staying THEN Append(StayingOf(m - 1), m)
                             ELSE StayingOf(m - 1)
         /\ \A m \in 0..Len(kind) : StayingOf(m) \in Seq(Staying)
<1> DEFINE q == [i \in 1..Len(kind) |-> i]
<1>1. Len(kind) \in Nat /\ Events = 1..Len(kind)
  BY DEF Events
<1>2. q \in Seq(1..Len(kind)) /\ Len(q) = Len(kind)
  BY <1>1
<1>3. \A m \in 1..Len(kind) : q[m] = m
  OBVIOUS
<1> HIDE DEF q
<1>4. \A m : StayingOf(m) = Keep(q, Staying, m)
  BY DEF StayingOf, q
<1>5. /\ Keep(q, Staying, 0) = <<>>
      /\ \A m \in 1..Len(q) :
           Keep(q, Staying, m) = IF m \in Staying THEN Append(Keep(q, Staying, m - 1), q[m])
                                 ELSE Keep(q, Staying, m - 1)
  BY <1>2, KeepStep, ZenonT(60)
<1>6. ASSUME NEW m \in 0..Len(kind) PROVE Keep(q, Staying, m) \in Seq(Staying)
  <2>1. \A i \in 1..Len(q) : i \in Staying => q[i] \in Staying
    BY <1>2, <1>3
  <2> QED
    BY <1>2, <2>1, KeepIn
<1> QED
  BY <1>2, <1>3, <1>4, <1>5, <1>6

\* They are as they were while the queue that the loop found is the same.
LEMMA StayingSame ==
  ASSUME kind' = kind, NEW m, Passed' = m
  PROVE  StayingOf(Passed)' = StayingOf(m) /\ Staying' = Staying /\ Events' = Events
BY DEF StayingOf, Staying, Events, Doomed

LEMMA PurgeInit == Init => PurgeInv
<1> SUFFICES ASSUME Init PROVE PurgeInv
  OBVIOUS
<1>1. PICK n \in 1..MaxLen : kind \in [1..n -> Kinds]
  BY DEF Init
<1>2. n \in Nat /\ n >= 1 /\ kind \in Seq(Kinds) /\ Len(kind) = n /\ Events = 1..n
  BY <1>1, MaxLenAssumption DEF Events
<1>3. /\ lo = 1 /\ hi = n + 1 /\ it = 1 /\ Shift = 0
      /\ cells = [i \in 0..n |-> i] /\ freed = [e \in 1..n |-> 0] /\ ~done
  BY <1>2 DEF Init, Shift
<1>4. ~Stale /\ Passed = 0 /\ Edge = 1
  BY <1>2, <1>3 DEF Stale, Passed, Edge
<1>5. StayingOf(Passed) = <<>>
  BY <1>2, <1>4, Staying0
<1>6. Shape
  BY <1>2, <1>3 DEF Shape
<1>7. Ahead
  BY <1>2, <1>3, <1>4 DEF Ahead
<1>8. Behind
  <2>1. Edge - lo = 0 /\ 1..(Edge - lo) = {}
    BY <1>3, <1>4
  <2> QED
    BY <1>5, <2>1 DEF Behind
<1>9. FreedInv
  BY <1>2, <1>3, <1>4 DEF FreedInv
<1>10. ExactInv
  BY <1>2, <1>3, <1>4, <1>5 DEF ExactInv
<1>11. LastInv
  BY <1>2, <1>3 DEF LastInv
<1> QED
  BY <1>6, <1>7, <1>8, <1>9, <1>10, <1>11 DEF PurgeInv

\* The event that the iterator points at.
LEMMA Looked ==
  ASSUME PurgeInv, it # hi
  PROVE  /\ it < hi /\ it + Shift \in Events /\ Shift \in Nat
         /\ cells[it] \in Events /\ Passed \in 0..Len(kind)
         /\ ~Stale => /\ cells[it] = it + Shift /\ freed[it + Shift] = 0
                      /\ Passed = it + Shift - 1 /\ Edge = it
         /\ Stale => /\ Doomed(it + Shift) /\ freed[it + Shift] > 0
                     /\ Passed = it + Shift /\ Edge = it + 1 /\ it + 1 < hi
         /\ Stale /\ lo <= it => cells[it] \in Staying
         /\ Stale /\ ~(lo <= it) => cells[it] = it + Shift
<1>1. /\ Len(kind) \in Nat /\ Events = 1..Len(kind) /\ kind \in Seq(Kinds)
      /\ lo \in Int /\ hi \in Int /\ it \in Int /\ 1 <= it /\ it < hi /\ lo >= 1
      /\ hi <= Len(kind) + 1
      /\ freed \in [Events -> Nat]
  BY DEF PurgeInv, Shape, Events
<1>2. Shift \in Nat /\ Shift = Len(kind) + 1 - hi /\ it + Shift \in Events
  BY <1>1 DEF Shift
<1>3. /\ Stale => Passed = it + Shift /\ Edge = it + 1
      /\ ~Stale => Passed = it + Shift - 1 /\ Edge = it
      /\ Stale <=> freed[it + Shift] > 0
  BY <1>1, <1>2 DEF Passed, Edge, Stale
<1>4. Passed \in 0..Len(kind)
  BY <1>1, <1>2, <1>3
<1>5. ~Stale => freed[it + Shift] = 0
  BY <1>1, <1>2, <1>3
<1>6. /\ ~Stale => cells[it] = it + Shift
      /\ Stale => it + 1 < hi
      /\ Stale /\ ~(lo <= it) => cells[it] = it + Shift
  BY <1>1, <1>2 DEF PurgeInv, Ahead
<1>7. Stale => Doomed(it + Shift)
  BY <1>2, <1>3 DEF PurgeInv, FreedInv
<1>8. Stale /\ lo <= it => cells[it] \in Staying
  <2> SUFFICES ASSUME Stale, lo <= it PROVE cells[it] \in Staying
    OBVIOUS
  <2>1. /\ Edge = it + 1 /\ 1 \in 1..(Edge - lo) /\ Edge - 1 = it
        /\ Edge - lo >= 1
    BY <1>1, <1>3
  <2> DEFINE w == StayingOf(Passed)
  <2>2. w \in Seq(Staying) /\ Edge - lo <= Len(w) /\ cells[it] = w[Len(w) + 1 - 1]
    BY <1>1, <1>4, <2>1, Staying0 DEF PurgeInv, Behind
  <2> HIDE DEF w
  <2>3. Len(w) \in Nat /\ Len(w) >= 1 /\ Len(w) + 1 - 1 \in 1..Len(w)
    BY <1>1, <2>1, <2>2
  <2> QED
    BY <2>2, <2>3
<1>9. cells[it] \in Events
  <2>1. Staying \subseteq Events
    BY DEF Staying
  <2> QED
    BY <1>1, <1>2, <1>6, <1>8, <2>1
<1> QED
  BY <1>1, <1>2, <1>3, <1>4, <1>5, <1>6, <1>7, <1>8, <1>9

\* An event that stays, or one that was deleted and still lies before the deque,
\* is passed over.
LEMMA AdvanceStep == ASSUME PurgeInv, Advance PROVE PurgeInv'
<1>1. /\ Len(kind) \in Nat /\ Len(kind) >= 1 /\ Events = 1..Len(kind) /\ kind \in Seq(Kinds)
      /\ lo \in Int /\ hi \in Int /\ it \in Int /\ 1 <= it /\ it < hi /\ lo >= 1
      /\ lo - 1 <= it /\ hi <= Len(kind) + 1 /\ DOMAIN cells = 0..Len(kind)
      /\ freed \in [Events -> Nat] /\ ~done
  BY Looked DEF PurgeInv, Shape, Events, Advance
<1>2. /\ it' = it + 1 /\ kind' = kind /\ cells' = cells /\ lo' = lo /\ hi' = hi
      /\ freed' = freed /\ done' = done /\ Shift' = Shift /\ MayKeep(cells[it])
  BY DEF Advance, Shift
<1>3. Shift \in Nat /\ Shift = Len(kind) + 1 - hi /\ it + Shift \in Events
  BY <1>1, Looked DEF Shift
<1>4. \A e \in Events : e > it + Shift => freed[e] = 0
  <2> TAKE e \in Events
  <2>1. Passed <= it + Shift /\ Passed \in Int
    BY <1>1, <1>3, Looked
  <2> QED
    BY <1>1, <1>3, <2>1 DEF PurgeInv, FreedInv
<1>5. ~Stale'
  <2>1. Stale' <=> it + 1 < hi /\ freed[(it + 1) + Shift] > 0
    BY <1>2 DEF Stale
  <2>2. it + 1 < hi => (it + 1) + Shift \in Events /\ (it + 1) + Shift > it + Shift
    BY <1>1, <1>3
  <2> QED
    BY <1>4, <2>1, <2>2
<1>6. Passed' = it + Shift /\ Edge' = it + 1
  BY <1>1, <1>2, <1>3, <1>5 DEF Passed, Edge
<1>7. StayingOf(Passed)' = StayingOf(it + Shift) /\ Staying' = Staying /\ Events' = Events
  BY <1>2, <1>6, StayingSame
<1>8. Shape'
  <2>1. 1 <= it + 1 /\ lo - 1 <= it + 1 /\ it + 1 <= hi /\ it + 1 \in Int
    BY <1>1
  <2> QED
    BY <1>1, <1>2, <1>7, <2>1, SMTT(40) DEF Shape
<1>9. Ahead'
  <2>1. \A j \in (it + 1)..(hi - 1) : cells[j] = j + Shift
    BY DEF PurgeInv, Ahead
  <2>2. \A j \in (it + 1 + 1)..(hi - 1) : cells[j] = j + Shift
    BY <1>1, <2>1
  <2>3. it + 1 < hi => cells[it + 1] = it + 1 + Shift
    BY <1>1, <2>1
  <2> QED
    BY <1>2, <1>5, <2>2, <2>3 DEF Ahead
<1>10. LastInv'
  BY <1>2 DEF PurgeInv, LastInv, Doomed
<1>11. \A e \in Events : Doomed(e)' <=> Doomed(e)
  BY <1>2 DEF Doomed
<1>12. CASE Stale
  <2>1. Passed = it + Shift /\ Edge = it + 1
    BY <1>12, <1>1, Looked
  <2>2. Behind'
    BY <1>2, <1>6, <1>7, <2>1 DEF PurgeInv, Behind
  <2>3. FreedInv'
    BY <1>2, <1>6, <1>7, <1>11, <2>1 DEF PurgeInv, FreedInv
  <2>4. ExactInv'
    BY <1>1, <1>2, <1>6, <1>7, <1>11, <2>1 DEF PurgeInv, ExactInv
  <2> QED
    BY <1>8, <1>9, <1>10, <2>2, <2>3, <2>4 DEF PurgeInv
<1>13. CASE ~Stale
  <2> DEFINE m == it + Shift
             v == StayingOf(m - 1)
             w == StayingOf(m)
  <2>1. cells[it] = m /\ freed[m] = 0 /\ Passed = m - 1 /\ Edge = it /\ m \in 1..Len(kind)
    BY <1>1, <1>3, <1>13, Looked
  <2>2. m \in Staying /\ ~Doomed(m)
    BY <1>2, <1>3, <2>1 DEF MayKeep, Staying
  <2>3. w = Append(v, m) /\ v \in Seq(Staying)
    <3> HIDE DEF m
    <3>1. m - 1 \in 0..Len(kind)
      BY <1>1, <2>1
    <3> QED
      BY <1>1, <2>1, <2>2, <3>1, Staying0
  <2>4. /\ Edge - lo <= Len(v)
        /\ \A j \in 1..(Edge - lo) : cells[Edge - j] = v[Len(v) + 1 - j]
    BY <2>1 DEF PurgeInv, Behind
  <2>5. ~Doomed(1) => Edge - lo = Len(v) /\ lo <= it /\ \A e \in Events : freed[e] <= 1
    BY <2>1 DEF PurgeInv, ExactInv
  <2>e. \A e \in Events : freed[e] > 0 <=> Doomed(e) /\ e <= m - 1
    BY <2>1 DEF PurgeInv, FreedInv
  <2>6. StayingOf(Passed)' = w /\ Passed' = m
    BY <1>6, <1>7
  <2> HIDE DEF v, w, m
  <2>7. /\ Len(v) \in Nat /\ Len(w) = Len(v) + 1 /\ w[Len(v) + 1] = m
        /\ \A i \in 1..Len(v) : w[i] = v[i]
    BY <2>2, <2>3
  <2>8. Behind'
    <3>1. Edge' - lo <= Len(w)
      BY <1>1, <1>6, <2>1, <2>4, <2>7
    <3>2. ASSUME NEW j \in 1..(Edge' - lo)
          PROVE  cells[Edge' - j] = w[Len(w) + 1 - j]
      <4>1. CASE j = 1
        BY <1>1, <1>6, <2>1, <2>7, <4>1
      <4>2. CASE j # 1
        <5>1. j - 1 \in 1..(Edge - lo) /\ Edge' - j = Edge - (j - 1)
          BY <1>1, <1>6, <2>1, <4>2
        <5>2. cells[Edge' - j] = v[Len(v) + 1 - (j - 1)]
          BY <2>4, <5>1
        <5>3. /\ Len(v) + 1 - (j - 1) = Len(w) + 1 - j
              /\ Len(v) + 1 - (j - 1) \in 1..Len(v)
          BY <1>1, <2>1, <2>4, <2>7, <5>1
        <5> QED
          BY <2>7, <5>2, <5>3
      <4> QED
        BY <4>1, <4>2
    <3> QED
      BY <1>2, <2>6, <3>1, <3>2 DEF Behind
  <2>9. FreedInv'
    <3>1. \A e \in Events : e <= m <=> e <= m - 1 \/ e = m
      BY <1>1, <2>1
    <3>2. \A e \in Events : freed[e] > 0 <=> Doomed(e) /\ e <= m
      BY <2>2, <2>e, <3>1
    <3> QED
      BY <1>2, <1>7, <1>11, <2>6, <3>2 DEF FreedInv
  <2>10. ExactInv'
    <3>1. Doomed(1)' <=> Doomed(1)
      BY <1>1, <1>11
    <3>2. ~Doomed(1) => /\ lo <= it + 1 /\ (it + 1) - lo = Len(w) /\ it + 1 > lo
      BY <1>1, <2>1, <2>5, <2>7
    <3> QED
      BY <1>2, <1>6, <1>7, <2>5, <2>6, <3>1, <3>2 DEF ExactInv
  <2> QED
    BY <1>8, <1>9, <1>10, <2>8, <2>9, <2>10 DEF PurgeInv
<1> QED
  BY <1>12, <1>13

\* What both kinds of erase have in common: the event is one of the connection
\* and is not told from the others behind the iterator.
LEMMA Deleted ==
  ASSUME PurgeInv, Delete
  PROVE  /\ Len(kind) \in Nat /\ Len(kind) >= 1 /\ Events = 1..Len(kind)
         /\ kind \in Seq(Kinds) /\ lo \in Int /\ hi \in Int /\ it \in Int
         /\ 1 <= it /\ it < hi /\ lo >= 1 /\ lo - 1 <= it /\ hi <= Len(kind) + 1
         /\ DOMAIN cells = 0..Len(kind) /\ freed \in [Events -> Nat] /\ ~done
         /\ Shift \in Nat /\ Shift = Len(kind) + 1 - hi /\ it + Shift \in Events
         /\ cells[it] = it + Shift /\ Doomed(it + Shift) /\ (Stale => it < lo)
         /\ it' = it /\ kind' = kind /\ done' = done
         /\ freed' = [freed EXCEPT ![it + Shift] = @ + 1]
         /\ \A e \in Events : Doomed(e)' <=> Doomed(e)
         /\ \A e \in Events : e > it + Shift => freed[e] = 0
         /\ it + Shift - 1 \in 0..Len(kind)
         /\ StayingOf(it + Shift) = StayingOf(it + Shift - 1)
         /\ StayingOf(it + Shift) \in Seq(Staying)
         /\ \A e \in Events : e <= it + Shift => (freed'[e] > 0 <=> Doomed(e))
<1>1. /\ Len(kind) \in Nat /\ Len(kind) >= 1 /\ Events = 1..Len(kind) /\ kind \in Seq(Kinds)
      /\ lo \in Int /\ hi \in Int /\ it \in Int /\ 1 <= it /\ it < hi /\ lo >= 1
      /\ lo - 1 <= it /\ hi <= Len(kind) + 1 /\ DOMAIN cells = 0..Len(kind)
      /\ freed \in [Events -> Nat] /\ ~done
  <2>1. it # hi /\ ~done
    BY DEF Delete
  <2> QED
    BY <2>1, Looked DEF PurgeInv, Shape, Events
<1>2. /\ it' = it /\ kind' = kind /\ done' = done /\ MayDelete(cells[it])
      /\ freed' = [freed EXCEPT ![cells[it]] = @ + 1]
  BY DEF Delete
<1>3. Shift \in Nat /\ Shift = Len(kind) + 1 - hi /\ it + Shift \in Events
  BY <1>1, Looked DEF Shift
<1>4. cells[it] \notin Staying /\ Doomed(cells[it])
  BY <1>2 DEF MayDelete, Staying
<1>5. cells[it] = it + Shift /\ (Stale => it < lo)
  BY <1>1, <1>4, Looked
<1>6. \A e \in Events : e > it + Shift => freed[e] = 0
  <2> TAKE e \in Events
  <2>1. Passed <= it + Shift /\ Passed \in Int
    BY <1>1, <1>3, Looked
  <2> QED
    BY <1>1, <1>3, <2>1 DEF PurgeInv, FreedInv
<1>7. \A e \in Events : Doomed(e)' <=> Doomed(e)
  BY <1>2 DEF Doomed
<1> DEFINE m == it + Shift
<1>8. m \in Int /\ m \in 1..Len(kind) /\ m - 1 \in 0..Len(kind) /\ m \in 0..Len(kind)
  BY <1>1, <1>3
<1>9. Doomed(m) /\ m \notin Staying
  BY <1>4, <1>5
<1>10. StayingOf(m) = StayingOf(m - 1) /\ StayingOf(m) \in Seq(Staying)
  <2> HIDE DEF m
  <2> QED
    BY <1>1, <1>8, <1>9, Staying0
<1>11. ASSUME NEW e \in Events, e <= m PROVE freed'[e] > 0 <=> Doomed(e)
  <2>1. Passed = m \/ Passed = m - 1
    BY <1>1, Looked
  <2>2. freed'[e] = IF e = m THEN freed[e] + 1 ELSE freed[e]
    BY <1>1, <1>2, <1>5
  <2>3. e # m => e <= Passed
    BY <1>1, <1>8, <1>11, <2>1
  <2>4. freed[e] > 0 <=> Doomed(e) /\ e <= Passed
    BY DEF PurgeInv, FreedInv
  <2>5. freed[e] \in Nat
    BY <1>1
  <2>6. CASE e = m
    BY <1>9, <2>2, <2>5, <2>6
  <2>7. CASE e # m
    BY <2>2, <2>3, <2>4, <2>7
  <2> QED
    BY <2>6, <2>7
<1> QED
  BY <1>1, <1>2, <1>3, <1>5, <1>6, <1>7, <1>8, <1>9, <1>10, <1>11

\* The front is shifted: the iterator now points at the event before, or at the
\* erased one if that was the first.
LEMMA FrontErased ==
  ASSUME PurgeInv, Delete, 0 <= it - lo, it - lo < (hi - lo) \div 2
  PROVE  PurgeInv'
<1> DEFINE m == it + Shift
           w == StayingOf(m)
<1>1. /\ Len(kind) \in Nat /\ Len(kind) >= 1 /\ Events = 1..Len(kind) /\ kind \in Seq(Kinds)
      /\ lo \in Int /\ hi \in Int /\ it \in Int /\ 1 <= it /\ it < hi /\ lo >= 1
      /\ hi <= Len(kind) + 1
      /\ DOMAIN cells = 0..Len(kind) /\ freed \in [Events -> Nat] /\ ~done
      /\ Shift \in Nat /\ m \in Events /\ m \in Int
      /\ cells[it] = m /\ Doomed(m) /\ ~Stale
      /\ it' = it /\ kind' = kind /\ done' = done
      /\ freed' = [freed EXCEPT ![m] = @ + 1]
      /\ lo <= it
  <2>1. lo \in Int /\ it \in Int
    BY Deleted
  <2>2. lo <= it /\ ~(it < lo)
    BY <2>1
  <2>3. m \in Int
    BY Deleted
  <2> QED
    BY <2>1, <2>2, <2>3, Deleted
<1>2. /\ lo' = lo + 1 /\ hi' = hi /\ Shift' = Shift
      /\ cells' = [i \in DOMAIN cells |->
                     IF i \in (lo + 1)..it THEN cells[i - 1] ELSE cells[i]]
  BY <1>1 DEF Delete, Erase, Shift
<1>3. it + 1 < hi
  BY <1>1
<1>4. Passed = m - 1 /\ Edge = it /\ freed[m] = 0
  BY <1>1, Looked
<1>5. freed'[m] > 0 /\ \A e \in Events : e # m => freed'[e] = freed[e]
  BY <1>1, <1>4
<1>6. Stale'
  BY <1>1, <1>2, <1>5 DEF Stale
<1>7. Passed' = m /\ Edge' = it + 1
  BY <1>1, <1>2, <1>6 DEF Passed, Edge
<1>8. StayingOf(Passed)' = w /\ Staying' = Staying /\ Events' = Events
  BY <1>1, <1>7, StayingSame
<1>9. \A e \in Events : Doomed(e)' <=> Doomed(e)
  BY Deleted
<1>10. w = StayingOf(m - 1) /\ w \in Seq(Staying)
  BY Deleted
<1>11. /\ it - lo <= Len(w)
       /\ \A j \in 1..(it - lo) : cells[it - j] = w[Len(w) + 1 - j]
  BY <1>4, <1>10 DEF PurgeInv, Behind
<1>12. /\ \A j \in (it + 1)..(hi - 1) : cells[j] = j + Shift
       /\ ~Doomed(1) => /\ it - lo = Len(w)
                        /\ m - 1 >= 1 => it > lo
                        /\ \A e \in Events : freed[e] <= 1
       /\ \A e \in Events : freed[e] > 0 <=> Doomed(e) /\ e <= m - 1
       /\ ~Doomed(Len(kind)) => lo <= hi
  BY <1>4, <1>10 DEF PurgeInv, Ahead, ExactInv, FreedInv, LastInv
<1>13. \A j \in (it + 1)..(hi - 1) : j \in DOMAIN cells /\ cells'[j] = cells[j]
  BY <1>1, <1>2
<1> HIDE DEF m, w
<1>14. Shape'
  <2>1. 1 <= lo + 1 /\ (lo + 1) - 1 <= it /\ it <= hi /\ lo + 1 \in Int
    BY <1>1
  <2>2. DOMAIN cells' = 0..Len(kind)
    BY <1>1, <1>2
  <2>3. freed' \in [Events -> Nat]
    BY <1>1
  <2>4. Len(kind') = Len(kind) /\ kind' \in Seq(Kinds)
    BY <1>1
  <2>5. lo' = lo + 1 /\ hi' = hi /\ it' = it /\ Events' = Events
    BY <1>1, <1>2, <1>8
  <2>6. /\ (kind \in Seq(Kinds))' /\ (Len(kind) >= 1)' /\ (DOMAIN cells = 0..Len(kind))'
        /\ (freed \in [Events -> Nat])'
    BY <1>1, <2>2, <2>3, <2>4, <2>5
  <2>7. /\ (lo \in Int /\ hi \in Int /\ it \in Int)'
        /\ (1 <= lo /\ lo - 1 <= it /\ 1 <= it /\ it <= hi /\ hi <= Len(kind) + 1)'
    BY <1>1, <2>1, <2>4, <2>5
  <2>8. (done \in BOOLEAN /\ (done => it = hi))'
    BY <1>1, <1>2 DEF PurgeInv, Shape
  <2> QED
    BY <2>6, <2>7, <2>8 DEF Shape
<1>15. Ahead'
  <2>1. \A j \in (it + 1)..(hi - 1) : cells'[j] = j + Shift
    BY <1>12, <1>13
  <2>2. it < lo + 1 => cells'[it] = it + Shift
    <3> SUFFICES ASSUME it < lo + 1 PROVE cells'[it] = it + Shift
      OBVIOUS
    <3>1. it \in DOMAIN cells /\ it \notin (lo + 1)..it
      BY <1>1
    <3> QED
      BY <1>1, <1>2, <3>1 DEF m
  <2> QED
    BY <1>1, <1>2, <1>3, <1>6, <2>1, <2>2 DEF Ahead
<1>16. Behind'
  <2>1. (it + 1) - (lo + 1) <= Len(w)
    BY <1>1, <1>11
  <2>2. ASSUME NEW j \in 1..((it + 1) - (lo + 1))
        PROVE  cells'[(it + 1) - j] = w[Len(w) + 1 - j]
    <3>1. j \in 1..(it - lo) /\ (it + 1) - j \in (lo + 1)..it /\ ((it + 1) - j) - 1 = it - j
          /\ (it + 1) - j \in DOMAIN cells
      BY <1>1
    <3> QED
      BY <1>2, <1>11, <3>1
  <2> QED
    BY <1>2, <1>7, <1>8, <2>1, <2>2 DEF Behind
<1>17. FreedInv'
  <2>1. \A e \in Events : e <= m \/ freed'[e] = 0
    <3>1. \A e \in Events : e > m => freed[e] = 0
      BY Deleted DEF m
    <3> QED
      BY <1>1, <1>5, <3>1
  <2>2. \A e \in Events : e <= m => (freed'[e] > 0 <=> Doomed(e))
    BY Deleted DEF m
  <2>3. \A e \in Events : freed'[e] > 0 <=> Doomed(e) /\ e <= m
    BY <1>1, <2>1, <2>2
  <2> QED
    BY <1>7, <1>8, <1>9, <2>3 DEF FreedInv
<1>18. ExactInv'
  <2>1. Doomed(1)' <=> Doomed(1)
    BY <1>1, <1>9
  <2> SUFFICES ASSUME ~Doomed(1)
               PROVE  /\ lo + 1 <= it
                      /\ (it + 1) - (lo + 1) = Len(w)
                      /\ it + 1 > lo + 1
                      /\ \A e \in Events : freed'[e] <= 1
    BY <1>1, <1>2, <1>7, <1>8, <2>1 DEF ExactInv
  <2>2. m # 1
    BY <1>1
  <2>3. m - 1 >= 1
    BY <1>1, <2>2
  <2>4. it > lo /\ it - lo = Len(w)
    BY <1>12, <2>3
  <2>5. \A e \in Events : freed'[e] <= 1
    BY <1>1, <1>4, <1>5, <1>12
  <2> QED
    BY <1>1, <2>4, <2>5
<1>19. LastInv'
  <2>1. lo + 1 <= hi
    BY <1>1
  <2> QED
    BY <1>1, <1>2, <2>1 DEF LastInv
<1> QED
  BY <1>14, <1>15, <1>16, <1>17, <1>18, <1>19 DEF PurgeInv

\* The back is shifted: the iterator points at the next event to look at.
LEMMA BackErased ==
  ASSUME PurgeInv, Delete, ~(0 <= it - lo /\ it - lo < (hi - lo) \div 2)
  PROVE  PurgeInv'
<1> DEFINE m == it + Shift
           w == StayingOf(m)
<1>1. /\ Len(kind) \in Nat /\ Len(kind) >= 1 /\ Events = 1..Len(kind) /\ kind \in Seq(Kinds)
      /\ lo \in Int /\ hi \in Int /\ it \in Int /\ 1 <= it /\ it < hi /\ lo >= 1
      /\ lo - 1 <= it /\ hi <= Len(kind) + 1
      /\ DOMAIN cells = 0..Len(kind) /\ freed \in [Events -> Nat] /\ ~done
      /\ m \in Events /\ m \in Int /\ m = it + (Len(kind) + 1 - hi)
      /\ cells[it] = m /\ Doomed(m) /\ (Stale => it < lo)
      /\ it' = it /\ kind' = kind /\ done' = done
      /\ freed' = [freed EXCEPT ![m] = @ + 1]
      /\ \A e \in Events : e > m => freed[e] = 0
  <2>1. /\ Shift \in Nat /\ Shift = Len(kind) + 1 - hi /\ it \in Int /\ hi \in Int
        /\ Len(kind) \in Nat
    BY Deleted
  <2>2. m \in Int /\ m = it + (Len(kind) + 1 - hi)
    BY <2>1
  <2> QED
    BY <2>2, Deleted
<1>2. /\ lo' = lo /\ hi' = hi - 1 /\ Shift' = Shift + 1 /\ Shift \in Int
      /\ Shift = Len(kind) + 1 - hi
      /\ cells' = [i \in DOMAIN cells |->
                     IF i \in it..(hi - 2) THEN cells[i + 1] ELSE cells[i]]
  <2>1. ~(it - lo >= 0 /\ it - lo < (hi - lo) \div 2)
    BY <1>1
  <2>2. Delete
    OBVIOUS
  <2>3. Erase /\ kind' = kind
    BY <2>2 DEF Delete
  <2>4. /\ lo' = lo /\ hi' = hi - 1
        /\ cells' = [i \in DOMAIN cells |->
                       IF i \in it..(hi - 2) THEN cells[i + 1] ELSE cells[i]]
    BY <2>1, <2>3 DEF Erase
  <2> QED
    BY <1>1, <2>3, <2>4 DEF Shift
<1>3. \A e \in Events : e # m => freed'[e] = freed[e]
  BY <1>1
<1>4. ~Stale'
  <2>1. Stale' <=> it < hi - 1 /\ freed'[m + 1] > 0
    BY <1>1, <1>2 DEF Stale
  <2>2. it < hi - 1 => m + 1 \in Events /\ m + 1 > m /\ m + 1 # m
    BY <1>1
  <2> HIDE DEF m
  <2>3. it < hi - 1 => freed'[m + 1] = 0
    BY <1>1, <1>3, <2>2
  <2> QED
    BY <2>1, <2>3
<1>5. Passed' = m /\ Edge' = it
  BY <1>1, <1>2, <1>4 DEF Passed, Edge
<1>6. StayingOf(Passed)' = w /\ Staying' = Staying /\ Events' = Events
  BY <1>1, <1>5, StayingSame
<1>7. \A e \in Events : Doomed(e)' <=> Doomed(e)
  BY Deleted
<1>8. w = StayingOf(m - 1) /\ w \in Seq(Staying)
  BY Deleted
<1>9. \A e \in Events : e <= m => (freed'[e] > 0 <=> Doomed(e))
  BY Deleted
<1>10. ~Stale => Passed = m - 1 /\ Edge = it /\ freed[m] = 0
  BY <1>1, Looked
<1>11. Stale => it + 1 < hi
  BY <1>1, Looked
<1>12. /\ \A j \in (it + 1)..(hi - 1) : cells[j] = j + Shift
       /\ ~Doomed(1) => lo <= it
       /\ ~Doomed(1) => \A e \in Events : freed[e] <= 1
       /\ ~Doomed(Len(kind)) => lo <= hi
  BY DEF PurgeInv, Ahead, ExactInv, LastInv
<1>13. ~Stale => /\ it - lo <= Len(w)
                 /\ \A j \in 1..(it - lo) : cells[it - j] = w[Len(w) + 1 - j]
                 /\ ~Doomed(1) => it - lo = Len(w) /\ (m - 1 >= 1 => it > lo)
  BY <1>8, <1>10 DEF PurgeInv, Behind, ExactInv
<1> HIDE DEF m, w
<1>14. Shape'
  <2>1. /\ (kind \in Seq(Kinds))' /\ (Len(kind) >= 1)' /\ (DOMAIN cells = 0..Len(kind))'
        /\ (freed \in [Events -> Nat])'
    <3>1. DOMAIN cells' = 0..Len(kind)
      BY <1>1, <1>2
    <3>2. freed' \in [Events -> Nat]
      <4>1. /\ freed \in [Events -> Nat] /\ freed' = [freed EXCEPT ![m] = @ + 1]
            /\ m \in Events
        BY <1>1
      <4> QED
        BY <4>1
    <3> QED
      BY <1>1, <1>6, <3>1, <3>2
  <2>2. /\ (lo \in Int /\ hi \in Int /\ it \in Int)'
        /\ (1 <= lo /\ lo - 1 <= it /\ 1 <= it /\ it <= hi /\ hi <= Len(kind) + 1)'
    BY <1>1, <1>2
  <2>3. (done \in BOOLEAN /\ (done => it = hi))'
    BY <1>1 DEF PurgeInv, Shape
  <2> QED
    BY <2>1, <2>2, <2>3 DEF Shape
<1>15. Ahead'
  <2>1. ASSUME NEW j \in it..(hi - 2) PROVE cells'[j] = j + (Shift + 1)
    <3>1. j \in DOMAIN cells /\ j + 1 \in (it + 1)..(hi - 1)
      BY <1>1
    <3> QED
      BY <1>2, <1>12, <3>1
  <2>2. \A j \in (it + 1)..((hi - 1) - 1) : cells'[j] = j + (Shift + 1)
    BY <1>1, <2>1
  <2>3. it < hi - 1 => cells'[it] = it + (Shift + 1)
    BY <1>1, <2>1
  <2> QED
    BY <1>1, <1>2, <1>4, <2>2, <2>3 DEF Ahead
<1>16. Behind'
  <2>1. it - lo <= Len(w)
    <3>1. Len(w) \in Nat
      BY <1>8
    <3> QED
      BY <1>1, <1>13, <3>1
  <2>2. ASSUME NEW j \in 1..(it - lo) PROVE cells'[it - j] = w[Len(w) + 1 - j]
    <3>1. it - j \in DOMAIN cells /\ it - j \notin it..(hi - 2)
      BY <1>1
    <3>2. ~(it < lo)
      BY <1>1
    <3>3. ~Stale
      BY <3>2, Deleted
    <3> QED
      BY <1>2, <1>13, <3>1, <3>3
  <2> QED
    BY <1>2, <1>5, <1>6, <2>1, <2>2 DEF Behind
<1>17. FreedInv'
  <2>1. \A e \in Events : e <= m \/ freed'[e] = 0
    BY <1>1, <1>3
  <2>2. \A e \in Events : freed'[e] > 0 <=> Doomed(e) /\ e <= m
    BY <1>1, <1>9, <2>1
  <2> QED
    BY <1>5, <1>6, <1>7, <2>2 DEF FreedInv
<1>18. ExactInv'
  <2>1. Doomed(1)' <=> Doomed(1)
    BY <1>1, <1>7
  <2> SUFFICES ASSUME ~Doomed(1)
               PROVE  /\ lo <= it
                      /\ it - lo = Len(w)
                      /\ it > lo
                      /\ \A e \in Events : freed'[e] <= 1
    BY <1>1, <1>2, <1>5, <1>6, <2>1 DEF ExactInv
  <2>2. lo <= it /\ ~Stale
    BY <1>1, <1>12
  <2>3. m # 1
    BY <1>1
  <2>4. m - 1 >= 1
    BY <1>1, <2>3
  <2>5. \A e \in Events : freed'[e] <= 1
    BY <1>1, <1>3, <1>10, <1>12, <2>2
  <2> QED
    BY <1>13, <2>2, <2>4, <2>5
<1>19. LastInv'
  <2> SUFFICES ASSUME ~Doomed(Len(kind)) PROVE lo <= hi - 1
    BY <1>1, <1>2, <1>7 DEF LastInv
  <2>1. m # Len(kind)
    BY <1>1
  <2>2. it + 1 < hi
    BY <1>1, <2>1
  <2> QED
    BY <1>1, <2>2
<1> QED
  BY <1>14, <1>15, <1>16, <1>17, <1>18, <1>19 DEF PurgeInv

LEMMA PurgeStep == PurgeInv /\ [Next]_vars => PurgeInv'
<1> SUFFICES ASSUME PurgeInv, [Next]_vars PROVE PurgeInv'
  OBVIOUS
<1>1. CASE Delete
  BY <1>1, FrontErased, BackErased
<1>2. CASE Advance
  BY <1>2, AdvanceStep
<1>3. CASE Finish \/ UNCHANGED vars
  <2>1. UNCHANGED <<kind, cells, lo, hi, it, freed>>
    BY <1>3 DEF Finish, vars
  <2>2. Stale' <=> Stale
    BY <2>1 DEF Stale, Shift
  <2>3. Passed' = Passed /\ Edge' = Edge /\ Shift' = Shift
    BY <2>1, <2>2 DEF Passed, Edge, Shift
  <2>4. /\ StayingOf(Passed)' = StayingOf(Passed)
        /\ Events' = Events /\ \A e : Doomed(e)' <=> Doomed(e)
    BY <2>1, <2>3, StayingSame DEF Doomed
  <2>5. (done \in BOOLEAN /\ (done => it = hi))'
    <3>1. CASE Finish
      BY <3>1 DEF Finish
    <3>2. CASE UNCHANGED vars
      BY <3>2 DEF vars, PurgeInv, Shape
    <3> QED
      BY <1>3, <3>1, <3>2
  <2>6. Shape'
    BY <2>1, <2>4, <2>5 DEF PurgeInv, Shape
  <2>7. Ahead' /\ Behind'
    BY <2>1, <2>2, <2>3, <2>4 DEF PurgeInv, Ahead, Behind
  <2>8. FreedInv' /\ ExactInv' /\ LastInv'
    BY <2>1, <2>3, <2>4 DEF PurgeInv, FreedInv, ExactInv, LastInv
  <2> QED
    BY <2>6, <2>7, <2>8 DEF PurgeInv
<1> QED
  BY <1>1, <1>2, <1>3 DEF Next

\* The loop keeps its grip on the memory of the deque, whatever the queue.
THEOREM PurgeInvariance == Spec => []PurgeInv
BY PurgeInit, PurgeStep, PTL DEF Spec
-----------------------------------------------------------------------------
\* When the loop ends the deque holds the last ones of the events that stay.
LEMMA QueueEnd ==
  ASSUME PurgeInv, done
  PROVE  /\ Len(Survivors) \in Nat /\ hi - lo <= Len(Survivors) /\ hi - lo \in Int
         /\ \A j \in 1..(hi - lo) : Queue[j] = Survivors[Len(Survivors) + j - (hi - lo)]
         /\ Queue = [i \in 1..(hi - lo) |-> cells[lo + i - 1]]
         /\ Survivors \in Seq(Staying) /\ Passed = Len(kind) /\ Edge = hi
<1>1. /\ Len(kind) \in Nat /\ Len(kind) >= 1 /\ kind \in Seq(Kinds)
      /\ lo \in Int /\ hi \in Int /\ it = hi
  BY DEF PurgeInv, Shape
<1>2. Passed = Len(kind) /\ Edge = hi
  BY <1>1 DEF Passed, Edge, Stale, Shift
<1>3. Survivors \in Seq(Staying)
  BY <1>1, Staying0 DEF Survivors
<1>4. /\ hi - lo <= Len(Survivors)
      /\ \A j \in 1..(hi - lo) : cells[hi - j] = Survivors[Len(Survivors) + 1 - j]
  BY <1>2 DEF PurgeInv, Behind, Survivors
<1>5. Len(Survivors) \in Nat
  BY <1>3
<1>6. Queue = [i \in 1..(hi - lo) |-> cells[lo + i - 1]]
  BY DEF Queue
<1>7. ASSUME NEW j \in 1..(hi - lo)
      PROVE  Queue[j] = Survivors[Len(Survivors) + j - (hi - lo)]
  <2> DEFINE k == hi - lo + 1 - j
  <2>1. k \in 1..(hi - lo) /\ hi - k = lo + j - 1
        /\ Len(Survivors) + 1 - k = Len(Survivors) + j - (hi - lo)
    BY <1>1, <1>5
  <2> QED
    BY <1>4, <1>6, <2>1
<1> QED
  BY <1>1, <1>2, <1>3, <1>4, <1>5, <1>6, <1>7

LEMMA SuffixOf ==
  ASSUME NEW S, NEW s \in Seq(S), NEW t \in Seq(S), Len(s) <= Len(t),
         \A j \in 1..Len(s) : s[j] = t[Len(t) + j - Len(s)]
  PROVE  IsSuffix(s, t)
<1> DEFINE a == [i \in 1..Len(s) |-> s[(Len(s) - i) + 1]]
           b == [i \in 1..Len(t) |-> t[(Len(t) - i) + 1]]
<1>1. Len(s) \in Nat /\ Len(t) \in Nat
  OBVIOUS
<1>2. a \in Seq(S) /\ Len(a) = Len(s) /\ b \in Seq(S) /\ Len(b) = Len(t)
  <2>1. \A i \in 1..Len(s) : (Len(s) - i) + 1 \in 1..Len(s)
    BY <1>1
  <2>2. \A i \in 1..Len(t) : (Len(t) - i) + 1 \in 1..Len(t)
    BY <1>1
  <2> QED
    BY <1>1, <2>1, <2>2
<1>3. ASSUME NEW i \in 1..Len(s) PROVE a[i] = b[i]
  <2>1. /\ (Len(s) - i) + 1 \in 1..Len(s) /\ i \in 1..Len(t)
        /\ Len(t) + ((Len(s) - i) + 1) - Len(s) = (Len(t) - i) + 1
    BY <1>1
  <2> QED
    BY <2>1
<1>4. Reverse(s) = a /\ Reverse(t) = b
  BY DEF Reverse
<1> HIDE DEF a, b
<1>5. SubSeq(a, 1, Len(a)) = SubSeq(b, 1, Len(a))
  BY <1>1, <1>2, <1>3
<1> QED
  BY <1>2, <1>4, <1>5 DEF IsSuffix, IsPrefix

\* For every queue: main_thread_cleanup deletes only events of its connection; it
\* purges the queue exactly if the first event stays, and loses survivors from the
\* front only.
THEOREM FrontLossOnly == Spec => []OnlyFrontLost
<1>1. PurgeInv => OnlyFrontLost
  <2> SUFFICES ASSUME PurgeInv PROVE OnlyFrontLost
    OBVIOUS
  <2>1. \A e \in Events : freed[e] > 0 => Doomed(e)
    BY DEF PurgeInv, FreedInv
  <2>2. Len(kind) \in Nat /\ Events = 1..Len(kind) /\ lo \in Int /\ hi \in Int
    BY DEF PurgeInv, Shape, Events
  <2>3. ASSUME done, ~Doomed(1) PROVE PurgeExact
    <3>1. lo <= it /\ hi - lo = Len(Survivors) /\ \A e \in Events : freed[e] <= 1
      BY <2>3, QueueEnd DEF PurgeInv, ExactInv, Survivors
    <3>2. hi >= lo
      BY <2>2, <2>3, <3>1 DEF PurgeInv, Shape
    <3>3. Queue = Survivors
      <4>1. \A j \in 1..Len(Survivors) : Queue[j] = Survivors[j]
        BY <2>2, <2>3, <3>1, QueueEnd
      <4>2. Queue = [i \in 1..Len(Survivors) |-> cells[lo + i - 1]] /\ Survivors \in Seq(Staying)
        BY <2>3, <3>1, QueueEnd
      <4>3. Queue = [i \in 1..Len(Survivors) |-> Queue[i]]
        BY <4>2
      <4> HIDE DEF Survivors
      <4>4. Survivors = [i \in 1..Len(Survivors) |-> Survivors[i]]
        BY <4>2
      <4> QED
        BY <4>1, <4>3, <4>4
    <3>4. ASSUME NEW e \in Events PROVE freed[e] = IF Doomed(e) THEN 1 ELSE 0
      <4>1. freed[e] \in Nat /\ freed[e] <= 1
        BY <3>1 DEF PurgeInv, Shape
      <4>2. e <= Passed
        BY <2>2, <2>3, QueueEnd
      <4>3. freed[e] > 0 <=> Doomed(e)
        BY <4>2 DEF PurgeInv, FreedInv
      <4> QED
        BY <4>1, <4>3
    <3> QED
      BY <3>2, <3>3, <3>4 DEF PurgeExact
  <2>4. ASSUME done, ~Doomed(Len(kind)) PROVE hi >= lo /\ IsSuffix(Queue, Survivors)
    <3>1. hi >= lo
      BY <2>2, <2>4 DEF PurgeInv, LastInv
    <3>2. /\ Queue = [i \in 1..(hi - lo) |-> cells[lo + i - 1]] /\ hi - lo \in Nat
          /\ Survivors \in Seq(Staying) /\ hi - lo <= Len(Survivors)
          /\ \A j \in 1..(hi - lo) :
               Queue[j] = Survivors[Len(Survivors) + j - (hi - lo)]
          /\ Len(Survivors) \in Nat
      BY <2>2, <2>4, <3>1, QueueEnd
    <3> HIDE DEF Survivors
    <3>3. ASSUME NEW j \in 1..(hi - lo) PROVE Queue[j] \in Staying
      <4>1. Len(Survivors) + j - (hi - lo) \in 1..Len(Survivors)
        BY <2>2, <3>2
      <4> QED
        BY <3>2, <4>1
    <3>4. Queue \in Seq(Staying) /\ Len(Queue) = hi - lo
      BY <3>2, <3>3
    <3>5. IsSuffix(Queue, Survivors)
      BY <3>2, <3>4, SuffixOf
    <3> QED
      BY <3>1, <3>5
  <2> QED
    BY <2>1, <2>3, <2>4 DEF OnlyFrontLost
<1> QED
  BY PurgeInvariance, <1>1, PTL
=============================================================================
