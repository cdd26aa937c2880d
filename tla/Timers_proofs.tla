--------------------------- MODULE Timers_proofs ---------------------------
(***************************************************************************)
(* How late timer_thread can call a timer, for every number of timers,     *)
(* every set of intervals and however slow the callbacks are; and that it  *)
(* is never put to sleep for a negative time.                              *)
(*                                                                         *)
(* A timer that is due is hidden by a timer before it in the list that is  *)
(* not.  The argument follows the pair of them: their distance does not    *)
(* change while time passes, and when the hiding one is due, only a timer  *)
(* further to the front can hide the other one again, since the scan that  *)
(* reaches the hiding one also reaches the other.                          *)
(***************************************************************************)
EXTENDS Timers, FiniteSetTheorems, SequenceTheorems, TLAPS

\* When a timer is due, counted from crnttime in a round and from now otherwise.
At(i) == timers[i].due + elapsed

\* For how long timers at position q and in front of it may still hide another.
Hides(q) == (MaxAdds - q) * (MaxInterval - 1)

\* How late a timer can be when a round begins.
Worst == Hides(1) + MaxSlow + Doze

\* How many seconds can pass before the next round begins.
Asleep == IF tpc = "scan" THEN 0 ELSE IF left > 0 THEN left ELSE IF rested THEN 1 ELSE 0

\* The size of the list, the clock and the sleep are within their bounds.
BoundInv ==
  /\ Len(timers) <= timer_nextid
  /\ \A i \in DOMAIN timers : At(i) <= MaxInterval
  /\ tpc # "scan" => elapsed = 0
  /\ tpc # "sleep" => left = 0
  /\ left <= Doze

\* The scan stays in the list, and what it has passed is not due.
ScanInv ==
  tpc = "scan" => /\ it <= Len(timers) + 1
                  /\ \A j \in DOMAIN timers : j < it => At(j) > 0

\* A timer that is due behind one that is not, unless that was called in this
\* round.
HideInv ==
  \A q, i \in DOMAIN timers :
    q < i /\ (tpc = "scan" => it <= q) /\ At(q) > 0 /\ At(i) <= 0
      => At(q) - At(i) <= Hides(q)

\* When the next round begins, no timer is later than Worst.
LateInv == \A i \in DOMAIN timers : -At(i) + Asleep <= Worst

IInv == TypeOK /\ BoundInv /\ ScanInv /\ HideInv /\ LateInv
-----------------------------------------------------------------------------
(***************************************************************************)
(* The operators.                                                          *)
(***************************************************************************)
\* The further to the front, the longer a timer can be hidden, by an interval less
\* a second for each position.
LEMMA HidesFacts ==
  ASSUME NEW q \in 1..MaxAdds, NEW r \in 1..MaxAdds
  PROVE  /\ Hides(q) \in Nat
         /\ q <= r => Hides(r) <= Hides(q)
         /\ q < r => Hides(r) + MaxInterval - 1 <= Hides(q)
<1> DEFINE K == MaxInterval - 1
<1>1. K \in Nat /\ MaxAdds \in Nat
  BY TimerAssumption
<1>2. \A x \in Nat : x * K \in Nat
  BY <1>1
<1>3. \A x, y \in Nat : (x + y) * K = x * K + y * K
  BY <1>1
<1>4. \A x \in Nat : x > 0 => x * K >= K
  BY <1>1
<1>5. MaxAdds - q \in Nat /\ MaxAdds - r \in Nat
  BY <1>1
<1>6. Hides(q) = (MaxAdds - q) * K /\ Hides(r) = (MaxAdds - r) * K
  BY DEF Hides
<1>7. ASSUME q <= r
      PROVE  Hides(r) <= Hides(q) /\ (q < r => Hides(r) + K <= Hides(q))
  <2>1. r - q \in Nat /\ MaxAdds - q = (MaxAdds - r) + (r - q)
    BY <1>1, <1>7
  <2>2. Hides(q) = Hides(r) + (r - q) * K
    BY <1>3, <1>5, <1>6, <2>1
  <2>3. Hides(r) \in Nat /\ (r - q) * K \in Nat
    BY <1>2, <1>5, <1>6, <2>1
  <2>4. q < r => (r - q) * K >= K
    BY <1>4, <2>1
  <2> HIDE DEF K
  <2> QED
    BY <1>1, <2>2, <2>3, <2>4
<1> QED
  BY <1>1, <1>2, <1>5, <1>6, <1>7

\* A sleep is at most Doze long.
LEMMA DozeFacts ==
  /\ Doze \in Nat \ {0}
  /\ \A x \in 0..MaxInterval : x \div Ratio \in 0..Doze
<1>1. MaxInterval \in Nat /\ Ratio \in Nat \ {0}
  BY TimerAssumption
<1>2. \A x \in Nat : x \div Ratio \in Nat
  BY <1>1
<1>3. ASSUME NEW x \in 0..MaxInterval PROVE x \div Ratio <= MaxInterval \div Ratio
  BY <1>1, <1>3
<1> QED
  BY <1>1, <1>2, <1>3 DEF Doze

\* RemoveAt leaves what is before the position and moves up what is behind it.
LEMMA RemoveAtFacts ==
  ASSUME NEW S, NEW s \in Seq(S), NEW i \in 1..Len(s)
  PROVE  /\ RemoveAt(s, i) \in Seq(S) /\ Len(RemoveAt(s, i)) = Len(s) - 1
         /\ \A k \in 1..(Len(s) - 1) :
              RemoveAt(s, i)[k] = s[IF k < i THEN k ELSE k + 1]
<1> DEFINE a == SubSeq(s, 1, i - 1)
           b == SubSeq(s, i + 1, Len(s))
<1>1. Len(s) \in Nat /\ i \in Int /\ \A k \in 1..Len(s) : s[k] \in S
  OBVIOUS
<1>2. \A k \in 1..(i - 1) : s[k] \in S
  BY <1>1
<1>3. \A k \in (i + 1)..Len(s) : s[k] \in S
  BY <1>1
<1>4. /\ a \in Seq(S) /\ Len(a) = i - 1
      /\ \A k \in 1..(i - 1) : a[k] = s[k]
  <2>1. /\ a \in Seq(S) /\ Len(a) = IF 1 <= i - 1 THEN (i - 1) - 1 + 1 ELSE 0
        /\ \A k \in 1..((i - 1) - 1 + 1) : a[k] = s[1 + k - 1]
    BY <1>1, <1>2, SubSeqProperties
  <2> QED
    BY <1>1, <2>1
<1>5. /\ b \in Seq(S) /\ Len(b) = Len(s) - i
      /\ \A k \in 1..(Len(s) - i) : b[k] = s[i + k]
  <2>1. /\ b \in Seq(S) /\ Len(b) = IF i + 1 <= Len(s) THEN Len(s) - (i + 1) + 1 ELSE 0
        /\ \A k \in 1..(Len(s) - (i + 1) + 1) : b[k] = s[(i + 1) + k - 1]
    BY <1>1, <1>3, SubSeqProperties
  <2> QED
    BY <1>1, <2>1
<1>6. RemoveAt(s, i) = a \o b
  BY DEF RemoveAt
<1> HIDE DEF a, b
<1>7. /\ a \o b \in Seq(S) /\ Len(a \o b) = Len(a) + Len(b)
      /\ \A k \in 1..(Len(a) + Len(b)) :
           (a \o b)[k] = IF k <= Len(a) THEN a[k] ELSE b[k - Len(a)]
  BY <1>4, <1>5, ConcatProperties
<1>8. ASSUME NEW k \in 1..(Len(s) - 1)
      PROVE  (a \o b)[k] = s[IF k < i THEN k ELSE k + 1]
  <2>1. (a \o b)[k] = IF k <= i - 1 THEN a[k] ELSE b[k - (i - 1)]
    BY <1>1, <1>4, <1>5, <1>7
  <2>2. CASE k < i
    BY <1>1, <1>4, <2>1, <2>2
  <2>3. CASE k >= i
    <3>1. k - (i - 1) \in 1..(Len(s) - i) /\ i + (k - (i - 1)) = k + 1
      BY <1>1, <2>3
    <3>2. b[k - (i - 1)] = s[i + (k - (i - 1))]
      BY <1>5, <3>1
    <3> QED
      BY <1>1, <2>1, <2>3, <3>1, <3>2
  <2>4. k < i \/ k >= i
    BY <1>1
  <2> QED
    BY <2>2, <2>3, <2>4
<1> QED
  BY <1>1, <1>4, <1>5, <1>6, <1>7, <1>8

\* What std::sort returns is sorted and holds timers that were in the list.
LEMMA SortFacts ==
  ASSUME NEW S, NEW q \in Seq(S), NEW ps \in SUBSET DOMAIN q,
         NEW p \in sort_timers(q, ps)
  PROVE  /\ p \in Seq(S) /\ Len(p) <= Len(q)
         /\ \A i \in DOMAIN p : \E k \in ps : p[i] = q[k]
         /\ \A i, j \in DOMAIN p : i < j => p[i].due <= p[j].due
<1>1. IsFiniteSet(DOMAIN q) /\ Cardinality(DOMAIN q) = Len(q)
  <2>1. DOMAIN q = 1..Len(q) /\ Len(q) \in Nat
    OBVIOUS
  <2> DEFINE n == Len(q)
  <2>2. n \in Int /\ 1 \in Int
    BY <2>1
  <2> HIDE DEF n
  <2>3. /\ IsFiniteSet(1..n)
        /\ Cardinality(1..n) = IF 1 > n THEN 0 ELSE n - 1 + 1
    BY <2>2, FS_Interval
  <2> QED
    BY <2>1, <2>2, <2>3 DEF n
<1>2. Cardinality(ps) \in Nat /\ Cardinality(ps) <= Len(q)
  BY <1>1, FS_Subset, FS_CardinalityType
<1>3. PICK f \in [1..Cardinality(ps) -> ps] :
        p = [i \in 1..Cardinality(ps) |-> q[f[i]]]
  BY DEF sort_timers
<1>4. IsSortedByNext(p)
  BY DEF sort_timers
<1>5. \A k \in ps : q[k] \in S
  OBVIOUS
<1>6. DOMAIN p = 1..Cardinality(ps) /\ \A i \in DOMAIN p : f[i] \in ps /\ p[i] = q[f[i]]
  BY <1>3
<1>7. p \in Seq(S) /\ Len(p) = Cardinality(ps)
  BY <1>2, <1>3, <1>5, SMTT(40)
<1> QED
  BY <1>2, <1>4, <1>6, <1>7 DEF IsSortedByNext
-----------------------------------------------------------------------------
(***************************************************************************)
(* The initial state, and the steps one by one.                            *)
(***************************************************************************)
LEMMA InitInv == Init => IInv
<1> SUFFICES ASSUME Init PROVE IInv
  OBVIOUS
<1>1. Doze \in Nat /\ MaxAdds \in Nat /\ MaxSlow \in Nat
  BY DozeFacts, TimerAssumption
<1>2. timers \in Seq(Timer) /\ Len(timers) = 0 /\ DOMAIN timers = {}
  BY DEF Init
<1>3. TypeOK
  <2>1. /\ timer_nextid \in 0..MaxAdds /\ elapsed \in 0..MaxSlow /\ left \in Nat
        /\ it \in Nat \ {0} /\ tpc \in {"top", "scan", "sleep"}
    BY <1>1 DEF Init
  <2>2. rested \in BOOLEAN
    BY DEF Init
  <2> QED
    BY <1>2, <2>1, <2>2 DEF TypeOK
<1>4. BoundInv
  BY <1>1, <1>2 DEF Init, BoundInv
<1>5. ScanInv /\ HideInv /\ LateInv
  BY <1>2 DEF Init, ScanInv, HideInv, LateInv
<1> QED
  BY <1>3, <1>4, <1>5 DEF IInv

\* The types that the steps below use.
LEMMA Types ==
  ASSUME IInv
  PROVE  /\ MaxAdds \in Nat /\ MaxSlow \in Nat /\ MaxInterval \in Nat \ {0}
         /\ Doze \in Nat \ {0}
         /\ timers \in Seq(Timer) /\ elapsed \in 0..MaxSlow /\ left \in 0..Doze
         /\ DOMAIN timers = 1..Len(timers) /\ Len(timers) \in Nat
         /\ Len(timers) <= MaxAdds
         /\ \A i \in DOMAIN timers : timers[i] \in Timer /\ At(i) \in Int
         /\ timers # <<>> => Worst \in Nat /\ Hides(1) \in Nat
                             /\ Worst = Hides(1) + MaxSlow + Doze
         /\ Asleep \in 0..Doze
<1>1. MaxAdds \in Nat /\ MaxSlow \in Nat /\ MaxInterval \in Nat \ {0} /\ Doze \in Nat \ {0}
  BY DozeFacts, TimerAssumption
<1>2. /\ timers \in Seq(Timer) /\ elapsed \in 0..MaxSlow /\ left \in 0..Doze
      /\ timer_nextid \in 0..MaxAdds /\ Len(timers) <= timer_nextid
      /\ rested \in BOOLEAN
  BY <1>1 DEF IInv, TypeOK, BoundInv
<1>3. DOMAIN timers = 1..Len(timers) /\ Len(timers) \in Nat /\ Len(timers) <= MaxAdds
  BY <1>1, <1>2
<1>4. ASSUME NEW i \in DOMAIN timers PROVE timers[i] \in Timer /\ At(i) \in Int
  <2>1. timers[i] \in Timer
    BY <1>2, <1>3
  <2> QED
    BY <1>1, <1>2, <2>1 DEF Timer, At
<1>5. ASSUME timers # <<>> PROVE Worst \in Nat /\ Hides(1) \in Nat
                             /\ Worst = Hides(1) + MaxSlow + Doze
  <2>1. Len(timers) > 0
    BY <1>2, <1>5
  <2>2. 1 \in 1..MaxAdds
    BY <1>1, <1>3, <2>1
  <2>3. Hides(1) \in Nat
    BY <2>2, HidesFacts
  <2> QED
    BY <1>1, <2>3 DEF Worst
<1>6. Asleep \in 0..Doze
  BY <1>1, <1>2 DEF Asleep
<1> QED
  BY <1>1, <1>2, <1>3, <1>4, <1>5, <1>6

LEMMA Lateness ==
  ASSUME IInv, NEW i \in DOMAIN timers
  PROVE  -At(i) <= Worst /\ -At(i) + Asleep <= Worst
<1>1. timers # <<>>
  BY Types
<1>2. Asleep \in Nat /\ At(i) \in Int /\ Worst \in Nat
  BY <1>1, Types
<1>3. -At(i) + Asleep <= Worst
  BY DEF IInv, LateInv
<1> QED
  BY <1>2, <1>3

\* add_timer and the del_timer functions: behind the sort no timer that is not due
\* is in front of one that is.
LEMMA SortStep ==
  ASSUME IInv, tpc # "scan", NEW q \in Seq(Timer), NEW ps \in SUBSET DOMAIN q,
         timers' \in sort_timers(q, ps),
         \A k \in ps : \/ \E m \in DOMAIN timers : q[k] = timers[m]
                       \/ q[k].due \in 0..MaxInterval,
         Len(q) <= timer_nextid', timer_nextid' \in timer_nextid..MaxAdds,
         UNCHANGED <<tpc, it, elapsed, left, rested>>
  PROVE  IInv'
<1>1. /\ timers' \in Seq(Timer) /\ Len(timers') <= Len(q)
      /\ \A i \in DOMAIN timers' : \E k \in ps : timers'[i] = q[k]
      /\ \A i, j \in DOMAIN timers' : i < j => timers'[i].due <= timers'[j].due
  BY SortFacts
<1>2. \A i \in DOMAIN timers' : timers'[i] \in Timer /\ timers'[i].due \in Int
  <2>1. \A i \in DOMAIN timers' : timers'[i] \in Timer
    BY <1>1
  <2> QED
    BY <2>1 DEF Timer
<1>3. elapsed = 0 /\ elapsed' = 0 /\ tpc' # "scan"
  BY DEF IInv, BoundInv
<1>4. /\ \A i \in DOMAIN timers' : At(i)' = timers'[i].due
      /\ \A i \in DOMAIN timers : At(i) = timers[i].due
  <2>1. \A i \in DOMAIN timers : timers[i].due \in Int
    BY Types DEF Timer
  <2> QED
    BY <1>2, <1>3, <2>1 DEF At
<1>5. \A i \in DOMAIN timers' :
        \/ \E m \in DOMAIN timers : At(i)' = At(m)
        \/ At(i)' \in 0..MaxInterval
  BY <1>1, <1>4
<1>6. Len(timers') \in Nat /\ Len(timers') <= timer_nextid' /\ timer_nextid' \in 0..MaxAdds
  <2>1. Len(timers') \in Nat /\ Len(q) \in Nat
    BY <1>1
  <2>2. timer_nextid \in Nat
    BY DEF IInv, TypeOK
  <2> QED
    BY <1>1, <2>1, <2>2, Types
<1>7. TypeOK'
  BY <1>1, <1>6 DEF IInv, TypeOK
<1>8. BoundInv'
  <2>1. \A i \in DOMAIN timers' : At(i)' <= MaxInterval
    BY <1>5, Types DEF IInv, BoundInv
  <2> QED
    BY <1>3, <1>6, <2>1 DEF IInv, BoundInv, Doze
<1>9. ScanInv' /\ HideInv'
  <2>1. ScanInv'
    BY <1>3 DEF ScanInv
  <2>2. ASSUME NEW r \in DOMAIN timers', NEW i \in DOMAIN timers', r < i,
               At(r)' > 0, At(i)' <= 0
        PROVE  FALSE
    <3>1. timers'[r].due <= timers'[i].due
      BY <1>1, <2>2
    <3> QED
      BY <1>2, <1>4, <2>2, <3>1
  <2> QED
    BY <2>1, <2>2 DEF HideInv
<1>10. LateInv'
  <2> SUFFICES ASSUME NEW i \in DOMAIN timers' PROVE -At(i)' + Asleep <= Worst
    BY <1>3 DEF LateInv, Asleep, Worst, Hides, Doze
  <2>1. CASE \E m \in DOMAIN timers : At(i)' = At(m)
    BY <2>1, Lateness
  <2>2. CASE At(i)' \in 0..MaxInterval
    <3>1. Len(timers') > 0
      BY <1>1
    <3>2. 1 \in 1..MaxAdds
      BY <1>6, <3>1, Types
    <3>3. Hides(1) \in Nat
      BY <3>2, HidesFacts
    <3> QED
      BY <2>2, <3>3, Types DEF Worst
  <2> QED
    BY <1>5, <2>1, <2>2
<1> QED
  BY <1>7, <1>8, <1>9, <1>10 DEF IInv

LEMMA AddStep == ASSUME IInv, add_timer PROVE IInv'
<1>1. PICK t \in TimerInfo(timer_nextid) :
        timers' \in sort_timers(Append(timers, t), 1..(Len(timers) + 1))
  BY DEF add_timer
<1>2. timer_nextid \in 0..(MaxAdds - 1)
  BY Types DEF IInv, TypeOK, add_timer
<1>3. t \in Timer /\ t.due \in 0..MaxInterval
  <2>1. Intervals \subseteq 1..MaxInterval /\ AtTimes \subseteq 0..MaxInterval
    BY TimerAssumption
  <2>2. t \in [id : {timer_nextid}, name : Names, fxn : Fxns, interval : Intervals,
               once : BOOLEAN, due : Intervals \cup AtTimes]
    BY DEF TimerInfo
  <2>3. timer_nextid \in 0..(MaxAdds - 1) /\ Intervals \cup AtTimes \subseteq 0..MaxInterval
    BY <1>2, <2>1, Types
  <2>4. Intervals \cup AtTimes \subseteq Int
    BY <2>3, Types
  <2> QED
    BY <2>2, <2>3, <2>4 DEF Timer
<1>4. Append(timers, t) \in Seq(Timer) /\ Len(Append(timers, t)) = Len(timers) + 1
      /\ DOMAIN Append(timers, t) = 1..(Len(timers) + 1)
  BY <1>3, Types
<1>5. \A k \in 1..(Len(timers) + 1) :
        \/ \E m \in DOMAIN timers : Append(timers, t)[k] = timers[m]
        \/ Append(timers, t)[k].due \in 0..MaxInterval
  <2> SUFFICES ASSUME NEW k \in 1..(Len(timers) + 1)
               PROVE  \/ k \in DOMAIN timers /\ Append(timers, t)[k] = timers[k]
                      \/ Append(timers, t)[k].due \in 0..MaxInterval
    OBVIOUS
  <2>1. CASE k = Len(timers) + 1
    <3>1. Append(timers, t)[k] = t
      BY <1>3, <2>1, Types
    <3> QED
      BY <1>3, <3>1
  <2>2. CASE k # Len(timers) + 1
    BY <1>3, <2>2, Types
  <2> QED
    BY <2>1, <2>2
<1>6. Len(timers) <= timer_nextid /\ timer_nextid' = timer_nextid + 1
  BY DEF IInv, BoundInv, add_timer
<1>7. tpc # "scan" /\ UNCHANGED <<tpc, it, elapsed, left, rested>>
  BY DEF add_timer
<1> DEFINE q == Append(timers, t)
           ps == 1..(Len(timers) + 1)
<1>8. /\ q \in Seq(Timer) /\ ps \in SUBSET DOMAIN q /\ timers' \in sort_timers(q, ps)
      /\ \A k \in ps : \/ \E m \in DOMAIN timers : q[k] = timers[m]
                       \/ q[k].due \in 0..MaxInterval
      /\ Len(q) <= timer_nextid' /\ timer_nextid' \in timer_nextid..MaxAdds
  BY <1>1, <1>2, <1>4, <1>5, <1>6, Types, SMTT(40)
<1> HIDE DEF q, ps
<1> QED
  BY <1>7, <1>8, SortStep

\* What both del_timer functions do.
LEMMA DelStep ==
  ASSUME IInv, tpc # "scan", NEW ps \in SUBSET DOMAIN timers,
         timers' \in sort_timers(timers, ps),
         UNCHANGED <<timer_nextid, tpc, it, elapsed, left, rested>>
  PROVE  IInv'
<1>1. /\ timers \in Seq(Timer)
      /\ \A k \in ps : \/ \E m \in DOMAIN timers : timers[k] = timers[m]
                       \/ timers[k].due \in 0..MaxInterval
      /\ Len(timers) <= timer_nextid' /\ timer_nextid' \in timer_nextid..MaxAdds
  BY Types DEF IInv, BoundInv, TypeOK
<1> QED
  BY <1>1, SortStep

\* A round begins where the list is.
LEMMA RoundStep == ASSUME IInv, Round PROVE IInv'
<1>1. /\ tpc = "top" /\ tpc' = "scan" /\ it' = 1 /\ elapsed' = 0 /\ elapsed = 0
      /\ UNCHANGED <<timers, timer_nextid, left, rested>>
  BY DEF Round, IInv, BoundInv
<1>2. \A i \in DOMAIN timers : At(i)' = At(i)
  BY <1>1 DEF At
<1>3. TypeOK'
  BY <1>1, Types DEF IInv, TypeOK
<1>4. BoundInv'
  BY <1>1, <1>2 DEF IInv, BoundInv, Doze
<1>5. ScanInv'
  BY <1>1, Types DEF ScanInv
<1>6. HideInv'
  BY <1>1, <1>2, Types DEF IInv, HideInv, Hides
<1>7. LateInv'
  <2>1. \A i \in DOMAIN timers : -At(i) <= Worst
    BY Lateness
  <2>2. Asleep' = 0
    BY <1>1 DEF Asleep
  <2> QED
    BY <1>1, <1>2, <2>1, <2>2, Types DEF LateInv, Worst, Hides, Doze
<1> QED
  BY <1>3, <1>4, <1>5, <1>6, <1>7 DEF IInv

\* A callback of a timer that stays: its next time is in the future.
LEMMA CallPeriodicStep ==
  ASSUME IInv, Call, ~timers[it].once
  PROVE  IInv'
<1>1. /\ tpc = "scan" /\ it <= Len(timers) /\ At(it) <= 0 /\ it' = it + 1
      /\ timers' = [timers EXCEPT ![it].due = timers[it].interval - elapsed]
      /\ UNCHANGED <<timer_nextid, tpc, elapsed, left, rested>>
  BY DEF Call, AtDue, At
<1>2. it \in DOMAIN timers /\ it \in Nat
  BY <1>1, Types DEF IInv, TypeOK
<1>3. timers[it] \in Timer /\ timers[it].interval \in 1..MaxInterval
  BY <1>2, Types, TimerAssumption DEF Timer
<1> DEFINE v == [timers[it] EXCEPT !.due = timers[it].interval - elapsed]
<1>4. v \in Timer /\ v.due = timers[it].interval - elapsed
  <2>1. timers[it].interval - elapsed \in Int
    BY <1>3, Types, SMTT(40)
  <2> QED
    BY <1>3, <2>1 DEF Timer
<1>5. timers' = [timers EXCEPT ![it] = v]
  BY <1>1, <1>2
<1> HIDE DEF v
<1>6. /\ timers' \in Seq(Timer) /\ Len(timers') = Len(timers)
      /\ DOMAIN timers' = DOMAIN timers
      /\ timers'[it] = v /\ \A i \in DOMAIN timers : i # it => timers'[i] = timers[i]
  BY <1>2, <1>4, <1>5, Types
<1> PICK k \in DOMAIN timers : k = it
  BY <1>2
<1>7. At(k)' \in 1..MaxInterval
  <2>1. At(k)' = (timers[it].interval - elapsed) + elapsed
    BY <1>1, <1>4, <1>6 DEF At
  <2> QED
    BY <1>3, <2>1, Types, SMTT(40)
<1>8. \A i \in DOMAIN timers : i # k => At(i)' = At(i)
  BY <1>1, <1>6 DEF At
<1>9. TypeOK'
  BY <1>1, <1>2, <1>6 DEF IInv, TypeOK
<1>10. BoundInv'
  <2>1. \A i \in DOMAIN timers' : At(i)' <= MaxInterval
    BY <1>6, <1>7, <1>8, Types, SMTT(40) DEF IInv, BoundInv
  <2> QED
    BY <1>1, <1>6, <2>1 DEF IInv, BoundInv, Doze
<1>11. ScanInv'
  <2>1. \A j \in DOMAIN timers' : j < it' => At(j)' > 0
    <3> SUFFICES ASSUME NEW j \in DOMAIN timers, j < it + 1 PROVE At(j)' > 0
      BY <1>1, <1>6
    <3>1. j = k \/ (j # k /\ j < it)
      BY <1>2, Types, SMTT(40)
    <3> QED
      BY <1>1, <1>7, <1>8, <3>1 DEF IInv, ScanInv
  <2> QED
    BY <1>1, <1>2, <1>6, <2>1, Types DEF ScanInv
<1>12. HideInv'
  <2> SUFFICES ASSUME NEW q \in DOMAIN timers, NEW i \in DOMAIN timers, q < i,
                      it + 1 <= q, At(q)' > 0, At(i)' <= 0
               PROVE  At(q)' - At(i)' <= Hides(q)
    BY <1>1, <1>6 DEF HideInv, Hides
  <2>1. it <= q /\ q # k /\ i # k
    BY <1>2, Types, SMTT(40)
  <2> QED
    BY <1>1, <1>8, <2>1 DEF IInv, HideInv
<1>13. LateInv'
  <2> SUFFICES ASSUME NEW i \in DOMAIN timers PROVE -At(i)' + 0 <= Worst
    BY <1>1, <1>6 DEF LateInv, Asleep, Worst, Hides, Doze
  <2>1. Worst \in Nat /\ At(i) \in Int
    BY Types
  <2>2. CASE i = k
    BY <1>7, <2>1, <2>2, Types
  <2>3. CASE i # k
    BY <1>8, <2>1, <2>3, Lateness
  <2> QED
    BY <2>2, <2>3
<1> QED
  BY <1>9, <1>10, <1>11, <1>12, <1>13 DEF IInv

\* A callback of a timer of one shot: those behind it move up.
LEMMA CallOnceStep ==
  ASSUME IInv, Call, timers[it].once
  PROVE  IInv'
<1>1. /\ tpc = "scan" /\ it <= Len(timers) /\ At(it) <= 0
      /\ timers' = RemoveAt(timers, it)
      /\ UNCHANGED <<timer_nextid, tpc, it, elapsed, left, rested>>
  BY DEF Call, AtDue, At
<1>2. it \in 1..Len(timers) /\ DOMAIN timers = 1..Len(timers) /\ Len(timers) \in Nat
  BY <1>1, Types DEF IInv, TypeOK
<1> DEFINE Old(i) == IF i < it THEN i ELSE i + 1
<1>3. /\ timers' \in Seq(Timer) /\ Len(timers') = Len(timers) - 1
      /\ \A i \in 1..(Len(timers) - 1) : timers'[i] = timers[Old(i)]
  BY <1>1, <1>2, Types, RemoveAtFacts
<1>4. DOMAIN timers' = 1..(Len(timers) - 1)
  BY <1>2, <1>3
<1>5. \A i \in DOMAIN timers' : Old(i) \in DOMAIN timers /\ At(i)' = At(Old(i))
  BY <1>1, <1>2, <1>3, <1>4 DEF At
<1>6. TypeOK'
  BY <1>1, <1>3 DEF IInv, TypeOK
<1>7. BoundInv'
  <2>1. \A i \in DOMAIN timers' : At(i)' <= MaxInterval
    BY <1>5 DEF IInv, BoundInv
  <2>2. Len(timers') <= timer_nextid
    BY <1>2, <1>3 DEF IInv, BoundInv, TypeOK
  <2> QED
    BY <1>1, <2>1, <2>2 DEF IInv, BoundInv, Doze
<1>8. ScanInv'
  <2>1. \A j \in DOMAIN timers' : j < it => At(j)' > 0
    BY <1>1, <1>5 DEF IInv, ScanInv
  <2> QED
    BY <1>1, <1>2, <1>3, <2>1 DEF ScanInv
<1>9. HideInv'
  <2> SUFFICES ASSUME NEW q \in DOMAIN timers', NEW i \in DOMAIN timers', q < i,
                      it <= q, At(q)' > 0, At(i)' <= 0
               PROVE  At(q)' - At(i)' <= Hides(q)
    BY <1>1 DEF HideInv, Hides
  <2>1. /\ Old(q) = q + 1 /\ Old(i) = i + 1 /\ q + 1 < i + 1 /\ it <= q + 1
        /\ q + 1 \in DOMAIN timers /\ i + 1 \in DOMAIN timers
    BY <1>2, <1>4
  <2>2. At(q)' = At(q + 1) /\ At(i)' = At(i + 1)
    BY <1>5, <2>1
  <2>3. At(q + 1) - At(i + 1) <= Hides(q + 1)
    BY <2>1, <2>2 DEF IInv, HideInv
  <2>4. Hides(q + 1) <= Hides(q) /\ Hides(q) \in Nat /\ Hides(q + 1) \in Nat
    <3>1. Len(timers) <= MaxAdds /\ MaxAdds \in Nat
      BY Types
    <3>2. q \in 1..MaxAdds /\ q + 1 \in 1..MaxAdds /\ q <= q + 1
      BY <1>2, <1>4, <2>1, <3>1
    <3> QED
      BY <3>2, HidesFacts
  <2> QED
    BY <2>1, <2>2, <2>3, <2>4, Types
<1>10. LateInv'
  <2> SUFFICES ASSUME NEW i \in DOMAIN timers' PROVE -At(i)' + 0 <= Worst
    BY <1>1 DEF LateInv, Asleep, Worst, Hides, Doze
  <2>1. -At(Old(i)) <= Worst /\ At(Old(i)) \in Int /\ At(i)' = At(Old(i))
    BY <1>5, Lateness, Types
  <2> QED
    BY <2>1
<1> QED
  BY <1>6, <1>7, <1>8, <1>9, <1>10 DEF IInv

\* The round ends.  What the scan has passed or has stopped at was not due when the
\* round began; what is behind is hidden by the timer at which it stopped.
LEMMA RestStep == ASSUME IInv, Rest PROVE IInv'
<1>1. /\ tpc = "scan" /\ ~AtDue /\ left' = WaitTime /\ elapsed' = 0 /\ rested' = TRUE
      /\ tpc' = "sleep" /\ UNCHANGED <<timers, timer_nextid, it>>
  BY DEF Rest
<1>2. it \in Nat /\ it > 0 /\ it <= Len(timers) + 1
  BY <1>1 DEF IInv, TypeOK, ScanInv
<1>3. \A i \in DOMAIN timers : At(i)' = At(i) - elapsed /\ At(i)' \in Int
  <2>1. \A i \in DOMAIN timers : timers[i].due \in Int
    BY Types DEF Timer
  <2> QED
    BY <1>1, <2>1, Types, SMTT(40) DEF At
<1>4. ASSUME NEW i \in DOMAIN timers, i <= it PROVE At(i) > 0
  <2>1. CASE i < it
    BY <1>1, <2>1 DEF IInv, ScanInv
  <2>2. CASE i = it
    BY <1>1, <2>2, Types DEF AtDue, At
  <2> QED
    BY <1>2, <1>4, <2>1, <2>2, Types
<1>5. ASSUME NEW i \in DOMAIN timers, At(i) <= 0
      PROVE  /\ it < i /\ it \in DOMAIN timers
             /\ At(it) > 0 /\ At(it) - At(i) <= Hides(it)
  <2>0. At(i) \in Int /\ i \in Nat
    BY Types
  <2>1. it < i
    <3>1. ASSUME i <= it PROVE FALSE
      <4>1. At(i) > 0
        BY <1>4, <3>1
      <4> QED
        BY <1>5, <2>0, <4>1
    <3> QED
      BY <1>2, <2>0, <3>1
  <2>2. it \in DOMAIN timers
    BY <1>2, <2>1, Types
  <2>3. At(it) > 0
    BY <1>2, <1>4, <2>2
  <2> QED
    BY <1>1, <1>2, <1>5, <2>1, <2>2, <2>3 DEF IInv, HideInv
<1>6. left' \in 0..Doze
  <2>1. CASE timers = <<>>
    BY <1>1, <2>1, Types DEF WaitTime
  <2>2. CASE timers # <<>>
    <3>1. 1 \in DOMAIN timers /\ 1 <= it
      BY <1>2, <2>2, Types
    <3>2. At(1) \in 0..MaxInterval
      BY <1>4, <3>1, Types DEF IInv, BoundInv
    <3>3. left' = At(1) \div Ratio
      BY <1>1, <2>2 DEF WaitTime, At
    <3> QED
      BY <3>2, <3>3, DozeFacts
  <2> QED
    BY <2>1, <2>2
<1>7. TypeOK'
  <2>1. left' \in Nat /\ elapsed' \in 0..MaxSlow
    BY <1>1, <1>6, Types
  <2> QED
    BY <1>1, <2>1 DEF IInv, TypeOK
<1>8. BoundInv'
  <2>1. \A i \in DOMAIN timers : At(i)' <= MaxInterval
    BY <1>3, Types DEF IInv, BoundInv
  <2>2. left' <= Doze
    BY <1>6, Types
  <2> QED
    BY <1>1, <2>1, <2>2 DEF IInv, BoundInv, Doze
<1>9. ScanInv'
  BY <1>1 DEF ScanInv
<1>10. HideInv'
  <2> SUFFICES ASSUME NEW q \in DOMAIN timers, NEW i \in DOMAIN timers, q < i,
                      At(q)' > 0, At(i)' <= 0
               PROVE  At(q)' - At(i)' <= Hides(q)
    BY <1>1 DEF HideInv, Hides
  <2>1. q \in 1..MaxAdds /\ MaxAdds \in 1..MaxAdds /\ q < MaxAdds
    BY Types
  <2>2. /\ At(q) \in Int /\ At(i) \in Int /\ elapsed \in Nat
        /\ At(q)' - At(i)' = At(q) - At(i) /\ At(q) > 0 /\ At(q) <= MaxInterval
    <3>1. At(q) \in Int /\ At(i) \in Int /\ elapsed \in Nat
      BY Types
    <3>2. At(q)' = At(q) - elapsed /\ At(i)' = At(i) - elapsed
      BY <1>3
    <3>3. At(q) <= MaxInterval
      BY DEF IInv, BoundInv
    <3> QED
      BY <3>1, <3>2, <3>3
  <2>3. Hides(q) \in Nat /\ MaxInterval - 1 <= Hides(q)
    <3>1. Hides(MaxAdds) \in Nat /\ Hides(q) \in Nat
          /\ Hides(MaxAdds) + MaxInterval - 1 <= Hides(q)
      BY <2>1, HidesFacts
    <3> QED
      BY <3>1, Types
  <2>4. CASE At(i) > 0
    BY <2>2, <2>3, <2>4, Types
  <2>5. CASE At(i) <= 0 /\ it <= q
    BY <1>1, <2>2, <2>5 DEF IInv, HideInv
  <2>6. CASE At(i) <= 0 /\ q < it
    <3>1. it \in DOMAIN timers /\ At(it) > 0 /\ At(it) - At(i) <= Hides(it)
      BY <1>5, <2>6
    <3>2. it \in 1..MaxAdds /\ At(it) \in Int
      BY <3>1, Types
    <3>3. Hides(it) \in Nat /\ Hides(it) + MaxInterval - 1 <= Hides(q)
      BY <2>1, <2>6, <3>2, HidesFacts
    <3> QED
      BY <2>2, <2>3, <3>1, <3>2, <3>3, Types, SMTT(40)
  <2> QED
    BY <1>2, <2>2, <2>4, <2>5, <2>6, Types, SMTT(40)
<1>11. LateInv'
  <2> SUFFICES ASSUME NEW i \in DOMAIN timers PROVE -At(i)' + Asleep' <= Worst
    BY <1>1 DEF LateInv, Worst, Hides, Doze
  <2>1. Asleep' \in 0..Doze
    BY <1>1, <1>6, Types DEF Asleep
  <2>2. timers # <<>>
    BY Types
  <2>3. /\ At(i) \in Int /\ elapsed \in 0..MaxSlow /\ At(i)' = At(i) - elapsed
        /\ Hides(1) \in Nat /\ Worst = Hides(1) + MaxSlow + Doze
        /\ MaxSlow \in Nat /\ Doze \in Nat
    BY <1>3, <2>2, Types
  <2>4. CASE At(i) > 0
    BY <2>1, <2>3, <2>4
  <2>5. CASE At(i) <= 0
    <3>1. it \in DOMAIN timers /\ At(it) > 0 /\ At(it) - At(i) <= Hides(it)
      BY <1>5, <2>5
    <3>2. it \in 1..MaxAdds /\ 1 \in 1..MaxAdds /\ 1 <= it /\ At(it) \in Int
      BY <3>1, Types
    <3>3. Hides(it) \in Nat /\ Hides(it) <= Hides(1)
      BY <3>2, HidesFacts
    <3> QED
      BY <2>1, <2>3, <3>1, <3>2, <3>3
  <2> QED
    BY <2>3, <2>4, <2>5
<1> QED
  BY <1>7, <1>8, <1>9, <1>10, <1>11 DEF IInv

\* A second passes for every timer.
LEMMA TickFacts ==
  ASSUME IInv, timers' = [i \in DOMAIN timers |-> [timers[i] EXCEPT !.due = @ - 1]]
  PROVE  /\ timers' \in Seq(Timer) /\ Len(timers') = Len(timers)
         /\ DOMAIN timers' = DOMAIN timers
         /\ \A i \in DOMAIN timers : timers'[i].due = timers[i].due - 1
                                      /\ timers[i].due \in Int
<1>1. \A i \in DOMAIN timers : timers[i] \in Timer
  BY Types
<1>2. \A i \in DOMAIN timers : timers[i].due \in Int
  BY <1>1 DEF Timer
<1>3. \A i \in DOMAIN timers :
        /\ [timers[i] EXCEPT !.due = @ - 1] \in Timer
        /\ [timers[i] EXCEPT !.due = @ - 1].due = timers[i].due - 1
  BY <1>1 DEF Timer
<1>4. DOMAIN timers = 1..Len(timers) /\ Len(timers) \in Nat
  BY Types
<1>5. timers' \in Seq(Timer) /\ Len(timers') = Len(timers) /\ DOMAIN timers' = DOMAIN timers
  BY <1>3, <1>4
<1> QED
  BY <1>2, <1>3, <1>5

\* A second of a slow round: nothing moves, counted from crnttime.
LEMMA TickScanStep == ASSUME IInv, Tick, tpc = "scan" PROVE IInv'
<1>1. /\ tpc' = "scan" /\ elapsed < MaxSlow /\ elapsed' = elapsed + 1
      /\ timers' = [i \in DOMAIN timers |-> [timers[i] EXCEPT !.due = @ - 1]]
      /\ left = 0 /\ left' = 0 /\ rested' = FALSE
      /\ UNCHANGED <<timer_nextid, it>>
  BY DEF Tick, IInv, BoundInv
<1>2. /\ timers' \in Seq(Timer) /\ Len(timers') = Len(timers)
      /\ DOMAIN timers' = DOMAIN timers
      /\ \A i \in DOMAIN timers : timers'[i].due = timers[i].due - 1 /\ timers[i].due \in Int
  BY <1>1, TickFacts
<1>3. \A i \in DOMAIN timers : At(i)' = At(i)
  <2>1. elapsed \in Int
    BY Types
  <2> QED
    BY <1>1, <1>2, <2>1, SMTT(40) DEF At
<1>4. elapsed' \in 0..MaxSlow
  BY <1>1, Types
<1>5. TypeOK'
  BY <1>1, <1>2, <1>4 DEF IInv, TypeOK
<1>6. BoundInv'
  BY <1>1, <1>2, <1>3, Types DEF IInv, BoundInv, Doze
<1>7. ScanInv' /\ HideInv'
  BY <1>1, <1>2, <1>3 DEF IInv, ScanInv, HideInv, Hides
<1>8. LateInv'
  <2> SUFFICES ASSUME NEW i \in DOMAIN timers PROVE -At(i)' + 0 <= Worst
    BY <1>1, <1>2 DEF LateInv, Asleep, Worst, Hides, Doze
  <2>1. At(i) \in Int
    BY Types
  <2> QED
    BY <1>3, <2>1, Lateness
<1> QED
  BY <1>5, <1>6, <1>7, <1>8 DEF IInv

\* A second of the sleep: a timer that is due and the one that hides it come nearer
\* to the next call together, until the latter is due as well.
LEMMA TickSleepStep == ASSUME IInv, Tick, tpc = "sleep" PROVE IInv'
<1>1. /\ tpc' = "sleep" /\ elapsed = 0 /\ elapsed' = 0 /\ (left > 0 \/ rested)
      /\ timers' = [i \in DOMAIN timers |-> [timers[i] EXCEPT !.due = @ - 1]]
      /\ left' = (IF left > 0 THEN left - 1 ELSE 0) /\ rested' = FALSE
      /\ UNCHANGED <<timer_nextid, it>>
  BY DEF Tick, IInv, BoundInv
<1>2. /\ timers' \in Seq(Timer) /\ Len(timers') = Len(timers)
      /\ DOMAIN timers' = DOMAIN timers
      /\ \A i \in DOMAIN timers : timers'[i].due = timers[i].due - 1 /\ timers[i].due \in Int
  BY <1>1, TickFacts
<1>3. \A i \in DOMAIN timers : At(i)' = At(i) - 1 /\ At(i) \in Int
  BY <1>1, <1>2 DEF At
<1>4. left' \in Nat /\ left' <= left /\ left \in Nat /\ left <= Doze
  BY <1>1, Types
<1>5. TypeOK'
  BY <1>1, <1>2, <1>4 DEF IInv, TypeOK
<1>6. BoundInv'
  <2>1. \A i \in DOMAIN timers' : At(i)' <= MaxInterval
    BY <1>2, <1>3, Types DEF IInv, BoundInv
  <2>2. left' <= Doze
    BY <1>4, Types
  <2> QED
    BY <1>1, <1>2, <2>1, <2>2 DEF IInv, BoundInv, Doze
<1>7. ScanInv'
  BY <1>1 DEF ScanInv
<1>8. HideInv'
  <2> SUFFICES ASSUME NEW q \in DOMAIN timers, NEW i \in DOMAIN timers, q < i,
                      At(q)' > 0, At(i)' <= 0
               PROVE  At(q)' - At(i)' <= Hides(q)
    BY <1>1, <1>2 DEF HideInv, Hides
  <2>1. /\ At(q) \in Int /\ At(i) \in Int /\ At(q) > 0 /\ At(q) <= MaxInterval
        /\ At(q)' - At(i)' = At(q) - At(i)
    BY <1>3 DEF IInv, BoundInv
  <2>2. CASE At(i) <= 0
    BY <2>1, <2>2 DEF IInv, HideInv
  <2>3. CASE At(i) > 0
    <3>1. q \in 1..MaxAdds /\ MaxAdds \in 1..MaxAdds /\ q < MaxAdds
      BY Types
    <3>2. Hides(MaxAdds) \in Nat /\ Hides(q) \in Nat
          /\ Hides(MaxAdds) + MaxInterval - 1 <= Hides(q)
      BY <3>1, HidesFacts
    <3> QED
      BY <2>1, <2>3, <3>2, Types, SMTT(40)
  <2> QED
    BY <2>1, <2>2, <2>3
<1>9. LateInv'
  <2> SUFFICES ASSUME NEW i \in DOMAIN timers PROVE -At(i)' + Asleep' <= Worst
    BY <1>1, <1>2 DEF LateInv, Worst, Hides, Doze
  <2>1. /\ Asleep' = left' /\ Asleep' = Asleep - 1 /\ Asleep \in Nat
    BY <1>1, <1>4, Types DEF Asleep
  <2>2. -At(i) + Asleep <= Worst /\ At(i) \in Int /\ At(i)' = At(i) - 1
    BY <1>1, <1>3, Lateness
  <2>3. Worst \in Nat
    BY Types
  <2> QED
    BY <2>1, <2>2, <2>3
<1> QED
  BY <1>5, <1>6, <1>7, <1>8, <1>9 DEF IInv

LEMMA WakeStep == ASSUME IInv, Wake PROVE IInv'
<1>1. /\ tpc = "sleep" /\ tpc' = "top" /\ left = 0
      /\ UNCHANGED <<timers, timer_nextid, it, elapsed, left, rested>>
  BY DEF Wake
<1>2. \A i \in DOMAIN timers : At(i)' = At(i)
  BY <1>1 DEF At
<1>3. Asleep' = Asleep
  BY <1>1 DEF Asleep
<1>4. TypeOK'
  BY <1>1 DEF IInv, TypeOK
<1>5. BoundInv'
  BY <1>1, <1>2 DEF IInv, BoundInv, Doze
<1>6. ScanInv' /\ HideInv'
  BY <1>1, <1>2 DEF IInv, ScanInv, HideInv, Hides
<1>7. LateInv'
  BY <1>1, <1>2, <1>3 DEF IInv, LateInv, Worst, Hides, Doze
<1> QED
  BY <1>4, <1>5, <1>6, <1>7 DEF IInv

LEMMA Step == IInv /\ [Next]_vars => IInv'
<1> SUFFICES ASSUME IInv, [Next]_vars PROVE IInv'
  OBVIOUS
<1>1. CASE add_timer
  BY <1>1, AddStep
<1>2. CASE del_timer
  <2>1. PICK n \in Names :
          timers' \in sort_timers(timers, {i \in DOMAIN timers : timers[i].name # n})
    BY <1>2 DEF del_timer
  <2> DEFINE ps == {i \in DOMAIN timers : timers[i].name # n}
  <2>2. ps \in SUBSET DOMAIN timers /\ timers' \in sort_timers(timers, ps)
    BY <2>1
  <2> HIDE DEF ps
  <2> QED
    BY <1>2, <2>2, DelStep DEF del_timer
<1>3. CASE del_timer_by_cbptr
  <2>1. PICK f \in Fxns :
          timers' \in sort_timers(timers, {i \in DOMAIN timers : timers[i].fxn # f})
    BY <1>3 DEF del_timer_by_cbptr
  <2> DEFINE ps == {i \in DOMAIN timers : timers[i].fxn # f}
  <2>2. ps \in SUBSET DOMAIN timers /\ timers' \in sort_timers(timers, ps)
    BY <2>1
  <2> HIDE DEF ps
  <2> QED
    BY <1>3, <2>2, DelStep DEF del_timer_by_cbptr
<1>4. CASE Round
  BY <1>4, RoundStep
<1>5. CASE Call
  BY <1>5, CallPeriodicStep, CallOnceStep
<1>6. CASE Rest
  BY <1>6, RestStep
<1>7. CASE Wake
  BY <1>7, WakeStep
<1>8. CASE Tick
  <2>1. tpc \in {"scan", "sleep"}
    BY <1>8 DEF Tick
  <2> QED
    BY <1>8, <2>1, TickScanStep, TickSleepStep
<1>9. CASE UNCHANGED vars
  BY <1>9 DEF vars, IInv, TypeOK, BoundInv, ScanInv, HideInv, LateInv, At, Asleep,
              Worst, Hides, Doze
<1> QED
  BY <1>1, <1>2, <1>3, <1>4, <1>5, <1>6, <1>7, <1>8, <1>9 DEF Next
-----------------------------------------------------------------------------
(***************************************************************************)
(* The theorems.                                                           *)
(***************************************************************************)
\* The inductive invariant of the timer list and the rounds of timer_thread.
THEOREM Invariance == Spec => []IInv
BY InitInv, Step, PTL DEF Spec

\* The list and the scan over it are well formed, and wait_time is never negative:
\* timer_thread waits for the first timer of the list, which is not due at the end
\* of a round although later ones may be.
THEOREM TypeCorrect == Spec => []TypeOK
<1>1. IInv => TypeOK
  BY DEF IInv
<1> QED
  BY Invariance, <1>1, PTL

\* However many timers there are and however they are added and removed,
\* timer_thread calls each of them no later than LateBound says.
THEOREM LatenessBounded == Spec => []LateBound
<1>1. ASSUME IInv PROVE LateBound
  <2> SUFFICES ASSUME NEW i \in DOMAIN timers
               PROVE  -timers[i].due <= (MaxAdds - 1) * (MaxInterval - 1)
                                          + 2 * MaxSlow + Doze
    BY DEF LateBound
  <2>1. timers # <<>> /\ timers[i].due \in Int
    BY <1>1, Types DEF Timer
  <2>2. /\ Worst = Hides(1) + MaxSlow + Doze /\ Hides(1) \in Nat /\ MaxSlow \in Nat
        /\ Doze \in Nat /\ elapsed \in 0..MaxSlow
    BY <1>1, <2>1, Types
  <2>3. -(timers[i].due + elapsed) <= Worst
    BY <1>1, Lateness DEF At
  <2>4. Hides(1) = (MaxAdds - 1) * (MaxInterval - 1)
    BY DEF Hides
  <2>5. -timers[i].due <= Hides(1) + 2 * MaxSlow + Doze
    BY <2>1, <2>2, <2>3
  <2> QED
    BY <2>4, <2>5
<1> QED
  BY Invariance, <1>1, PTL
=============================================================================
