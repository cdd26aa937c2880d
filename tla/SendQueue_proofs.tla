-------------------------- MODULE SendQueue_proofs --------------------------
(***************************************************************************)
(* Theorems about the send queue (irc.cpp), for any priorities and costs,  *)
(* any number of lines and connects and any change of the clock.           *)
(*                                                                         *)
(* IInv is inductive.  Its parts and their uses:                           *)
(*   TypeOK    the variables have their types;                             *)
(*   CountInv  a line that waits for the mutex has a number left;          *)
(*   OrderInv  the queue is in order of age within a priority, and in      *)
(*             order of priority unless sendq_added;                       *)
(*   FrontInv  there is a line to send wherever one is sent;               *)
(*   FloodInv  the timer and the sleep that is left agree;                 *)
(*   StopInv   once a line was sent without send_ready, no other is.       *)
(***************************************************************************)
EXTENDS SendQueue, TLAPS, FiniteSetTheorems, SequenceTheorems

\* Every line is pushed once.
CountInv ==
  /\ IsFiniteSet(waiting)
  /\ lines <= MaxLines
  /\ pushed + Cardinality(waiting) <= lines

\* A queue whose lines are numbered up to n in the order they were pushed, and
\* stay in this order within a priority; with flag FALSE it is sorted.
AgeOrder(q, n) ==
  /\ \A i \in 1..Len(q) : q[i].id <= n
  /\ \A i, j \in 1..Len(q) : i < j =>
       q[i].id # q[j].id /\ (q[i].prio = q[j].prio => q[i].id < q[j].id)
PrioOrder(q) == \A i, j \in 1..Len(q) : i < j => q[i].prio >= q[j].prio
OrderInv == AgeOrder(send_queue, pushed) /\ (sendq_added \/ PrioOrder(send_queue))

\* The thread exists while somebody may want to stop it, and goes on after its
\* sleep with the queue it left.
FrontInv ==
  /\ opc = "down" => spc = "none"
  /\ LineAfterSleep

FloodInv ==
  ~skewed => /\ ahead <= 10 + MaxCost /\ behind <= 0
             /\ spc = "sleep" => ahead <= 10 + left
             /\ spc = "relock" => ahead <= 10

StopInv ==
  /\ afterkill <= 1
  /\ afterkill = 1 => ~send_ready /\ spc \in {"check", "out", "exited", "none"}

IInv == TypeOK /\ CountInv /\ OrderInv /\ FrontInv /\ FloodInv /\ StopInv
-----------------------------------------------------------------------------
(***************************************************************************)
(* std::stable_sort and the queue.                                         *)
(***************************************************************************)
LEMMA LineFields ==
  ASSUME NEW l \in Line
  PROVE  l.prio \in Int /\ l.id \in Nat /\ l.cost \in 1..MaxCost
<1>1. l.prio \in Prios /\ l.id \in 1..MaxLines /\ l.cost \in Costs
  BY DEF Line
<1>2. l.prio \in Int /\ l.cost \in 1..MaxCost
  BY <1>1, SendAssumption
<1>3. l.id \in Nat
  BY <1>1
<1> QED
  BY <1>2, <1>3

\* Sorting a queue in order of age keeps its lines and that order, and puts it
\* in order of priority.
LEMMA SortedOrder ==
  ASSUME NEW q \in Seq(Line), NEW n \in Nat, AgeOrder(q, n), NEW p \in Sorted(q)
  PROVE  /\ p \in Seq(Line) /\ Len(p) = Len(q) /\ ToSet(p) = ToSet(q)
         /\ AgeOrder(p, n) /\ PrioOrder(p)
<1> DEFINE D == 1..Len(q)
<1>1. DOMAIN q = D /\ Len(q) \in Nat /\ q \in [D -> Line]
  BY LenProperties
<1>2. PICK g \in StableOrders(q) : p = [i \in D |-> q[g[i]]]
  BY <1>1 DEF Sorted
<1>3. /\ g \in [D -> D] /\ ToSet(g) = D
      /\ \A i, j \in D : i < j => \/ q[g[i]].prio > q[g[j]].prio
                                  \/ /\ ~(q[g[j]].prio > q[g[i]].prio)
                                     /\ g[i] < g[j]
  BY <1>1, <1>2 DEF StableOrders, Precedes
<1>4. p \in [D -> Line] /\ p \in Seq(Line) /\ Len(p) = Len(q)
  <2>1. p \in [D -> Line]
    BY <1>1, <1>2, <1>3
  <2>2. p \in Seq(Line)
    BY <2>1, <1>1, IsASeq
  <2> QED
    BY <2>1, <2>2, <1>1, LenProperties
<1>5. ToSet(p) = ToSet(q)
  <2>1. DOMAIN p = D /\ DOMAIN g = D
    BY <1>3, <1>4
  <2>2. \A j \in D : \E i \in D : g[i] = j
    BY <1>3, <2>1 DEF ToSet
  <2>3. ASSUME NEW m \in ToSet(p) PROVE m \in ToSet(q)
    <3>1. PICK i \in D : m = p[i]
      BY <2>1 DEF ToSet
    <3> QED
      BY <3>1, <1>1, <1>2, <1>3 DEF ToSet
  <2>4. ASSUME NEW m \in ToSet(q) PROVE m \in ToSet(p)
    <3>1. PICK j \in D : m = q[j]
      BY <1>1 DEF ToSet
    <3>2. PICK i \in D : g[i] = j
      BY <2>2
    <3> QED
      BY <3>1, <3>2, <1>2, <2>1 DEF ToSet
  <2> QED
    BY <2>3, <2>4
<1>6. \A i \in D : q[i].prio \in Int /\ q[i].id \in Nat
  BY <1>1, LineFields
<1>7. PrioOrder(p)
  <2> SUFFICES ASSUME NEW i \in D, NEW j \in D, i < j
               PROVE  p[i].prio >= p[j].prio
    BY <1>4 DEF PrioOrder
  <2>1. g[i] \in D /\ g[j] \in D
    BY <1>3
  <2> QED
    BY <1>2, <1>3, <1>6, <2>1, SMTT(40)
<1>8. AgeOrder(p, n)
  <2>1. \A i \in D : p[i].id <= n
    BY <1>2, <1>3 DEF AgeOrder
  <2>2. ASSUME NEW i \in D, NEW j \in D, i < j
        PROVE  p[i].id # p[j].id /\ (p[i].prio = p[j].prio => p[i].id < p[j].id)
    <3>1. /\ g[i] \in D /\ g[j] \in D
          /\ p[i] = q[g[i]] /\ p[j] = q[g[j]]
      BY <1>2, <1>3
    <3>2. \/ q[g[i]].prio > q[g[j]].prio
          \/ ~(q[g[j]].prio > q[g[i]].prio) /\ g[i] < g[j]
      BY <1>3, <2>2
    <3>3. \A k, l \in D : k < l => /\ q[k].id # q[l].id
                                   /\ q[k].prio = q[l].prio => q[k].id < q[l].id
      BY DEF AgeOrder
    <3>4. g[i] # g[j]
      BY <3>1, <3>2, <1>6, <1>1
    <3>5. q[g[i]].id # q[g[j]].id
      BY <3>1, <3>3, <3>4, <1>1
    <3>6. q[g[i]].prio = q[g[j]].prio => q[g[i]].id < q[g[j]].id
      BY <3>1, <3>2, <3>3, <1>6
    <3> QED
      BY <3>1, <3>5, <3>6
  <2> QED
    BY <1>4, <2>1, <2>2 DEF AgeOrder
<1> QED
  BY <1>4, <1>5, <1>7, <1>8

\* The front of a queue in order is the line to send, and what is left is a
\* queue in order.
LEMMA FrontOrder ==
  ASSUME NEW p \in Seq(Line), p # <<>>, NEW n \in Nat, AgeOrder(p, n), PrioOrder(p)
  PROVE  /\ Head(p) \in ToSet(p) /\ Head(p) \in Line
         /\ Tail(p) \in Seq(Line) /\ AgeOrder(Tail(p), n) /\ PrioOrder(Tail(p))
         /\ ToSet(Tail(p)) = ToSet(p) \ {Head(p)}
         /\ \A m \in ToSet(p) : \/ m.prio < Head(p).prio
                                \/ m.prio = Head(p).prio /\ m.id >= Head(p).id
<1> DEFINE t == Tail(p)
<1>1. /\ DOMAIN p = 1..Len(p) /\ Len(p) \in Nat \ {0} /\ p \in [1..Len(p) -> Line]
      /\ \A i \in 1..Len(p) : p[i].prio \in Int /\ p[i].id \in Nat
  <2>1. DOMAIN p = 1..Len(p) /\ Len(p) \in Nat \ {0} /\ p \in [1..Len(p) -> Line]
    BY LenProperties, EmptySeq
  <2> QED
    BY <2>1, LineFields
<1>2. /\ Head(p) = p[1] /\ t \in Seq(Line) /\ Len(t) = Len(p) - 1
      /\ \A i \in 1..Len(t) : t[i] = p[i + 1]
  BY HeadTailProperties, <1>1
<1>3. DOMAIN t = 1..Len(t)
  BY <1>2, LenProperties
<1>4. Head(p) \in ToSet(p) /\ Head(p) \in Line
  BY <1>1, <1>2 DEF ToSet
<1>5. AgeOrder(t, n) /\ PrioOrder(t)
  <2>1. \A i \in 1..Len(t) : i + 1 \in 1..Len(p)
    BY <1>1, <1>2
  <2> QED
    BY <1>1, <1>2, <2>1 DEF AgeOrder, PrioOrder
<1>6. ASSUME NEW m \in ToSet(p)
      PROVE  \/ m.prio < Head(p).prio
             \/ m.prio = Head(p).prio /\ m.id >= Head(p).id
  <2>1. PICK i \in 1..Len(p) : m = p[i]
    BY <1>1 DEF ToSet
  <2>2. CASE i = 1
    BY <2>1, <2>2, <1>1, <1>2
  <2>3. CASE i # 1
    <3>1. 1 \in 1..Len(p) /\ 1 < i
      BY <1>1, <2>3
    <3> QED
      BY <2>1, <3>1, <1>1, <1>2 DEF AgeOrder, PrioOrder
  <2> QED
    BY <2>2, <2>3
<1>7. ToSet(t) = ToSet(p) \ {Head(p)}
  <2>1. \A i \in 2..Len(p) : p[i] # p[1]
    BY <1>1 DEF AgeOrder
  <2>2. ASSUME NEW m \in ToSet(t) PROVE m \in ToSet(p) \ {Head(p)}
    <3>1. PICK i \in 1..Len(t) : m = p[i + 1]
      BY <1>2, <1>3 DEF ToSet
    <3>2. i + 1 \in 2..Len(p)
      BY <1>1, <1>2
    <3> QED
      BY <3>1, <3>2, <2>1, <1>1, <1>2 DEF ToSet
  <2>3. ASSUME NEW m \in ToSet(p) \ {Head(p)} PROVE m \in ToSet(t)
    <3>1. PICK i \in 1..Len(p) : m = p[i]
      BY <1>1 DEF ToSet
    <3>2. i - 1 \in 1..Len(t) /\ (i - 1) + 1 = i
      BY <3>1, <1>1, <1>2
    <3>3. m = t[i - 1]
      BY <3>1, <3>2, <1>2
    <3> QED
      BY <3>2, <3>3, <1>3 DEF ToSet
  <2> QED
    BY <2>2, <2>3
<1> QED
  BY <1>2, <1>4, <1>5, <1>6, <1>7
-----------------------------------------------------------------------------
(***************************************************************************)
(* The invariant.                                                          *)
(***************************************************************************)
LEMMA InitInv == Init => IInv
<1> SUFFICES ASSUME Init PROVE IInv
  OBVIOUS
<1>1. Cardinality({}) = 0 /\ IsFiniteSet({})
  BY FS_EmptySet
<1>2. <<>> \in Seq(Line) /\ Len(<<>>) = 0
  BY EmptySeq
<1>3. TypeOK
  <2>1. send_queue \in Seq(Line) /\ waiting \subseteq Line
    BY <1>2 DEF Init
  <2>2. /\ ahead \in Int /\ behind \in Int /\ ahead >= -MaxCost /\ behind >= -MaxSkew
    BY SendAssumption DEF Init
  <2> QED
    BY <2>1, <2>2 DEF Init, TypeOK
<1>4. CountInv
  BY <1>1, SendAssumption DEF Init, CountInv
<1>5. OrderInv
  BY <1>2 DEF Init, OrderInv, AgeOrder, PrioOrder
<1>6. FrontInv /\ StopInv
  BY DEF Init, FrontInv, LineAfterSleep, StopInv
<1>7. FloodInv
  BY SendAssumption DEF Init, FloodInv
<1> QED
  BY <1>3, <1>4, <1>5, <1>6, <1>7 DEF IInv

\* What it means that a line is sent: the queue stays in order, and the timer
\* advances by the cost of a line.
LEMMA SendFrontOrder ==
  ASSUME IInv, send_queue # <<>>, NEW a \in Int, SendFront(a)
  PROVE  /\ send_queue' \in Seq(Line)
         /\ AgeOrder(send_queue', pushed') /\ PrioOrder(send_queue')
         /\ pushed' = pushed /\ sendq_added' = FALSE
         /\ (\E c \in 1..MaxCost : ahead' = a + c) /\ ahead' \in Int
         /\ \E l \in ToSet(send_queue) :
              /\ ToSet(send_queue') = ToSet(send_queue) \ {l}
              /\ \A m \in ToSet(send_queue) :
                   m.prio < l.prio \/ (m.prio = l.prio /\ m.id >= l.id)
<1> DEFINE Q == IF sendq_added THEN Sorted(send_queue) ELSE {send_queue}
<1>1. PICK q \in Q : /\ send_queue' = Tail(q) /\ ahead' = a + Head(q).cost
                     /\ pushed' = pushed /\ sendq_added' = FALSE
  BY DEF SendFront
<1>2. send_queue \in Seq(Line) /\ pushed \in Nat /\ sendq_added \in BOOLEAN
  BY DEF IInv, TypeOK
<1>3. AgeOrder(send_queue, pushed) /\ (sendq_added \/ PrioOrder(send_queue))
  BY DEF IInv, OrderInv
<1>4. /\ q \in Seq(Line) /\ Len(q) = Len(send_queue) /\ ToSet(q) = ToSet(send_queue)
      /\ AgeOrder(q, pushed) /\ PrioOrder(q)
  <2>1. CASE sendq_added
    BY <2>1, <1>2, <1>3, SortedOrder
  <2>2. CASE ~sendq_added
    <3>1. q = send_queue
      BY <2>2
    <3> QED
      BY <2>2, <3>1, <1>2, <1>3
  <2> QED
    BY <2>1, <2>2
<1>5. q # <<>>
  BY <1>2, <1>4, EmptySeq
<1>6. Head(q).cost \in 1..MaxCost
  BY <1>2, <1>4, <1>5, FrontOrder, LineFields
<1> HIDE DEF Q
<1>7. (\E c \in 1..MaxCost : ahead' = a + c) /\ ahead' \in Int
  BY <1>1, <1>6, SendAssumption
<1> QED
  BY <1>1, <1>2, <1>4, <1>5, <1>7, FrontOrder

\* Steps that leave the queue and its numbers alone.
LEMMA QueueUnchanged ==
  ASSUME IInv, UNCHANGED <<queue, waiting, lines>>
  PROVE  CountInv' /\ OrderInv' /\ send_queue' \in Seq(Line) /\ waiting' \subseteq Line
BY DEF IInv, TypeOK, queue, CountInv, OrderInv

\* add_to_send_queue
LEMMA ProducerInv == ASSUME IInv, Submit \/ Push PROVE IInv'
<1> USE SendAssumption DEF IInv
<1>1. CASE Submit
  <2> USE <1>1
  <2>1. PICK w \in SUBSET Line : /\ waiting' = waiting \cup w
                                 /\ w = {} \/ \E l \in Line : w = {l}
    <3>1. lines + 1 \in 1..MaxLines
      BY DEF Submit, TypeOK
    <3>2. \A p \in Prios, c \in Costs :
            [prio |-> p, cost |-> c, id |-> lines + 1] \in Line
      BY <3>1 DEF Line
    <3>3. CASE enable_flood_protection
      <4>1. PICK p \in Prios, c \in Costs :
              waiting' = waiting \cup {[prio |-> p, cost |-> c, id |-> lines + 1]}
        BY <3>3 DEF Submit
      <4> QED
        BY <4>1, <3>2
    <3>4. CASE ~enable_flood_protection
      <4>1. waiting' = waiting \cup {}
        BY <3>4 DEF Submit
      <4> QED
        BY <4>1
    <3> QED
      BY <3>3, <3>4
  <2>2. /\ IsFiniteSet(waiting') /\ Cardinality(waiting) \in Nat
        /\ Cardinality(waiting') \in Nat
        /\ Cardinality(waiting') <= Cardinality(waiting) + 1
    <3>1. IsFiniteSet(waiting) /\ Cardinality(waiting) \in Nat
      BY FS_CardinalityType DEF CountInv
    <3>2. CASE w = {}
      BY <2>1, <3>1, <3>2
    <3>3. ASSUME NEW l \in Line, w = {l}
          PROVE  /\ IsFiniteSet(waiting') /\ Cardinality(waiting') \in Nat
                 /\ Cardinality(waiting') <= Cardinality(waiting) + 1
      BY <2>1, <3>1, <3>3, FS_AddElement
    <3> QED
      BY <2>1, <3>1, <3>2, <3>3
  <2>3. CountInv'
    BY <2>2 DEF CountInv, Submit, queue, TypeOK
  <2>4. TypeOK'
    <3>1. waiting' \subseteq Line
      BY <2>1 DEF TypeOK
    <3> QED
      BY <3>1 DEF TypeOK, Submit, queue, thread, time, rest
  <2>5. OrderInv' /\ FrontInv' /\ FloodInv' /\ StopInv'
    BY DEF OrderInv, FrontInv, LineAfterSleep, FloodInv, StopInv, Submit, queue,
           thread, time, rest
  <2> QED
    BY <2>3, <2>4, <2>5
<1>2. CASE Push
  <2> USE <1>2
  <2>1. PICK l \in waiting : /\ send_queue' = Append(send_queue, [l EXCEPT !.id = pushed + 1])
                             /\ waiting' = waiting \ {l}
    BY DEF Push
  <2> DEFINE m == [l EXCEPT !.id = pushed + 1]
  <2>2. /\ IsFiniteSet(waiting') /\ Cardinality(waiting) \in Nat
        /\ Cardinality(waiting') = Cardinality(waiting) - 1
        /\ Cardinality(waiting') \in Nat
    BY <2>1, FS_RemoveElement, FS_CardinalityType DEF CountInv
  <2>3. pushed' = pushed + 1 /\ pushed' \in Nat /\ pushed' <= lines
    BY <2>2 DEF Push, CountInv, TypeOK
  <2>4. CountInv'
    BY <2>2, <2>3 DEF Push, CountInv, TypeOK
  <2>5. l \in Line /\ m \in Line /\ m.id = pushed' /\ m.prio = l.prio
    <3>1. l \in Line
      BY <2>1 DEF TypeOK
    <3>2. pushed' \in 1..MaxLines
      BY <2>3 DEF CountInv, TypeOK
    <3> QED
      BY <3>1, <3>2, <2>3 DEF Line
  <2> HIDE DEF m
  <2>6. /\ send_queue \in Seq(Line) /\ send_queue' \in Seq(Line)
        /\ Len(send_queue') = Len(send_queue) + 1 /\ Len(send_queue) \in Nat
        /\ \A i \in 1..Len(send_queue) : send_queue'[i] = send_queue[i]
        /\ send_queue'[Len(send_queue) + 1] = m
    BY <2>1, <2>5, AppendProperties, LenProperties DEF TypeOK, m
  <2>7. AgeOrder(send_queue', pushed')
    <3>1. \A i \in 1..Len(send_queue) : send_queue[i].id \in Nat
      BY <2>6, ElementOfSeq, LineFields
    <3>2. \A i \in 1..Len(send_queue') :
            i \in 1..Len(send_queue) \/ i = Len(send_queue) + 1
      BY <2>6
    <3>3. AgeOrder(send_queue, pushed) /\ pushed \in Nat
      BY DEF OrderInv, TypeOK
    <3>4. \A i \in 1..Len(send_queue') : send_queue'[i].id <= pushed'
      BY <3>1, <3>2, <3>3, <2>3, <2>5, <2>6 DEF AgeOrder
    <3>5. ASSUME NEW i \in 1..Len(send_queue'), NEW j \in 1..Len(send_queue'), i < j
          PROVE  /\ send_queue'[i].id # send_queue'[j].id
                 /\ send_queue'[i].prio = send_queue'[j].prio
                      => send_queue'[i].id < send_queue'[j].id
      <4>1. i \in 1..Len(send_queue)
        BY <3>5, <2>6
      <4>2. CASE j \in 1..Len(send_queue)
        BY <3>3, <3>5, <4>1, <4>2, <2>6 DEF AgeOrder
      <4>3. CASE j = Len(send_queue) + 1
        <5>1. send_queue[i].id <= pushed
          BY <3>3, <4>1 DEF AgeOrder
        <5> QED
          BY <5>1, <4>1, <4>3, <3>1, <3>3, <2>3, <2>5, <2>6
      <4> QED
        BY <3>2, <4>2, <4>3
    <3> QED
      BY <3>4, <3>5 DEF AgeOrder
  <2>8. OrderInv'
    BY <2>7 DEF OrderInv, Push
  <2>9. TypeOK'
    <3>1. spc' = spc \/ spc' = "woken"
      BY DEF Push, Signalled
    <3>2. waiting' \subseteq Line
      BY <2>1 DEF TypeOK
    <3> QED
      BY <3>1, <3>2, <2>3, <2>6 DEF TypeOK, Push, time, rest
  <2>10. FrontInv'
    <3>1. send_queue' # <<>>
      BY <2>6, EmptySeq
    <3> QED
      BY <3>1 DEF FrontInv, LineAfterSleep, Push, Signalled, rest
  <2>11. FloodInv' /\ StopInv'
    BY DEF FloodInv, StopInv, Push, Signalled, time, rest
  <2> QED
    BY <2>4, <2>8, <2>9, <2>10, <2>11
<1> QED
  BY <1>1, <1>2

\* The steps of send_thread that send no line.
LEMMA ThreadInv ==
  ASSUME IInv, SStart \/ SWait \/ SWoken \/ SSleep \/ SCheck \/ SOut
  PROVE  IInv'
<1> USE SendAssumption DEF IInv
<1>1. UNCHANGED <<queue, waiting, lines>>
  BY DEF SStart, SWait, SWoken, SSleep, SCheck, SOut, queue
<1>2. CountInv' /\ OrderInv' /\ send_queue' \in Seq(Line) /\ waiting' \subseteq Line
  BY <1>1, QueueUnchanged
<1> USE DEF queue, time, rest, FrontInv, LineAfterSleep, FloodInv, StopInv
<1>3. CASE SStart
  <2>1. TypeOK'
    BY <1>1, <1>2, <1>3 DEF TypeOK, SStart
  <2> QED
    BY <1>2, <1>3, <2>1 DEF TypeOK, SStart
<1>4. CASE SWait
  BY <1>1, <1>2, <1>4 DEF TypeOK, SWait
<1>5. CASE SWoken
  BY <1>1, <1>2, <1>5 DEF TypeOK, SWoken
<1>6. CASE SSleep
  <2>1. TypeOK'
    BY <1>1, <1>2, <1>6 DEF TypeOK, SSleep
  <2>2. FloodInv'
    BY <1>6 DEF SSleep, TypeOK
  <2> QED
    BY <1>2, <1>6, <2>1, <2>2 DEF SSleep
<1>7. CASE SCheck
  BY <1>1, <1>2, <1>7 DEF TypeOK, SCheck
<1>8. CASE SOut
  BY <1>1, <1>2, <1>8 DEF TypeOK, SOut
<1> QED
  BY <1>3, <1>4, <1>5, <1>6, <1>7, <1>8

\* A line is sent: what SLoop and SRelock have in common.
LEMMA SentInv ==
  ASSUME IInv, send_queue # <<>>, spc \in {"loop", "relock"},
         NEW a \in Int, a >= -MaxCost, ~skewed => a <= 10, SendFront(a),
         send_mutex' \in BOOLEAN, UNCHANGED <<send_ready, left, waiting, lines, rest>>
  PROVE  IInv'
<1> USE SendAssumption DEF IInv
<1>1. /\ send_queue' \in Seq(Line) /\ AgeOrder(send_queue', pushed')
      /\ PrioOrder(send_queue') /\ pushed' = pushed /\ sendq_added' = FALSE
      /\ (\E c \in 1..MaxCost : ahead' = a + c) /\ ahead' \in Int
  BY SendFrontOrder
<1>2. /\ behind' = 0 /\ spc' = "check"
      /\ afterkill' = IF send_ready THEN 0 ELSE afterkill + 1
  BY DEF SendFront
<1>3. ahead' > a /\ ahead' <= a + MaxCost
  <2>1. PICK c \in 1..MaxCost : ahead' = a + c
    BY <1>1
  <2>2. c \in Int /\ 1 <= c /\ c <= MaxCost
    BY <2>1
  <2> QED
    BY <1>1, <2>1, <2>2
<1>4. TypeOK'
  <2>1. ahead' >= -MaxCost
    BY <1>1, <1>3
  <2>2. behind' \in Int /\ behind' >= -MaxSkew
    BY <1>2
  <2>3. afterkill' \in Nat /\ pushed' \in Nat
    BY <1>1, <1>2 DEF TypeOK
  <2>4. waiting' \subseteq Line /\ sendq_added' \in BOOLEAN
    BY <1>1 DEF TypeOK
  <2>5. /\ send_ready' \in BOOLEAN /\ enable_flood_protection' \in BOOLEAN
        /\ skewed' \in BOOLEAN /\ opc' \in {"down", "starting", "up", "killing", "joining"}
        /\ left' \in Nat /\ lines' \in Nat /\ connects' \in Nat
    BY DEF TypeOK, rest
  <2> QED
    BY <1>1, <1>2, <2>1, <2>2, <2>3, <2>4, <2>5 DEF TypeOK
<1>5. CountInv'
  BY <1>1 DEF CountInv
<1>6. OrderInv'
  BY <1>1 DEF OrderInv
<1>7. FrontInv'
  BY <1>2 DEF FrontInv, LineAfterSleep, rest
<1>8. FloodInv'
  BY <1>1, <1>2, <1>3 DEF FloodInv, rest
<1>9. StopInv'
  <2>1. afterkill = 0
    BY DEF StopInv, TypeOK
  <2> QED
    BY <2>1, <1>2 DEF StopInv
<1> QED
  BY <1>4, <1>5, <1>6, <1>7, <1>8, <1>9

LEMMA SendInv == ASSUME IInv, SLoop \/ SRelock PROVE IInv'
<1> USE SendAssumption DEF IInv
<1>1. CASE SRelock
  <2>1. send_queue # <<>> /\ ahead \in Int /\ ahead >= -MaxCost
    BY <1>1 DEF SRelock, FrontInv, LineAfterSleep, TypeOK
  <2>2. ~skewed => ahead <= 10
    BY <1>1 DEF SRelock, FloodInv
  <2>3. spc = "relock" /\ send_mutex' \in BOOLEAN /\ SendFront(ahead)
    BY <1>1 DEF SRelock
  <2> QED
    BY <1>1, <2>1, <2>2, <2>3, SentInv DEF SRelock
<1>2. CASE SLoop
  <2> USE <1>2
  <2>1. spc = "loop" /\ UNCHANGED <<send_ready, waiting, lines, rest>>
    BY DEF SLoop
  <2>2. MessageTimer \in Nat /\ (MessageTimer = 0 \/ MessageTimer = ahead)
    BY DEF MessageTimer, TypeOK
  <2>3. CASE send_queue = <<>>
    <3>1. spc' = "gowait" /\ UNCHANGED <<queue, send_mutex, time, afterkill>>
      BY <2>3 DEF SLoop
    <3>2. CountInv' /\ OrderInv' /\ send_queue' \in Seq(Line) /\ waiting' \subseteq Line
      BY <2>1, <3>1, QueueUnchanged
    <3>3. TypeOK'
      BY <2>1, <3>1, <3>2 DEF TypeOK, queue, time, rest
    <3> QED
      BY <2>1, <3>1, <3>2, <3>3
         DEF FrontInv, LineAfterSleep, FloodInv, StopInv, time, rest, TypeOK
  <2>4. CASE send_queue # <<>> /\ MessageTimer < 10 /\ SendFront(MessageTimer)
             /\ UNCHANGED <<send_mutex, left>>
    <3>1. MessageTimer \in Int /\ MessageTimer >= -MaxCost /\ MessageTimer <= 10
      BY <2>2, <2>4
    <3>2. send_mutex' \in BOOLEAN
      BY <2>4 DEF TypeOK
    <3> QED
      BY <2>1, <2>4, <3>1, <3>2, SentInv
  <2>5. CASE send_queue # <<>> /\ SendFront(0) /\ UNCHANGED <<send_mutex, left>>
    <3>1. send_mutex' \in BOOLEAN /\ 0 >= -MaxCost
      BY <2>5 DEF TypeOK
    <3> QED
      BY <2>1, <2>5, <3>1, SentInv
  <2>6. CASE /\ send_queue # <<>> /\ MessageTimer >= 10
             /\ left' = SleepTime /\ send_mutex' = FALSE /\ spc' = "sleep"
             /\ UNCHANGED <<queue, ahead, behind, afterkill>>
    <3>1. CountInv' /\ OrderInv' /\ send_queue' \in Seq(Line) /\ waiting' \subseteq Line
      BY <2>1, <2>6, QueueUnchanged
    <3>2. left' \in Nat /\ ahead <= 10 + left'
      BY <2>2, <2>6 DEF SleepTime, TypeOK
    <3>3. TypeOK'
      BY <2>1, <2>6, <3>1, <3>2 DEF TypeOK, queue, rest
    <3>4. FrontInv' /\ StopInv'
      BY <2>1, <2>6 DEF FrontInv, LineAfterSleep, StopInv, queue, rest, TypeOK
    <3>5. FloodInv'
      BY <2>1, <2>6, <3>2 DEF FloodInv, rest
    <3> QED
      BY <3>1, <3>3, <3>4, <3>5
  <2> QED
    BY <2>3, <2>4, <2>5, <2>6 DEF SLoop
<1> QED
  BY <1>1, <1>2

\* create_send_thread and kill_send_thread
LEMMA OwnerInv ==
  ASSUME IInv, Create \/ Created \/ KillFlag \/ KillSignal \/ Joined
  PROVE  IInv'
<1> USE SendAssumption DEF IInv
<1>1. CASE Create \/ Joined
  <2>1. send_queue' = <<>> /\ sendq_added' = FALSE /\ pushed' = pushed
        /\ waiting' = waiting /\ lines' = lines
    BY <1>1 DEF Create, Joined
  <2>2. <<>> \in Seq(Line) /\ Len(<<>>) = 0
    BY EmptySeq
  <2>3. OrderInv' /\ CountInv'
    BY <2>1, <2>2 DEF OrderInv, AgeOrder, PrioOrder, CountInv
  <2>4. TypeOK'
    <3>1. send_queue' \in Seq(Line) /\ waiting' \subseteq Line /\ pushed' \in Nat
          /\ lines' \in Nat /\ sendq_added' \in BOOLEAN
      BY <2>1, <2>2 DEF TypeOK
    <3>2. CASE Create
      <4>1. /\ ahead' \in Int /\ behind' \in Int /\ ahead' >= -MaxCost
            /\ behind' >= -MaxSkew /\ left' \in Nat
        BY <3>2 DEF TypeOK, Create, time
      <4>2. connects' \in Nat /\ afterkill' \in Nat
        BY <3>2 DEF TypeOK, Create
      <4> QED
        BY <3>1, <3>2, <4>1, <4>2 DEF TypeOK, Create
    <3>3. CASE Joined
      BY <3>1, <3>3 DEF TypeOK, Joined, time
    <3> QED
      BY <1>1, <3>2, <3>3
  <2>5. FrontInv' /\ FloodInv' /\ StopInv'
    BY <1>1 DEF FrontInv, LineAfterSleep, FloodInv, StopInv, Create, Joined, time,
                TypeOK
  <2> QED
    BY <2>3, <2>4, <2>5
<1>2. CASE Created \/ KillFlag \/ KillSignal
  <2>1. UNCHANGED <<queue, waiting, lines>>
    BY <1>2 DEF Created, KillFlag, KillSignal
  <2>2. CountInv' /\ OrderInv' /\ send_queue' \in Seq(Line) /\ waiting' \subseteq Line
    BY <2>1, QueueUnchanged
  <2>3. TypeOK'
    BY <1>2, <2>1, <2>2
       DEF TypeOK, Created, KillFlag, KillSignal, Signalled, queue, thread, time
  <2>4. FrontInv' /\ FloodInv' /\ StopInv'
    BY <1>2, <2>1 DEF FrontInv, LineAfterSleep, FloodInv, StopInv, Created, KillFlag,
                      KillSignal, Signalled, queue, thread, time, TypeOK
  <2> QED
    BY <2>2, <2>3, <2>4
<1> QED
  BY <1>1, <1>2

\* The clock and the administrator.
LEMMA OutsideInv == ASSUME IInv, Tick \/ SetBack \/ ToggleFlood PROVE IInv'
<1> USE SendAssumption DEF IInv
<1>1. UNCHANGED <<queue, waiting, lines, send_ready, send_mutex, spc, opc, connects,
                  afterkill>>
  BY DEF Tick, SetBack, ToggleFlood, thread, rest
<1>2. CountInv' /\ OrderInv' /\ send_queue' \in Seq(Line) /\ waiting' \subseteq Line
  BY <1>1, QueueUnchanged
<1>3. FrontInv' /\ StopInv'
  BY <1>1 DEF FrontInv, LineAfterSleep, StopInv, queue
<1>4. CASE Tick
  <2>1. /\ ahead' \in Int /\ ahead' >= -MaxCost /\ behind' \in Int /\ behind' >= -MaxSkew
        /\ left' \in Nat
    BY <1>4 DEF Tick, AtLeast, TypeOK
  <2>2. TypeOK'
    BY <1>1, <1>2, <1>4, <2>1 DEF TypeOK, Tick, queue, rest
  <2>3. FloodInv'
    BY <1>4 DEF FloodInv, Tick, AtLeast, TypeOK, rest
  <2> QED
    BY <1>2, <1>3, <2>2, <2>3
<1>5. CASE SetBack
  <2>1. TypeOK'
    BY <1>1, <1>2, <1>5 DEF TypeOK, SetBack, queue
  <2>2. FloodInv'
    BY <1>5 DEF FloodInv, SetBack
  <2> QED
    BY <1>2, <1>3, <2>1, <2>2
<1>6. CASE ToggleFlood
  <2>1. TypeOK'
    BY <1>1, <1>2, <1>6 DEF TypeOK, ToggleFlood, thread, time, queue
  <2>2. FloodInv'
    BY <1>1, <1>6 DEF FloodInv, ToggleFlood, thread, time
  <2> QED
    BY <1>2, <1>3, <2>1, <2>2
<1> QED
  BY <1>4, <1>5, <1>6

LEMMA NextInv == IInv /\ [Next]_vars => IInv'
<1> SUFFICES ASSUME IInv, [Next]_vars PROVE IInv'
  OBVIOUS
<1>1. CASE UNCHANGED vars
  BY <1>1, QueueUnchanged
     DEF vars, IInv, TypeOK, FrontInv, LineAfterSleep, FloodInv, StopInv, queue,
         thread, time, rest
<1> QED
  BY <1>1, ProducerInv, ThreadInv, SendInv, OwnerInv, OutsideInv
     DEF Next, SendStep, OwnerStep
-----------------------------------------------------------------------------
(***************************************************************************)
(* The theorems.                                                           *)
(***************************************************************************)
\* The inductive invariant of the send queue, its thread and its owner.
THEOREM Invariance == Spec => []IInv
BY InitInv, NextInv, PTL DEF Spec

\* The state of irc::send_thread and its queue stays well formed; in particular the
\* sleep for flood control never lasts for a negative time.
THEOREM TypeCorrect == Spec => []TypeOK
<1>1. IInv => TypeOK
  BY DEF IInv
<1> QED
  BY <1>1, Invariance, PTL

\* Flood control in send_thread keeps the message timer at most 10 seconds and
\* one line ahead, unless the clock is set back.
THEOREM FloodBounded == Spec => []FloodBound
<1>1. IInv => FloodBound
  BY DEF IInv, FloodInv, FloodBound
<1> QED
  BY <1>1, Invariance, PTL

\* After kill_send_thread cleared send_ready, at most one line is sent.
THEOREM StopsSoon == Spec => []StopsAfterOne
<1>1. IInv => StopsAfterOne
  BY DEF IInv, StopInv, StopsAfterOne
<1> QED
  BY <1>1, Invariance, PTL

\* send_thread, which does not look again after its sleep, finds a line then.
THEOREM LineThere == Spec => []LineAfterSleep
<1>1. IInv => LineAfterSleep
  BY DEF IInv, FrontInv
<1> QED
  BY <1>1, Invariance, PTL

\* Each line that send_thread sends is the oldest one of the highest priority.
THEOREM HighestOldestSent == Spec => SendsHighestOldest
<1>1. ASSUME IInv, [Next]_vars, spc # "check", spc' = "check"
      PROVE  \E l \in ToSet(send_queue) :
               /\ ToSet(send_queue') = ToSet(send_queue) \ {l}
               /\ \A m \in ToSet(send_queue) :
                    m.prio < l.prio \/ (m.prio = l.prio /\ m.id >= l.id)
  <2>1. send_queue # <<>> /\ \E a \in Int : SendFront(a)
    <3>1. CASE SLoop
      <4>1. MessageTimer \in Int
        BY <1>1 DEF MessageTimer, IInv, TypeOK
      <4> QED
        BY <1>1, <3>1, <4>1 DEF SLoop
    <3>2. CASE SRelock
      BY <1>1, <3>2 DEF SRelock, IInv, TypeOK, FrontInv, LineAfterSleep
    <3> QED
      BY <1>1, <3>1, <3>2
         DEF Next, SendStep, OwnerStep, vars, thread, Submit, Push, Signalled, SStart,
             SWait, SWoken, SSleep, SCheck, SOut, Create, Created, KillFlag,
             KillSignal, Joined, Tick, SetBack, ToggleFlood
  <2> QED
    BY <1>1, <2>1, SendFrontOrder
<1>2. IInv /\ [Next]_vars =>
        [spc # "check" /\ spc' = "check" =>
          \E l \in ToSet(send_queue) :
            /\ ToSet(send_queue') = ToSet(send_queue) \ {l}
            /\ \A m \in ToSet(send_queue) :
                 m.prio < l.prio \/ (m.prio = l.prio /\ m.id >= l.id)]_vars
  BY <1>1
<1> QED
  BY <1>2, Invariance, PTL DEF Spec, SendsHighestOldest
=============================================================================
