------------------------------ MODULE SendQueue ------------------------------
(***************************************************************************)
(* The send queue of an IRC connection (irc.cpp): add_to_send_queue,       *)
(* the send thread with its flood control, and create_send_thread and      *)
(* kill_send_thread, which irc::connect and irc::disconnect call.          *)
(*                                                                         *)
(* Time is counted in seconds, and only the differences to the clock are   *)
(* kept: ahead is next_send - now, behind is prev_now - now, left what is  *)
(* left of a sleep.  Each is kept above a floor below which the code       *)
(* cannot tell two values apart.  A line is a priority and the seconds its *)
(* length costs: 2 + len / 120.                                            *)
(***************************************************************************)
EXTENDS Integers, Sequences, FiniteSets, SequencesExt

CONSTANTS Prios,       \* priorities of the lines
          Costs,       \* what a line adds to next_send
          MaxCost,     \* the cost of the longest line
          MaxLines,    \* bound: lines produced in a behaviour
          MaxConnects, \* bound: how often the connection is made
          MaxSkew      \* bound: how far the clock is set back, once

ASSUME SendAssumption ==
  /\ Prios \subseteq Int
  /\ MaxCost \in Nat /\ Costs \subseteq 1..MaxCost
  /\ MaxLines \in Nat /\ MaxConnects \in Nat /\ MaxSkew \in Nat

Line == [prio : Prios, cost : Costs, id : 1..MaxLines]

VARIABLES
  send_queue, sendq_added, send_ready,
  enable_flood_protection,
  send_mutex,  \* whether the send thread holds it
  spc,         \* where the send thread is
  ahead,       \* next_send - now, at least -MaxCost
  behind,      \* prev_now - now, at least -MaxSkew
  left,        \* the seconds its sleep still lasts
  waiting,     \* lines whose sender waits for send_mutex
  opc,         \* the thread that connects and disconnects
  connects, lines, skewed,
  pushed,      \* lines pushed so far: the id of a line in the queue
  afterkill    \* history: lines sent since kill_send_thread began

time == <<ahead, behind, left>>
thread == <<spc, time>>
queue == <<send_queue, sendq_added, pushed>>
rest == <<enable_flood_protection, opc, connects, skewed>>
vars == <<queue, send_ready, send_mutex, thread, waiting, lines, afterkill, rest>>

TypeOK ==
  /\ send_queue \in Seq(Line)
  /\ waiting \subseteq Line
  /\ sendq_added \in BOOLEAN /\ send_ready \in BOOLEAN /\ send_mutex \in BOOLEAN
  /\ enable_flood_protection \in BOOLEAN /\ skewed \in BOOLEAN
  /\ spc \in {"none", "start", "gowait", "wait", "woken", "loop", "sleep", "relock",
              "check", "out", "exited"}
  /\ opc \in {"down", "starting", "up", "killing", "joining"}
  /\ left \in Nat /\ afterkill \in Nat
  /\ lines \in Nat /\ pushed \in Nat /\ connects \in Nat
  /\ ahead \in Int /\ behind \in Int /\ ahead >= -MaxCost /\ behind >= -MaxSkew

Init ==
  /\ send_queue = <<>> /\ sendq_added = FALSE /\ send_ready = FALSE
  /\ enable_flood_protection = TRUE
  /\ send_mutex = FALSE
  /\ spc = "none" /\ ahead = -MaxCost /\ behind = -MaxSkew /\ left = 0
  /\ waiting = {} /\ lines = 0 /\ pushed = 0
  /\ opc = "down" /\ connects = 0 /\ skewed = FALSE
  /\ afterkill = 0

(***************************************************************************)
(* add_to_send_queue.                                                      *)
(***************************************************************************)
\* The flood protection flag is read before the mutex is locked; without it the
\* line goes to the socket at once.
Submit ==
  /\ lines < MaxLines /\ connects > 0
  /\ lines' = lines + 1
  /\ IF enable_flood_protection
       THEN \E p \in Prios, c \in Costs :
              waiting' = waiting \cup {[prio |-> p, cost |-> c, id |-> lines + 1]}
       ELSE UNCHANGED waiting
  /\ UNCHANGED <<queue, send_ready, send_mutex, thread, afterkill, rest>>

\* pthread_cond_signal.
Signalled == IF spc = "wait" THEN "woken" ELSE spc

\* Lock, push_back, sendq_added = true, signal, unlock.
Push ==
  /\ ~send_mutex
  /\ \E l \in waiting : /\ send_queue' = Append(send_queue, [l EXCEPT !.id = pushed + 1])
                        /\ waiting' = waiting \ {l}
  /\ pushed' = pushed + 1
  /\ sendq_added' = TRUE
  /\ spc' = Signalled
  /\ UNCHANGED <<send_ready, send_mutex, time, lines, afterkill, rest>>

(***************************************************************************)
(* send_thread.                                                            *)
(***************************************************************************)
SStart ==
  /\ spc = "start" /\ ~send_mutex
  /\ send_mutex' = TRUE
  /\ send_ready' = TRUE
  /\ ahead' = -MaxCost /\ behind' = -MaxSkew
  /\ spc' = "gowait"
  /\ UNCHANGED <<queue, left, waiting, lines, afterkill, rest>>

\* pthread_cond_wait releases the mutex, and may return unsignalled.
SWait ==
  /\ \/ spc = "gowait" /\ send_mutex' = FALSE /\ spc' = "wait"
     \/ spc = "wait" /\ spc' = "woken" /\ UNCHANGED send_mutex
  /\ UNCHANGED <<queue, send_ready, time, waiting, lines, afterkill, rest>>

\* It returns with the mutex; if(send_ready == false) goto out.
SWoken ==
  /\ spc = "woken" /\ ~send_mutex
  /\ send_mutex' = TRUE
  /\ spc' = IF send_ready THEN "loop" ELSE "out"
  /\ UNCHANGED <<queue, send_ready, time, waiting, lines, afterkill, rest>>

\* sendq_priority_comparator
Precedes(l, m) == l.prio > m.prio

\* Mutant of Sorted: std::sort may put a line before the older ones of its
\* priority.
Sorted_unstable(q) ==
  {[i \in DOMAIN q |-> q[f[i]]] :
     f \in {g \in [DOMAIN q -> DOMAIN q] :
             /\ ToSet(g) = DOMAIN q
             /\ \A i, j \in DOMAIN q : i < j => ~Precedes(q[g[j]], q[g[i]])}}

\* std::stable_sort: g[i] is where the i-th line of the outcome was.  Of two lines
\* the first precedes the second, or neither precedes and they keep their order.
StableOrders(q) ==
  {g \in [DOMAIN q -> DOMAIN q] :
     /\ ToSet(g) = DOMAIN q
     /\ \A i, j \in DOMAIN q : i < j =>
          \/ Precedes(q[g[i]], q[g[j]])
          \/ ~Precedes(q[g[j]], q[g[i]]) /\ g[i] < g[j]}
Sorted(q) == {[i \in DOMAIN q |-> q[g[i]]] : g \in StableOrders(q)}

\* Sort if lines were added, send the front, pay for it, pop it; a is the value
\* of next_send - now.
SendFront(a) ==
  \E q \in IF sendq_added THEN Sorted(send_queue) ELSE {send_queue} :
    /\ send_queue' = Tail(q)
    /\ sendq_added' = FALSE
    /\ UNCHANGED pushed
    /\ ahead' = a + Head(q).cost
    /\ behind' = 0
    /\ afterkill' = IF send_ready THEN 0 ELSE afterkill + 1
    /\ spc' = "check"

\* The message timer is set to the time if it is behind, or protection is off.
MessageTimer == IF ~enable_flood_protection \/ ahead < 0 THEN 0 ELSE ahead

\* Mutants: the thread does not sleep; it subtracts more than it has compared with.
SleepTime_none == 0
SleepTime_less == MessageTimer - 12

\* How long the thread sleeps when the timer is 10 seconds ahead or more.
SleepTime == MessageTimer - 10

\* One round of the inner loop up to the send, or up to the sleep, for which
\* the mutex is released.  A clock that was set back resets the timer.
SLoop ==
  /\ spc = "loop"
  /\ \/ /\ send_queue = <<>>
        /\ spc' = "gowait"
        /\ UNCHANGED <<queue, send_mutex, time, afterkill>>
     \/ /\ send_queue # <<>>
        /\ MessageTimer < 10
        /\ SendFront(MessageTimer)
        /\ UNCHANGED <<send_mutex, left>>
     \/ /\ send_queue # <<>>
        /\ MessageTimer >= 10 /\ behind > 0
        /\ SendFront(0)
        /\ UNCHANGED <<send_mutex, left>>
     \/ /\ send_queue # <<>>
        /\ MessageTimer >= 10 /\ behind <= 0
        /\ left' = SleepTime
        /\ send_mutex' = FALSE
        /\ spc' = "sleep"
        /\ UNCHANGED <<queue, ahead, behind, afterkill>>
  /\ UNCHANGED <<send_ready, waiting, lines, rest>>

SSleep ==
  /\ spc = "sleep" /\ left = 0
  /\ spc' = "relock"
  /\ UNCHANGED <<queue, send_ready, send_mutex, time, waiting, lines,
                 afterkill, rest>>

\* After the sleep: lock, read the time, send; nothing is tested again.
SRelock ==
  /\ spc = "relock" /\ ~send_mutex
  /\ send_mutex' = TRUE
  /\ SendFront(ahead)
  /\ UNCHANGED <<send_ready, left, waiting, lines, rest>>

\* Mutants: the flag is not tested after a line; only one line is sent per signal.
SCheck_loop ==
  /\ spc = "check"
  /\ spc' = "loop"
  /\ UNCHANGED <<queue, send_ready, send_mutex, time, waiting, lines,
                 afterkill, rest>>
SCheck_single ==
  /\ spc = "check"
  /\ spc' = IF send_ready THEN "gowait" ELSE "out"
  /\ UNCHANGED <<queue, send_ready, send_mutex, time, waiting, lines,
                 afterkill, rest>>

\* if(send_ready == false) goto out, after every line.
SCheck ==
  /\ spc = "check"
  /\ spc' = IF send_ready THEN "loop" ELSE "out"
  /\ UNCHANGED <<queue, send_ready, send_mutex, time, waiting, lines,
                 afterkill, rest>>

SOut ==
  /\ spc = "out"
  /\ send_ready' = FALSE
  /\ send_mutex' = FALSE
  /\ spc' = "exited"
  /\ UNCHANGED <<queue, time, waiting, lines, afterkill, rest>>

(***************************************************************************)
(* irc::connect and irc::disconnect, as far as sending is concerned.       *)
(***************************************************************************)
\* create_send_thread: new mutex, empty queue, new thread.
Create ==
  /\ opc = "down" /\ connects < MaxConnects
  /\ connects' = connects + 1
  /\ send_queue' = <<>> /\ sendq_added' = FALSE
  /\ UNCHANGED pushed
  /\ send_mutex' = FALSE
  /\ spc' = "start"
  /\ opc' = "starting"
  /\ afterkill' = 0
  /\ UNCHANGED <<send_ready, time, waiting, lines,
                 enable_flood_protection, skewed>>

\* while(send_ready == false) usleep(50);
Created ==
  /\ opc = "starting" /\ send_ready
  /\ opc' = "up"
  /\ UNCHANGED <<queue, send_ready, send_mutex, thread, waiting, lines, afterkill,
                 enable_flood_protection, connects, skewed>>

\* kill_send_thread: send_ready = false and the signal, both without the mutex.
KillFlag ==
  /\ opc = "up"
  /\ send_ready' = FALSE
  /\ opc' = "killing"
  /\ UNCHANGED <<queue, send_mutex, thread, waiting, lines, afterkill,
                 enable_flood_protection, connects, skewed>>

KillSignal ==
  /\ opc = "killing"
  /\ spc' = Signalled
  /\ opc' = "joining"
  /\ UNCHANGED <<queue, send_ready, send_mutex, time, waiting, lines,
                 afterkill, enable_flood_protection, connects, skewed>>

\* Mutant: the thread is detached, and the queue cleared at once.
Joined_detached ==
  /\ opc = "joining"
  /\ send_queue' = <<>> /\ sendq_added' = FALSE
  /\ UNCHANGED pushed
  /\ opc' = "down"
  /\ UNCHANGED <<send_ready, send_mutex, thread, waiting, lines, afterkill,
                 enable_flood_protection, connects, skewed>>

\* pthread_join returns; what is left in the queue is dropped.
Joined ==
  /\ opc = "joining" /\ spc = "exited"
  /\ spc' = "none"
  /\ send_queue' = <<>> /\ sendq_added' = FALSE
  /\ UNCHANGED pushed
  /\ opc' = "down"
  /\ UNCHANGED <<send_ready, send_mutex, time, waiting, lines, afterkill,
                 enable_flood_protection, connects, skewed>>

(***************************************************************************)
(* The environment: the clock and the administrator.                       *)
(***************************************************************************)
AtLeast(m, n) == IF n < m THEN m ELSE n

\* A second passes.
Tick ==
  /\ ahead' = AtLeast(-MaxCost, ahead - 1)
  /\ behind' = AtLeast(-MaxSkew, behind - 1)
  /\ left' = AtLeast(0, left - 1)
  /\ UNCHANGED <<queue, send_ready, send_mutex, spc, waiting, lines, afterkill, rest>>

\* The clock is set back k seconds; a sleep does not last longer for that.
SetBack ==
  /\ ~skewed
  /\ skewed' = TRUE
  /\ \E k \in 1..MaxSkew : ahead' = ahead + k /\ behind' = behind + k
  /\ UNCHANGED <<queue, send_ready, send_mutex, spc, left, waiting, lines, afterkill,
                 enable_flood_protection, opc, connects>>

\* The command that changes enable_flood_protection (mod_admin.cpp).
ToggleFlood ==
  /\ enable_flood_protection' = ~enable_flood_protection
  /\ UNCHANGED <<queue, send_ready, send_mutex, thread, waiting, lines, afterkill, opc,
                 connects, skewed>>

SendStep == SWoken \/ SLoop \/ SSleep \/ SRelock \/ SCheck \/ SOut \/ SStart
OwnerStep == Created \/ KillSignal \/ Joined

Next ==
  \/ Submit \/ Push
  \/ SendStep \/ SWait
  \/ Create \/ KillFlag \/ OwnerStep
  \/ Tick \/ SetBack \/ ToggleFlood

Spec == Init /\ [][Next]_vars

\* The scheduler runs the send thread and the owner, and time passes.  Nothing
\* makes lines come, the flag change, the connection end, or pthread_cond_wait
\* return unsignalled.
Fairness ==
  /\ WF_vars(SendStep) /\ SF_vars(SWoken \/ SRelock)
  /\ WF_vars(spc = "gowait" /\ SWait)
  /\ WF_vars(OwnerStep) /\ WF_vars(Tick)

FairSpec == Spec /\ Fairness

(***************************************************************************)
(* Properties.                                                             *)
(***************************************************************************)
\* Every line the send thread sends is one of the highest priority in the queue
\* and, of these, the oldest, whatever was added while the thread slept.  (The
\* queue is sorted only when sendq_added says so, and never while it grows.)
SendsHighestOldest ==
  [][spc # "check" /\ spc' = "check" =>
       \E l \in ToSet(send_queue) :
         /\ ToSet(send_queue') = ToSet(send_queue) \ {l}
         /\ \A m \in ToSet(send_queue) :
              m.prio < l.prio \/ (m.prio = l.prio /\ m.id >= l.id)]_vars

\* Flood control: as long as the clock is not set back, the message timer is
\* never further ahead of the time than 10 seconds and the cost of one line.
FloodBound ==
  ~skewed => ahead <= 10 + MaxCost

\* After kill_send_thread has cleared send_ready at most one line is still sent.
StopsAfterOne == afterkill <= 1

\* The thread finds a line when it comes back from its sleep: nobody else takes
\* lines from the queue, and it is cleared only after the thread has ended.
LineAfterSleep == spc \in {"sleep", "relock"} => send_queue # <<>>

\* A line of higher priority was queued after l and is still ahead of it.
Overtaken(l) == \E m \in ToSet(send_queue) : m.prio > l.prio /\ m.id > l.id

\* Once the send thread is up and has been woken, a line in the queue is sent, or
\* the connection goes down, or a line of higher priority is queued while it
\* waits: neither flood control, nor lines of its own or of lower priority, nor
\* those that were there before it keep it for ever.  (Lines of higher priority
\* that never cease to come do.  And a line pushed before the first wait stays
\* until the next one is pushed: send_thread waits without testing the queue.)
LinesSent ==
  \A n \in 1..MaxLines :
    (/\ opc = "up" /\ spc \notin {"start", "gowait", "wait"}
     /\ \E l \in ToSet(send_queue) : l.id = n)
      ~> (opc # "up" \/ \A l \in ToSet(send_queue) : l.id = n => Overtaken(l))

\* kill_send_thread returns if the thread has lines left to send when the flag
\* is cleared and signalled.  (A thread that has tested send_ready and goes back
\* to its wait misses the signal, and the join then lasts for ever.)
KillReturns ==
  opc = "joining" /\ send_queue # <<>> /\ spc \notin {"start", "gowait", "wait"}
    ~> opc = "down"
=============================================================================
