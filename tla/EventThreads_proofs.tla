------------------------- MODULE EventThreads_proofs -------------------------
(***************************************************************************)
(* Proofs about EventThreads: type correctness, exclusive ownership of the *)
(* pause, and that pause_event_threads implements the recursive lock of    *)
(* module PauseLock, for any number of threads, connections and events;    *)
(* then late starts, lost wakeups and the threads that remain.             *)
(***************************************************************************)
EXTENDS EventThreads, SequenceTheorems, TLAPS

(***************************************************************************)
(* The inductive invariant.                                                *)
(***************************************************************************)
\* The queue: whoever is between lock and unlock holds the mutex, so that the
\* queue a thread found nonempty is still nonempty when it pops.
QueueInv ==
  /\ \A t \in EvThreads : pc[t] \in Locked => event_queue_mutex = t
  /\ \A c \in Conns : cpc[c] = "purge" => event_queue_mutex = c
  /\ \A t \in EvThreads : pc[t] = "take" => events # <<>>
  /\ \A t \in EvThreads : pc[t] = "handler" => evdata[t] \in Event

\* th has raised the level to 1 and waits for the running threads.
Waits(th) == cpc[th] \in {"ptimer", "pscan"}

\* The pause: depth[th] counts the pauses th has outstanding, and the level is
\* the count of its owner, or 1 while the owner still waits.
PauseInv ==
  /\ \A th \in Callers : cpc[th] \in {"ptimer", "pscan", "utimer", "uscan"}
                         <=> fxn_lock = th
  /\ pause_level > 0 => lock_owner \in Callers
  /\ \A th \in Callers : Waits(th) =>
       lock_owner = th /\ pause_level = 1 /\ depth[th] = 0
  /\ \A th \in Callers : depth[th] > 0 =>
       lock_owner = th /\ depth[th] = pause_level
  /\ \A th \in Callers : HoldsPause(th) => depth[th] > 0
  /\ \A th \in Callers : cpc[th] \in {"idle", "done", "gone"} => depth[th] = 0
  /\ \A th \in Callers : cpc[th] \in {"utimer", "uscan"} => depth[th] = pause_level
  /\ \A th \in Callers : pause_level > 0 /\ lock_owner = th =>
       depth[th] = pause_level \/ Waits(th)

\* Shutdown: only event threads inside a handler call anything, every thread
\* that exists is in the list, and kill_event_threads resets the pause only
\* after the last of them is gone.
ShutInv ==
  /\ \A t \in EvThreads : cpc[t] # "idle" => pc[t] = "handler"
  /\ \A t \in EvThreads : pc[t] # "none" =>
       \E i \in 1..Len(event_threads) : event_threads[i] = t
  /\ job[Main] \in {"none", "killall"}
  /\ job[Main] = "killall" => conns = {}
  /\ \A th \in Callers : job[th] = "killall" => th = Main
  /\ \A c \in Conns : c \notin conns => cpc[c] = "gone"
  /\ job[Main] = "killall" /\ cpc[Main] \in {"unpause", "utimer", "uscan", "done"}
       => event_threads = <<>>

IInv == TypeOK /\ QueueInv /\ PauseInv /\ ShutInv

(***************************************************************************)
(* Lemmas.                                                                 *)
(***************************************************************************)
\* The initial state of ircbot after initialize and run satisfies the
\* inductive invariant.
LEMMA InitInv == Init => IInv
<1> SUFFICES ASSUME Init PROVE IInv
  OBVIOUS
<1> USE DEF Init, Callers, Workers
<1>1. TypeOK
  <2>1. kill_on \in [Workers -> BOOLEAN] /\ awoken \in BOOLEAN
    OBVIOUS
  <2>2. produced \in 0..MaxEvents
    BY BoundAssumption
  <2> QED BY <2>1, <2>2, ThreadAssumption
          DEF TypeOK, QueueTypeOK, WorkerTypeOK, FlagTypeOK, PauseTypeOK, ListTypeOK,
              JobTypeOK, PcSet, Locked, States, Jobs, CallPcs
<1>2. QueueInv
  BY ThreadAssumption DEF QueueInv, Locked
<1>3. PauseInv
  BY ThreadAssumption DEF PauseInv, Waits, HoldsPause
<1>4. ShutInv
  BY ThreadAssumption DEF ShutInv, ToSet
<1> QED BY <1>1, <1>2, <1>3, <1>4 DEF IInv

\* The pause part of the invariant depends only on the callers' program
\* counters and the variables of pause_event_threads.
LEMMA PauseFrame ==
  ASSUME PauseInv, UNCHANGED <<pVars, cpc, depth>>
  PROVE  PauseInv'
BY DEF PauseInv, pVars, Waits, HoldsPause

\* A group of variables that a step leaves alone keeps its types.
LEMMA TypeFrame ==
  ASSUME TypeOK
  PROVE  /\ UNCHANGED qVars => QueueTypeOK'
         /\ UNCHANGED wVars => WorkerTypeOK' /\ FlagTypeOK'
         /\ UNCHANGED <<kill_on, awoken>> => FlagTypeOK'
         /\ UNCHANGED pVars => PauseTypeOK'
         /\ UNCHANGED <<lVars, conns>> => ListTypeOK'
         /\ UNCHANGED jVars => JobTypeOK'
<1>1. UNCHANGED qVars => QueueTypeOK'
  BY DEF TypeOK, QueueTypeOK, qVars
<1>2. UNCHANGED wVars => WorkerTypeOK'
  BY DEF TypeOK, WorkerTypeOK, wVars
<1>3. UNCHANGED <<kill_on, awoken>> => FlagTypeOK'
  BY DEF TypeOK, FlagTypeOK
<1>4. UNCHANGED pVars => PauseTypeOK'
  BY DEF TypeOK, PauseTypeOK, pVars
<1>5. UNCHANGED <<lVars, conns>> => ListTypeOK'
  BY DEF TypeOK, ListTypeOK, lVars
<1>6. UNCHANGED jVars => JobTypeOK'
  BY DEF TypeOK, JobTypeOK, jVars
<1>7. UNCHANGED wVars => UNCHANGED <<kill_on, awoken>>
  BY DEF wVars
<1> QED BY <1>1, <1>2, <1>3, <1>4, <1>5, <1>6, <1>7

\* q is p with some waiting threads woken.
Woke(p, q) ==
  /\ q \in [Workers -> PcSet]
  /\ \A w \in Workers : q[w] = p[w] \/ (p[w] = "wait" /\ q[w] = "woken")

\* pthread_cond_signal wakes waiting threads and touches no other.
LEMMA SignalWakes ==
  ASSUME NEW p \in [Workers -> PcSet], NEW q \in Signal(p)
  PROVE  Woke(p, q)
<1>1. CASE {t \in EvThreads : p[t] = "wait"} = {}
  <2>1. Signal(p) = {p}
    BY <1>1 DEF Signal
  <2> QED BY <2>1 DEF Woke
<1>2. CASE {t \in EvThreads : p[t] = "wait"} # {}
  <2>1. PICK t \in EvThreads : p[t] = "wait" /\ q = [p EXCEPT ![t] = "woken"]
    BY <1>2 DEF Signal
  <2>2. "woken" \in PcSet /\ t \in Workers
    BY DEF PcSet, Workers
  <2> QED BY <2>1, <2>2 DEF Woke
<1> QED BY <1>1, <1>2

\* Waking threads of p disturbs none of the invariants on program counters.
LEMMA WokeInv ==
  ASSUME IInv, Woke(pc, pc'),
         event_queue_mutex' = event_queue_mutex, cpc' = cpc, evdata' = evdata,
         event_threads' = event_threads, job' = job, conns' = conns,
         events # <<>> => events' # <<>>
  PROVE  QueueInv' /\ ShutInv'
<1> USE DEF Woke, Workers
<1>1. QueueInv'
  BY DEF IInv, TypeOK, WorkerTypeOK, QueueInv, Locked
<1>2. ShutInv'
  BY DEF IInv, ShutInv
<1> QED BY <1>1, <1>2

\* add_to_event_queue preserves the invariant.
LEMMA EnqueueInv ==
  ASSUME IInv, NEW c \in Conns, NEW kind \in {"msg", "DISCONNECTED"},
         add_to_event_queue(c, kind)
  PROVE  IInv'
<1>1. Woke(pc, pc')
  BY SignalWakes DEF add_to_event_queue, IInv, TypeOK, WorkerTypeOK
<1>2. events' \in Seq(Event) /\ events' # <<>>
  <2>1. [conn |-> c, kind |-> kind] \in Event
    BY DEF Event
  <2> QED BY <2>1, AppendProperties DEF add_to_event_queue, IInv, TypeOK, QueueTypeOK
<1>3. TypeOK'
  <2>1. QueueTypeOK'
    BY <1>2, BoundAssumption DEF add_to_event_queue, IInv, TypeOK, QueueTypeOK
  <2>2. WorkerTypeOK'
    BY <1>1 DEF add_to_event_queue, IInv, TypeOK, WorkerTypeOK, Woke
  <2>3. FlagTypeOK' /\ PauseTypeOK' /\ ListTypeOK' /\ JobTypeOK'
    BY TypeFrame DEF add_to_event_queue, IInv
  <2> QED BY <2>1, <2>2, <2>3 DEF TypeOK
<1>4. QueueInv' /\ ShutInv'
  BY <1>1, <1>2, WokeInv DEF add_to_event_queue, lVars, jVars
<1>5. PauseInv'
  BY PauseFrame DEF IInv, add_to_event_queue, jVars
<1> QED BY <1>3, <1>4, <1>5 DEF IInv

\* One event thread moves on: the lists and the callers' counters do not.
LEMMA ShutMove ==
  ASSUME IInv, NEW t \in EvThreads, NEW l \in PcSet,
         pc' = [pc EXCEPT ![t] = l], pc[t] # "none", pc[t] # "handler",
         UNCHANGED <<event_threads, cpc, job, conns>>
  PROVE  ShutInv'
<1>1. cpc[t] = "idle"
  BY DEF IInv, ShutInv
<1>2. \A u \in EvThreads : u # t => pc'[u] = pc[u]
  BY DEF IInv, TypeOK, WorkerTypeOK
<1> QED BY <1>1, <1>2 DEF IInv, ShutInv

\* A step of event_thread that wakes no other thread and ends no handler.  It
\* may take the free mutex or release it, but holds it at every Locked place.
LEMMA EvMoveInv ==
  ASSUME IInv, NEW t \in EvThreads, NEW l \in PcSet,
         pc' = [pc EXCEPT ![t] = l], pc[t] # "none", pc[t] # "handler",
         event_queue_mutex' \in {event_queue_mutex, t, NoThread},
         event_queue_mutex' # event_queue_mutex => event_queue_mutex \in {t, NoThread},
         l \in Locked => event_queue_mutex' = t,
         l = "take" => events' # <<>>,
         l = "handler" => evdata'[t] \in Event,
         events' = events \/ event_queue_mutex = t,
         events' \in Seq(Event),
         evdata' \in [EvThreads -> Event \cup {NoEvent}],
         \A u \in EvThreads : u # t => evdata'[u] = evdata[u],
         state' \in [Workers -> States], started' \in [Workers -> 0..2],
         FlagTypeOK',
         UNCHANGED <<produced, pVars, lVars, jVars, conns>>
  PROVE  IInv'
<1>1. t \in Workers /\ t # NoThread /\ pc \in [Workers -> PcSet]
  BY ThreadAssumption DEF Workers, Callers, IInv, TypeOK, WorkerTypeOK
<1>2. QueueTypeOK'
  BY DEF IInv, TypeOK, QueueTypeOK
<1>3. WorkerTypeOK'
  BY <1>1 DEF WorkerTypeOK
<1>4. PauseTypeOK' /\ ListTypeOK' /\ JobTypeOK'
  BY TypeFrame DEF IInv
<1>5. QueueInv'
  <2>1. \A u \in EvThreads : u # t => u \in Workers /\ pc'[u] = pc[u] /\ u # NoThread
    BY <1>1, ThreadAssumption DEF Workers, Callers
  <2>2. pc'[t] = l
    BY <1>1
  <2>3. \A c \in Conns : c # t /\ c # NoThread
    BY ThreadAssumption DEF Callers
  <2>4. cpc' = cpc
    BY DEF jVars
  <2> QED BY <1>1, <2>1, <2>2, <2>3, <2>4 DEF IInv, QueueInv, Locked
<1>6. ShutInv'
  BY ShutMove DEF lVars, jVars
<1>7. PauseInv'
  BY PauseFrame DEF IInv, jVars
<1> QED BY <1>2, <1>3, <1>4, <1>5, <1>6, <1>7 DEF IInv, TypeOK

\* Every step of ircbot::event_thread that neither wakes another thread nor ends
\* a handler preserves the invariant.
LEMMA EvStepInv ==
  ASSUME IInv, NEW t \in EvThreads,
         \/ EvStart(t) \/ EvWait(t) \/ EvSpurious(t) \/ EvWoken(t) \/ EvTop(t)
         \/ EvPause(t) \/ EvSpin(t) \/ EvRelock(t) \/ EvTake(t) \/ EvFinish(t)
  PROVE  IInv'
<1> USE DEF Goto, SetState
<1>0. /\ t \in Workers
      /\ events \in Seq(Event)
      /\ state \in [Workers -> States]
      /\ evdata \in [EvThreads -> Event \cup {NoEvent}]
      /\ started \in [Workers -> 0..2]
      /\ pc[t] \in Locked => event_queue_mutex = t
      /\ {"WAITING", "PAUSED", "RUNNING"} \subseteq States
      /\ Locked \subseteq PcSet
      /\ {"wait", "woken", "spin", "relock", "handler", "exiting"} \subseteq PcSet \ Locked
  BY DEF Workers, IInv, TypeOK, QueueTypeOK, WorkerTypeOK, QueueInv, States, PcSet, Locked
<1>F. FlagTypeOK'
  BY DEF IInv, TypeOK, FlagTypeOK, EvStart, EvWait, EvSpurious, EvWoken, EvTop, EvPause,
         EvSpin, EvRelock, EvTake, EvFinish
<1> HIDE DEF FlagTypeOK
<1>1. CASE EvStart(t)
  BY <1>0, <1>F, <1>1, EvMoveInv DEF EvStart, Locked, qVars
<1>2. CASE EvWait(t)
  BY <1>0, <1>F, <1>2, EvMoveInv DEF EvWait, Locked, qVars
<1>3. CASE EvSpurious(t)
  BY <1>0, <1>F, <1>3, EvMoveInv DEF EvSpurious, Locked, qVars
<1>4. CASE EvPause(t)
  BY <1>0, <1>F, <1>4, EvMoveInv DEF EvPause, Locked, qVars
<1>5. CASE EvWoken(t)
  <2>1. PICK l \in {"exitlocked", "top"} : pc' = [pc EXCEPT ![t] = l]
    BY <1>5 DEF EvWoken
  <2> QED BY <1>0, <1>F, <1>5, <2>1, EvMoveInv DEF EvWoken, Locked
<1>6. CASE EvTop(t)
  <2>1. PICK l \in {"gowait", "pausing", "take"} :
               pc' = [pc EXCEPT ![t] = l] /\ (l = "take" => events # <<>>)
    BY <1>6 DEF EvTop
  <2> QED BY <1>0, <1>F, <1>6, <2>1, EvMoveInv DEF EvTop, Locked, qVars
<1>7. CASE EvSpin(t)
  <2>1. PICK l \in {"exiting", "relock"} : pc' = [pc EXCEPT ![t] = l]
    BY <1>7 DEF EvSpin
  <2> QED BY <1>0, <1>F, <1>7, <2>1, EvMoveInv DEF EvSpin, Locked, qVars
<1>8. CASE EvRelock(t)
  <2>1. PICK l \in {"gowait", "take"} :
               pc' = [pc EXCEPT ![t] = l] /\ (l = "take" => events # <<>>)
    BY <1>8 DEF EvRelock
  <2>2. state' \in [Workers -> States]
    BY <1>0, <1>8 DEF EvRelock
  <2> QED BY <1>0, <1>F, <1>8, <2>1, <2>2, EvMoveInv DEF EvRelock, Locked
<1>9. CASE EvTake(t)
  <2>1. events # <<>>
    BY <1>9 DEF EvTake, IInv, QueueInv
  <2>2. Head(events) \in Event /\ Tail(events) \in Seq(Event)
    BY <1>0, <2>1, HeadTailProperties
  <2>3. started' \in [Workers -> 0..2]
    BY <1>0, <1>9 DEF EvTake, CountStart
  <2>4. PICK l \in {"handler", "skip"} :
               /\ pc' = [pc EXCEPT ![t] = l]
               /\ l = "skip" => event_queue_mutex' = event_queue_mutex
               /\ l = "handler" => event_queue_mutex' = NoThread
    BY <1>9 DEF EvTake
  <2>5. /\ evdata' \in [EvThreads -> Event \cup {NoEvent}]
        /\ evdata'[t] \in Event
        /\ \A u \in EvThreads : u # t => evdata'[u] = evdata[u]
    BY <1>0, <1>9, <2>2 DEF EvTake
  <2>6. event_queue_mutex = t /\ state' \in [Workers -> States]
    BY <1>0, <1>9 DEF EvTake, Locked
  <2>7. events' \in Seq(Event) /\ pc[t] = "take"
    BY <1>9, <2>2 DEF EvTake
  <2> QED BY <1>0, <1>F, <1>9, <2>3, <2>4, <2>5, <2>6, <2>7, EvMoveInv
          DEF EvTake, Locked
<1>10. CASE EvFinish(t)
  <2>1. PICK l \in {"exitlocked", "top"} : pc' = [pc EXCEPT ![t] = l]
    BY <1>10 DEF EvFinish
  <2>2. event_queue_mutex \in {t, NoThread} /\ pc[t] \in {"after", "skip"}
    BY <1>0, <1>10 DEF EvFinish, Locked
  <2> QED BY <1>0, <1>F, <1>10, <2>1, <2>2, EvMoveInv DEF EvFinish, Locked
<1> QED BY <1>1, <1>2, <1>3, <1>4, <1>5, <1>6, <1>7, <1>8, <1>9, <1>10

\* The places at which a caller is inside pause_event_threads.
InPause == {"ptimer", "pscan", "utimer", "uscan"}

\* A caller that moves on outside pause_event_threads keeps the pause it holds,
\* and has none outstanding when its job is over.
LEMMA PauseMove ==
  ASSUME PauseInv, JobTypeOK, NEW th \in Callers, NEW l \in CallPcs,
         cpc' = [cpc EXCEPT ![th] = l], l \notin InPause, cpc[th] \notin InPause,
         HoldsPause(th)' => HoldsPause(th) \/ depth[th] > 0,
         l \in {"idle", "done", "gone"} => depth[th] = 0,
         UNCHANGED <<pVars, depth>>
  PROVE  PauseInv'
<1>1. cpc'[th] = l /\ \A o \in Callers : o # th => cpc'[o] = cpc[o]
  BY DEF JobTypeOK
<1> QED BY <1>1 DEF PauseInv, pVars, Waits, HoldsPause, InPause

\* The return of event_cb_real preserves the invariant: a handler that called
\* for a pause returns only after its job has ended.
LEMMA HandledInv ==
  ASSUME IInv, NEW t \in EvThreads, EvHandled(t)
  PROVE  IInv'
<1> USE DEF EvHandled, Goto
<1>0. /\ t \in Workers /\ t \in Callers /\ pc \in [Workers -> PcSet]
      /\ cpc \in [Callers -> CallPcs] /\ {"after"} \subseteq PcSet \ Locked
      /\ "idle" \in CallPcs /\ \A c \in Conns : c \in Callers /\ c # t
      /\ depth[t] = 0
  BY ThreadAssumption
  DEF Workers, Callers, IInv, TypeOK, WorkerTypeOK, JobTypeOK, PcSet, Locked, CallPcs,
      PauseInv
<1>1. /\ pc'[t] = "after" /\ cpc'[t] = "idle"
      /\ \A u \in EvThreads : u # t => pc'[u] = pc[u] /\ cpc'[u] = cpc[u]
      /\ \A o \in Callers : o # t => cpc'[o] = cpc[o]
  BY <1>0 DEF Workers, Callers
<1>2. QueueTypeOK' /\ FlagTypeOK' /\ PauseTypeOK' /\ ListTypeOK'
  BY TypeFrame DEF IInv
<1>3. WorkerTypeOK'
  BY <1>0 DEF IInv, TypeOK, WorkerTypeOK
<1>4. JobTypeOK'
  BY <1>0 DEF IInv, TypeOK, JobTypeOK
<1>5. QueueInv'
  BY <1>0, <1>1 DEF IInv, QueueInv, Locked, qVars
<1>6. PauseInv'
  BY <1>0, PauseMove DEF IInv, TypeOK, InPause, HoldsPause
<1>7. ShutInv'
  <2>1. \A c \in Conns : cpc'[c] = cpc[c]
    BY <1>0, <1>1
  <2>2. Main \in Callers /\ Main # t /\ cpc'[Main] = cpc[Main]
    BY <1>1, ThreadAssumption DEF Callers
  <2> QED BY <1>1, <2>1, <2>2 DEF IInv, ShutInv, lVars
<1> QED BY <1>2, <1>3, <1>4, <1>5, <1>6, <1>7 DEF IInv, TypeOK

\* The exit of an event thread, which signals twice and releases the mutex only
\* if it holds it, preserves the invariant.
LEMMA ExitInv ==
  ASSUME IInv, NEW t \in EvThreads, EvExit(t)
  PROVE  IInv'
<1> DEFINE p == [pc EXCEPT ![t] = "exited"]
<1> USE DEF event_thread_cleanup, UnlockIfOwned
<1>0. /\ t \in Workers /\ t # NoThread /\ pc \in [Workers -> PcSet]
      /\ p \in [Workers -> PcSet] /\ "IDLE" \in States
      /\ EvThreads \subseteq Workers /\ \A c \in Conns : c # t
  BY ThreadAssumption DEF Workers, Callers, IInv, TypeOK, WorkerTypeOK, PcSet, States
<1>1. Woke(p, pc')
  <2>1. PICK q \in Signal(p) : pc' \in Signal(q)
    BY DEF EvExit
  <2>2. Woke(p, q)
    BY <1>0, <2>1, SignalWakes
  <2>3. Woke(q, pc')
    BY <2>1, <2>2, SignalWakes DEF Woke
  <2> QED BY <2>2, <2>3 DEF Woke
<1>2. /\ pc'[t] = "exited" /\ pc' \in [Workers -> PcSet]
      /\ \A u \in EvThreads : u # t => pc'[u] = pc[u] \/ (pc[u] = "wait" /\ pc'[u] = "woken")
  BY <1>0, <1>1 DEF Woke
<1>3. QueueTypeOK'
  BY DEF IInv, TypeOK, QueueTypeOK, EvExit
<1>4. WorkerTypeOK'
  BY <1>0, <1>2 DEF IInv, TypeOK, WorkerTypeOK, EvExit, SetState
<1>5. FlagTypeOK' /\ PauseTypeOK' /\ ListTypeOK' /\ JobTypeOK'
  BY TypeFrame DEF IInv, EvExit
<1>6. QueueInv'
  BY <1>0, <1>2 DEF IInv, QueueInv, EvExit, Locked, jVars
<1>7. ShutInv'
  BY <1>2 DEF IInv, ShutInv, EvExit, lVars, jVars
<1>8. PauseInv'
  BY PauseFrame DEF IInv, EvExit, jVars
<1> QED BY <1>3, <1>4, <1>5, <1>6, <1>7, <1>8 DEF IInv, TypeOK

\* The steps of timer_thread preserve the invariant.
LEMMA TimerInv ==
  ASSUME IInv, TmrStep
  PROVE  IInv'
<1> USE DEF Goto, SetState
<1>0. /\ Timer \in Workers /\ \A t \in EvThreads : t \in Workers /\ t # Timer
      /\ pc \in [Workers -> PcSet] /\ state \in [Workers -> States]
      /\ started \in [Workers -> 0..2]
  BY ThreadAssumption DEF Workers, Callers, IInv, TypeOK, WorkerTypeOK
<1>1. PICK l \in PcSet : pc' = [pc EXCEPT ![Timer] = l]
  BY DEF TmrStep, TmrTop, TmrPause, TmrSpin, TmrTake, TmrDone, PcSet, Locked
<1>2. state' \in [Workers -> States]
  BY <1>0 DEF TmrStep, TmrTop, TmrPause, TmrSpin, TmrTake, TmrDone, States
<1>3. started' \in [Workers -> 0..2]
  BY <1>0 DEF TmrStep, TmrTop, TmrPause, TmrSpin, TmrTake, TmrDone, CountStart
<1>4. TmrUnchanged
  BY DEF TmrStep, TmrTop, TmrPause, TmrSpin, TmrTake, TmrDone
<1>5. \A t \in EvThreads : pc'[t] = pc[t]
  BY <1>0, <1>1
<1>6. WorkerTypeOK'
  BY <1>0, <1>1, <1>2, <1>3, <1>4 DEF IInv, TypeOK, WorkerTypeOK, TmrUnchanged
<1>7. QueueTypeOK' /\ FlagTypeOK' /\ PauseTypeOK' /\ ListTypeOK' /\ JobTypeOK'
  BY <1>4, TypeFrame DEF IInv, TmrUnchanged
<1>8. QueueInv'
  BY <1>4, <1>5 DEF IInv, QueueInv, TmrUnchanged, qVars, jVars
<1>9. ShutInv'
  BY <1>4, <1>5 DEF IInv, ShutInv, TmrUnchanged, lVars, jVars
<1>10. PauseInv'
  BY <1>4, PauseFrame DEF IInv, TmrUnchanged, jVars
<1> QED BY <1>6, <1>7, <1>8, <1>9, <1>10 DEF IInv, TypeOK

\* A step of a caller of pause_event_threads that leaves the queue, the worker
\* threads, the list and the jobs alone.
LEMMA CallerMove ==
  ASSUME IInv, NEW th \in Callers, NEW l \in CallPcs,
         cpc' = [cpc EXCEPT ![th] = l],
         l # "purge", cpc[th] # "gone",
         cpc[th] # "idle" \/ th \notin EvThreads \/ pc[th] = "handler",
         job[th] = "killall" /\ l \in {"unpause", "utimer", "uscan", "done"}
           => event_threads = <<>>,
         UNCHANGED <<events, event_queue_mutex, pc, evdata, job, conns, event_threads>>
  PROVE  QueueInv' /\ ShutInv'
<1>0. /\ EvThreads \subseteq Callers /\ Conns \subseteq Callers /\ Main \in Callers
      /\ cpc \in [Callers -> CallPcs]
  BY DEF Callers, IInv, TypeOK, JobTypeOK
<1>1. cpc'[th] = l /\ \A o \in Callers : o # th => cpc'[o] = cpc[o]
  BY <1>0
<1>2. QueueInv'
  BY <1>0, <1>1 DEF IInv, QueueInv
<1>3. ShutInv'
  BY <1>0, <1>1 DEF IInv, ShutInv
<1> QED BY <1>2, <1>3

\* The entry of pause_event_threads(true) preserves the invariant.
LEMMA PauseTryInv ==
  ASSUME IInv, NEW th \in Callers, PauseTry(th)
  PROVE  IInv'
<1>0. /\ cpc[th] = "pause" /\ FailPc(th) \in {"pause", "unpause", "done"}
      /\ {"pause", "unpause", "done", "held", "ptimer"} \subseteq CallPcs
      /\ cpc \in [Callers -> CallPcs] /\ depth \in [Callers -> Nat]
      /\ pause_level \in Nat /\ NoThread \notin Callers
  BY ThreadAssumption
  DEF PauseTry, FailPc, CallPcs, IInv, TypeOK, PauseTypeOK, JobTypeOK, Callers
<1>1. PICK l \in {FailPc(th), "held", "ptimer"} : cpc' = [cpc EXCEPT ![th] = l]
  BY DEF PauseTry, CallGoto
<1>2. QueueTypeOK' /\ FlagTypeOK' /\ ListTypeOK'
  BY TypeFrame DEF IInv, PauseTry
<1>3. WorkerTypeOK'
  BY DEF IInv, TypeOK, WorkerTypeOK, PauseTry
<1>4. PauseTypeOK'
  BY <1>0 DEF IInv, TypeOK, PauseTypeOK, PauseTry, pVars
<1>5. JobTypeOK'
  <2>1. depth' \in [Callers -> Nat]
    BY <1>0 DEF PauseTry
  <2> QED BY <1>0, <1>1, <2>1 DEF IInv, TypeOK, JobTypeOK, PauseTry
<1>6. QueueInv' /\ ShutInv'
  <2>1. job[th] = "killall" => l \notin {"unpause", "utimer", "uscan", "done"}
    BY <1>1 DEF FailPc
  <2>2. l \in CallPcs /\ l # "purge"
    BY <1>0, <1>1
  <2> QED BY <1>0, <1>1, <2>1, <2>2, CallerMove DEF PauseTry, qVars, lVars
<1>7. PauseInv'
  <2>1. CASE cpc' = [cpc EXCEPT ![th] = FailPc(th)] /\ UNCHANGED <<pVars, depth>>
    <3>1. FailPc(th) = "done" => depth[th] = 0
      BY <1>0 DEF FailPc
    <3>2. FailPc(th) \in CallPcs
      BY <1>0
    <3>3. /\ FailPc(th) \notin InPause /\ cpc[th] \notin InPause
          /\ FailPc(th) \notin {"idle", "gone"}
      BY <1>0 DEF InPause
    <3>4. HoldsPause(th)' => depth[th] > 0
      BY <1>0, <2>1 DEF HoldsPause, FailPc
    <3> QED BY <2>1, <3>1, <3>2, <3>3, <3>4, PauseMove DEF IInv, TypeOK
  <2>2. CASE /\ fxn_lock = NoThread /\ ~OwnedByOther(th)
             /\ pause_level' = pause_level + 1 /\ pause_level + 1 >= 2
             /\ depth' = [depth EXCEPT ![th] = @ + 1]
             /\ cpc' = [cpc EXCEPT ![th] = "held"]
             /\ UNCHANGED <<lock_owner, fxn_lock>>
    <3>1. lock_owner = th /\ depth[th] = pause_level
      BY <1>0, <2>2 DEF IInv, PauseInv, OwnedByOther, Waits
    <3>2. depth'[th] = pause_level' /\ \A o \in Callers : o # th => depth'[o] = depth[o]
      BY <1>0, <2>2, <3>1
    <3>3. cpc'[th] = "held" /\ \A o \in Callers : o # th => cpc'[o] = cpc[o]
      BY <1>0, <2>2
    <3>4. \A o \in Callers : o # th => depth[o] = 0 /\ cpc[o] \notin InPause
      BY <1>0, <2>2, <3>1 DEF IInv, PauseInv, InPause
    <3> QED BY <1>0, <2>2, <3>1, <3>2, <3>3, <3>4
            DEF IInv, PauseInv, InPause, Waits, HoldsPause
  <2>3. CASE /\ fxn_lock = NoThread /\ ~OwnedByOther(th)
             /\ pause_level' = pause_level + 1 /\ ~(pause_level + 1 >= 2)
             /\ lock_owner' = th /\ fxn_lock' = th
             /\ cpc' = [cpc EXCEPT ![th] = "ptimer"]
             /\ UNCHANGED depth
    <3>1. pause_level = 0 /\ pause_level' = 1 /\ \A o \in Callers : depth[o] = 0
      BY <1>0, <2>3 DEF IInv, PauseInv
    <3>2. cpc'[th] = "ptimer" /\ \A o \in Callers : o # th => cpc'[o] = cpc[o]
      BY <1>0, <2>3
    <3>3. \A o \in Callers : o # th => cpc[o] \notin InPause /\ ~HoldsPause(o)
      BY <1>0, <2>3, <3>1 DEF IInv, PauseInv, InPause
    <3> QED BY <1>0, <2>3, <3>1, <3>2, <3>3 DEF IInv, PauseInv, InPause, Waits, HoldsPause
  <2> QED BY <2>1, <2>2, <2>3 DEF PauseTry, CallGoto
<1> QED BY <1>2, <1>3, <1>4, <1>5, <1>6, <1>7 DEF IInv, TypeOK

\* The waiting part of pause_event_threads(true) preserves the invariant,
\* whether it goes on waiting, succeeds or gives up after 15 seconds.
LEMMA PauseWaitInv ==
  ASSUME IInv, NEW th \in Callers, PauseTimer(th) \/ PauseScan(th)
  PROVE  IInv'
<1> USE DEF CallGoto
<1>0. /\ cpc[th] \in {"ptimer", "pscan"} /\ FailPc(th) \in {"pause", "done"}
      /\ {"pause", "done", "held", "pscan"} \subseteq CallPcs
      /\ cpc \in [Callers -> CallPcs] /\ depth \in [Callers -> Nat]
      /\ idx \in [Callers -> Nat]
      /\ pause_level \in Nat /\ NoThread \notin Callers
  BY ThreadAssumption
  DEF PauseTimer, PauseScan, FailPc, CallPcs, IInv, TypeOK, PauseTypeOK, JobTypeOK, Callers,
      PauseInv, Waits
<1>1. /\ lock_owner = th /\ pause_level = 1 /\ fxn_lock = th
      /\ \A o \in Callers : depth[o] = 0 /\ (o # th => cpc[o] \notin InPause)
      /\ \A o \in Callers : ~HoldsPause(o)
  BY <1>0 DEF IInv, PauseInv, Waits, InPause
<1>2. \/ cpc' = [cpc EXCEPT ![th] = "pscan"] /\ UNCHANGED <<pVars, depth>>
      \/ PauseGiveUp(th)
      \/ /\ fxn_lock' = NoThread
         /\ depth' = [depth EXCEPT ![th] = @ + 1]
         /\ cpc' = [cpc EXCEPT ![th] = "held"]
         /\ UNCHANGED <<pause_level, lock_owner>>
  BY <1>0 DEF PauseTimer, PauseScan
<1>3. QueueTypeOK' /\ WorkerTypeOK' /\ FlagTypeOK' /\ ListTypeOK'
  BY TypeFrame DEF IInv, PauseTimer, PauseScan
<1>4. PauseTypeOK'
  BY <1>0, <1>1, <1>2 DEF IInv, TypeOK, PauseTypeOK, PauseGiveUp, pVars
<1>5. JobTypeOK'
  <2>1. depth' \in [Callers -> Nat]
    BY <1>0, <1>2 DEF PauseGiveUp
  <2>2. idx' \in [Callers -> Nat]
    BY <1>0, SMTT(40) DEF PauseTimer, PauseScan
  <2>3. cpc' \in [Callers -> CallPcs]
    BY <1>0, <1>2 DEF PauseGiveUp
  <2> QED BY <2>1, <2>2, <2>3 DEF IInv, TypeOK, JobTypeOK, PauseTimer, PauseScan
<1>6. QueueInv' /\ ShutInv'
  <2>1. PICK l \in {"pscan", FailPc(th), "held"} : cpc' = [cpc EXCEPT ![th] = l]
    BY <1>2 DEF PauseGiveUp
  <2>2. job[th] = "killall" => l \notin {"unpause", "utimer", "uscan", "done"}
    BY <2>1 DEF FailPc
  <2>3. l \in CallPcs /\ l # "purge"
    BY <1>0, <2>1
  <2> QED BY <1>0, <2>1, <2>2, <2>3, CallerMove DEF PauseTimer, PauseScan, qVars, wVars, lVars
<1>7. PauseInv'
  <2>1. \A o \in Callers : o # th => cpc'[o] = cpc[o] /\ depth'[o] = depth[o]
    BY <1>0, <1>2 DEF PauseGiveUp
  <2>2. CASE cpc' = [cpc EXCEPT ![th] = "pscan"] /\ UNCHANGED <<pVars, depth>>
    BY <1>0, <1>1, <2>1, <2>2 DEF PauseInv, InPause, Waits, HoldsPause, pVars
  <2>3. CASE PauseGiveUp(th)
    BY <1>0, <1>1, <2>1, <2>3 DEF PauseInv, InPause, Waits, HoldsPause, PauseGiveUp
  <2>4. CASE /\ fxn_lock' = NoThread
             /\ depth' = [depth EXCEPT ![th] = @ + 1]
             /\ cpc' = [cpc EXCEPT ![th] = "held"]
             /\ UNCHANGED <<pause_level, lock_owner>>
    BY <1>0, <1>1, <2>1, <2>4 DEF PauseInv, InPause, Waits, HoldsPause
  <2> QED BY <1>2, <2>2, <2>3, <2>4
<1> QED BY <1>3, <1>4, <1>5, <1>6, <1>7 DEF IInv, TypeOK

\* The entry of pause_event_threads(false): whoever unpauses owns the pause, so
\* its ownership and level tests never fail, and it lowers the level by one.
LEMMA UnpauseLockInv ==
  ASSUME IInv, NEW th \in Callers, UnpauseLock(th)
  PROVE  IInv'
<1>0. /\ cpc[th] = "unpause" /\ "utimer" \in CallPcs
      /\ cpc \in [Callers -> CallPcs] /\ depth \in [Callers -> Nat]
      /\ pause_level \in Nat /\ NoThread \notin Callers
  BY ThreadAssumption DEF UnpauseLock, CallPcs, IInv, TypeOK, PauseTypeOK, JobTypeOK, Callers
<1>1. /\ lock_owner = th /\ depth[th] = pause_level /\ pause_level > 0
      /\ fxn_lock = NoThread
      /\ \A o \in Callers : o # th => depth[o] = 0 /\ cpc[o] \notin InPause
  BY <1>0 DEF IInv, PauseInv, HoldsPause, UnpauseLock, InPause
<1>2. /\ pause_level' = pause_level - 1 /\ fxn_lock' = th /\ lock_owner' = lock_owner
      /\ cpc' = [cpc EXCEPT ![th] = "utimer"]
      /\ depth' = [depth EXCEPT ![th] = depth[th] - 1]
  BY <1>0, <1>1 DEF UnpauseLock, OwnedByOther, CallGoto
<1>3. QueueTypeOK' /\ WorkerTypeOK' /\ FlagTypeOK' /\ ListTypeOK'
  BY TypeFrame DEF IInv, UnpauseLock
<1>4. PauseTypeOK'
  BY <1>0, <1>1, <1>2 DEF IInv, TypeOK, PauseTypeOK
<1>5. JobTypeOK'
  BY <1>0, <1>1, <1>2 DEF IInv, TypeOK, JobTypeOK, UnpauseLock
<1>6. QueueInv' /\ ShutInv'
  <2>1. job[th] = "killall" => event_threads = <<>>
    BY <1>0 DEF IInv, ShutInv
  <2> QED BY <1>0, <1>2, <2>1, CallerMove DEF UnpauseLock, qVars, wVars, lVars
<1>7. PauseInv'
  <2>1. /\ cpc'[th] = "utimer" /\ depth'[th] = pause_level'
        /\ \A o \in Callers : o # th => cpc'[o] = cpc[o] /\ depth'[o] = depth[o]
    BY <1>0, <1>1, <1>2
  <2>2. \A o \in Callers : o # th => ~HoldsPause(o)'
    BY <1>0, <1>1, <2>1 DEF IInv, PauseInv, HoldsPause
  <2> QED BY <1>0, <1>1, <1>2, <2>1, <2>2 DEF PauseInv, InPause, Waits, HoldsPause
<1> QED BY <1>3, <1>4, <1>5, <1>6, <1>7 DEF IInv, TypeOK

\* The waiting part of pause_event_threads(false) preserves the invariant.
LEMMA UnpauseWaitInv ==
  ASSUME IInv, NEW th \in Callers, UnpauseTimer(th) \/ UnpauseScan(th)
  PROVE  IInv'
<1> USE DEF CallGoto
<1>0. /\ cpc[th] \in {"utimer", "uscan"}
      /\ {"unpause", "done", "uscan"} \subseteq CallPcs
      /\ UnpausedPc(th, depth[th]) \in {"unpause", "done"}
      /\ cpc \in [Callers -> CallPcs] /\ depth \in [Callers -> Nat]
      /\ idx \in [Callers -> Nat]
      /\ pause_level \in Nat /\ NoThread \notin Callers
  BY ThreadAssumption
  DEF UnpauseTimer, UnpauseScan, UnpausedPc, CallPcs, IInv, TypeOK, PauseTypeOK,
      JobTypeOK, Callers
<1>1. /\ depth[th] = pause_level /\ fxn_lock = th
      /\ pause_level > 0 => lock_owner = th
      /\ \A o \in Callers : o # th => depth[o] = 0 /\ cpc[o] \notin InPause /\ ~HoldsPause(o)
  <2>1. depth[th] = pause_level /\ fxn_lock = th
    BY <1>0 DEF IInv, PauseInv
  <2>2. pause_level > 0 => lock_owner = th
    BY <1>0, <2>1 DEF IInv, PauseInv
  <2>3. \A o \in Callers : o # th => depth[o] = 0 /\ cpc[o] \notin InPause
    BY <1>0, <2>1, <2>2 DEF IInv, PauseInv, InPause
  <2> QED BY <2>1, <2>2, <2>3 DEF IInv, PauseInv
<1>2. /\ pause_level' = pause_level /\ depth' = depth
      /\ \/ /\ cpc' = [cpc EXCEPT ![th] = "uscan"]
            /\ UNCHANGED <<lock_owner, fxn_lock>>
         \/ /\ cpc' = [cpc EXCEPT ![th] = UnpausedPc(th, depth[th])]
            /\ fxn_lock' = NoThread
            /\ \/ lock_owner' = lock_owner
               \/ pause_level = 0 /\ lock_owner' = NoThread
  BY <1>0 DEF UnpauseTimer, UnpauseScan, UnpauseGiveUp, pVars
<1>3. QueueTypeOK' /\ WorkerTypeOK' /\ FlagTypeOK' /\ ListTypeOK'
  BY TypeFrame DEF IInv, UnpauseTimer, UnpauseScan
<1>4. PauseTypeOK'
  BY <1>2 DEF IInv, TypeOK, PauseTypeOK
<1>5. JobTypeOK'
  <2>1. idx' \in [Callers -> Nat]
    BY <1>0 DEF UnpauseTimer, UnpauseScan
  <2>2. cpc' \in [Callers -> CallPcs]
    BY <1>0, <1>2
  <2> QED BY <1>2, <2>1, <2>2 DEF IInv, TypeOK, JobTypeOK, UnpauseTimer, UnpauseScan
<1>6. QueueInv' /\ ShutInv'
  <2>1. PICK l \in {"uscan", UnpausedPc(th, depth[th])} : cpc' = [cpc EXCEPT ![th] = l]
    BY <1>2
  <2>2. job[th] = "killall" => event_threads = <<>>
    BY <1>0 DEF IInv, ShutInv
  <2>3. l \in CallPcs /\ l # "purge"
    BY <1>0, <2>1
  <2> QED BY <1>0, <2>1, <2>2, <2>3, CallerMove
          DEF UnpauseTimer, UnpauseScan, qVars, wVars, lVars
<1>7. PauseInv'
  <2>1. \A o \in Callers : o # th => cpc'[o] = cpc[o]
    BY <1>0, <1>2
  <2>2. cpc'[th] = "uscan" \/ (cpc'[th] = "unpause" /\ depth[th] > 0)
          \/ (cpc'[th] = "done" /\ depth[th] = 0)
    BY <1>0, <1>2 DEF UnpausedPc
  <2>3. CASE cpc' = [cpc EXCEPT ![th] = "uscan"] /\ UNCHANGED <<lock_owner, fxn_lock>>
    BY <1>0, <1>1, <1>2, <2>1, <2>3 DEF IInv, PauseInv, InPause, Waits, HoldsPause
  <2>4. CASE /\ cpc' = [cpc EXCEPT ![th] = UnpausedPc(th, depth[th])]
             /\ fxn_lock' = NoThread
             /\ \/ lock_owner' = lock_owner
                \/ pause_level = 0 /\ lock_owner' = NoThread
    BY <1>0, <1>1, <1>2, <2>1, <2>2, <2>4
    DEF IInv, PauseInv, InPause, Waits, HoldsPause, UnpausedPc
  <2> QED BY <1>2, <2>3, <2>4
<1> QED BY <1>3, <1>4, <1>5, <1>6, <1>7 DEF IInv, TypeOK

\* RemoveAt drops one element and keeps all others.
LEMMA RemoveAtProperties ==
  ASSUME NEW S, NEW s \in Seq(S), NEW i \in 1..Len(s)
  PROVE  /\ RemoveAt(s, i) \in Seq(S)
         /\ \A k \in 1..Len(s) : k # i =>
              \E m \in 1..Len(RemoveAt(s, i)) : RemoveAt(s, i)[m] = s[k]
<1> DEFINE a == SubSeq(s, 1, i - 1)  b == SubSeq(s, i + 1, Len(s))
<1>0. Len(s) \in Nat /\ i \in Nat /\ i >= 1 /\ i <= Len(s) /\ \A k \in 1..Len(s) : s[k] \in S
  BY ElementOfSeq, LenProperties
<1>1. /\ a \in Seq(S) /\ Len(a) = i - 1
      /\ \A k \in 1..(i - 1) : a[k] = s[k]
  BY <1>0, SubSeqProperties
<1>2. /\ b \in Seq(S) /\ Len(b) = Len(s) - i
      /\ \A k \in 1..(Len(s) - i) : b[k] = s[i + k]
  BY <1>0, SubSeqProperties
<1> HIDE DEF a, b
<1>3. /\ a \o b \in Seq(S) /\ Len(a \o b) = Len(a) + Len(b)
      /\ \A k \in 1..(Len(a) + Len(b)) :
           (a \o b)[k] = IF k <= Len(a) THEN a[k] ELSE b[k - Len(a)]
  BY <1>1, <1>2, ConcatProperties
<1>4. ASSUME NEW k \in 1..Len(s), k # i
      PROVE  \E m \in 1..Len(a \o b) : (a \o b)[m] = s[k]
  <2>1. CASE k < i
    <3>1. k \in 1..Len(a \o b) /\ (a \o b)[k] = s[k]
      BY <1>0, <1>1, <1>2, <1>3, <2>1
    <3> QED BY <3>1
  <2>2. CASE k > i
    <3>1. k - 1 \in 1..Len(a \o b) /\ k - i \in 1..(Len(s) - i) /\ i + (k - i) = k
      BY <1>0, <1>1, <1>2, <1>3, <2>2
    <3>2. (a \o b)[k - 1] = b[k - i]
      BY <1>0, <1>1, <1>2, <1>3, <2>2, <3>1
    <3>3. b[k - i] = s[k]
      BY <1>2, <3>1
    <3> QED BY <3>1, <3>2, <3>3
  <2> QED BY <1>0, <1>4, <2>1, <2>2
<1>5. RemoveAt(s, i) = a \o b
  BY DEF RemoveAt, a, b
<1> QED BY <1>3, <1>4, <1>5

\* A command handler or the end of a connection begins a job: no pause is held
\* yet, and only a running handler or a live connection does so.
LEMMA BeginInv ==
  ASSUME IInv, NEW th \in EvThreads \cup Conns,
         NEW j \in {"module", "setcnt", "cleanup"},
         th \in EvThreads => pc[th] = "handler",
         Begin(th, j), cpc' = [cpc EXCEPT ![th] = "pause"],
         want' \in [Callers -> Int]
  PROVE  IInv'
<1>0. /\ th \in Callers /\ cpc[th] = "idle" /\ Main \in Callers /\ th # Main
      /\ EvThreads \subseteq Callers /\ Conns \subseteq Callers
      /\ {"pause"} \subseteq CallPcs /\ {"module", "setcnt", "cleanup"} \subseteq Jobs
      /\ cpc \in [Callers -> CallPcs] /\ job \in [Callers -> Jobs]
  BY ThreadAssumption DEF Callers, Begin, CallPcs, Jobs, IInv, TypeOK, JobTypeOK
<1>1. /\ cpc'[th] = "pause" /\ \A o \in Callers : o # th => cpc'[o] = cpc[o]
      /\ job'[th] = j /\ \A o \in Callers : o # th => job'[o] = job[o]
  BY <1>0 DEF Begin
<1>2. QueueTypeOK' /\ WorkerTypeOK' /\ FlagTypeOK' /\ PauseTypeOK' /\ ListTypeOK'
  BY TypeFrame DEF IInv, Begin
<1>3. JobTypeOK'
  BY <1>0 DEF IInv, TypeOK, JobTypeOK, Begin
<1>4. QueueInv'
  BY <1>0, <1>1 DEF IInv, QueueInv, Begin, qVars, wVars
<1>5. ShutInv'
  BY <1>0, <1>1 DEF IInv, ShutInv, Begin, lVars, wVars
<1>6. PauseInv'
  BY <1>0, <1>1, PauseMove DEF IInv, TypeOK, InPause, HoldsPause, Begin
<1> QED BY <1>2, <1>3, <1>4, <1>5, <1>6 DEF IInv, TypeOK

\* The steps that begin a job preserve the invariant.
LEMMA CommandInv ==
  ASSUME IInv,
         \/ \E t \in EvThreads : ModuleCommand(t) \/ SetCntCommand(t)
         \/ \E c \in Conns : ConnEnd(c)
  PROVE  IInv'
<1>0. want \in [Callers -> Int] /\ event_threads \in Seq(EvThreads)
  BY DEF IInv, TypeOK, JobTypeOK, ListTypeOK
<1>1. ASSUME NEW t \in EvThreads, ModuleCommand(t) PROVE IInv'
  BY <1>0, <1>1, BeginInv DEF ModuleCommand, CallGoto
<1>2. ASSUME NEW t \in EvThreads, SetCntCommand(t) PROVE IInv'
  <2>1. want' \in [Callers -> Int]
    <3>1. PICK n \in Counts : want' = [want EXCEPT ![t] = n - Len(event_threads)]
      BY <1>2 DEF SetCntCommand
    <3>2. n \in Int /\ Len(event_threads) \in Nat
      BY <1>0, BoundAssumption, LenProperties
    <3> DEFINE d == n - Len(event_threads)
    <3>3. d \in Int
      BY <3>2
    <3>4. want' = [want EXCEPT ![t] = d]
      BY <3>1
    <3> HIDE DEF d
    <3> QED BY <1>0, <3>3, <3>4
  <2> QED BY <1>2, <2>1, BeginInv DEF SetCntCommand, CallGoto
<1>3. ASSUME NEW c \in Conns, ConnEnd(c) PROVE IInv'
  <2>1. c \notin EvThreads
    BY ThreadAssumption
  <2> QED BY <1>0, <1>3, <2>1, BeginInv DEF ConnEnd, CallGoto
<1> QED BY <1>1, <1>2, <1>3

\* The shutdown of the bot begins only when no connection is left, and its steps
\* before the pause preserve the invariant.
LEMMA ShutdownInv ==
  ASSUME IInv, Shutdown \/ TimerJoined
  PROVE  IInv'
<1>0. /\ Main \in Callers /\ Main \notin EvThreads /\ Main \notin Conns
      /\ EvThreads \subseteq Callers /\ Conns \subseteq Callers
      /\ "pause" \in CallPcs /\ "killall" \in Jobs
      /\ cpc \in [Callers -> CallPcs] /\ job \in [Callers -> Jobs]
  BY ThreadAssumption DEF Callers, CallPcs, Jobs, IInv, TypeOK, JobTypeOK
<1>1. CASE Shutdown
  <2>1. job'[Main] = "killall" /\ \A o \in Callers : o # Main => job'[o] = job[o]
    BY <1>0, <1>1 DEF Shutdown
  <2>2. QueueTypeOK' /\ PauseTypeOK' /\ ListTypeOK'
    BY <1>1, TypeFrame DEF IInv, Shutdown
  <2>3. WorkerTypeOK'
    BY <1>1 DEF IInv, TypeOK, WorkerTypeOK, Shutdown
  <2>4. FlagTypeOK'
    BY <1>1 DEF IInv, TypeOK, FlagTypeOK, Shutdown
  <2>5. JobTypeOK'
    BY <1>0, <1>1 DEF IInv, TypeOK, JobTypeOK, Shutdown
  <2>6. QueueInv'
    BY <1>1 DEF IInv, QueueInv, Shutdown, qVars
  <2>7. ShutInv'
    BY <1>0, <1>1, <2>1 DEF IInv, ShutInv, Shutdown, lVars
  <2>8. PauseInv'
    BY <1>1, PauseFrame DEF IInv, Shutdown
  <2> QED BY <2>2, <2>3, <2>4, <2>5, <2>6, <2>7, <2>8 DEF IInv, TypeOK
<1>2. CASE TimerJoined
  <2>1. QueueTypeOK' /\ WorkerTypeOK' /\ FlagTypeOK' /\ PauseTypeOK' /\ ListTypeOK'
    BY <1>2, TypeFrame DEF IInv, TimerJoined
  <2>2. JobTypeOK'
    BY <1>0, <1>2 DEF IInv, TypeOK, JobTypeOK, TimerJoined, CallGoto
  <2>3. QueueInv' /\ ShutInv'
    BY <1>0, <1>2, CallerMove DEF TimerJoined, CallGoto, qVars, wVars, lVars
  <2>4. PauseInv'
    <3>1. cpc' = [cpc EXCEPT ![Main] = "pause"] /\ cpc[Main] = "idle"
      BY <1>2 DEF TimerJoined, CallGoto
    <3>2. ~HoldsPause(Main)' /\ UNCHANGED <<pVars, depth>>
      BY <1>0, <1>2, <3>1 DEF HoldsPause, TimerJoined
    <3> QED BY <1>0, <3>1, <3>2, PauseMove DEF IInv, TypeOK, InPause
  <2> QED BY <2>1, <2>2, <2>3, <2>4 DEF IInv, TypeOK
<1> QED BY <1>1, <1>2

\* The work done with the pause held that changes neither the queue nor the
\* threads preserves the invariant.
LEMMA HeldInv ==
  ASSUME IInv, NEW th \in Callers,
         ModuleWork(th) \/ CntTryLock(th) \/ ListWrlock(th)
  PROVE  IInv'
<1> USE DEF CallGoto
<1>0. /\ cpc[th] \in {"held", "wrlock"} /\ cpc \in [Callers -> CallPcs]
      /\ {"pause", "unpause", "wrlock", "resize"} \subseteq CallPcs
  BY DEF ModuleWork, CntTryLock, ListWrlock, CallPcs, IInv, TypeOK, JobTypeOK
<1>1. PICK l \in {"pause", "unpause", "wrlock", "resize"} :
             /\ cpc' = [cpc EXCEPT ![th] = l]
             /\ l = "unpause" => job[th] # "killall"
  BY DEF ModuleWork, CntTryLock, ListWrlock
<1>2. QueueTypeOK' /\ WorkerTypeOK' /\ FlagTypeOK' /\ PauseTypeOK'
  BY TypeFrame DEF IInv, ModuleWork, CntTryLock, ListWrlock
<1>3. ListTypeOK'
  BY DEF IInv, TypeOK, ListTypeOK, ModuleWork, CntTryLock, ListWrlock, lVars
<1>4. JobTypeOK'
  BY <1>0, <1>1 DEF IInv, TypeOK, JobTypeOK, ModuleWork, CntTryLock, ListWrlock
<1>5. UNCHANGED <<pVars, depth, events, event_queue_mutex, pc, evdata, job, conns,
                  event_threads>>
  BY DEF ModuleWork, CntTryLock, ListWrlock, qVars, wVars, lVars
<1>6. QueueInv' /\ ShutInv'
  BY <1>0, <1>1, <1>5, CallerMove
<1>7. PauseInv'
  <2>1. HoldsPause(th) /\ l \notin InPause /\ cpc[th] \notin InPause /\ l \in CallPcs
    BY <1>0, <1>1 DEF HoldsPause, InPause
  <2> QED BY <1>1, <1>5, <2>1, PauseMove DEF IInv, TypeOK
<1> QED BY <1>2, <1>3, <1>4, <1>6, <1>7 DEF IInv, TypeOK

\* main_thread_cleanup purges the queue under its mutex: no event thread is
\* about to pop, so none finds the queue emptied under it.
LEMMA PurgeInv ==
  ASSUME IInv, NEW c \in Conns, PurgeLock(c) \/ PurgeErase(c) \/ PurgeDone(c)
  PROVE  IInv'
<1> USE DEF CallGoto
<1>0. /\ c \in Callers /\ Conns \subseteq Callers /\ EvThreads \subseteq Callers
      /\ Main \in Callers /\ Main # c /\ cpc \in [Callers -> CallPcs]
      /\ {"purge", "unpause"} \subseteq CallPcs /\ c \notin EvThreads
      /\ c # NoThread /\ \A t \in EvThreads : t # NoThread
      /\ events \in Seq(Event)
  BY ThreadAssumption DEF Callers, CallPcs, IInv, TypeOK, JobTypeOK, QueueTypeOK
<1>1. CASE PurgeErase(c)
  <2>1. event_queue_mutex = c
    BY <1>1 DEF PurgeErase, IInv, QueueInv
  <2>2. \A t \in EvThreads : pc[t] \notin Locked
    BY <1>0, <2>1 DEF IInv, QueueInv
  <2>3. events' \in Seq(Event)
    <3>1. ASSUME NEW i \in 1..Len(events) PROVE RemoveAt(events, i) \in Seq(Event)
      BY <1>0, RemoveAtProperties
    <3>2. ASSUME Len(events) >= 2 PROVE Tail(Tail(events)) \in Seq(Event)
      <4>1. events # <<>> /\ Len(events) \in Nat
        BY <1>0, <3>2, LenProperties
      <4>2. Tail(events) \in Seq(Event) /\ Len(Tail(events)) = Len(events) - 1
        BY <1>0, <4>1, HeadTailProperties
      <4>3. Tail(events) # <<>>
        <5>1. Len(Tail(events)) # 0
          BY <3>2, <4>1, <4>2
        <5> QED BY <5>1, EmptySeq
      <4> QED BY <4>2, <4>3, HeadTailProperties
    <3> QED BY <1>1, <3>1, <3>2 DEF PurgeErase, Doomed
  <2>4. QueueTypeOK'
    BY <1>1, <2>3 DEF PurgeErase, IInv, TypeOK, QueueTypeOK
  <2>5. WorkerTypeOK' /\ FlagTypeOK' /\ PauseTypeOK' /\ ListTypeOK' /\ JobTypeOK'
    BY <1>1, TypeFrame DEF IInv, PurgeErase
  <2>6. QueueInv'
    BY <1>1, <2>2 DEF IInv, QueueInv, PurgeErase, Locked, wVars, jVars
  <2>7. ShutInv'
    BY <1>1 DEF IInv, ShutInv, PurgeErase, wVars, lVars, jVars
  <2>8. PauseInv'
    BY <1>1, PauseFrame DEF IInv, PurgeErase, jVars
  <2> QED BY <2>4, <2>5, <2>6, <2>7, <2>8 DEF IInv, TypeOK
<1>2. CASE PurgeLock(c) \/ PurgeDone(c)
  <2>1. PICK l \in {"purge", "unpause"} :
               /\ cpc' = [cpc EXCEPT ![c] = l]
               /\ l = "purge" => event_queue_mutex = NoThread /\ event_queue_mutex' = c
               /\ l = "unpause" => event_queue_mutex = c /\ event_queue_mutex' = NoThread
    BY <1>2 DEF PurgeLock, PurgeDone, IInv, QueueInv
  <2>2. UNCHANGED <<events, produced, wVars, pVars, lVars, job, depth, conns>>
    BY <1>2 DEF PurgeLock, PurgeDone
  <2>3. /\ cpc[c] \in {"held", "purge"} /\ cpc'[c] = l
        /\ \A o \in Callers : o # c => cpc'[o] = cpc[o]
    BY <1>0, <1>2, <2>1 DEF PurgeLock, PurgeDone
  <2>4. WorkerTypeOK' /\ FlagTypeOK' /\ PauseTypeOK' /\ ListTypeOK'
    BY <2>2, TypeFrame DEF IInv
  <2>5. QueueTypeOK'
    BY <2>1, <2>2 DEF IInv, TypeOK, QueueTypeOK
  <2>6. JobTypeOK'
    BY <1>0, <1>2, <2>1 DEF IInv, TypeOK, JobTypeOK, PurgeLock, PurgeDone
  <2>7. QueueInv'
    <3>1. event_queue_mutex \in {c, NoThread} /\ \A o \in Conns : o # NoThread
      BY <1>0, <2>1, ThreadAssumption DEF Callers
    <3>2. /\ \A t \in EvThreads : pc[t] \notin Locked
          /\ \A o \in Conns : o # c => cpc[o] # "purge"
      BY <1>0, <3>1 DEF IInv, QueueInv
    <3>3. /\ \A t \in EvThreads : pc[t] = "handler" => evdata[t] \in Event
          /\ pc' = pc /\ evdata' = evdata
      BY <2>2 DEF IInv, QueueInv, wVars
    <3>4. \A o \in Conns : cpc'[o] = "purge" => event_queue_mutex' = o
      BY <1>0, <2>1, <2>3, <3>2
    <3> QED BY <3>2, <3>3, <3>4 DEF QueueInv, Locked
  <2>8. ShutInv'
    BY <1>0, <2>2, <2>3 DEF IInv, ShutInv, wVars, lVars
  <2>9. PauseInv'
    <3>1. HoldsPause(c) /\ l \notin InPause /\ cpc[c] \notin InPause /\ l \in CallPcs
          /\ l \notin {"idle", "done", "gone"}
      BY <1>0, <2>1, <2>3 DEF HoldsPause, InPause
    <3> QED BY <1>0, <2>1, <2>2, <3>1, PauseMove DEF IInv, TypeOK
  <2> QED BY <2>4, <2>5, <2>6, <2>7, <2>8, <2>9 DEF IInv, TypeOK
<1> QED BY <1>1, <1>2

\* At the end of kill_event_threads nobody else is left that could call anything.
LEMMA LastCaller ==
  ASSUME IInv, job[Main] = "killall", event_threads = <<>>,
         NEW th \in Callers, th # Main
  PROVE  cpc[th] \in {"idle", "gone"}
<1>1. CASE th \in EvThreads
  <2>1. Len(event_threads) = 0
    BY EmptySeq
  <2>2. pc[th] = "none"
    BY <1>1, <2>1 DEF IInv, ShutInv
  <2> QED BY <1>1, <2>2 DEF IInv, ShutInv
<1>2. CASE th \in Conns
  BY <1>2 DEF IInv, ShutInv
<1> QED BY <1>1, <1>2 DEF Callers

\* create_event_threads preserves the invariant.
LEMMA CreateInv ==
  ASSUME IInv, NEW th \in Callers, CreateThread(th)
  PROVE  IInv'
<1>0. PICK t \in EvThreads :
        /\ pc[t] = "none"
        /\ event_threads' = Append(event_threads, t)
        /\ pc' = [pc EXCEPT ![t] = "start"]
        /\ state' = [state EXCEPT ![t] = "IDLE"]
        /\ kill_on' = [kill_on EXCEPT ![t] = FALSE]
  BY DEF CreateThread, Goto, SetState
<1>1. /\ t \in Workers /\ EvThreads \subseteq Workers /\ pc \in [Workers -> PcSet]
      /\ "start" \in PcSet \ Locked /\ "IDLE" \in States
      /\ event_threads \in Seq(EvThreads) /\ cpc[th] = "resize"
  BY DEF Workers, IInv, TypeOK, WorkerTypeOK, ListTypeOK, PcSet, Locked, States, CreateThread
<1>2. /\ event_threads' \in Seq(EvThreads)
      /\ Len(event_threads') = Len(event_threads) + 1 /\ Len(event_threads) \in Nat
      /\ \A i \in 1..Len(event_threads) : event_threads'[i] = event_threads[i]
      /\ event_threads'[Len(event_threads) + 1] = t
  BY <1>0, <1>1, AppendProperties, LenProperties
<1>3. pc'[t] = "start" /\ \A u \in EvThreads : u # t => pc'[u] = pc[u]
  BY <1>0, <1>1
<1>4. QueueTypeOK' /\ PauseTypeOK'
  BY TypeFrame DEF IInv, CreateThread
<1>5. WorkerTypeOK'
  BY <1>0, <1>1 DEF IInv, TypeOK, WorkerTypeOK, CreateThread
<1>6. FlagTypeOK'
  BY <1>0, <1>1 DEF IInv, TypeOK, FlagTypeOK, CreateThread
<1>7. ListTypeOK'
  BY <1>2 DEF IInv, TypeOK, ListTypeOK, CreateThread
<1>8. JobTypeOK'
  BY DEF IInv, TypeOK, JobTypeOK, CreateThread
<1>9. QueueInv'
  BY <1>1, <1>3 DEF IInv, QueueInv, CreateThread, qVars, Locked
<1>10. ShutInv'
  <2>1. cpc[t] = "idle"
    BY <1>0 DEF IInv, ShutInv
  <2>2. \A u \in EvThreads : pc'[u] # "none" =>
          \E i \in 1..Len(event_threads') : event_threads'[i] = u
    <3> SUFFICES ASSUME NEW u \in EvThreads, pc'[u] # "none"
                 PROVE  \E i \in 1..Len(event_threads') : event_threads'[i] = u
      OBVIOUS
    <3>1. CASE u = t
      BY <1>2, <3>1
    <3>2. CASE u # t
      <4>1. PICK i \in 1..Len(event_threads) : event_threads[i] = u
        BY <1>3, <3>2 DEF IInv, ShutInv
      <4> QED BY <1>2, <4>1
    <3> QED BY <3>1, <3>2
  <2>3. ~(job[Main] = "killall" /\ cpc[Main] \in {"unpause", "utimer", "uscan", "done"})
    <3> SUFFICES ASSUME job[Main] = "killall",
                        cpc[Main] \in {"unpause", "utimer", "uscan", "done"}
                 PROVE  FALSE
      OBVIOUS
    <3>1. event_threads = <<>> /\ th # Main
      BY <1>1 DEF IInv, ShutInv
    <3> QED BY <1>1, <3>1, LastCaller
  <2>4. \A u \in EvThreads : cpc[u] # "idle" => pc'[u] = "handler"
    BY <1>3, <2>1 DEF IInv, ShutInv
  <2> QED BY <2>2, <2>3, <2>4 DEF IInv, ShutInv, CreateThread
<1>11. PauseInv'
  BY PauseFrame DEF IInv, CreateThread
<1> QED BY <1>4, <1>5, <1>6, <1>7, <1>8, <1>9, <1>10, <1>11 DEF IInv, TypeOK

\* ircevent_thread_state::kill up to the join preserves the invariant.
LEMMA KillInv ==
  ASSUME IInv, NEW th \in Callers, KillThread(th)
  PROVE  IInv'
<1>0. /\ EvThreads \subseteq Workers /\ pc \in [Workers -> PcSet]
      /\ event_threads \in Seq(EvThreads) /\ cpc \in [Callers -> CallPcs]
      /\ {"join"} \subseteq CallPcs /\ "woken" \in PcSet
      /\ EvThreads \subseteq Callers /\ Conns \subseteq Callers /\ Main \in Callers
      /\ cpc[th] = "resize" /\ cpc' = [cpc EXCEPT ![th] = "join"]
  BY DEF Workers, Callers, IInv, TypeOK, WorkerTypeOK, ListTypeOK, JobTypeOK, CallPcs, PcSet,
         KillThread, CallGoto
<1>1. PICK v \in EvThreads : /\ kill_on' = [kill_on EXCEPT ![v] = TRUE]
                             /\ victim' = [victim EXCEPT ![th] = v]
  <2>1. PICK i \in 1..Len(event_threads) :
          /\ kill_on' = [kill_on EXCEPT ![event_threads[i]] = TRUE]
          /\ victim' = [victim EXCEPT ![th] = event_threads[i]]
    BY DEF KillThread, Killable
  <2>2. event_threads[i] \in EvThreads
    BY <1>0, ElementOfSeq
  <2> QED BY <2>1, <2>2
<1>2. Woke(pc, pc')
  BY <1>0 DEF KillThread, Broadcast, Woke
<1>3. /\ cpc'[th] = "join" /\ \A o \in Callers : o # th => cpc'[o] = cpc[o]
      /\ \A u \in EvThreads : pc'[u] = pc[u] \/ (pc[u] = "wait" /\ pc'[u] = "woken")
  BY <1>0, <1>2 DEF Woke
<1>4. QueueTypeOK' /\ PauseTypeOK' /\ ListTypeOK'
  BY TypeFrame DEF IInv, KillThread
<1>5. WorkerTypeOK'
  BY <1>2 DEF IInv, TypeOK, WorkerTypeOK, KillThread, Woke
<1>6. FlagTypeOK'
  BY <1>1 DEF IInv, TypeOK, FlagTypeOK, KillThread
<1>7. JobTypeOK'
  BY <1>0, <1>1 DEF IInv, TypeOK, JobTypeOK, KillThread
<1>8. QueueInv'
  BY <1>0, <1>3 DEF IInv, QueueInv, KillThread, qVars, Locked
<1>9. ShutInv'
  BY <1>0, <1>3 DEF IInv, ShutInv, KillThread, lVars
<1>10. PauseInv'
  <2>1. HoldsPause(th) /\ "join" \notin InPause /\ cpc[th] \notin InPause
        /\ "join" \in CallPcs
    BY <1>0 DEF HoldsPause, InPause
  <2> QED BY <1>0, <2>1, PauseMove DEF IInv, TypeOK, KillThread
<1> QED BY <1>4, <1>5, <1>6, <1>7, <1>8, <1>9, <1>10 DEF IInv, TypeOK

\* The join and the removal of a killed thread preserve the invariant: every
\* other thread stays in the list.
LEMMA JoinInv ==
  ASSUME IInv, NEW th \in Callers, JoinThread(th)
  PROVE  IInv'
<1> DEFINE t == victim[th]
<1>0. /\ event_threads \in Seq(EvThreads) /\ pc \in [Workers -> PcSet]
      /\ EvThreads \subseteq Workers /\ cpc \in [Callers -> CallPcs]
      /\ {"resize"} \subseteq CallPcs /\ "none" \in PcSet \ Locked
      /\ EvThreads \subseteq Callers /\ Conns \subseteq Callers /\ Main \in Callers
      /\ cpc[th] = "join" /\ cpc' = [cpc EXCEPT ![th] = "resize"]
      /\ pc[t] = "exited" /\ pc' = [pc EXCEPT ![t] = "none"]
      /\ victim' = [victim EXCEPT ![th] = NoThread]
  BY DEF Workers, Callers, IInv, TypeOK, WorkerTypeOK, ListTypeOK, JobTypeOK, CallPcs, PcSet,
         Locked, JoinThread, CallGoto, Goto
<1>1. PICK i \in 1..Len(event_threads) :
        event_threads[i] = t /\ event_threads' = RemoveAt(event_threads, i)
  BY DEF JoinThread
<1>2. t \in EvThreads
  BY <1>0, <1>1, ElementOfSeq
<1> HIDE DEF t
<1>3. /\ event_threads' \in Seq(EvThreads)
      /\ \A k \in 1..Len(event_threads) : k # i =>
           \E m \in 1..Len(event_threads') : event_threads'[m] = event_threads[k]
  BY <1>0, <1>1, RemoveAtProperties
<1>4. /\ cpc'[th] = "resize" /\ \A o \in Callers : o # th => cpc'[o] = cpc[o]
      /\ pc'[t] = "none" /\ \A u \in EvThreads : u # t => pc'[u] = pc[u]
  BY <1>0, <1>2
<1>5. QueueTypeOK' /\ FlagTypeOK' /\ PauseTypeOK'
  BY TypeFrame DEF IInv, JoinThread
<1>6. WorkerTypeOK'
  BY <1>0, <1>2 DEF IInv, TypeOK, WorkerTypeOK, JoinThread
<1>7. ListTypeOK'
  BY <1>3 DEF IInv, TypeOK, ListTypeOK, JoinThread
<1>8. JobTypeOK'
  <2>1. want' \in [Callers -> Int]
    BY DEF IInv, TypeOK, JobTypeOK, JoinThread
  <2> QED BY <1>0, <2>1 DEF IInv, TypeOK, JobTypeOK, JoinThread
<1>9. QueueInv'
  BY <1>0, <1>4 DEF IInv, QueueInv, JoinThread, qVars, Locked
<1>10. ShutInv'
  <2>1. \A u \in EvThreads : pc'[u] # "none" =>
          \E k \in 1..Len(event_threads') : event_threads'[k] = u
    <3> SUFFICES ASSUME NEW u \in EvThreads, pc'[u] # "none"
                 PROVE  \E k \in 1..Len(event_threads') : event_threads'[k] = u
      OBVIOUS
    <3>1. u # t
      BY <1>4
    <3>2. PICK k \in 1..Len(event_threads) : event_threads[k] = u
      BY <1>4, <3>1 DEF IInv, ShutInv
    <3> QED BY <1>1, <1>3, <3>1, <3>2
  <2>2. \A u \in EvThreads : cpc'[u] # "idle" => pc'[u] = "handler"
    BY <1>0, <1>4 DEF IInv, ShutInv
  <2>3. job[Main] = "killall" => cpc'[Main] \notin {"unpause", "utimer", "uscan", "done"}
    <3> SUFFICES ASSUME job[Main] = "killall",
                        cpc'[Main] \in {"unpause", "utimer", "uscan", "done"}
                 PROVE  FALSE
      OBVIOUS
    <3>1. event_threads = <<>> /\ th # Main
      BY <1>0, <1>4 DEF IInv, ShutInv
    <3> QED BY <1>0, <3>1, LastCaller
  <2>4. job' = job /\ conns' = conns
    BY DEF JoinThread
  <2>5. \A c \in Conns : c \notin conns => cpc'[c] = "gone"
    BY <1>0, <1>4 DEF IInv, ShutInv
  <2> QED BY <2>1, <2>2, <2>3, <2>4, <2>5 DEF IInv, ShutInv
<1>11. PauseInv'
  <2>1. HoldsPause(th) /\ "resize" \notin InPause /\ cpc[th] \notin InPause
        /\ "resize" \in CallPcs
    BY <1>0 DEF HoldsPause, InPause
  <2> QED BY <1>0, <2>1, PauseMove DEF IInv, TypeOK, JoinThread
<1> QED BY <1>5, <1>6, <1>7, <1>8, <1>9, <1>10, <1>11 DEF IInv, TypeOK

\* The end of set_event_thread_cnt and of the loop of kill_event_threads
\* preserves the invariant: the latter ends only when the list is empty.
LEMMA ResizeDoneInv ==
  ASSUME IInv, NEW th \in Callers, ResizeDone(th)
  PROVE  IInv'
<1> USE DEF CallGoto
<1>0. /\ cpc[th] = "resize" /\ cpc \in [Callers -> CallPcs]
      /\ {"unpause"} \subseteq CallPcs /\ cpc' = [cpc EXCEPT ![th] = "unpause"]
      /\ event_threads \in Seq(EvThreads) /\ Main \notin EvThreads
      /\ UNCHANGED <<pVars, depth>>
  BY ThreadAssumption DEF ResizeDone, CallPcs, IInv, TypeOK, JobTypeOK, ListTypeOK
<1>1. QueueTypeOK' /\ WorkerTypeOK' /\ FlagTypeOK' /\ PauseTypeOK'
  BY TypeFrame DEF IInv, ResizeDone
<1>2. ListTypeOK'
  BY DEF IInv, TypeOK, ListTypeOK, ResizeDone
<1>3. JobTypeOK'
  BY <1>0 DEF IInv, TypeOK, JobTypeOK, ResizeDone
<1>4. QueueInv' /\ ShutInv'
  <2>1. job[th] = "killall" => event_threads = <<>>
    <3> SUFFICES ASSUME job[th] = "killall", event_threads # <<>> PROVE FALSE
      OBVIOUS
    <3>1. th = Main /\ Killable(th) = {}
      BY DEF IInv, ShutInv, ResizeDone
    <3>2. 1 \in 1..Len(event_threads)
      <4>1. Len(event_threads) \in Nat \ {0}
        BY <1>0, EmptySeq, Zenon
      <4> QED BY <4>1
    <3>3. event_threads[1] \in EvThreads
      BY <1>0, <3>2, ElementOfSeq
    <3> QED BY <1>0, <3>1, <3>2, <3>3 DEF Killable
  <2> QED BY <1>0, <2>1, CallerMove DEF ResizeDone, qVars, wVars
<1>5. PauseInv'
  <2>1. HoldsPause(th) /\ "unpause" \notin InPause /\ cpc[th] \notin InPause
        /\ "unpause" \in CallPcs
    BY <1>0 DEF HoldsPause, InPause
  <2> QED BY <1>0, <2>1, PauseMove DEF IInv, TypeOK
<1> QED BY <1>1, <1>2, <1>3, <1>4, <1>5 DEF IInv, TypeOK

\* The end of a job preserves the invariant.  When init_event_threads resets the
\* level and the owner, the pause is already free.
LEMMA JobDoneInv ==
  ASSUME IInv, NEW th \in Callers, JobDone(th)
  PROVE  IInv' /\ pause_level' = pause_level
<1> USE DEF CallGoto, init_event_threads
<1>0. /\ cpc[th] = "done" /\ cpc \in [Callers -> CallPcs] /\ job \in [Callers -> Jobs]
      /\ "gone" \in CallPcs /\ "none" \in Jobs /\ cpc' = [cpc EXCEPT ![th] = "gone"]
      /\ depth \in [Callers -> Nat] /\ depth[th] = 0 /\ pause_level \in Nat
      /\ EvThreads \subseteq Callers /\ Conns \subseteq Callers /\ Main \in Callers
      /\ NoThread \notin Callers
  BY ThreadAssumption
  DEF JobDone, CallPcs, Jobs, IInv, TypeOK, JobTypeOK, PauseTypeOK, PauseInv, Callers
<1>1. /\ cpc'[th] = "gone" /\ \A o \in Callers : o # th => cpc'[o] = cpc[o]
      /\ job'[th] = "none" /\ \A o \in Callers : o # th => job'[o] = job[o]
  BY <1>0 DEF JobDone
<1>2. job[th] = "killall" =>
        /\ \A o \in Callers : depth[o] = 0 /\ cpc[o] \in {"idle", "gone", "done"}
        /\ pause_level = 0
  <2> SUFFICES ASSUME job[th] = "killall"
               PROVE  /\ \A o \in Callers : depth[o] = 0 /\ cpc[o] \in {"idle", "gone", "done"}
                      /\ pause_level = 0
    OBVIOUS
  <2>1. th = Main /\ event_threads = <<>>
    BY <1>0 DEF IInv, ShutInv
  <2>2. \A o \in Callers : cpc[o] \in {"idle", "gone", "done"}
    BY <1>0, <2>1, LastCaller
  <2>3. \A o \in Callers : depth[o] = 0 /\ ~Waits(o)
    BY <2>2 DEF IInv, PauseInv, Waits
  <2> QED BY <1>0, <2>2, <2>3 DEF IInv, PauseInv
<1>3. pause_level' = pause_level
  BY <1>2 DEF JobDone
<1>4. QueueTypeOK' /\ WorkerTypeOK' /\ FlagTypeOK'
  BY TypeFrame DEF IInv, JobDone
<1>5. PauseTypeOK'
  BY <1>0, <1>3 DEF IInv, TypeOK, PauseTypeOK, JobDone
<1>6. ListTypeOK'
  BY DEF IInv, TypeOK, ListTypeOK, JobDone, lVars
<1>7. JobTypeOK'
  BY <1>0 DEF IInv, TypeOK, JobTypeOK, JobDone
<1>8. QueueInv'
  BY <1>0, <1>1 DEF IInv, QueueInv, JobDone, qVars, wVars
<1>9. ShutInv'
  BY <1>0, <1>1 DEF IInv, ShutInv, JobDone, lVars, wVars
<1>10. PauseInv'
  <2>1. CASE job[th] = "killall"
    <3>1. /\ pause_level' = 0 /\ fxn_lock' = fxn_lock
          /\ \A o \in Callers : depth'[o] = 0 /\ cpc'[o] \in {"idle", "gone", "done"}
          /\ \A o \in Callers : fxn_lock # o
      BY <1>0, <1>1, <1>2, <1>3, <2>1 DEF JobDone, IInv, PauseInv
    <3> QED BY <3>1 DEF PauseInv, Waits, HoldsPause
  <2>2. CASE job[th] # "killall"
    <3>1. ~HoldsPause(th)' /\ "gone" \notin InPause /\ cpc[th] \notin InPause
      BY <1>0, <1>1 DEF HoldsPause, InPause
    <3>2. UNCHANGED <<pVars, depth>>
      BY <2>2 DEF JobDone, pVars
    <3> QED BY <1>0, <3>1, <3>2, PauseMove DEF IInv, TypeOK
  <2> QED BY <2>1, <2>2
<1> QED BY <1>3, <1>4, <1>5, <1>6, <1>7, <1>8, <1>9, <1>10 DEF IInv, TypeOK

(***************************************************************************)
(* The theorems.                                                           *)
(***************************************************************************)
\* Every step of the program preserves the inductive invariant.
LEMMA NextInv == IInv /\ [Next]_vars => IInv'
<1> SUFFICES ASSUME IInv, [Next]_vars PROVE IInv'
  OBVIOUS
<1>1. CASE UNCHANGED vars
  <2>1. UNCHANGED <<qVars, wVars, pVars, lVars, jVars, conns>>
    BY <1>1 DEF vars
  <2>2. TypeOK'
    BY <2>1, TypeFrame DEF IInv, TypeOK
  <2>3. QueueInv' /\ ShutInv'
    BY <2>1 DEF IInv, QueueInv, ShutInv, qVars, wVars, lVars, jVars
  <2>4. PauseInv'
    BY <2>1, PauseFrame DEF IInv, jVars
  <2> QED BY <2>2, <2>3, <2>4 DEF IInv
<1>2. ASSUME NEW t \in EvThreads, EvStep(t) \/ EvSpurious(t) PROVE IInv'
  BY <1>2, EvStepInv, HandledInv, ExitInv DEF EvStep
<1>3. ASSUME NEW t \in EvThreads, HandlerEvent(t) PROVE IInv'
  <2>1. evdata[t].conn \in Conns
    BY <1>3 DEF HandlerEvent, IInv, QueueInv, Event
  <2> QED BY <1>3, <2>1, EnqueueInv DEF HandlerEvent
<1>4. ASSUME NEW t \in EvThreads, ModuleWork(t) PROVE IInv'
  <2>1. t \in Callers
    BY DEF Callers
  <2> QED BY <1>4, <2>1, HeldInv
<1>5. ASSUME NEW c \in Conns, ConnEvent(c) PROVE IInv'
  BY <1>5, EnqueueInv DEF ConnEvent
<1>6. ASSUME NEW c \in Conns, PurgeLock(c) \/ PurgeErase(c) \/ PurgeDone(c) PROVE IInv'
  BY <1>6, PurgeInv
<1>7. ASSUME NEW th \in Callers, CallStep(th) PROVE IInv'
  BY <1>7, PauseTryInv, PauseWaitInv, UnpauseLockInv, UnpauseWaitInv, HeldInv, CreateInv,
     KillInv, JoinInv, ResizeDoneInv, JobDoneInv
  DEF CallStep
<1> QED BY <1>1, <1>2, <1>3, <1>4, <1>5, <1>6, <1>7, CommandInv, ShutdownInv, TimerInv
        DEF Next

\* The inductive invariant holds in every reachable state.
THEOREM Invariance == Spec => []IInv
BY InitInv, NextInv, PTL DEF Spec

\* The variables of ircbot keep their types: no event thread pops an empty
\* queue, whatever a connection purges, and no unpause makes the level negative.
THEOREM TypeCorrect == Spec => []TypeOK
<1>1. IInv => TypeOK
  BY DEF IInv
<1> QED BY <1>1, Invariance, PTL

\* pause_event_threads gives the pause to one thread at a time, for any number
\* of threads and connections and whatever times out.
THEOREM PauseExclusive == Spec => []ExclusivePause
<1>1. IInv => ExclusivePause
  BY DEF IInv, PauseInv, ExclusivePause
<1> QED BY <1>1, Invariance, PTL

\* A step that leaves the level and the owner of the pause alone (the owner may
\* change while the level is 0) is a stuttering step of PauseLock.
LEMMA PauseLockStutter ==
  ASSUME pause_level' = pause_level, lock_owner' = lock_owner \/ pause_level = 0,
         pause_level \in Nat
  PROVE  UNCHANGED PL!vars
BY DEF PL!vars

\* Every step of the program is a step of PauseLock or leaves it unchanged: the
\* level is raised by PauseTry, lowered by UnpauseLock and by a pause that gives
\* up, and each time the thread that does it is the holder.
LEMMA PauseLockStep ==
  IInv /\ [Next]_vars => [PL!Next]_(PL!vars)
<1> SUFFICES ASSUME IInv, [Next]_vars PROVE PL!Next \/ UNCHANGED PL!vars
  OBVIOUS
<1>0. pause_level \in Nat /\ NoThread \notin Callers
  BY ThreadAssumption DEF IInv, TypeOK, PauseTypeOK, Callers
<1>1. ASSUME UNCHANGED pVars PROVE UNCHANGED PL!vars
  BY <1>0, <1>1, PauseLockStutter DEF pVars
<1>2. ASSUME NEW th \in Callers, PauseTry(th) PROVE PL!Next \/ UNCHANGED PL!vars
  <2>1. CASE UNCHANGED pVars
    BY <1>1, <2>1
  <2>2. CASE /\ ~OwnedByOther(th) /\ pause_level' = pause_level + 1
             /\ IF pause_level + 1 >= 2 THEN lock_owner' = lock_owner ELSE lock_owner' = th
    <3>1. pause_level > 0 => lock_owner = th
      BY <1>0, <2>2 DEF OwnedByOther, IInv, PauseInv
    <3>2. lock_owner' = th
      BY <1>0, <2>2, <3>1
    <3>3. PL!Acquire(th)
      BY <1>0, <2>2, <3>1, <3>2 DEF PL!Acquire
    <3> QED BY <3>3 DEF PL!Next
  <2> QED BY <1>2, <2>1, <2>2 DEF PauseTry
<1>3. ASSUME NEW th \in Callers, PauseTimer(th) \/ PauseScan(th)
      PROVE  PL!Next \/ UNCHANGED PL!vars
  <2>1. \/ UNCHANGED <<pause_level, lock_owner>>
        \/ PauseGiveUp(th)
    BY <1>3 DEF PauseTimer, PauseScan, pVars
  <2>2. CASE UNCHANGED <<pause_level, lock_owner>>
    BY <1>0, <2>2, PauseLockStutter
  <2>3. CASE PauseGiveUp(th)
    <3>1. lock_owner = th /\ pause_level = 1
      BY <1>3 DEF PauseTimer, PauseScan, IInv, PauseInv, Waits
    <3>2. PL!Release(th)
      BY <1>0, <2>3, <3>1 DEF PL!Release, PauseGiveUp
    <3> QED BY <3>2 DEF PL!Next
  <2> QED BY <2>1, <2>2, <2>3
<1>4. ASSUME NEW th \in Callers, UnpauseLock(th) PROVE PL!Next \/ UNCHANGED PL!vars
  <2>1. lock_owner = th /\ pause_level > 0
    BY <1>0, <1>4 DEF UnpauseLock, IInv, PauseInv, HoldsPause
  <2>2. pause_level' = pause_level - 1 /\ lock_owner' = lock_owner
    BY <1>0, <1>4, <2>1 DEF UnpauseLock, OwnedByOther
  <2>3. PL!Release(th)
    BY <1>0, <2>1, <2>2 DEF PL!Release
  <2> QED BY <2>3 DEF PL!Next
<1>5. ASSUME NEW th \in Callers, UnpauseTimer(th) \/ UnpauseScan(th)
      PROVE  UNCHANGED PL!vars
  <2>1. /\ pause_level' = pause_level
        /\ lock_owner' = lock_owner \/ pause_level = 0
    BY <1>5 DEF UnpauseTimer, UnpauseScan, UnpauseGiveUp, pVars
  <2> QED BY <1>0, <2>1, PauseLockStutter
<1>6. ASSUME NEW th \in Callers, JobDone(th) PROVE UNCHANGED PL!vars
  <2>1. pause_level' = pause_level
    BY <1>6, JobDoneInv
  <2>2. lock_owner' = lock_owner \/ pause_level = 0
    BY <1>6, <2>1 DEF JobDone, init_event_threads
  <2> QED BY <1>0, <2>1, <2>2, PauseLockStutter
<1>7. CASE UNCHANGED vars
  BY <1>1, <1>7 DEF vars
<1>8. ASSUME NEW th \in Callers, CallStep(th) PROVE PL!Next \/ UNCHANGED PL!vars
  <2>1. ASSUME CntTryLock(th) \/ ListWrlock(th) \/ CreateThread(th) \/ KillThread(th)
                 \/ JoinThread(th) \/ ResizeDone(th)
        PROVE  UNCHANGED PL!vars
    BY <1>1, <2>1 DEF CntTryLock, ListWrlock, CreateThread, KillThread, JoinThread, ResizeDone
  <2> QED BY <1>2, <1>3, <1>4, <1>5, <1>6, <1>8, <2>1 DEF CallStep
<1>9. ASSUME NEW t \in EvThreads, EvStep(t) \/ EvSpurious(t) PROVE UNCHANGED PL!vars
  BY <1>1, <1>9 DEF EvStep, EvStart, EvWait, EvSpurious, EvWoken, EvTop, EvPause, EvSpin,
                    EvRelock, EvTake, EvHandled, EvFinish, EvExit
<1>10. ASSUME NEW t \in EvThreads, HandlerEvent(t) \/ ModuleWork(t) PROVE UNCHANGED PL!vars
  BY <1>1, <1>10 DEF HandlerEvent, add_to_event_queue, ModuleWork
<1>11. ASSUME NEW t \in EvThreads, ModuleCommand(t) \/ SetCntCommand(t)
       PROVE  UNCHANGED PL!vars
  BY <1>1, <1>11 DEF ModuleCommand, SetCntCommand, Begin
<1>12. ASSUME NEW c \in Conns,
              \/ ConnEvent(c) \/ ConnEnd(c)
              \/ PurgeLock(c) \/ PurgeErase(c) \/ PurgeDone(c)
       PROVE  UNCHANGED PL!vars
  BY <1>1, <1>12 DEF ConnEvent, add_to_event_queue, ConnEnd, Begin, PurgeLock, PurgeErase,
                     PurgeDone
<1>13. ASSUME Shutdown \/ TimerJoined PROVE UNCHANGED PL!vars
  BY <1>1, <1>13 DEF Shutdown, TimerJoined
<1>14. ASSUME TmrStep PROVE UNCHANGED PL!vars
  BY <1>1, <1>14 DEF TmrStep, TmrTop, TmrPause, TmrSpin, TmrTake, TmrDone, TmrUnchanged
<1> QED BY <1>7, <1>8, <1>9, <1>10, <1>11, <1>12, <1>13, <1>14 DEF Next

\* pause_event_threads implements the recursive lock PauseLock: the level
\* changes only in the hands of its owner, for any number of threads.
THEOREM PauseLockRefined == Spec => RefinesPauseLock
<1>1. Init => PL!Init
  BY DEF Init, PL!Init
<1>2. IInv /\ [Next]_vars => [PL!Next]_(PL!vars)
  BY PauseLockStep
<1>3. RefinesPauseLock <=> PL!Init /\ [][PL!Next]_(PL!vars)
  BY DEF RefinesPauseLock, PL!Spec
<1> QED BY <1>1, <1>2, <1>3, Invariance, PTL DEF Spec
-----------------------------------------------------------------------------
(***************************************************************************)
(* More on top of the invariant IInv: how much work begins during a pause, *)
(* which threads remain after set_event_thread_cnt, and that no wakeup is  *)
(* lost.                                                                   *)
(***************************************************************************)
\* A worker that has begun some work since the pause began reads the level
\* before it begins any more.
LateInv ==
  pause_level > 0 =>
    \A w \in Workers : /\ started[w] <= 1
                       /\ started[w] = 1 => pc[w] \notin {"take", "relock"}

ShuttingDown == job[Main] # "none" \/ cpc[Main] # "idle"

\* Only set_event_thread_cnt, in a handler, and kill_event_threads change the list,
\* and neither kills the thread it runs in.
ResizeInv ==
  \A th \in Callers :
    /\ job[th] = "setcnt" => th \in EvThreads
    /\ cpc[th] \in {"wrlock", "resize", "join"} => job[th] \in {"setcnt", "killall"}
    /\ cpc[th] = "join" => victim[th] # th

\* A thread that ends was told to, by somebody who waits for it.
EndInv ==
  \A t \in EvThreads :
    /\ pc[t] \in {"exiting", "exitlocked"} => kill_on[t]
    /\ kill_on[t] /\ pc[t] \notin {"none", "exited"} =>
         \E th \in Callers : cpc[th] = "join" /\ victim[th] = t

\* One thread that has been awake is still there.
SeasonedInv ==
  awoken /\ ~ShuttingDown =>
    \E t \in EvThreads : pc[t] \in Awake \cup {"gowait", "wait"}

RemainInv == InitThreads # <<>> /\ ~ShuttingDown => event_threads # <<>>

WakeInv == LateInv /\ ResizeInv /\ EndInv /\ SeasonedInv /\ RemainInv /\ NoLostWakeup
-----------------------------------------------------------------------------
LEMMA WakeInit == Init => WakeInv
<1> SUFFICES ASSUME Init PROVE WakeInv
  OBVIOUS
<1> USE ThreadAssumption DEF Init, Callers, Workers
<1>1. LateInv /\ ResizeInv /\ SeasonedInv /\ RemainInv /\ NoLostWakeup
  BY DEF LateInv, ResizeInv, SeasonedInv, RemainInv, NoLostWakeup
<1>2. EndInv
  BY DEF EndInv
<1> QED
  BY <1>1, <1>2 DEF WakeInv

LEMMA WorkerFacts ==
  /\ EvThreads \subseteq Workers /\ EvThreads \subseteq Callers /\ Conns \subseteq Callers
  /\ Timer \in Workers /\ Timer \notin EvThreads /\ Main \in Callers
  /\ Main \notin EvThreads /\ Main \notin Conns
BY ThreadAssumption DEF Workers, Callers

\* Before the shutdown, a thread that must end leaves the one behind that waits
\* for it, in a handler.
LEMMA Joiner ==
  ASSUME IInv, WakeInv, ~ShuttingDown, NEW th \in Callers, cpc[th] = "join"
  PROVE  th \in EvThreads /\ th # victim[th] /\ pc[th] = "handler"
<1>1. job[th] \in {"setcnt", "killall"} /\ victim[th] # th
  BY DEF WakeInv, ResizeInv
<1>2. job[th] # "killall"
  BY DEF IInv, ShutInv, ShuttingDown
<1>3. th \in EvThreads
  BY <1>1, <1>2 DEF WakeInv, ResizeInv
<1> QED
  BY <1>1, <1>3 DEF IInv, ShutInv

\* Steps of event threads, by the place they go to.
LEMMA WakeMove ==
  ASSUME IInv, WakeInv, NEW t \in EvThreads, NEW l \in PcSet \ {"none", "exited", "start"},
         pc' = [pc EXCEPT ![t] = l], pc[t] \notin {"none", "exited"},
         UNCHANGED <<kill_on, pause_level, job, victim, event_threads>>,
         \/ cpc' = cpc
         \/ cpc[t] \in {"idle", "gone"} /\ cpc' = [cpc EXCEPT ![t] = "idle"],
         l \in {"exiting", "exitlocked"} => kill_on[t],
         \A w \in Workers \ {t} : started'[w] = started[w],
         pause_level > 0 => /\ started'[t] <= 1
                            /\ started'[t] = 1 => l \notin {"take", "relock"},
         l \notin Awake => /\ UNCHANGED <<events, awoken>>
                           /\ events = <<>> \/ pc[t] \notin Awake,
         events' # <<>> => events # <<>>
  PROVE  WakeInv'
<1> USE WorkerFacts
<1>1. /\ pc \in [Workers -> PcSet] /\ pc'[t] = l
      /\ \A w \in Workers \ {t} : pc'[w] = pc[w]
      /\ cpc \in [Callers -> CallPcs]
  BY DEF IInv, TypeOK, WorkerTypeOK, JobTypeOK
<1>2. /\ \A th \in Callers : /\ cpc[th] = "join" => cpc'[th] = "join"
                             /\ cpc'[th] \in {"wrlock", "resize", "join"} => cpc'[th] = cpc[th]
      /\ ShuttingDown' <=> ShuttingDown
  BY <1>1 DEF ShuttingDown
<1>3. LateInv'
  BY <1>1 DEF WakeInv, LateInv
<1>4. ResizeInv'
  BY <1>2 DEF WakeInv, ResizeInv
<1>5. EndInv'
  BY <1>1, <1>2 DEF WakeInv, EndInv
<1>6. l \in Awake \cup {"gowait", "wait"}
  BY DEF Awake
<1>7. SeasonedInv'
  BY <1>1, <1>6 DEF SeasonedInv
<1>8. RemainInv'
  BY <1>2 DEF WakeInv, RemainInv
<1>9. NoLostWakeup'
  <2>1. CASE l \in Awake
    BY <1>1, <2>1 DEF NoLostWakeup
  <2>2. CASE l \notin Awake
    BY <1>1, <1>2, <2>2 DEF WakeInv, NoLostWakeup, ShuttingDown
  <2> QED
    BY <2>1, <2>2
<1> QED
  BY <1>3, <1>4, <1>5, <1>7, <1>8, <1>9 DEF WakeInv

LEMMA WakeEv ==
  ASSUME IInv, WakeInv, NEW t \in EvThreads,
         \/ EvStart(t) \/ EvWait(t) \/ EvSpurious(t) \/ EvWoken(t) \/ EvTop(t)
         \/ EvPause(t) \/ EvSpin(t) \/ EvRelock(t) \/ EvTake(t) \/ EvHandled(t)
         \/ EvFinish(t)
  PROVE  WakeInv'
<1> USE WorkerFacts
<1>1. /\ pc \in [Workers -> PcSet] /\ pause_level \in Nat
      /\ started \in [Workers -> 0..2] /\ events \in Seq(Event)
  BY DEF IInv, TypeOK, WorkerTypeOK, PauseTypeOK, QueueTypeOK
<1>2. UNCHANGED <<kill_on, pause_level, job, victim, event_threads>>
  BY DEF EvStart, EvWait, EvSpurious, EvWoken, EvTop, EvPause, EvSpin, EvRelock, EvTake,
         EvHandled, EvFinish, pVars, lVars, jVars
<1>3. \/ cpc' = cpc
      \/ cpc[t] \in {"idle", "gone"} /\ cpc' = [cpc EXCEPT ![t] = "idle"]
  BY DEF EvStart, EvWait, EvSpurious, EvWoken, EvTop, EvPause, EvSpin, EvRelock, EvTake,
         EvHandled, EvFinish, jVars
<1>4. CASE ~EvTake(t)
  <2>1. started' = started
    BY <1>4 DEF EvStart, EvWait, EvSpurious, EvWoken, EvTop, EvPause, EvSpin, EvRelock,
         EvHandled, EvFinish
  <2>2. events' = events
    BY <1>4 DEF EvStart, EvWait, EvSpurious, EvWoken, EvTop, EvPause, EvSpin, EvRelock,
         EvHandled, EvFinish, qVars
  <2> DEFINE Moves(l) ==
          /\ l \in PcSet \ {"none", "exited", "start"}
          /\ pc' = [pc EXCEPT ![t] = l] /\ pc[t] \notin {"none", "exited"}
          /\ l \in {"exiting", "exitlocked"} => kill_on[t]
          /\ pause_level > 0 => l \notin {"take", "relock"} \/ pc[t] = "relock"
          /\ l \notin Awake => /\ UNCHANGED awoken
                               /\ events = <<>> \/ pc[t] \notin Awake
  <2>3. PICK l \in PcSet : Moves(l)
    <3> USE <1>1 DEF Goto, PcSet, Locked, Awake
    <3>1. CASE EvStart(t)
      BY <3>1 DEF EvStart
    <3>2. CASE EvWait(t)
      BY <3>2 DEF EvWait
    <3>3. CASE EvSpurious(t)
      BY <3>3 DEF EvSpurious
    <3>4. CASE EvWoken(t)
      <4>1. Moves("exitlocked") \/ Moves("top")
        BY <3>4 DEF EvWoken
      <4> QED
        BY <4>1
    <3>5. CASE EvTop(t)
      <4>1. CASE events = <<>>
        <5>1. Moves("gowait")
          BY <3>5, <4>1 DEF EvTop
        <5> QED
          BY <5>1
      <4>2. CASE events # <<>>
        <5>1. Moves("pausing") \/ Moves("take")
          BY <3>5, <4>2 DEF EvTop
        <5> QED
          BY <5>1
      <4> QED
        BY <4>1, <4>2
    <3>6. CASE EvPause(t)
      <4>1. Moves("spin")
        BY <3>6 DEF EvPause
      <4> QED
        BY <4>1
    <3>7. CASE EvSpin(t)
      BY <3>7 DEF EvSpin
    <3>8. CASE EvRelock(t)
      BY <3>8 DEF EvRelock
    <3>9. CASE EvHandled(t)
      <4>1. Moves("after")
        BY <3>9 DEF EvHandled
      <4> QED
        BY <4>1
    <3>10. CASE EvFinish(t)
      BY <3>10 DEF EvFinish
    <3> QED
      BY <1>4, <3>1, <3>2, <3>3, <3>4, <3>5, <3>6, <3>7, <3>8, <3>9, <3>10
  <2>4. pause_level > 0 => /\ started[t] <= 1
                           /\ started[t] = 1 => l \notin {"take", "relock"}
    BY <2>3 DEF WakeInv, LateInv
  <2> QED
    BY <1>2, <1>3, <2>1, <2>2, <2>3, <2>4, WakeMove
<1>5. CASE EvTake(t)
  <2>1. pc[t] = "take" /\ events # <<>> /\ cpc' = cpc
    BY <1>5 DEF EvTake, IInv, QueueInv, jVars
  <2>2. PICK l \in {"handler", "skip"} : pc' = [pc EXCEPT ![t] = l]
    BY <1>5 DEF EvTake, Goto
  <2>3. l \in PcSet \ {"none", "exited", "start"} /\ l \in Awake
        /\ l \notin {"take", "relock", "exiting", "exitlocked"}
    BY DEF PcSet, Locked, Awake
  <2>4. /\ \A w \in Workers \ {t} : started'[w] = started[w]
        /\ pause_level > 0 => started'[t] <= 1
    <3>1. pause_level > 0 => started[t] = 0
      BY <1>1, <2>1 DEF WakeInv, LateInv
    <3> QED
      BY <1>1, <1>5, <3>1 DEF EvTake, CountStart
  <2> QED
    BY <1>2, <2>1, <2>2, <2>3, <2>4, WakeMove
<1> QED
  BY <1>4, <1>5

\* A thread ends.
LEMMA WakeExit == ASSUME IInv, WakeInv, NEW t \in EvThreads, EvExit(t) PROVE WakeInv'
<1> USE WorkerFacts
<1>1. pc \in [Workers -> PcSet] /\ pc[t] \in {"exiting", "exitlocked"}
  BY DEF EvExit, IInv, TypeOK, WorkerTypeOK
<1>2. UNCHANGED <<kill_on, pause_level, started, events, awoken, jVars, event_threads>>
  BY DEF EvExit, pVars, lVars
<1>3. /\ pc' \in [Workers -> PcSet] /\ pc'[t] = "exited"
      /\ \A w \in Workers \ {t} : pc'[w] = pc[w] \/ (pc[w] = "wait" /\ pc'[w] = "woken")
  <2> DEFINE r == [pc EXCEPT ![t] = "exited"]
  <2>1. PICK p \in Signal(r) : pc' \in Signal(p)
    BY DEF EvExit, event_thread_cleanup
  <2>2. r \in [Workers -> PcSet]
    BY <1>1 DEF PcSet
  <2>3. Woke(r, p)
    BY <2>2, <2>1, SignalWakes
  <2>4. Woke(p, pc')
    BY <2>1, <2>3, SignalWakes DEF Woke
  <2> QED
    BY <1>1, <2>3, <2>4 DEF Woke
<1>4. LateInv'
  BY <1>2, <1>3 DEF WakeInv, LateInv
<1>5. ResizeInv' /\ RemainInv' /\ (ShuttingDown' <=> ShuttingDown)
  BY <1>2 DEF WakeInv, ResizeInv, RemainInv, ShuttingDown, jVars
<1>6. EndInv'
  BY <1>2, <1>3 DEF WakeInv, EndInv, jVars
<1>7. ASSUME ~ShuttingDown PROVE \E u \in EvThreads : pc'[u] \in Awake
  <2>1. PICK th \in Callers : cpc[th] = "join" /\ victim[th] = t
    BY <1>1 DEF WakeInv, EndInv
  <2>2. th \in EvThreads /\ th # t /\ pc[th] = "handler"
    BY <1>7, <2>1, Joiner
  <2>3. pc'[th] = "handler"
    BY <1>3, <2>2
  <2> QED
    BY <2>2, <2>3 DEF Awake, PcSet
<1>8. SeasonedInv' /\ NoLostWakeup'
  BY <1>5, <1>7 DEF SeasonedInv, NoLostWakeup, ShuttingDown
<1> QED
  BY <1>4, <1>5, <1>6, <1>8 DEF WakeInv

\* add_to_event_queue: the signal finds a waiting thread, or a thread is awake.
LEMMA WakeEnqueue ==
  ASSUME IInv, WakeInv, NEW c, NEW kind, add_to_event_queue(c, kind)
  PROVE  WakeInv'
<1> USE WorkerFacts
<1>1. pc \in [Workers -> PcSet] /\ event_queue_mutex = NoThread /\ pc' \in Signal(pc)
  BY DEF add_to_event_queue, IInv, TypeOK, WorkerTypeOK
<1>2. UNCHANGED <<kill_on, pause_level, started, awoken, jVars, event_threads>>
  BY DEF add_to_event_queue, pVars, lVars
<1>3. Woke(pc, pc')
  BY <1>1, SignalWakes
<1>4. LateInv'
  BY <1>2, <1>3 DEF WakeInv, LateInv, Woke
<1>5. ResizeInv' /\ RemainInv' /\ (ShuttingDown' <=> ShuttingDown)
  BY <1>2 DEF WakeInv, ResizeInv, RemainInv, ShuttingDown, jVars
<1>6. EndInv'
  BY <1>2, <1>3 DEF WakeInv, EndInv, jVars, Woke
<1>7. ASSUME ~ShuttingDown, awoken PROVE \E u \in EvThreads : pc'[u] \in Awake
  <2>1. PICK t \in EvThreads : pc[t] \in Awake \cup {"gowait", "wait"}
    BY <1>7 DEF WakeInv, SeasonedInv
  <2>2. pc[t] # "gowait"
    BY <1>1, ThreadAssumption DEF IInv, QueueInv, Locked, Callers
  <2>3. CASE pc[t] \in Awake
    BY <1>3, <2>3 DEF Woke, Awake
  <2>4. CASE pc[t] = "wait"
    <3>1. PICK u \in EvThreads : pc' = [pc EXCEPT ![u] = "woken"]
      BY <1>1, <2>4 DEF Signal
    <3>2. pc'[u] = "woken"
      BY <1>1, <3>1
    <3> QED
      BY <3>2 DEF Awake, PcSet
  <2> QED
    BY <2>1, <2>2, <2>3, <2>4
<1>8. SeasonedInv' /\ NoLostWakeup'
  BY <1>2, <1>5, <1>7 DEF SeasonedInv, NoLostWakeup, ShuttingDown
<1> QED
  BY <1>4, <1>5, <1>6, <1>8 DEF WakeInv

\* The timer thread.
LEMMA WakeTimer == ASSUME IInv, WakeInv, TmrStep PROVE WakeInv'
<1> USE WorkerFacts
<1>1. /\ pc \in [Workers -> PcSet] /\ pause_level \in Nat /\ started \in [Workers -> 0..2]
  BY DEF IInv, TypeOK, WorkerTypeOK, PauseTypeOK
<1>2. UNCHANGED <<kill_on, pause_level, events, awoken, jVars, event_threads>>
  BY DEF TmrStep, TmrTop, TmrPause, TmrSpin, TmrTake, TmrDone, TmrUnchanged, qVars, pVars,
         lVars
<1>3. \A w \in Workers \ {Timer} : pc'[w] = pc[w] /\ started'[w] = started[w]
  <2>1. CASE TmrTake
    BY <1>1, <2>1 DEF TmrTake, Goto, CountStart
  <2>2. CASE ~TmrTake
    BY <1>1, <2>2 DEF TmrStep, TmrTop, TmrPause, TmrSpin, TmrDone, Goto
  <2> QED
    BY <2>1, <2>2
<1>4. pause_level > 0 => started'[Timer] <= 1
                         /\ (started'[Timer] = 1 => pc'[Timer] \notin {"take", "relock"})
  <2>1. CASE TmrTake
    <3>1. pause_level > 0 => started[Timer] = 0
      BY <1>1, <2>1 DEF TmrTake, WakeInv, LateInv
    <3>2. pc'[Timer] = "handler"
      BY <1>1, <2>1 DEF TmrTake, Goto
    <3>3. pause_level > 0 => started'[Timer] = 1
      BY <1>1, <2>1, <3>1 DEF TmrTake, CountStart
    <3> QED
      BY <3>2, <3>3
  <2>2. CASE ~TmrTake
    <3>1. started' = started
      BY <2>2 DEF TmrStep, TmrTop, TmrPause, TmrSpin, TmrDone
    <3>2. pause_level > 0 => pc'[Timer] \notin {"take", "relock"}
      BY <1>1, <2>2 DEF TmrStep, TmrTop, TmrPause, TmrSpin, TmrDone, Goto
    <3> QED
      BY <3>1, <3>2 DEF WakeInv, LateInv
  <2> QED
    BY <2>1, <2>2
<1>5. LateInv'
  BY <1>2, <1>3, <1>4 DEF WakeInv, LateInv
<1>6. ResizeInv' /\ RemainInv' /\ (ShuttingDown' <=> ShuttingDown)
  BY <1>2 DEF WakeInv, ResizeInv, RemainInv, ShuttingDown, jVars
<1>7. EndInv'
  BY <1>2, <1>3 DEF WakeInv, EndInv, jVars
<1>8. SeasonedInv' /\ NoLostWakeup'
  BY <1>2, <1>3, <1>6 DEF WakeInv, SeasonedInv, NoLostWakeup, ShuttingDown
<1> QED
  BY <1>5, <1>6, <1>7, <1>8 DEF WakeInv

\* Steps of callers that touch no thread: only the level and the jobs change.
LEMMA WakeCaller ==
  ASSUME IInv, WakeInv, NEW th \in Callers, NEW l \in CallPcs \ {"idle", "join"},
         cpc' = [cpc EXCEPT ![th] = l], cpc[th] # "join",
         UNCHANGED <<pc, kill_on, awoken, victim, event_threads>>,
         \A o \in Callers \ {th} : job'[o] = job[o],
         job'[th] = "setcnt" => th \in EvThreads,
         l \in {"wrlock", "resize"} => job'[th] \in {"setcnt", "killall"},
         events' # <<>> => events # <<>>,
         pause_level' > 0 => \/ pause_level > 0 /\ started' = started
                             \/ \A w \in Workers : started'[w] = 0
  PROVE  WakeInv'
<1> USE WorkerFacts
<1>1. /\ cpc \in [Callers -> CallPcs] /\ cpc'[th] = l
      /\ \A o \in Callers \ {th} : cpc'[o] = cpc[o]
  BY DEF IInv, TypeOK, JobTypeOK
<1>2. ShuttingDown => ShuttingDown'
  BY <1>1 DEF ShuttingDown
<1>3. LateInv'
  BY DEF WakeInv, LateInv
<1>4. ResizeInv'
  BY <1>1 DEF WakeInv, ResizeInv
<1>5. EndInv'
  BY <1>1 DEF WakeInv, EndInv
<1>6. SeasonedInv' /\ RemainInv'
  BY <1>2 DEF WakeInv, SeasonedInv, RemainInv
<1>7. NoLostWakeup'
  BY <1>2 DEF WakeInv, NoLostWakeup, ShuttingDown
<1> QED
  BY <1>3, <1>4, <1>5, <1>6, <1>7 DEF WakeInv

\* pause_event_threads
LEMMA WakePause ==
  ASSUME IInv, WakeInv, NEW th \in Callers,
         \/ PauseTry(th) \/ PauseTimer(th) \/ PauseScan(th) \/ UnpauseLock(th)
         \/ UnpauseTimer(th) \/ UnpauseScan(th)
  PROVE  WakeInv'
<1>1. /\ cpc \in [Callers -> CallPcs] /\ pause_level \in Nat
  BY DEF IInv, TypeOK, JobTypeOK, PauseTypeOK
<1>2. UNCHANGED <<pc, kill_on, awoken, victim, event_threads, job, events>>
  BY DEF PauseTry, PauseTimer, PauseScan, UnpauseLock, UnpauseTimer, UnpauseScan, qVars,
         wVars, lVars
<1>3. cpc[th] \in {"pause", "ptimer", "pscan", "unpause", "utimer", "uscan"}
  BY DEF PauseTry, PauseTimer, PauseScan, UnpauseLock, UnpauseTimer, UnpauseScan
<1>4. PICK l \in {"pause", "unpause", "done", "held", "ptimer", "pscan", "utimer", "uscan"} :
         cpc' = [cpc EXCEPT ![th] = l]
  <2> DEFINE L == {"pause", "unpause", "done", "held", "ptimer", "pscan", "utimer", "uscan"}
  <2>1. FailPc(th) \in L
    BY DEF FailPc
  <2>2. UnpausedPc(th, depth[th]) \in L /\ UnpausedPc(th, depth[th] - 1) \in L
    BY DEF UnpausedPc
  <2>3. CASE cpc' = cpc
    <3>1. cpc' = [cpc EXCEPT ![th] = cpc[th]]
      BY <1>1, <2>3
    <3> QED
      BY <1>3, <3>1
  <2>4. CASE PauseTry(th)
    BY <2>1, <2>4 DEF PauseTry, CallGoto
  <2>5. CASE cpc' # cpc /\ (PauseTimer(th) \/ PauseScan(th))
    BY <2>1, <2>5 DEF PauseTimer, PauseScan, CallGoto, PauseGiveUp
  <2>6. CASE UnpauseLock(th)
    BY <2>2, <2>6 DEF UnpauseLock, CallGoto
  <2>7. CASE cpc' # cpc /\ (UnpauseTimer(th) \/ UnpauseScan(th))
    BY <2>2, <2>7 DEF UnpauseTimer, UnpauseScan, CallGoto, UnpauseGiveUp
  <2> QED
    BY <2>3, <2>4, <2>5, <2>6, <2>7
<1>5. pause_level' > 0 => \/ pause_level > 0 /\ started' = started
                          \/ \A w \in Workers : started'[w] = 0
  <2>1. CASE PauseTry(th)
    BY <1>1, <2>1 DEF PauseTry, pVars
  <2>2. CASE ~PauseTry(th)
    <3>1. started' = started
      BY <2>2 DEF PauseTimer, PauseScan, UnpauseLock, UnpauseTimer, UnpauseScan, wVars
    <3>2. pause_level' = pause_level \/ pause_level' = pause_level - 1
      BY <2>2 DEF PauseTimer, PauseScan, UnpauseLock, UnpauseTimer, UnpauseScan, pVars,
                  PauseGiveUp, UnpauseGiveUp
    <3> QED
      BY <1>1, <3>1, <3>2
  <2> QED
    BY <2>1, <2>2
<1>6. l \in CallPcs \ {"idle", "join"}
  BY DEF CallPcs
<1>7. job[th] = "setcnt" => th \in EvThreads
  BY DEF WakeInv, ResizeInv
<1> QED
  BY <1>2, <1>3, <1>4, <1>5, <1>6, <1>7, WakeCaller

\* The jobs' own steps, as far as they change no thread.
LEMMA WakeJob ==
  ASSUME IInv, WakeInv, NEW th \in Callers,
         \/ CntTryLock(th) \/ ListWrlock(th) \/ ResizeDone(th) \/ JobDone(th)
         \/ th \in EvThreads /\ (ModuleCommand(th) \/ SetCntCommand(th) \/ ModuleWork(th))
         \/ th \in Conns /\ (ConnEnd(th) \/ PurgeLock(th) \/ PurgeErase(th) \/ PurgeDone(th))
         \/ th = Main /\ TimerJoined
  PROVE  WakeInv'
<1> USE WorkerFacts
<1>1. /\ cpc \in [Callers -> CallPcs] /\ pause_level \in Nat /\ job \in [Callers -> Jobs]
      /\ events \in Seq(Event)
  BY DEF IInv, TypeOK, JobTypeOK, PauseTypeOK, QueueTypeOK
<1>2. UNCHANGED <<pc, kill_on, awoken, victim, event_threads, started>>
  BY DEF CntTryLock, ListWrlock, ResizeDone, JobDone, ModuleCommand, SetCntCommand,
         ModuleWork, ConnEnd, PurgeLock, PurgeErase, PurgeDone, TimerJoined, Begin, wVars,
         lVars, jVars
<1>3. cpc[th] # "join"
  BY DEF CntTryLock, ListWrlock, ResizeDone, JobDone, ModuleCommand, SetCntCommand,
         ModuleWork, ConnEnd, PurgeLock, PurgeErase, PurgeDone, TimerJoined, Begin
<1>4. PICK l \in {"pause", "unpause", "wrlock", "resize", "gone", "purge"} :
        /\ cpc' = [cpc EXCEPT ![th] = l]
        /\ l \in {"wrlock", "resize"} => job[th] \in {"setcnt", "killall"} /\ job' = job
  <2>1. CASE PurgeErase(th)
    <3>1. cpc' = [cpc EXCEPT ![th] = "purge"]
      BY <1>1, <2>1 DEF PurgeErase, jVars
    <3> QED
      BY <3>1
  <2>2. CASE CntTryLock(th)
    BY <2>2 DEF CntTryLock, CallGoto
  <2>3. CASE ListWrlock(th)
    BY <2>3 DEF ListWrlock, CallGoto, WakeInv, ResizeInv
  <2>4. CASE ~PurgeErase(th) /\ ~CntTryLock(th) /\ ~ListWrlock(th)
    BY <2>4 DEF ResizeDone, JobDone, ModuleCommand, SetCntCommand, ModuleWork, ConnEnd,
                PurgeLock, PurgeDone, TimerJoined, CallGoto
  <2> QED
    BY <2>1, <2>2, <2>3, <2>4
<1>5. /\ \A o \in Callers \ {th} : job'[o] = job[o]
      /\ job'[th] = "setcnt" => th \in EvThreads
  <2>1. job[th] = "setcnt" => th \in EvThreads
    BY DEF WakeInv, ResizeInv
  <2>2. job' = job \/ job' = [job EXCEPT ![th] = "none"]
        \/ job' = [job EXCEPT ![th] = "cleanup"]
        \/ (th \in EvThreads /\ \E j \in Jobs : job' = [job EXCEPT ![th] = j])
    BY DEF CntTryLock, ListWrlock, ResizeDone, JobDone, ModuleCommand, SetCntCommand,
         ModuleWork, ConnEnd, PurgeLock, PurgeErase, PurgeDone, TimerJoined, Begin, jVars,
         Jobs
  <2> QED
    BY <1>1, <2>1, <2>2
<1>6. events' # <<>> => events # <<>>
  <2>1. CASE PurgeErase(th)
    <3>1. 1..0 = {}
      OBVIOUS
    <3>2. \E i \in 1..Len(events) : TRUE
      BY <2>1 DEF PurgeErase, Doomed
    <3> QED
      BY <1>1, <3>2, EmptySeq
  <2>2. CASE ~PurgeErase(th)
    BY <2>2 DEF CntTryLock, ListWrlock, ResizeDone, JobDone, ModuleCommand, SetCntCommand,
         ModuleWork, ConnEnd, PurgeLock, PurgeDone, TimerJoined, Begin, qVars
  <2> QED
    BY <2>1, <2>2
<1>7. pause_level' > 0 => pause_level > 0
  BY <1>1 DEF CntTryLock, ListWrlock, ResizeDone, JobDone, ModuleCommand, SetCntCommand,
         ModuleWork, ConnEnd, PurgeLock, PurgeErase, PurgeDone, TimerJoined, Begin, pVars,
         init_event_threads
<1>8. l \in CallPcs \ {"idle", "join"}
  BY DEF CallPcs
<1> QED
  BY <1>2, <1>3, <1>4, <1>5, <1>6, <1>7, <1>8, WakeCaller

\* ircbot::cleanup: from here on threads are meant to end.
LEMMA WakeShutdown == ASSUME IInv, WakeInv, Shutdown PROVE WakeInv'
<1> USE WorkerFacts
<1>1. job \in [Callers -> Jobs] /\ kill_on \in [Workers -> BOOLEAN]
  BY DEF IInv, TypeOK, JobTypeOK, FlagTypeOK
<1>2. UNCHANGED <<pc, awoken, victim, event_threads, started, cpc, pause_level>>
  BY DEF Shutdown, lVars, pVars
<1>3. /\ \A t \in EvThreads : kill_on'[t] = kill_on[t]
      /\ job'[Main] = "killall" /\ \A o \in Callers \ {Main} : job'[o] = job[o]
  BY <1>1 DEF Shutdown
<1>4. ShuttingDown'
  BY <1>3 DEF ShuttingDown
<1>5. LateInv' /\ ResizeInv'
  BY <1>2, <1>3 DEF WakeInv, LateInv, ResizeInv
<1>6. EndInv'
  BY <1>2, <1>3 DEF WakeInv, EndInv
<1> QED
  BY <1>4, <1>5, <1>6
     DEF WakeInv, SeasonedInv, RemainInv, NoLostWakeup, ShuttingDown

LEMMA WakeCreate ==
  ASSUME IInv, WakeInv, NEW th \in Callers, CreateThread(th)
  PROVE  WakeInv'
<1> USE WorkerFacts
<1>1. /\ pc \in [Workers -> PcSet] /\ kill_on \in [Workers -> BOOLEAN]
      /\ event_threads \in Seq(EvThreads)
  BY DEF IInv, TypeOK, WorkerTypeOK, FlagTypeOK, ListTypeOK
<1>2. PICK t \in EvThreads :
        /\ pc[t] = "none" /\ pc' = [pc EXCEPT ![t] = "start"]
        /\ kill_on' = [kill_on EXCEPT ![t] = FALSE]
        /\ event_threads' = Append(event_threads, t)
  BY DEF CreateThread, Goto
<1>3. UNCHANGED <<events, awoken, started, cpc, job, victim, pause_level>>
  BY DEF CreateThread, qVars, pVars
<1>4. LateInv'
  BY <1>1, <1>2, <1>3 DEF WakeInv, LateInv
<1>5. ResizeInv' /\ (ShuttingDown' <=> ShuttingDown)
  BY <1>3 DEF WakeInv, ResizeInv, ShuttingDown
<1>6. EndInv'
  BY <1>1, <1>2, <1>3 DEF WakeInv, EndInv
<1>7. "none" \notin Awake /\ "none" \notin Awake \cup {"gowait", "wait"}
  BY DEF Awake
<1>8. SeasonedInv' /\ NoLostWakeup'
  BY <1>1, <1>2, <1>3, <1>5, <1>7 DEF WakeInv, SeasonedInv, NoLostWakeup, ShuttingDown
<1>9. RemainInv'
  BY <1>1, <1>2, AppendProperties DEF RemainInv
<1> QED
  BY <1>4, <1>5, <1>6, <1>8, <1>9 DEF WakeInv

LEMMA WakeKill ==
  ASSUME IInv, WakeInv, NEW th \in Callers, KillThread(th)
  PROVE  WakeInv'
<1> USE WorkerFacts
<1>1. /\ pc \in [Workers -> PcSet] /\ kill_on \in [Workers -> BOOLEAN]
      /\ event_threads \in Seq(EvThreads) /\ cpc \in [Callers -> CallPcs]
      /\ victim \in [Callers -> EvThreads \cup {NoThread}]
  BY DEF IInv, TypeOK, WorkerTypeOK, FlagTypeOK, ListTypeOK, JobTypeOK
<1>2. PICK v \in EvThreads :
        /\ v # th /\ kill_on' = [kill_on EXCEPT ![v] = TRUE]
        /\ victim' = [victim EXCEPT ![th] = v]
  <2>1. PICK i \in Killable(th) : /\ kill_on' = [kill_on EXCEPT ![event_threads[i]] = TRUE]
                                  /\ victim' = [victim EXCEPT ![th] = event_threads[i]]
    BY DEF KillThread
  <2>2. i \in 1..Len(event_threads) /\ event_threads[i] # th
    BY DEF Killable
  <2>3. event_threads[i] \in EvThreads
    BY <1>1, <2>2, ElementOfSeq
  <2> QED
    BY <2>1, <2>2, <2>3
<1>3. /\ cpc[th] = "resize" /\ cpc' = [cpc EXCEPT ![th] = "join"]
      /\ UNCHANGED <<events, awoken, started, job, pause_level, event_threads>>
  BY DEF KillThread, CallGoto, qVars, pVars, lVars
<1>4. \A w \in Workers : pc'[w] = pc[w] \/ (pc[w] = "wait" /\ pc'[w] = "woken")
  BY DEF KillThread, Broadcast
<1>5. LateInv'
  BY <1>3, <1>4 DEF WakeInv, LateInv
<1>6. ResizeInv'
  BY <1>1, <1>2, <1>3 DEF WakeInv, ResizeInv
<1>7. ShuttingDown => ShuttingDown'
  BY <1>1, <1>3 DEF ShuttingDown
<1>8. EndInv'
  BY <1>1, <1>2, <1>3, <1>4 DEF WakeInv, EndInv
<1>9. "woken" \in Awake /\ "wait" \notin Awake
  BY DEF Awake, PcSet
<1>10. SeasonedInv' /\ NoLostWakeup' /\ RemainInv'
  BY <1>3, <1>4, <1>7, <1>9
     DEF WakeInv, SeasonedInv, NoLostWakeup, RemainInv, ShuttingDown
<1> QED
  BY <1>5, <1>6, <1>8, <1>10 DEF WakeInv

LEMMA WakeJoin ==
  ASSUME IInv, WakeInv, NEW th \in Callers, JoinThread(th)
  PROVE  WakeInv'
<1> USE WorkerFacts
<1> DEFINE v == victim[th]
<1>1. /\ pc \in [Workers -> PcSet] /\ event_threads \in Seq(EvThreads)
      /\ cpc \in [Callers -> CallPcs] /\ victim \in [Callers -> EvThreads \cup {NoThread}]
  BY DEF IInv, TypeOK, WorkerTypeOK, ListTypeOK, JobTypeOK
<1>2. PICK i \in 1..Len(event_threads) :
        event_threads[i] = v /\ event_threads' = RemoveAt(event_threads, i)
  BY DEF JoinThread
<1>3. /\ cpc[th] = "join" /\ cpc' = [cpc EXCEPT ![th] = "resize"]
      /\ pc[v] = "exited" /\ pc' = [pc EXCEPT ![v] = "none"]
      /\ victim' = [victim EXCEPT ![th] = NoThread]
      /\ UNCHANGED <<events, awoken, started, job, kill_on, pause_level>>
  BY DEF JoinThread, CallGoto, Goto, qVars, pVars
<1>4. v \in EvThreads
  BY <1>1, <1>2, ElementOfSeq
<1> HIDE DEF v
<1>5. /\ pc'[v] = "none" /\ \A w \in Workers \ {v} : pc'[w] = pc[w]
  BY <1>1, <1>3, <1>4
<1>6. LateInv'
  BY <1>3, <1>5 DEF WakeInv, LateInv
<1>7. ResizeInv'
  BY <1>1, <1>3 DEF WakeInv, ResizeInv
<1>8. EndInv'
  BY <1>1, <1>3, <1>5 DEF WakeInv, EndInv, v
<1>9. ~ShuttingDown' => ~ShuttingDown
  BY <1>1, <1>3 DEF ShuttingDown
<1>10. "exited" \notin Awake \cup {"gowait", "wait"}
  BY DEF Awake
<1>11. SeasonedInv' /\ NoLostWakeup'
  BY <1>3, <1>4, <1>5, <1>9, <1>10 DEF WakeInv, SeasonedInv, NoLostWakeup, ShuttingDown
<1>12. ASSUME ~ShuttingDown PROVE event_threads' # <<>>
  <2>1. th \in EvThreads /\ th # v /\ pc[th] = "handler"
    BY <1>3, <1>12, Joiner DEF v
  <2>2. PICK k \in 1..Len(event_threads) : event_threads[k] = th
    BY <2>1 DEF IInv, ShutInv
  <2>3. \E m \in 1..Len(RemoveAt(event_threads, i)) : RemoveAt(event_threads, i)[m] = th
    BY <1>1, <1>2, <2>1, <2>2, RemoveAtProperties
  <2>4. Len(<<>>) = 0
    OBVIOUS
  <2> QED
    BY <1>2, <2>3, <2>4
<1>13. RemainInv'
  BY <1>9, <1>12 DEF RemainInv
<1> QED
  BY <1>6, <1>7, <1>8, <1>11, <1>13 DEF WakeInv

LEMMA WakeNext == IInv /\ WakeInv /\ [Next]_vars => WakeInv'
<1> SUFFICES ASSUME IInv, WakeInv, [Next]_vars PROVE WakeInv'
  OBVIOUS
<1> USE WorkerFacts
<1>1. CASE UNCHANGED vars
  BY <1>1 DEF vars, qVars, wVars, pVars, lVars, jVars, WakeInv, LateInv, ResizeInv, EndInv,
              SeasonedInv, RemainInv, NoLostWakeup, ShuttingDown
<1>2. ASSUME NEW t \in EvThreads,
             \/ EvStep(t) \/ EvSpurious(t) \/ HandlerEvent(t) \/ ModuleCommand(t)
             \/ SetCntCommand(t) \/ ModuleWork(t)
      PROVE  WakeInv'
  <2>1. CASE HandlerEvent(t)
    BY <2>1, WakeEnqueue DEF HandlerEvent
  <2>2. CASE EvStep(t) \/ EvSpurious(t)
    BY <2>2, WakeEv, WakeExit DEF EvStep
  <2>3. CASE ModuleCommand(t) \/ SetCntCommand(t) \/ ModuleWork(t)
    BY <2>3, WakeJob
  <2> QED
    BY <1>2, <2>1, <2>2, <2>3
<1>3. ASSUME NEW c \in Conns,
             ConnEvent(c) \/ ConnEnd(c) \/ PurgeLock(c) \/ PurgeErase(c) \/ PurgeDone(c)
      PROVE  WakeInv'
  <2>1. CASE ConnEvent(c)
    BY <2>1, WakeEnqueue DEF ConnEvent
  <2>2. CASE ConnEnd(c) \/ PurgeLock(c) \/ PurgeErase(c) \/ PurgeDone(c)
    BY <2>2, WakeJob
  <2> QED
    BY <1>3, <2>1, <2>2
<1>4. ASSUME NEW th \in Callers, CallStep(th) PROVE WakeInv'
  BY <1>4, WakePause, WakeJob, WakeCreate, WakeKill, WakeJoin DEF CallStep
<1>5. CASE TimerJoined
  BY <1>5, WakeJob
<1> QED
  BY <1>1, <1>2, <1>3, <1>4, <1>5, WakeTimer, WakeShutdown DEF Next
-----------------------------------------------------------------------------
(***************************************************************************)
(* The theorems.                                                           *)
(***************************************************************************)
\* The invariant of waiting, working and ending event threads.
THEOREM WakeInvariance == Spec => []WakeInv
BY Invariance, WakeInit, WakeNext, PTL DEF Spec

\* While event_thread_pause_level is positive no event thread begins a second
\* event, and the timer thread no second round.
THEOREM LateStartsBounded == Spec => []LateStartBound
<1>1. WakeInv => LateStartBound
  BY DEF WakeInv, LateInv, LateStartBound
<1> QED
  BY <1>1, WakeInvariance, PTL

\* Once a thread has been awake, no event waits while all threads sleep in
\* pthread_cond_wait, however threads are killed and created.
THEOREM NoWakeupLost == Spec => []NoLostWakeup
<1>1. WakeInv => NoLostWakeup
  BY DEF WakeInv
<1> QED
  BY <1>1, WakeInvariance, PTL

\* If the bot is configured to have an event thread, set_event_thread_cnt leaves
\* it one, and every thread that has not ended is in the list.
THEOREM ThreadsStay == ASSUME InitThreads # <<>> PROVE Spec => []ThreadsRemain
<1>1. IInv /\ WakeInv => ThreadsRemain
  BY DEF IInv, ShutInv, WakeInv, RemainInv, ThreadsRemain, ShuttingDown
<1> QED
  BY <1>1, Invariance, WakeInvariance, PTL
=============================================================================
