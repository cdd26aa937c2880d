---------------------------- MODULE EventThreads ----------------------------
(***************************************************************************)
(* The event machinery of ircbot (ircbot.cpp): the event queue with its    *)
(* mutex and condition variable, the event threads that drain it, the      *)
(* timer thread, and pause_event_threads, the hand-made lock under which   *)
(* modules are loaded, the number of event threads is changed, a           *)
(* connection is destroyed and the bot shuts down.                         *)
(*                                                                         *)
(* Every thread has a program counter.  A step is at most one access to    *)
(* the state that is shared without a common lock (event_thread_pause_     *)
(* level, ircevent_thread_state::state, kill_on), so that a value read in  *)
(* one step may be stale in the next.                                      *)
(***************************************************************************)
EXTENDS Integers, Sequences, FiniteSets, SequencesExt

CONSTANTS EvThreads,   \* event thread slots; a created thread uses a free one
          InitThreads, \* the threads ircbot::initialize creates, in list order
          Conns,       \* IRC connections; each is also its main thread
          Timer,       \* the timer thread
          Main,        \* the thread that runs ircbot::cleanup at the end
          NoThread,    \* tid 0 / an unlocked mutex
          NoEvent,     \* ets->evdata == NULL
          MaxEvents,   \* bound: events produced in a behaviour
          MaxNest,     \* bound: how deep one caller nests its pauses
          Counts,      \* the thread counts an administrator asks for
          Timeouts,    \* whether 15 seconds can pass while a pause waits
          Spurious     \* whether pthread_cond_wait may return unsignalled

Callers == EvThreads \cup Conns \cup {Main}
Workers == EvThreads \cup {Timer}
Event == [conn : Conns, kind : {"msg", "DISCONNECTED"}]

ASSUME ThreadAssumption ==
  /\ InitThreads \in Seq(EvThreads)
  /\ IsFiniteSet(EvThreads)
  /\ EvThreads \cap Conns = {}
  /\ Timer \notin Callers
  /\ Main \notin EvThreads \cup Conns
  /\ NoThread \notin Callers \cup {Timer}
  /\ NoEvent \notin Event
ASSUME BoundAssumption ==
  /\ MaxEvents \in Nat
  /\ MaxNest \in Nat \ {0}
  /\ Counts \subseteq Nat \ {0}
  /\ Timeouts \in BOOLEAN
  /\ Spurious \in BOOLEAN

VARIABLES
  events,         \* ircbot::events
  event_queue_mutex, \* its holder
  event_threads,  \* ircbot::event_threads, in list order
  list_wr,        \* the writer that holds the list's rwlock
  pc,             \* where each event thread and the timer thread is
  state,          \* ets->state and timer_thread_state
  evdata,         \* ets->evdata
  kill_on,        \* ets->kill_on, and kill_timer_thread_on for the timer
  pause_level,    \* event_thread_pause_level
  lock_owner,     \* event_thread_lock_owner
  fxn_lock,       \* pause_event_threads_fxn_lock
  cnt_lock,       \* set_event_thread_cnt_fxn_lock
  cpc,            \* where each caller of pause_event_threads is
  job,            \* what it calls it for
  depth,          \* how many pauses it has outstanding
  idx,            \* its position in the scan of event_threads
  want,           \* set_event_thread_cnt: newcnt - crntcnt
  victim,         \* the thread it is joining in ircevent_thread_state::kill
  conns,          \* irc_conns
  produced,       \* number of events produced so far
  started,        \* history: work begun by each worker since the pause began
  awoken          \* history: some event thread has left its first wait

qVars == <<events, event_queue_mutex, produced>>
wVars == <<pc, state, evdata, kill_on, started, awoken>>
pVars == <<pause_level, lock_owner, fxn_lock>>
lVars == <<event_threads, list_wr, cnt_lock>>
jVars == <<cpc, job, depth, idx, want, victim>>
vars == <<qVars, wVars, pVars, lVars, jVars, conns>>

\* Program counters at which an event thread holds event_queue_mutex.
Locked == {"gowait", "top", "pausing", "take", "skip", "exitlocked"}
PcSet == {"none", "start", "wait", "woken", "spin", "relock", "handler",
          "after", "exiting", "exited"} \cup Locked
States == {"IDLE", "WAITING", "RUNNING", "PAUSED"}
Jobs == {"none", "module", "setcnt", "cleanup", "killall"}
CallPcs == {"idle", "pause", "ptimer", "pscan", "held", "purge", "wrlock",
            "resize", "join", "unpause", "utimer", "uscan", "done", "gone"}

QueueTypeOK ==
  /\ events \in Seq(Event)
  /\ event_queue_mutex \in EvThreads \cup Conns \cup {NoThread}
  /\ produced \in 0..MaxEvents
WorkerTypeOK ==
  /\ pc \in [Workers -> PcSet]
  /\ state \in [Workers -> States]
  /\ evdata \in [EvThreads -> Event \cup {NoEvent}]
  /\ started \in [Workers -> 0..2]
FlagTypeOK ==
  /\ kill_on \in [Workers -> BOOLEAN]
  /\ awoken \in BOOLEAN
PauseTypeOK ==
  /\ pause_level \in Nat
  /\ lock_owner \in Callers \cup {NoThread}
  /\ fxn_lock \in Callers \cup {NoThread}
ListTypeOK ==
  /\ event_threads \in Seq(EvThreads)
  /\ list_wr \in Callers \cup {NoThread}
  /\ cnt_lock \in Callers \cup {NoThread}
  /\ conns \subseteq Conns
JobTypeOK ==
  /\ cpc \in [Callers -> CallPcs]
  /\ job \in [Callers -> Jobs]
  /\ depth \in [Callers -> Nat]
  /\ idx \in [Callers -> Nat]
  /\ want \in [Callers -> Int]
  /\ victim \in [Callers -> EvThreads \cup {NoThread}]

\* The variables have their types.  In particular no thread takes an event from
\* an empty queue (events stays a sequence, evdata an event) and no caller
\* lowers the pause level below 0.
TypeOK == /\ QueueTypeOK /\ WorkerTypeOK /\ FlagTypeOK
          /\ PauseTypeOK /\ ListTypeOK /\ JobTypeOK

\* ircbot::initialize has created the event threads and the timer thread, and
\* ircbot::run has launched the connections.
Init ==
  /\ events = <<>>
  /\ event_queue_mutex = NoThread
  /\ event_threads = InitThreads
  /\ list_wr = NoThread
  /\ pc = [t \in Workers |-> IF t = Timer THEN "top"
                             ELSE IF t \in ToSet(InitThreads) THEN "start" ELSE "none"]
  /\ state = [t \in Workers |-> "IDLE"]
  /\ evdata = [t \in EvThreads |-> NoEvent]
  /\ kill_on = [t \in Workers |-> FALSE]
  /\ pause_level = 0
  /\ lock_owner = NoThread
  /\ fxn_lock = NoThread
  /\ cnt_lock = NoThread
  /\ cpc = [th \in Callers |-> "idle"]
  /\ job = [th \in Callers |-> "none"]
  /\ depth = [th \in Callers |-> 0]
  /\ idx = [th \in Callers |-> 1]
  /\ want = [th \in Callers |-> 0]
  /\ victim = [th \in Callers |-> NoThread]
  /\ conns = Conns
  /\ produced = 0
  /\ started = [t \in Workers |-> 0]
  /\ awoken = FALSE
(***************************************************************************)
(* The queue and its condition variable.                                   *)
(***************************************************************************)
\* pthread_cond_signal: wakes one waiter of p, if there is one.
Signal(p) ==
  LET ws == {t \in EvThreads : p[t] = "wait"}
  IN  IF ws = {} THEN {p} ELSE {[p EXCEPT ![t] = "woken"] : t \in ws}

\* pthread_cond_broadcast.
Broadcast(p) == [t \in Workers |-> IF p[t] = "wait" THEN "woken" ELSE p[t]]

\* ircbot::add_to_event_queue, run by a connection or inside a handler: lock,
\* push_back, signal, unlock.
add_to_event_queue(c, kind) ==
  /\ event_queue_mutex = NoThread
  /\ produced < MaxEvents
  /\ events' = Append(events, [conn |-> c, kind |-> kind])
  /\ produced' = produced + 1
  /\ pc' \in Signal(pc)
  /\ UNCHANGED <<event_queue_mutex, state, evdata, kill_on, started, awoken,
                 pVars, lVars, jVars, conns>>

\* The main thread of c reports a message, or that it was disconnected.
ConnEvent(c) ==
  /\ c \in conns /\ cpc[c] = "idle"
  /\ \E kind \in {"msg", "DISCONNECTED"} : add_to_event_queue(c, kind)

\* A handler sends a message: ircbot_conn::privmsg queues BOTEVENT_PRIVMSG_SEND.
HandlerEvent(t) ==
  /\ pc[t] = "handler" /\ cpc[t] = "idle"
  /\ add_to_event_queue(evdata[t].conn, "msg")

(***************************************************************************)
(* ircbot::event_thread.                                                   *)
(***************************************************************************)
Goto(t, l) == pc' = [pc EXCEPT ![t] = l]
SetState(t, s) == state' = [state EXCEPT ![t] = s]

\* First lock of the queue mutex; state = WAITING before the first wait.
EvStart(t) ==
  /\ pc[t] = "start"
  /\ event_queue_mutex = NoThread
  /\ event_queue_mutex' = t
  /\ SetState(t, "WAITING")
  /\ Goto(t, "gowait")
  /\ UNCHANGED <<events, produced, evdata, kill_on, started, awoken,
                 pVars, lVars, jVars, conns>>

\* pthread_cond_wait begins: the mutex is released.
EvWait(t) ==
  /\ pc[t] = "gowait"
  /\ event_queue_mutex' = NoThread
  /\ Goto(t, "wait")
  /\ UNCHANGED <<events, produced, state, evdata, kill_on, started, awoken,
                 pVars, lVars, jVars, conns>>

\* pthread_cond_wait may return without a signal.
EvSpurious(t) ==
  /\ Spurious
  /\ pc[t] = "wait"
  /\ Goto(t, "woken")
  /\ UNCHANGED <<qVars, state, evdata, kill_on, started, awoken,
                 pVars, lVars, jVars, conns>>

\* pthread_cond_wait returns with the mutex; if(ets->kill_on) goto out.
EvWoken(t) ==
  /\ pc[t] = "woken"
  /\ event_queue_mutex = NoThread
  /\ event_queue_mutex' = t
  /\ Goto(t, IF kill_on[t] THEN "exitlocked" ELSE "top")
  /\ awoken' = TRUE
  /\ UNCHANGED <<events, produced, state, evdata, kill_on, started,
                 pVars, lVars, jVars, conns>>

\* Mutant of EvTop: the pause level is not read before each event.
EvTop_nolevel(t) ==
  /\ pc[t] = "top"
  /\ Goto(t, IF events = <<>> THEN "gowait" ELSE "take")
  /\ UNCHANGED <<qVars, state, evdata, kill_on, started, awoken,
                 pVars, lVars, jVars, conns>>

\* while(!events.empty()) and the read of event_thread_pause_level.
EvTop(t) ==
  /\ pc[t] = "top"
  /\ Goto(t, IF events = <<>> THEN "gowait"
             ELSE IF pause_level > 0 THEN "pausing" ELSE "take")
  /\ UNCHANGED <<qVars, state, evdata, kill_on, started, awoken,
                 pVars, lVars, jVars, conns>>

\* Mutant of EvPause: the queue stays locked while the thread is paused.
EvPause_locked(t) ==
  /\ pc[t] = "pausing"
  /\ SetState(t, "PAUSED")
  /\ Goto(t, "spin")
  /\ UNCHANGED <<qVars, evdata, kill_on, started, awoken,
                 pVars, lVars, jVars, conns>>

\* state = PAUSED; unlock.
EvPause(t) ==
  /\ pc[t] = "pausing"
  /\ SetState(t, "PAUSED")
  /\ event_queue_mutex' = NoThread
  /\ Goto(t, "spin")
  /\ UNCHANGED <<events, produced, evdata, kill_on, started, awoken,
                 pVars, lVars, jVars, conns>>

\* The loop that spins while the level is positive and watches kill_on.
EvSpin(t) ==
  /\ pc[t] = "spin"
  /\ \/ pause_level > 0 /\ kill_on[t] /\ Goto(t, "exiting")
     \/ pause_level = 0 /\ Goto(t, "relock")
  /\ UNCHANGED <<qVars, state, evdata, kill_on, started, awoken,
                 pVars, lVars, jVars, conns>>

\* Mutant of EvRelock: break out of the loop even if the queue is not empty.
EvRelock_break(t) ==
  /\ pc[t] = "relock"
  /\ event_queue_mutex = NoThread
  /\ event_queue_mutex' = t
  /\ SetState(t, "WAITING") /\ Goto(t, "gowait")
  /\ UNCHANGED <<events, produced, evdata, kill_on, started, awoken,
                 pVars, lVars, jVars, conns>>

\* Lock again; another thread may have emptied the queue.  The level is not
\* read again.
EvRelock(t) ==
  /\ pc[t] = "relock"
  /\ event_queue_mutex = NoThread
  /\ event_queue_mutex' = t
  /\ IF events = <<>>
       THEN SetState(t, "WAITING") /\ Goto(t, "gowait")
       ELSE UNCHANGED state /\ Goto(t, "take")
  /\ UNCHANGED <<events, produced, evdata, kill_on, started, awoken,
                 pVars, lVars, jVars, conns>>

\* History: one more piece of work begun by w, if a pause is in progress.
CountStart(w) ==
  started' = IF pause_level > 0 /\ started[w] < 2
               THEN [started EXCEPT ![w] = @ + 1] ELSE started

\* state = RUNNING, pop_front; an event of a connection that is gone is
\* skipped with the mutex held, any other is handled with it released.
EvTake(t) ==
  LET ev == Head(events) IN
  /\ pc[t] = "take"
  /\ SetState(t, "RUNNING")
  /\ events' = Tail(events)
  /\ evdata' = [evdata EXCEPT ![t] = ev]
  /\ IF ev.conn \in conns
       THEN event_queue_mutex' = NoThread /\ Goto(t, "handler")
       ELSE UNCHANGED event_queue_mutex /\ Goto(t, "skip")
  /\ CountStart(t)
  /\ UNCHANGED <<produced, kill_on, awoken, pVars, lVars, jVars, conns>>

\* event_cb_real returns; the job its command began, if any, has ended.
EvHandled(t) ==
  /\ pc[t] = "handler"
  /\ cpc[t] \in {"idle", "gone"}
  /\ Goto(t, "after")
  /\ cpc' = [cpc EXCEPT ![t] = "idle"]
  /\ UNCHANGED <<qVars, state, evdata, kill_on, started, awoken,
                 pVars, lVars, job, depth, idx, want, victim, conns>>

\* Mutant of EvFinish: if instead of while, one event for each wakeup.
EvFinish_once(t) ==
  /\ \/ pc[t] = "after" /\ event_queue_mutex = NoThread
     \/ pc[t] = "skip"
  /\ event_queue_mutex' = t
  /\ SetState(t, "WAITING")
  /\ evdata' = [evdata EXCEPT ![t] = NoEvent]
  /\ Goto(t, IF kill_on[t] THEN "exitlocked" ELSE "gowait")
  /\ UNCHANGED <<events, produced, kill_on, started, awoken,
                 pVars, lVars, jVars, conns>>

\* skip_event_handler: state = WAITING, evdata = NULL, and the kill_on test
\* (the code compares it with WAITING, which is 1).
EvFinish(t) ==
  /\ \/ pc[t] = "after" /\ event_queue_mutex = NoThread
     \/ pc[t] = "skip"
  /\ event_queue_mutex' = t
  /\ SetState(t, "WAITING")
  /\ evdata' = [evdata EXCEPT ![t] = NoEvent]
  /\ Goto(t, IF kill_on[t] THEN "exitlocked" ELSE "top")
  /\ UNCHANGED <<events, produced, kill_on, started, awoken,
                 pVars, lVars, jVars, conns>>

\* The mutex is of the error checking kind: an unlock by a thread that does not
\* hold it fails, and nobody looks at that.
UnlockIfOwned(t) ==
  event_queue_mutex' = IF event_queue_mutex = t THEN NoThread ELSE event_queue_mutex

\* The cleanup handler of a thread that ends; p is pc after the signal at out.
event_thread_cleanup(t, p) ==
  /\ SetState(t, "IDLE")
  /\ pc' \in Signal(p)
  /\ UnlockIfOwned(t)

\* out: signal another thread, unlock, then the cleanup handler.
EvExit(t) ==
  /\ pc[t] \in {"exiting", "exitlocked"}
  /\ \E p \in Signal([pc EXCEPT ![t] = "exited"]) : event_thread_cleanup(t, p)
  /\ UNCHANGED <<events, produced, evdata, kill_on, started, awoken,
                 pVars, lVars, jVars, conns>>

(***************************************************************************)
(* ircbot::timer_thread, as far as pausing is concerned.                   *)
(***************************************************************************)
TmrUnchanged == UNCHANGED <<qVars, evdata, kill_on, awoken, pVars, lVars,
                            jVars, conns>>

TmrTop ==
  /\ pc[Timer] = "top"
  /\ Goto(Timer, IF kill_on[Timer] THEN "exited"
                 ELSE IF pause_level # 0 THEN "pausing" ELSE "take")
  /\ UNCHANGED <<state, started>> /\ TmrUnchanged

TmrPause ==
  /\ pc[Timer] = "pausing"
  /\ SetState(Timer, "PAUSED")
  /\ Goto(Timer, "spin")
  /\ UNCHANGED started /\ TmrUnchanged

\* This loop does not look at kill_timer_thread_on.
TmrSpin ==
  /\ pc[Timer] = "spin"
  /\ pause_level = 0
  /\ Goto(Timer, "take")
  /\ UNCHANGED <<state, started>> /\ TmrUnchanged

\* state = RUNNING, then the callbacks that are due.
TmrTake ==
  /\ pc[Timer] = "take"
  /\ SetState(Timer, "RUNNING")
  /\ Goto(Timer, "handler")
  /\ CountStart(Timer)
  /\ TmrUnchanged

TmrDone ==
  /\ pc[Timer] = "handler"
  /\ SetState(Timer, "WAITING")
  /\ Goto(Timer, "top")
  /\ UNCHANGED started /\ TmrUnchanged

(***************************************************************************)
(* ircbot::pause_event_threads(true).                                      *)
(***************************************************************************)
CallGoto(th, l) == cpc' = [cpc EXCEPT ![th] = l]

\* Mutant of FailPc: a command goes on although the pause failed.
FailPc_ignored(th) == IF job[th] \in {"cleanup", "killall"} THEN "pause" ELSE "held"

\* What a caller does with a negative result: the loops of main_thread_cleanup
\* and kill_event_threads try again, commands report the failure; if it was a
\* nested pause, the outer one still has to be undone.
FailPc(th) == IF job[th] \in {"cleanup", "killall"} THEN "pause"
              ELSE IF depth[th] > 0 THEN "unpause" ELSE "done"

\* Mutant of OwnedByOther: the ownership test is missing.
OwnedByOther_never(th) == FALSE

\* The pause belongs to another thread.
OwnedByOther(th) == pause_level > 0 /\ lock_owner \notin {NoThread, th}

\* trylock fails: somebody waits inside the function, or another caller holds the
\* lock just as long as it takes to be told that the pause is not its own.
TrylockFails(th) ==
  \/ fxn_lock # NoThread
  \/ pause_level > 0 /\ \E o \in Callers \ {th} : cpc[o] = "pause"

\* trylock of the function lock, ownership test, level++; a nested pause
\* returns at once, a first one goes on to wait with the function lock held.
PauseTry(th) ==
  /\ cpc[th] = "pause"
  /\ \/ /\ TrylockFails(th) \/ OwnedByOther(th)
        /\ CallGoto(th, FailPc(th))
        /\ UNCHANGED <<pVars, depth, started>>
     \/ /\ fxn_lock = NoThread /\ ~OwnedByOther(th)
        /\ pause_level' = pause_level + 1
        /\ IF pause_level + 1 >= 2
             THEN /\ depth' = [depth EXCEPT ![th] = @ + 1]
                  /\ CallGoto(th, "held")
                  /\ UNCHANGED <<lock_owner, fxn_lock, started>>
             ELSE /\ lock_owner' = th
                  /\ fxn_lock' = th
                  /\ started' = [w \in Workers |-> 0]
                  /\ CallGoto(th, "ptimer")
                  /\ UNCHANGED depth
  /\ UNCHANGED <<qVars, pc, state, evdata, kill_on, awoken, lVars,
                 job, idx, want, victim, conns>>

\* max_exec_time exceeded: the pause is taken back.
PauseGiveUp(th) ==
  /\ Timeouts
  /\ pause_level' = pause_level - 1
  /\ lock_owner' = IF pause_level = 1 THEN NoThread ELSE lock_owner
  /\ fxn_lock' = NoThread
  /\ CallGoto(th, FailPc(th))
  /\ UNCHANGED depth

\* Wait until the timer thread is not RUNNING.
PauseTimer(th) ==
  /\ cpc[th] = "ptimer"
  /\ \/ state[Timer] # "RUNNING" /\ CallGoto(th, "pscan") /\ UNCHANGED <<pVars, depth>>
     \/ state[Timer] = "RUNNING" /\ PauseGiveUp(th)
  /\ idx' = [idx EXCEPT ![th] = 1]
  /\ UNCHANGED <<qVars, wVars, lVars, job, want, victim, conns>>

\* The scan of event_threads looks at one thread a step, under the list's read
\* lock; Readers holds that lock in the middle of a scan.
Readers == {th \in Callers : cpc[th] \in {"pscan", "uscan"} /\ idx[th] > 1}
ScanBlocked(th) == idx[th] = 1 /\ list_wr # NoThread
Scanned(th, s) ==
  LET t == event_threads[idx[th]] IN t # th /\ state[t] = s

\* Wait until no other event thread is RUNNING.
PauseScan(th) ==
  /\ cpc[th] = "pscan"
  /\ ~ScanBlocked(th)
  /\ IF idx[th] > Len(event_threads)
       THEN /\ fxn_lock' = NoThread
            /\ depth' = [depth EXCEPT ![th] = @ + 1]
            /\ idx' = [idx EXCEPT ![th] = 1]
            /\ CallGoto(th, "held")
            /\ UNCHANGED <<pause_level, lock_owner>>
       ELSE \/ /\ ~Scanned(th, "RUNNING")
               /\ idx' = [idx EXCEPT ![th] = @ + 1]
               /\ UNCHANGED <<pVars, cpc, depth>>
            \/ /\ Scanned(th, "RUNNING")
               /\ idx' = [idx EXCEPT ![th] = 1]
               /\ \/ UNCHANGED <<pVars, cpc, depth>>
                  \/ PauseGiveUp(th)
  /\ UNCHANGED <<qVars, wVars, lVars, job, want, victim, conns>>

(***************************************************************************)
(* ircbot::pause_event_threads(false).  No caller looks at its result.     *)
(***************************************************************************)
\* After an unpause: a caller that nested unpauses again, others go on.
UnpausedPc(th, d) == IF d > 0 THEN "unpause" ELSE "done"

\* Lock of the function lock, ownership and level tests, level--.
UnpauseLock(th) ==
  LET d == depth[th] - 1 IN
  /\ cpc[th] = "unpause"
  /\ fxn_lock = NoThread
  /\ depth' = [depth EXCEPT ![th] = d]
  /\ IF OwnedByOther(th) \/ pause_level <= 0
       THEN CallGoto(th, UnpausedPc(th, d)) /\ UNCHANGED pVars
       ELSE /\ pause_level' = pause_level - 1
            /\ fxn_lock' = th
            /\ CallGoto(th, "utimer")
            /\ UNCHANGED lock_owner
  /\ UNCHANGED <<qVars, wVars, lVars, job, idx, want, victim, conns>>

\* max_exec_time exceeded: the level stays lowered, the owner stays set.
UnpauseGiveUp(th) ==
  /\ Timeouts
  /\ fxn_lock' = NoThread
  /\ CallGoto(th, UnpausedPc(th, depth[th]))
  /\ UNCHANGED <<pause_level, lock_owner>>

\* Wait until the timer thread is not PAUSED.
UnpauseTimer(th) ==
  /\ cpc[th] = "utimer"
  /\ \/ state[Timer] # "PAUSED" /\ CallGoto(th, "uscan") /\ UNCHANGED pVars
     \/ state[Timer] = "PAUSED" /\ UnpauseGiveUp(th)
  /\ idx' = [idx EXCEPT ![th] = 1]
  /\ UNCHANGED <<qVars, wVars, lVars, job, depth, want, victim, conns>>

\* Mutant of UnpauseScan: the owner is cleared after an inner unpause too.
UnpauseScan_clears(th) ==
  /\ cpc[th] = "uscan"
  /\ ~ScanBlocked(th)
  /\ IF idx[th] > Len(event_threads)
       THEN /\ fxn_lock' = NoThread
            /\ lock_owner' = NoThread
            /\ idx' = [idx EXCEPT ![th] = 1]
            /\ CallGoto(th, UnpausedPc(th, depth[th]))
            /\ UNCHANGED pause_level
       ELSE /\ ~Scanned(th, "PAUSED")
            /\ idx' = [idx EXCEPT ![th] = @ + 1]
            /\ UNCHANGED <<pVars, cpc>>
  /\ UNCHANGED <<qVars, wVars, lVars, job, depth, want, victim, conns>>

\* Wait until no other event thread is PAUSED; the owner is cleared last.
UnpauseScan(th) ==
  /\ cpc[th] = "uscan"
  /\ ~ScanBlocked(th)
  /\ IF idx[th] > Len(event_threads)
       THEN /\ fxn_lock' = NoThread
            /\ lock_owner' = IF pause_level = 0 THEN NoThread ELSE lock_owner
            /\ idx' = [idx EXCEPT ![th] = 1]
            /\ CallGoto(th, UnpausedPc(th, depth[th]))
            /\ UNCHANGED pause_level
       ELSE \/ /\ ~Scanned(th, "PAUSED")
               /\ idx' = [idx EXCEPT ![th] = @ + 1]
               /\ UNCHANGED <<pVars, cpc>>
            \/ /\ Scanned(th, "PAUSED")
               /\ idx' = [idx EXCEPT ![th] = 1]
               /\ \/ UNCHANGED <<pVars, cpc>>
                  \/ UnpauseGiveUp(th)
  /\ UNCHANGED <<qVars, wVars, lVars, job, depth, want, victim, conns>>

(***************************************************************************)
(* The callers.  Each job pauses, does its work with the pause held, and   *)
(* unpauses.                                                               *)
(***************************************************************************)
Begin(th, j) ==
  /\ cpc[th] = "idle"
  /\ job' = [job EXCEPT ![th] = j]
  /\ UNCHANGED <<qVars, wVars, pVars, lVars, depth, idx, victim, conns>>

\* A command handler begins to load, unload or reload a module.
ModuleCommand(t) ==
  /\ pc[t] = "handler"
  /\ Begin(t, "module")
  /\ CallGoto(t, "pause")
  /\ UNCHANGED want

\* A command handler calls set_event_thread_cnt(n): the current count is read
\* before anything is locked, and an equal count returns at once.
SetCntCommand(t) ==
  /\ pc[t] = "handler"
  /\ \E n \in Counts :
       /\ n # Len(event_threads)
       /\ want' = [want EXCEPT ![t] = n - Len(event_threads)]
  /\ Begin(t, "setcnt")
  /\ CallGoto(t, "pause")

\* The main thread of a connection ends (or is cancelled): main_thread_cleanup.
ConnEnd(c) ==
  /\ c \in conns
  /\ Begin(c, "cleanup")
  /\ CallGoto(c, "pause")
  /\ UNCHANGED want

\* ircbot::cleanup after ircbot::wait has seen irc_conns empty: kill the timer
\* thread, then kill_event_threads.
Shutdown ==
  /\ conns = {}
  /\ cpc[Main] = "idle" /\ job[Main] = "none"
  /\ job' = [job EXCEPT ![Main] = "killall"]
  /\ kill_on' = [kill_on EXCEPT ![Timer] = TRUE]
  /\ UNCHANGED <<qVars, pc, state, evdata, started, awoken, pVars, lVars,
                 cpc, depth, idx, want, victim, conns>>

\* pthread_join of the timer thread returns.
TimerJoined ==
  /\ job[Main] = "killall" /\ cpc[Main] = "idle"
  /\ pc[Timer] = "exited"
  /\ CallGoto(Main, "pause")
  /\ UNCHANGED <<qVars, wVars, pVars, lVars, job, depth, idx, want, victim,
                 conns>>

\* load_module / unload_module run with the pause held; a module may itself
\* pause again (ircbot.h, line 299).
ModuleWork(t) ==
  /\ cpc[t] = "held" /\ job[t] = "module"
  /\ \/ depth[t] < MaxNest /\ CallGoto(t, "pause")
     \/ CallGoto(t, "unpause")
  /\ UNCHANGED <<qVars, wVars, pVars, lVars, job, depth, idx, want, victim,
                 conns>>

\* main_thread_cleanup with the pause held locks the queue.
PurgeLock(c) ==
  /\ cpc[c] = "held" /\ job[c] = "cleanup"
  /\ event_queue_mutex = NoThread
  /\ event_queue_mutex' = c
  /\ CallGoto(c, "purge")
  /\ UNCHANGED <<events, produced, wVars, pVars, lVars, job, depth, idx, want,
                 victim, conns>>

\* The events the loop removes, by position: those of c except DISCONNECTED.
Doomed(c) == {i \in 1..Len(events) : /\ events[i].conn = c
                                     /\ events[i].kind # "DISCONNECTED"}

\* One erase of the loop.  It goes on with an iterator that erase invalidates:
\* after the front of a longer deque was erased, the next survivor may end up
\* outside the deque and be lost too (module DequePurge follows the iterator).
PurgeErase(c) ==
  /\ cpc[c] = "purge"
  /\ \E i \in Doomed(c) :
       /\ \A j \in Doomed(c) : i <= j
       /\ \/ events' = RemoveAt(events, i)
          \/ /\ i = 1 /\ Len(events) >= 2 /\ 2 \notin Doomed(c)
             /\ events' = Tail(Tail(events))
  /\ UNCHANGED <<event_queue_mutex, produced, wVars, pVars, lVars, jVars, conns>>

\* The end of the loop: unlock, then unpause.
PurgeDone(c) ==
  /\ cpc[c] = "purge" /\ Doomed(c) = {}
  /\ event_queue_mutex' = NoThread
  /\ CallGoto(c, "unpause")
  /\ UNCHANGED <<events, produced, wVars, pVars, lVars, job, depth, idx, want,
                 victim, conns>>

\* set_event_thread_cnt: trylock of its own function lock.
CntTryLock(t) ==
  /\ cpc[t] = "held" /\ job[t] = "setcnt"
  /\ IF cnt_lock # NoThread
       THEN CallGoto(t, "unpause") /\ UNCHANGED cnt_lock
       ELSE CallGoto(t, "wrlock") /\ cnt_lock' = t
  /\ UNCHANGED <<qVars, wVars, pVars, event_threads, list_wr, job, depth, idx,
                 want, victim, conns>>

\* event_threads.wrlock() in create_event_threads, set_event_thread_cnt and
\* kill_event_threads.
ListWrlock(th) ==
  /\ \/ cpc[th] = "wrlock"
     \/ cpc[th] = "held" /\ job[th] = "killall"
  /\ list_wr = NoThread /\ Readers = {}
  /\ list_wr' = th
  /\ CallGoto(th, "resize")
  /\ UNCHANGED <<qVars, wVars, pVars, event_threads, cnt_lock, job, depth, idx,
                 want, victim, conns>>

\* create_event_threads: newobj and pthread_create.
CreateThread(th) ==
  /\ cpc[th] = "resize" /\ want[th] > 0
  /\ \E t \in EvThreads :
       /\ pc[t] = "none"
       /\ event_threads' = Append(event_threads, t)
       /\ Goto(t, "start")
       /\ SetState(t, "IDLE")
       /\ kill_on' = [kill_on EXCEPT ![t] = FALSE]
  /\ want' = [want EXCEPT ![th] = @ - 1]
  /\ UNCHANGED <<qVars, evdata, started, awoken, pVars, list_wr, cnt_lock,
                 cpc, job, depth, idx, victim, conns>>

\* The positions of the threads th may still kill: all for kill_event_threads,
\* any but itself for set_event_thread_cnt until enough have been killed.
Killable(th) ==
  IF job[th] = "killall" \/ want[th] < 0
    THEN {i \in 1..Len(event_threads) : event_threads[i] # th} ELSE {}

\* ircevent_thread_state::kill of the first of them: kill_on = true, broadcast
\* without the mutex.
KillThread(th) ==
  /\ cpc[th] = "resize"
  /\ \E i \in Killable(th) :
       /\ \A j \in Killable(th) : i <= j
       /\ kill_on' = [kill_on EXCEPT ![event_threads[i]] = TRUE]
       /\ victim' = [victim EXCEPT ![th] = event_threads[i]]
  /\ pc' = Broadcast(pc)
  /\ CallGoto(th, "join")
  /\ UNCHANGED <<qVars, state, evdata, started, awoken, pVars, lVars, job,
                 depth, idx, want, conns>>

\* Mutant of JoinThread: the thread is removed from the list without the join.
JoinThread_detached(th) ==
  LET t == victim[th] IN
  /\ cpc[th] = "join"
  /\ \E i \in 1..Len(event_threads) :
       /\ event_threads[i] = t
       /\ event_threads' = RemoveAt(event_threads, i)
  /\ victim' = [victim EXCEPT ![th] = NoThread]
  /\ want' = [want EXCEPT ![th] = IF job[th] = "setcnt" THEN @ + 1 ELSE @]
  /\ CallGoto(th, "resize")
  /\ UNCHANGED <<qVars, wVars, pVars, list_wr, cnt_lock, job, depth, idx, conns>>

\* pthread_join returns and delobj removes the thread from the list.
JoinThread(th) ==
  LET t == victim[th] IN
  /\ cpc[th] = "join"
  /\ pc[t] = "exited"
  /\ \E i \in 1..Len(event_threads) :
       /\ event_threads[i] = t
       /\ event_threads' = RemoveAt(event_threads, i)
  /\ Goto(t, "none")
  /\ victim' = [victim EXCEPT ![th] = NoThread]
  /\ want' = [want EXCEPT ![th] = IF job[th] = "setcnt" THEN @ + 1 ELSE @]
  /\ CallGoto(th, "resize")
  /\ UNCHANGED <<qVars, state, evdata, kill_on, started, awoken, pVars,
                 list_wr, cnt_lock, job, depth, idx, conns>>

\* The list is as wanted: unlock it and the function lock, then unpause.
ResizeDone(th) ==
  /\ cpc[th] = "resize" /\ want[th] <= 0 /\ Killable(th) = {}
  /\ list_wr' = NoThread
  /\ cnt_lock' = IF job[th] = "setcnt" THEN NoThread ELSE cnt_lock
  /\ want' = [want EXCEPT ![th] = 0]
  /\ CallGoto(th, "unpause")
  /\ UNCHANGED <<qVars, wVars, pVars, event_threads, job, depth, idx, victim,
                 conns>>

\* The pause is reset (the list is empty already).
init_event_threads == pause_level' = 0 /\ lock_owner' = NoThread

\* The job ends: a command returns to its handler, a connection deletes itself
\* from irc_conns, kill_event_threads resets the pause.
JobDone(th) ==
  /\ cpc[th] = "done"
  /\ CallGoto(th, "gone")
  /\ job' = [job EXCEPT ![th] = "none"]
  /\ want' = [want EXCEPT ![th] = 0]
  /\ conns' = conns \ {th}
  /\ IF job[th] = "killall"
       THEN init_event_threads
       ELSE UNCHANGED <<pause_level, lock_owner>>
  /\ UNCHANGED <<qVars, wVars, fxn_lock, lVars, depth, idx, victim>>

(***************************************************************************)
(* The specification.                                                      *)
(***************************************************************************)
EvStep(t) ==
  \/ EvStart(t) \/ EvWait(t) \/ EvWoken(t) \/ EvTop(t) \/ EvPause(t)
  \/ EvSpin(t) \/ EvRelock(t) \/ EvTake(t) \/ EvHandled(t) \/ EvFinish(t)
  \/ EvExit(t)

TmrStep == TmrTop \/ TmrPause \/ TmrSpin \/ TmrTake \/ TmrDone

CallStep(th) ==
  \/ PauseTry(th) \/ PauseTimer(th) \/ PauseScan(th)
  \/ UnpauseLock(th) \/ UnpauseTimer(th) \/ UnpauseScan(th)
  \/ CntTryLock(th) \/ ListWrlock(th) \/ CreateThread(th)
  \/ KillThread(th) \/ JoinThread(th) \/ ResizeDone(th) \/ JobDone(th)

Next ==
  \/ \E t \in EvThreads : \/ EvStep(t) \/ EvSpurious(t) \/ HandlerEvent(t)
                          \/ ModuleCommand(t) \/ SetCntCommand(t)
                          \/ ModuleWork(t)
  \/ TmrStep
  \/ \E c \in Conns : \/ ConnEvent(c) \/ ConnEnd(c)
                      \/ PurgeLock(c) \/ PurgeErase(c) \/ PurgeDone(c)
  \/ Shutdown \/ TimerJoined
  \/ \E th \in Callers : CallStep(th)

\* The steps of an event thread that wait for event_queue_mutex.
EvLock(t) == EvStart(t) \/ EvWoken(t) \/ EvRelock(t) \/ EvFinish(t)

\* Threads keep running: the scheduler is fair to each of them, and a thread
\* that waits for the queue mutex gets it if it is free again and again.  Nothing
\* makes messages arrive, handlers call commands, connections end, a wait return
\* unsignalled or 15 seconds pass.
Fairness ==
  /\ \A t \in EvThreads : /\ WF_vars(EvStep(t)) /\ SF_vars(EvLock(t))
                          /\ WF_vars(ModuleWork(t))
  /\ WF_vars(TmrStep)
  /\ \A c \in Conns : /\ SF_vars(PurgeLock(c))
                      /\ WF_vars(PurgeErase(c) \/ PurgeDone(c))
  /\ WF_vars(TimerJoined)
  /\ \A th \in Callers : WF_vars(CallStep(th))

Spec == Init /\ [][Next]_vars
FairSpec == Spec /\ Fairness
(***************************************************************************)
(* Properties.                                                             *)
(***************************************************************************)
\* th has been told that the event threads are paused and has not yet begun
\* its last unpause.
HoldsPause(th) ==
  cpc[th] \in {"held", "purge", "wrlock", "resize", "join", "unpause"}

\* pause_event_threads gives the pause to one thread at a time: two callers
\* never both work (load a module, purge the queue, change the thread list) in
\* the belief that they paused the bot, whatever times out.
ExclusivePause ==
  \A a, b \in Callers : HoldsPause(a) /\ HoldsPause(b) => a = b

\* What the pause really guarantees about work in progress: from the moment the
\* level becomes positive, no event thread begins a second event and the timer
\* thread no second round (event_thread and timer_thread read the level once
\* for each).  One may still begin, even after pause_event_threads has returned
\* success, so ircbot.h, line 355 (no event is handled while the level is not 0)
\* promises more than the code keeps.
LateStartBound == pause_level > 0 => \A w \in Workers : started[w] <= 1

\* An event is never left in the queue with every event thread asleep in
\* pthread_cond_wait, once one thread has been woken for the first time: the
\* signal of add_to_event_queue, the loop of event_thread and the signals of a
\* thread that exits hand it on.  (Before that the first signal can be lost:
\* event_thread waits without testing the queue.)
Awake == PcSet \ {"none", "start", "gowait", "wait", "exited"}
NoLostWakeup ==
  events # <<>> /\ awoken /\ job[Main] = "none" /\ cpc[Main] = "idle"
    => \E t \in EvThreads : pc[t] \in Awake

\* set_event_thread_cnt never removes the thread that runs it, so the bot is
\* never left without event threads before it shuts down, and a thread is
\* removed from the list only after it has left its handler.
ThreadsRemain ==
  /\ job[Main] = "none" /\ cpc[Main] = "idle" => event_threads # <<>>
  /\ \A t \in EvThreads : pc[t] \notin {"none", "exited"} =>
       \E i \in 1..Len(event_threads) : event_threads[i] = t

\* Loading a module and destroying a connection end, even if no wait ever times
\* out: pausers do not wait for each other (trylock and the ownership test see
\* to that), and neither do paused threads.
JobsEnd ==
  \A th \in Callers : cpc[th] = "pause" /\ job[th] \in {"module", "cleanup"}
                       ~> cpc[th] = "gone"

\* Once a thread is awake, the queue is drained, pauses notwithstanding, or the
\* bot shuts down.
QueueDrains ==
  (events # <<>> /\ \E t \in EvThreads : pc[t] \in Awake)
    ~> (events = <<>> \/ job[Main] # "none")

\* pause_event_threads is a recursive lock: every change of the pause level is
\* made by the thread the pause belongs to.
PL == INSTANCE PauseLock
        WITH Threads <- Callers,
             holder <- IF pause_level > 0 THEN lock_owner ELSE NoThread,
             depth <- pause_level
RefinesPauseLock == PL!Spec

\* ircbot.cpp, line 1080: a thread that waits for an event or is paused can be
\* cancelled at will, so one that is told to die while it waits does exit.
KillHonoured ==
  \A t \in EvThreads :
    kill_on[t] /\ state[t] \in {"WAITING", "PAUSED"} ~> pc[t] \in {"exited", "none"}
=============================================================================
