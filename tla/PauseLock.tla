----------------------------- MODULE PauseLock -----------------------------
(***************************************************************************)
(* What ircbot::pause_event_threads promises its callers about ownership:  *)
(* the pause is a recursive lock.  A thread may raise the pause level only *)
(* when nobody else holds the pause, and may lower it only while it holds  *)
(* it; threads run again once the owner has unpaused as often as it        *)
(* paused (comment in ircbot.h, line 299).                                 *)
(***************************************************************************)
EXTENDS Naturals

CONSTANTS Threads,   \* the threads that may call pause_event_threads
          NoThread   \* the tid 0 that event_thread_lock_owner holds when free;
                     \* not one of Threads

VARIABLES holder,    \* the thread the pause belongs to, or NoThread
          depth      \* how many pauses are outstanding

TypeOK == holder \in Threads \cup {NoThread} /\ depth \in Nat

Init == holder = NoThread /\ depth = 0

\* pause_event_threads(true) by th: first pause, or one more by the owner.
Acquire(th) ==
  /\ holder \in {NoThread, th}
  /\ holder' = th
  /\ depth' = depth + 1

\* pause_event_threads(false) by the owner (or its pause giving up).
Release(th) ==
  /\ holder = th
  /\ depth > 0
  /\ depth' = depth - 1
  /\ holder' = IF depth = 1 THEN NoThread ELSE th

Next == \E th \in Threads : Acquire(th) \/ Release(th)

vars == <<holder, depth>>

Spec == Init /\ [][Next]_vars
=============================================================================
