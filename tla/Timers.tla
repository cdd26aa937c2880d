------------------------------- MODULE Timers -------------------------------
(***************************************************************************)
(* The timer list of ircbot (ircbot.cpp): add_timer, del_timer,            *)
(* del_timer_by_cbptr, and the rounds of timer_thread, which calls what is *)
(* due and sleeps.  How the thread is paused is part of EventThreads.      *)
(*                                                                         *)
(* Time is counted in seconds relative to the clock: due is next - now,    *)
(* and a timer is due when it is not positive.  The thread sleeps          *)
(* (next - crnttime) * 1000 microseconds, that is next - crnttime over     *)
(* Ratio seconds, where Ratio is 1000 in the code.                         *)
(***************************************************************************)
EXTENDS Integers, Sequences, FiniteSets, SequencesExt

CONSTANTS Names, Fxns, \* names and callbacks of timers
          Intervals,   \* their intervals, in seconds
          AtTimes,     \* how far ahead an absolute time is (ATTIME)
          MaxInterval,
          Ratio,       \* how much shorter than next - crnttime the sleep is
          MaxAdds,     \* bound: timers added in a behaviour
          MaxSlow      \* bound: seconds the callbacks of a round take

ASSUME TimerAssumption ==
  /\ MaxInterval \in Nat \ {0} /\ Intervals \subseteq 1..MaxInterval
  /\ AtTimes \subseteq 0..MaxInterval
  /\ Ratio \in Nat \ {0} /\ MaxAdds \in Nat /\ MaxSlow \in Nat

VARIABLES
  timers,       \* ircbot::timers
  timer_nextid,
  tpc,          \* where timer_thread is; it holds timer_lock in "scan"
  it,           \* the position of its scan
  elapsed,      \* now - crnttime, in a round
  left,         \* what is left of its sleep
  rested        \* it has been through a round since the clock last moved

vars == <<timers, timer_nextid, tpc, it, elapsed, left, rested>>

Timer == [id : 0..(MaxAdds - 1), name : Names, fxn : Fxns, interval : Intervals,
          once : BOOLEAN, due : Int]

\* The variables have their types; in particular the thread is never put to
\* sleep for a negative time, which usleep would take for more than an hour.
TypeOK ==
  /\ timers \in Seq(Timer)
  /\ timer_nextid \in 0..MaxAdds
  /\ tpc \in {"top", "scan", "sleep"}
  /\ it \in Nat \ {0}
  /\ elapsed \in 0..MaxSlow
  /\ left \in Nat
  /\ rested \in BOOLEAN

Init ==
  /\ timers = <<>> /\ timer_nextid = 0
  /\ tpc = "top" /\ it = 1 /\ elapsed = 0 /\ left = 0 /\ rested = FALSE

(***************************************************************************)
(* The list.                                                               *)
(***************************************************************************)
IsSortedByNext(q) == \A i, j \in DOMAIN q : i < j => q[i].due <= q[j].due

\* The outcomes of std::sort, which is not stable, on the timers of q that are at
\* the positions ps.
sort_timers(q, ps) ==
  LET places == 1..Cardinality(ps) IN
  {p \in {[i \in places |-> q[f[i]]] :
            f \in {g \in [places -> ps] : ToSet(g) = ps}} : IsSortedByNext(p)}

\* The constructor of ircbot_timer_info: the first time is the interval from now,
\* or, for a timer of one shot, an absolute time.
TimerInfo(id) ==
  {t \in [id : {id}, name : Names, fxn : Fxns, interval : Intervals, once : BOOLEAN,
          due : Intervals \cup AtTimes] :
     t.due = t.interval \/ (t.once /\ t.due \in AtTimes)}

\* add_timer: a new id, push_back, sort.  (signal_timer_thread does nothing.)
add_timer ==
  /\ tpc # "scan" /\ timer_nextid < MaxAdds
  /\ timer_nextid' = timer_nextid + 1
  /\ \E t \in TimerInfo(timer_nextid) :
       timers' \in sort_timers(Append(timers, t), 1..(Len(timers) + 1))
  /\ UNCHANGED <<tpc, it, elapsed, left, rested>>

del_timer ==
  /\ tpc # "scan"
  /\ \E n \in Names :
       timers' \in sort_timers(timers, {i \in DOMAIN timers : timers[i].name # n})
  /\ UNCHANGED <<timer_nextid, tpc, it, elapsed, left, rested>>

del_timer_by_cbptr ==
  /\ tpc # "scan"
  /\ \E f \in Fxns :
       timers' \in sort_timers(timers, {i \in DOMAIN timers : timers[i].fxn # f})
  /\ UNCHANGED <<timer_nextid, tpc, it, elapsed, left, rested>>

(***************************************************************************)
(* timer_thread.                                                           *)
(***************************************************************************)
\* wrlock_timers and crnttime = time(NULL).
Round ==
  /\ tpc = "top"
  /\ tpc' = "scan" /\ it' = 1 /\ elapsed' = 0
  /\ UNCHANGED <<timers, timer_nextid, left, rested>>

\* The timer the scan is at is due at crnttime.
AtDue == it <= Len(timers) /\ timers[it].due + elapsed <= 0

\* Mutants: the interval is taken for seconds instead of milliseconds; the
\* iterator is advanced past the timer that moves up when one is erased.
Call_ms ==
  /\ tpc = "scan" /\ AtDue
  /\ IF timers[it].once
       THEN timers' = RemoveAt(timers, it) /\ UNCHANGED it
       ELSE /\ timers' = [timers EXCEPT ![it].due = Ratio * timers[it].interval - elapsed]
            /\ it' = it + 1
  /\ UNCHANGED <<timer_nextid, tpc, elapsed, left, rested>>
Call_skip ==
  /\ tpc = "scan" /\ AtDue
  /\ IF timers[it].once
       THEN timers' = RemoveAt(timers, it)
       ELSE timers' = [timers EXCEPT ![it].due = timers[it].interval - elapsed]
  /\ it' = it + 1
  /\ UNCHANGED <<timer_nextid, tpc, elapsed, left, rested>>

\* The callback; then a timer of one shot is erased, and another gets its next
\* time, counted from the beginning of the round, and stays where it is.
Call ==
  /\ tpc = "scan" /\ AtDue
  /\ IF timers[it].once
       THEN timers' = RemoveAt(timers, it) /\ UNCHANGED it
       ELSE /\ timers' = [timers EXCEPT ![it].due = timers[it].interval - elapsed]
            /\ it' = it + 1
  /\ UNCHANGED <<timer_nextid, tpc, elapsed, left, rested>>

\* wait_time, in seconds: for the first of the list, a millisecond a second.
WaitTime == IF timers = <<>> THEN 0 ELSE (timers[1].due + elapsed) \div Ratio

\* The scan ends at the first timer that is not due; unlock, usleep(wait_time).
Rest ==
  /\ tpc = "scan" /\ ~AtDue
  /\ left' = WaitTime
  /\ elapsed' = 0
  /\ rested' = TRUE
  /\ tpc' = "sleep"
  /\ UNCHANGED <<timers, timer_nextid, it>>

Wake ==
  /\ tpc = "sleep" /\ left = 0
  /\ tpc' = "top"
  /\ UNCHANGED <<timers, timer_nextid, it, elapsed, left, rested>>

\* A second passes.  The thread needs less than that for a round, but for
\* callbacks that take MaxSlow seconds together, and a sleep that has run out
\* ends within the second.
Tick ==
  /\ \/ tpc = "scan" /\ elapsed < MaxSlow /\ elapsed' = elapsed + 1
     \/ tpc = "sleep" /\ (left > 0 \/ rested) /\ UNCHANGED elapsed
  /\ timers' = [i \in DOMAIN timers |-> [timers[i] EXCEPT !.due = @ - 1]]
  /\ left' = IF left > 0 THEN left - 1 ELSE 0
  /\ rested' = FALSE
  /\ UNCHANGED <<timer_nextid, tpc, it>>

Next == \/ add_timer \/ del_timer \/ del_timer_by_cbptr
        \/ Round \/ Call \/ Rest \/ Wake \/ Tick

Spec == Init /\ [][Next]_vars

(***************************************************************************)
(* Properties.                                                             *)
(***************************************************************************)
\* The longest sleep; one that has run out ends within a second.
Doze == IF MaxInterval \div Ratio > 0 THEN MaxInterval \div Ratio ELSE 1

\* How late a callback can be.  A periodic timer that was called stays where it
\* is in the list and hides the timers behind it until it is due again, and a
\* sleeping thread is not told of a new timer; still each of the others hides a
\* timer for less than its interval, once, and what comes on top is a sleep, a
\* slow round that begins before the timer can be reached and a slow one in which
\* it is.
LateBound ==
  \A i \in DOMAIN timers :
    -timers[i].due <= (MaxAdds - 1) * (MaxInterval - 1) + 2 * MaxSlow + Doze
=============================================================================
