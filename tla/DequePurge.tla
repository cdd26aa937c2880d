----------------------------- MODULE DequePurge -----------------------------
(***************************************************************************)
(* The loop with which ircbot_conn::main_thread_cleanup (ircbot.cpp) takes *)
(* the events of a dying connection out of ircbot::events, a std::deque.   *)
(* The loop calls events.erase(it) and goes on with the old iterator,      *)
(* which erase has invalidated, so the module keeps the memory of the      *)
(* deque: cells, the half-open range lo..hi-1 that is the deque, and the   *)
(* cell the iterator points at.                                            *)
(***************************************************************************)
EXTENDS Integers, Sequences, SequencesExt, SeqKeep

CONSTANT MaxLen      \* bound: events in the queue when the loop begins

ASSUME MaxLenAssumption == MaxLen \in Nat \ {0}

VARIABLES kind,      \* what each event is, by its place in the initial queue
          cells,     \* the event that each memory cell holds
          lo, hi,    \* events.begin() and events.end()
          it,        \* the iterator
          freed,     \* how often delete_ircevent was called on each event
          done

vars == <<kind, cells, lo, hi, it, freed, done>>

\* An event of this connection, its DISCONNECTED event, an event of another.
Kinds == {"mine", "disconnected", "other"}
Events == DOMAIN kind

\* The queue as main_thread_cleanup finds it; cell 0 lies before the deque.
Init ==
  /\ kind \in UNION {[1..n -> Kinds] : n \in 1..MaxLen}
  /\ cells = [i \in 0..Len(kind) |-> i]
  /\ lo = 1 /\ hi = Len(kind) + 1
  /\ it = 1
  /\ freed = [e \in 1..Len(kind) |-> 0]
  /\ done = FALSE

\* The test (it->first == isrv) && (event_id != IRCEVENT_DISCONNECTED).  The
\* event_id of an event that was already deleted can read as anything.
Doomed(e) == kind[e] = "mine"
\* Mutant of MayDelete: the event_id is not tested.
MayDelete_anykind(e) == kind[e] # "other"
MayDelete(e) == Doomed(e)
MayKeep(e) == ~Doomed(e) \/ freed[e] > 0

\* deque::erase of libstdc++: the elements on the shorter side of the erased
\* one are shifted; the index is compared as an unsigned number, so an iterator
\* before the beginning counts as one near the end.
Erase ==
  LET index == it - lo IN
  IF index >= 0 /\ index < (hi - lo) \div 2
    THEN /\ cells' = [i \in DOMAIN cells |->
                        IF i \in (lo + 1)..it THEN cells[i - 1] ELSE cells[i]]
         /\ lo' = lo + 1
         /\ UNCHANGED hi
    ELSE /\ cells' = [i \in DOMAIN cells |->
                        IF i \in it..(hi - 2) THEN cells[i + 1] ELSE cells[i]]
         /\ hi' = hi - 1
         /\ UNCHANGED lo

\* delete_ircevent(it->second); bot->events.erase(it);
Delete ==
  /\ ~done /\ it # hi /\ MayDelete(cells[it])
  /\ freed' = [freed EXCEPT ![cells[it]] = @ + 1]
  /\ Erase
  /\ UNCHANGED <<kind, it, done>>

\* else it++;
Advance ==
  /\ ~done /\ it # hi /\ MayKeep(cells[it])
  /\ it' = it + 1
  /\ UNCHANGED <<kind, cells, lo, hi, freed, done>>

Finish ==
  /\ ~done /\ it = hi
  /\ done' = TRUE
  /\ UNCHANGED <<kind, cells, lo, hi, it, freed>>

Next == Delete \/ Advance \/ Finish

Spec == Init /\ [][Next]_vars

\* The events in the deque, front first.
Queue == [i \in 1..(hi - lo) |-> cells[lo + i - 1]]

\* The events that are to stay, among the first m of the initial queue; and all.
Staying == {e \in Events : ~Doomed(e)}
StayingOf(m) == Keep([i \in 1..Len(kind) |-> i], Staying, m)
Survivors == StayingOf(Len(kind))

\* ircbot.cpp, line 1784: the loop goes through the queue and deletes what
\* belongs to this object.  When it ends, exactly the other events are left, in
\* their order, and each event of the connection was deleted once.
PurgeExact ==
  done => /\ hi >= lo
          /\ Queue = Survivors
          /\ \A e \in Events : freed[e] = IF Doomed(e) THEN 1 ELSE 0

\* How bad it gets.  The iterator leaves the deque only when the front is
\* erased: a queue whose first event stays is purged exactly, and otherwise
\* survivors are lost from the front only (the step PurgeErase of module
\* EventThreads allows just that), and the deque stays well formed if the last
\* event survives.  No event of another connection and no DISCONNECTED event is
\* ever deleted.
OnlyFrontLost ==
  /\ \A e \in Events : freed[e] > 0 => Doomed(e)
  /\ done => /\ ~Doomed(1) => PurgeExact
             /\ ~Doomed(Len(kind)) => hi >= lo /\ IsSuffix(Queue, Survivors)
=============================================================================
