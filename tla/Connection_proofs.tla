------------------------- MODULE Connection_proofs -------------------------
(***************************************************************************)
(* Theorems about the life of connections (ircbot_conn), for any numbers   *)
(* of connections and event threads, any commands, and any number of       *)
(* connects and messages.                                                  *)
(*                                                                         *)
(* IInv is inductive.  Its parts and their uses:                           *)
(*   TypeInv      the variables have their types;                          *)
(*   ListInv      irc_conns has the objects that exist, and an object is   *)
(*                taken out of it by the thread that locked it;            *)
(*   DestructInv  is_destructing is set from the cleanup's start on;       *)
(*   HandlerInv   a handler runs for a connection that was in the list;    *)
(*   CallInv      every operation has its caller's reason to find its      *)
(*                connection: the write lock of the list, the pause, which *)
(*                waits for the handlers, or that it is its own.           *)
(* SenderInv is added for the send thread, and QueueInv for the events.    *)
(***************************************************************************)
EXTENDS Connection, SeqKeep_proofs

MainPcs ==
  {"new", "top", "connect", "dial", "announce", "decide", "leaving", "login",
   "loop", "logged", "ending", "out", "clean", "pause", "scan", "fxn", "purge",
   "delobj", "erase", "gone", "dead"}
EvPcs == {"wait", "paused", "resumed", "checked", "find", "run", "cmd"}
\* Where an operation uses the connection it is on.
InOp == {"lock", "body", "kill", "join", "post", "down", "cancel"}
OneOps == {"quit", "disconnect", "reconnect", "force_kill"}
CallType ==
  [op : AllOps \cup OneOps \cup {"end", "dtor", "none"}, todo : SUBSET Conns,
   on : Conns \cup {NoThread}, pc : InOp \cup {"idle", "list", "next", "lost"}]

TypeInv ==
  /\ cn \in [Conns -> ConnType]
  /\ mpc \in [Conns -> MainPcs]
  /\ ret \in [Conns -> {-1, 0}]
  /\ irc_conns \subseteq Conns
  /\ epc \in [EvThreads -> EvPcs]
  /\ call \in [Threads -> CallType]

ListInv ==
  \A c \in Conns : /\ c \in irc_conns <=> mpc[c] \notin {"new", "gone"}
                   /\ mpc[c] = "erase" <=> list_wr = c

\* The cleanup after the pause was granted, and before it.
Granted == {"fxn", "purge", "delobj", "erase", "gone"}
Cleaning == {"pause", "scan"} \cup Granted

DestructInv ==
  \A c \in Conns : /\ mpc[c] \in Cleaning => cn[c].is_destructing
                   /\ cn[c].is_destructing => mpc[c] \in Cleaning \cup {"dead"}

\* A handler's connection was found in the list, whatever became of it since.
HandlerInv ==
  /\ cur = [e \in EvThreads |-> cur[e]]
  /\ \A e \in EvThreads :
       epc[e] \in {"run", "cmd"} => cur[e][1] \in Conns /\ mpc[cur[e][1]] # "new"

\* An operation on all connections holds the list's write lock.
AllCall(t) ==
  /\ t \in EvThreads => epc[t] = "cmd"
  /\ t \notin Conns /\ call[t].op \in AllOps
  /\ \/ call[t].pc = "list"
     \/ /\ list_wr = t /\ call[t].todo \subseteq irc_conns
        /\ call[t].pc = "next" \/ (call[t].pc \in InOp /\ call[t].on \in irc_conns)

\* A handler's operation on one connection: it may begin after the connection was
\* deleted, but once it has passed the test of is_destructing the handler must end
\* before the cleanup gets its pause.
OneCall(t) ==
  /\ t \in EvThreads /\ epc[t] = "cmd" /\ call[t].op \in OneOps
  /\ \/ /\ call[t].pc \in {"next", "lost"}
        /\ \E c \in Conns : call[t].todo = {c} /\ mpc[c] # "new"
     \/ /\ call[t].pc \in InOp /\ call[t].on \in Conns
        /\ mpc[call[t].on] \notin Granted \cup {"new"}

\* A main thread's operation on its own connection.
OwnCall(t) ==
  /\ t \in Conns
  /\ \/ /\ call[t].op = "disconnect" /\ mpc[t] = "leaving"
        /\ \/ call[t].pc = "next" /\ call[t].todo = {t}
           \/ call[t].pc \in InOp /\ call[t].on = t
     \/ /\ call[t].pc \in {"kill", "join", "post", "down"} /\ call[t].on = t
        /\ \/ call[t].op = "end" /\ mpc[t] = "ending"
           \/ call[t].op = "dtor" /\ mpc[t] = "erase"

CallOk(t) == call[t] = Idle \/ AllCall(t) \/ OneCall(t) \/ OwnCall(t)
CallInv == \A t \in Threads : CallOk(t)

IInv == TypeInv /\ ListInv /\ DestructInv /\ HandlerInv /\ CallInv

\* Nobody calls pthread_cancel: force_kill is not used, and nothing takes wait
\* longer than 8 seconds.
NoCancel == "force_kill" \notin Cmds /\ ~Kills

\* The send thread exists only where the main thread will stop it.
SenderAt(c) ==
  \/ mpc[c] \in {"announce", "login", "loop", "logged", "dead"}
  \/ mpc[c] = "decide" /\ ret[c] = 0
  \/ mpc[c] = "leaving" /\ call[c].pc \in {"next", "lock", "body", "kill", "join"}
  \/ mpc[c] = "ending" /\ call[c].pc \in {"kill", "join"}

SenderInv ==
  /\ \A t \in Threads :
       call[t].op \notin {"force_kill", "killall"} /\ call[t].pc # "cancel"
  /\ \A c \in Conns : ~cn[c].canceled /\ (cn[c].send_thread_id => SenderAt(c))
-----------------------------------------------------------------------------
(***************************************************************************)
(* Threads and calls.                                                      *)
(***************************************************************************)
LEMMA ThreadFacts ==
  /\ Conns \subseteq Threads /\ EvThreads \subseteq Threads /\ Waiter \in Threads
  /\ Waiter \notin EvThreads /\ Waiter \notin Conns /\ NoThread \notin Threads
  /\ \A c \in Conns : c \notin EvThreads
BY ConnAssumption DEF Threads

LEMMA IdleType == Idle \in CallType /\ Idle.op = "none" /\ Idle.pc = "idle"
BY DEF Idle, CallType

LEMMA InitInv == Init => IInv
<1> SUFFICES ASSUME Init PROVE IInv
  OBVIOUS
<1> USE ThreadFacts, IdleType DEF Init
<1>1. NewConn \in ConnType
  BY DEF NewConn, ConnType
<1>2. TypeInv
  BY <1>1 DEF TypeInv, MainPcs, EvPcs
<1>3. ListInv
  BY DEF ListInv
<1>4. DestructInv
  BY DEF DestructInv, NewConn, Cleaning, Granted
<1>5. CallInv
  BY DEF CallInv, CallOk
<1>6. HandlerInv
  BY DEF HandlerInv
<1> QED
  BY <1>2, <1>3, <1>4, <1>5, <1>6 DEF IInv

\* A main thread is in an operation only where it waits for it.
LEMMA MainIdle ==
  ASSUME IInv, NEW c \in Conns, mpc[c] \notin {"leaving", "ending", "erase"}
  PROVE  call[c] = Idle
<1>1. CallOk(c)
  BY ThreadFacts DEF IInv, CallInv
<1>2. ~AllCall(c) /\ ~OneCall(c)
  BY ThreadFacts DEF AllCall, OneCall
<1>3. ~OwnCall(c)
  BY DEF OwnCall
<1> QED
  BY <1>1, <1>2, <1>3 DEF CallOk

\* A main thread's step leaves the other threads' operations as they were, if
\* the pause is granted only while no handler runs.
LEMMA OthersKeep ==
  ASSUME IInv, NEW c \in Conns, NEW y \in MainPcs \ {"new"},
         mpc' = [mpc EXCEPT ![c] = y], epc' = epc,
         \A t \in Threads \ {c} : call'[t] = call[t],
         y \in Granted => mpc[c] \in Granted \/ \A e \in EvThreads : ~Running(e),
         list_wr \notin Conns => irc_conns \subseteq irc_conns',
         \A t \in Threads \ Conns : list_wr = t => list_wr' = t
  PROVE  \A t \in Threads \ {c} : CallOk(t)'
<1> SUFFICES ASSUME NEW t \in Threads \ {c} PROVE CallOk(t)'
  OBVIOUS
<1>1. CallOk(t) /\ call'[t] = call[t]
  BY DEF IInv, CallInv
<1>2. mpc \in [Conns -> MainPcs] /\ \A d \in Conns : mpc'[d] = IF d = c THEN y ELSE mpc[d]
  BY DEF IInv, TypeInv
<1>3. CASE call[t] = Idle
  BY <1>1, <1>3 DEF CallOk, Idle
<1>4. CASE AllCall(t)
  <2>1. AllCall(t)'
    BY <1>1, <1>4 DEF AllCall
  <2> QED
    BY <2>1 DEF CallOk
<1>5. CASE OneCall(t)
  <2>1. Running(t)
    BY <1>5 DEF OneCall, Running
  <2>2. OneCall(t)'
    BY <1>1, <1>2, <1>5, <2>1 DEF OneCall
  <2> QED
    BY <2>2 DEF CallOk
<1>6. CASE OwnCall(t)
  <2>1. OwnCall(t)'
    BY <1>1, <1>2, <1>6 DEF OwnCall
  <2> QED
    BY <2>1 DEF CallOk
<1> QED
  BY <1>1, <1>3, <1>4, <1>5, <1>6 DEF CallOk

\* The steps of a main thread outside the list.
LEMMA MainKeeps ==
  ASSUME IInv, NEW c \in Conns, NEW y \in MainPcs \ {"new", "gone", "erase"},
         mpc' = [mpc EXCEPT ![c] = y], UNCHANGED <<epc, cur, irc_conns, list_wr>>,
         mpc[c] \notin {"new", "gone", "erase"},
         call' \in [Threads -> CallType], \A t \in Threads \ {c} : call'[t] = call[t],
         call'[c] = Idle \/ OwnCall(c)',
         y \in Granted => mpc[c] \in Granted \/ \A e \in EvThreads : ~Running(e),
         cn' \in [Conns -> ConnType], ret' \in [Conns -> {-1, 0}],
         \A d \in Conns \ {c} : cn'[d] = cn[d],
         y \in Cleaning => cn'[c].is_destructing,
         cn'[c].is_destructing => y \in Cleaning \cup {"dead"}
  PROVE  IInv'
<1> USE ThreadFacts
<1>1. mpc \in [Conns -> MainPcs] /\ \A d \in Conns : mpc'[d] = IF d = c THEN y ELSE mpc[d]
  BY DEF IInv, TypeInv
<1>2. TypeInv'
  BY <1>1 DEF IInv, TypeInv
<1>3. ListInv'
  BY <1>1 DEF IInv, ListInv
<1>4. DestructInv'
  BY <1>1 DEF IInv, DestructInv
<1>5. CallInv'
  <2>1. \A t \in Threads \ {c} : CallOk(t)'
    BY OthersKeep
  <2>2. CallOk(c)'
    BY DEF CallOk, Idle
  <2> QED
    BY <2>1, <2>2 DEF CallInv
<1>6. HandlerInv'
  BY <1>1 DEF IInv, HandlerInv
<1> QED
  BY <1>2, <1>3, <1>4, <1>5, <1>6 DEF IInv

\* The same, for the steps that begin and end no operation.
LEMMA MainGoes ==
  ASSUME IInv, NEW c \in Conns, NEW y \in MainPcs \ {"new", "gone", "erase"},
         mpc' = [mpc EXCEPT ![c] = y], UNCHANGED <<epc, cur, irc_conns, list_wr, call>>,
         mpc[c] \notin {"new", "gone", "erase"}, call[c] = Idle,
         y \in Granted => mpc[c] \in Granted \/ \A e \in EvThreads : ~Running(e),
         cn' \in [Conns -> ConnType], ret' \in [Conns -> {-1, 0}],
         \A d \in Conns \ {c} : cn'[d] = cn[d],
         y \in Cleaning => cn'[c].is_destructing,
         cn'[c].is_destructing => y \in Cleaning \cup {"dead"}
  PROVE  IInv'
<1>1. call' \in [Threads -> CallType] /\ call'[c] = Idle
  BY DEF IInv, TypeInv
<1> QED
  BY <1>1, MainKeeps
-----------------------------------------------------------------------------
(***************************************************************************)
(* ircbot_conn::main_loop and irc::main_loop.                              *)
(***************************************************************************)
LEMMA LoopInv ==
  ASSUME IInv, NEW c \in Conns,
         \/ LoopTest(c) \/ Connect(c) \/ DialFails(c) \/ DialSucceeds(c) \/ Announce(c)
         \/ Login(c) \/ LoggedIn(c) \/ LoggedInSet(c) \/ Receive(c) \/ Out(c)
  PROVE  IInv'
<1> DEFINE Before == {"top", "connect", "dial", "announce", "login", "loop", "logged",
                      "out"}
           After == {"out", "connect", "decide", "dial", "announce", "loop", "dead",
                     "logged", "clean"}
<1>1. mpc[c] \in Before /\ UNCHANGED <<epc, cur, irc_conns, list_wr, call>>
  BY DEF LoopTest, Connect, DialFails, DialSucceeds, Announce, Login, LoggedIn,
         LoggedInSet, Receive, Out, botVars
<1>2. PICK y \in After : mpc' = [mpc EXCEPT ![c] = y]
  <2>1. CASE Receive(c)
    <3>1. mpc' = [mpc EXCEPT ![c] = "loop"]
      BY <2>1 DEF Receive, IInv, TypeInv
    <3> QED
      BY <3>1
  <2>2. CASE ~Receive(c)
    BY <2>2 DEF LoopTest, Connect, DialFails, DialSucceeds, Announce, Login, LoggedIn,
                LoggedInSet, Out, Goto
  <2> QED
    BY <2>1, <2>2
<1>3. ret' \in [Conns -> {-1, 0}]
  BY DEF LoopTest, Connect, DialFails, DialSucceeds, Announce, Login, LoggedIn,
         LoggedInSet, Receive, Out, IInv, TypeInv
<1>4. /\ cn' \in [Conns -> ConnType] /\ \A d \in Conns \ {c} : cn'[d] = cn[d]
      /\ cn'[c].is_destructing = cn[c].is_destructing
  <2>0. cn \in [Conns -> ConnType] /\ NoThread \in Threads \cup {NoThread}
    BY DEF IInv, TypeInv
  <2>1. CASE UNCHANGED cn
    BY <2>0, <2>1
  <2>2. CASE LoopTest(c) /\ cn' # cn
    <3> DEFINE v == [cn[c] EXCEPT !.reconnect_on = FALSE]
    <3>1. v \in ConnType /\ v.is_destructing = cn[c].is_destructing
      BY <2>0 DEF ConnType
    <3>2. cn' = [cn EXCEPT ![c] = v]
      BY <2>0, <2>2 DEF LoopTest
    <3> HIDE DEF v
    <3> QED
      BY <2>0, <3>1, <3>2
  <2>3. CASE Connect(c) /\ cn' # cn
    <3> DEFINE v == [cn[c] EXCEPT !.status = "CONNECTING", !.quit_on_timer = FALSE]
    <3>1. v \in ConnType /\ v.is_destructing = cn[c].is_destructing
      BY <2>0 DEF ConnType
    <3>2. cn' = [cn EXCEPT ![c] = v]
      BY <2>0, <2>3 DEF Connect
    <3> HIDE DEF v
    <3> QED
      BY <2>0, <3>1, <3>2
  <2>4. CASE DialFails(c)
    <3> DEFINE v == [cn[c] EXCEPT !.status = "DISCONNECTED"]
    <3>1. v \in ConnType /\ v.is_destructing = cn[c].is_destructing
      BY <2>0 DEF ConnType
    <3>2. cn' = [cn EXCEPT ![c] = v]
      BY <2>0, <2>4 DEF DialFails
    <3> HIDE DEF v
    <3> QED
      BY <2>0, <3>1, <3>2
  <2>5. CASE DialSucceeds(c)
    <3> DEFINE v == [cn[c] EXCEPT !.sock = TRUE, !.send_thread_id = TRUE]
    <3>1. v \in ConnType /\ v.is_destructing = cn[c].is_destructing
      BY <2>0 DEF ConnType
    <3>2. cn' = [cn EXCEPT ![c] = v]
      BY <2>0, <2>5 DEF DialSucceeds
    <3> HIDE DEF v
    <3> QED
      BY <2>0, <3>1, <3>2
  <2>6. CASE LoggedInSet(c)
    <3> DEFINE v == [cn[c] EXCEPT !.status = "CONNECTED"]
    <3>1. v \in ConnType /\ v.is_destructing = cn[c].is_destructing
      BY <2>0 DEF ConnType
    <3>2. cn' = [cn EXCEPT ![c] = v]
      BY <2>0, <2>6 DEF LoggedInSet
    <3> HIDE DEF v
    <3> QED
      BY <2>0, <3>1, <3>2
  <2>7. CASE Out(c)
    <3> DEFINE v == [cn[c] EXCEPT !.disconnect_on = FALSE, !.reconnect_on = FALSE,
                                  !.main_thread_tid = FALSE]
    <3>1. v \in ConnType /\ v.is_destructing = cn[c].is_destructing
      BY <2>0 DEF ConnType
    <3>2. cn' = [cn EXCEPT ![c] = v]
      BY <2>0, <2>7 DEF Out
    <3> HIDE DEF v
    <3> QED
      BY <2>0, <3>1, <3>2
  <2> QED
    BY <2>1, <2>2, <2>3, <2>4, <2>5, <2>6, <2>7 DEF Announce, Login, LoggedIn, Receive
<1>5. ~cn[c].is_destructing
  BY <1>1 DEF IInv, DestructInv, Cleaning, Granted
<1>6. call[c] = Idle
  BY <1>1, MainIdle
<1>7. y \in MainPcs \ {"new", "gone", "erase"} /\ y \notin Granted /\ y \notin Cleaning
  BY DEF MainPcs, Granted, Cleaning
<1> QED
  BY <1>1, <1>2, <1>3, <1>4, <1>5, <1>6, <1>7, MainGoes

\* Where an operation of its own begins or ends.
LEMMA OwnInv ==
  ASSUME IInv, NEW c \in Conns,
         Decide(c) \/ Leave(c) \/ LoopEnd(c) \/ AfterLoop(c) \/ Canceled(c)
  PROVE  IInv'
<1> USE ThreadFacts, IdleType
<1>1. call \in [Threads -> CallType] /\ cn \in [Conns -> ConnType]
  BY DEF IInv, TypeInv
<1>2. UNCHANGED <<epc, cur, irc_conns, list_wr>>
  BY DEF Decide, Leave, LoopEnd, AfterLoop, Canceled, botVars
<1>3. ret' \in [Conns -> {-1, 0}]
  BY DEF Decide, Leave, LoopEnd, AfterLoop, Canceled, IInv, TypeInv
<1>4. CASE Decide(c) \/ LoopEnd(c)
  <2>1. /\ mpc[c] \in {"decide", "loop"} /\ call[c] = Idle /\ ~cn[c].is_destructing
        /\ UNCHANGED cn
    BY <1>4, MainIdle DEF Decide, LoopEnd, IInv, DestructInv, Cleaning, Granted
  <2>2. CASE /\ mpc' = [mpc EXCEPT ![c] = "leaving"]
             /\ call' = [call EXCEPT ![c] = [Idle EXCEPT !.op = "disconnect",
                                               !.todo = {c}, !.pc = "next"]]
    <3> DEFINE v == [Idle EXCEPT !.op = "disconnect", !.todo = {c}, !.pc = "next"]
    <3>1. /\ v \in CallType /\ v.op = "disconnect" /\ v.pc = "next" /\ v.todo = {c}
      BY DEF Idle, CallType, OneOps, InOp
    <3>2. call' \in [Threads -> CallType] /\ call'[c] = v
          /\ \A t \in Threads \ {c} : call'[t] = call[t]
      BY <1>1, <2>2, <3>1
    <3>3. OwnCall(c)'
      BY <2>2, <3>1, <3>2 DEF OwnCall, IInv, TypeInv
    <3>4. "leaving" \in MainPcs \ {"new", "gone", "erase"} /\ "leaving" \notin Cleaning
          /\ "leaving" \notin Granted
      BY DEF MainPcs, Cleaning, Granted
    <3> QED
      BY <1>1, <1>2, <1>3, <2>1, <2>2, <3>2, <3>3, <3>4, MainKeeps
  <2>3. CASE /\ mpc' = [mpc EXCEPT ![c] = "ending"]
             /\ call' = [call EXCEPT ![c] = [Idle EXCEPT !.op = "end", !.on = c,
                                                         !.pc = "kill"]]
    <3> DEFINE v == [Idle EXCEPT !.op = "end", !.on = c, !.pc = "kill"]
    <3>1. /\ v \in CallType /\ v.op = "end" /\ v.pc = "kill" /\ v.on = c
      BY DEF Idle, CallType, OneOps, InOp
    <3>2. call' \in [Threads -> CallType] /\ call'[c] = v
          /\ \A t \in Threads \ {c} : call'[t] = call[t]
      BY <1>1, <2>3, <3>1
    <3>3. OwnCall(c)'
      BY <2>3, <3>1, <3>2 DEF OwnCall, IInv, TypeInv
    <3>4. "ending" \in MainPcs \ {"new", "gone", "erase"} /\ "ending" \notin Cleaning
          /\ "ending" \notin Granted
      BY DEF MainPcs, Cleaning, Granted
    <3> QED
      BY <1>1, <1>2, <1>3, <2>1, <2>3, <3>2, <3>3, <3>4, MainKeeps
  <2>4. CASE UNCHANGED call
             /\ \E y \in {"out", "login", "top"} : mpc' = [mpc EXCEPT ![c] = y]
    <3>1. PICK y \in {"out", "login", "top"} : mpc' = [mpc EXCEPT ![c] = y]
      BY <2>4
    <3>2. y \in MainPcs \ {"new", "gone", "erase"} /\ y \notin Cleaning
          /\ y \notin Granted
      BY DEF MainPcs, Cleaning, Granted
    <3> QED
      BY <1>1, <1>2, <1>3, <2>1, <2>4, <3>1, <3>2, MainGoes
  <2> QED
    BY <1>4, <2>2, <2>3, <2>4 DEF Decide, LoopEnd, Goto
<1>5. CASE Leave(c) \/ AfterLoop(c)
  <2>1. /\ mpc[c] \in {"leaving", "ending"} /\ call[c] = Idle /\ UNCHANGED <<cn, call>>
        /\ ~cn[c].is_destructing
    BY <1>5 DEF Leave, AfterLoop, IInv, DestructInv, Cleaning, Granted
  <2>2. PICK y \in {"out", "top"} : mpc' = [mpc EXCEPT ![c] = y]
    BY <1>5 DEF Leave, AfterLoop, Goto
  <2>3. y \in MainPcs \ {"new", "gone", "erase"} /\ y \notin Cleaning
        /\ y \notin Granted
    BY DEF MainPcs, Cleaning, Granted
  <2> QED
    BY <1>1, <1>2, <1>3, <2>1, <2>2, <2>3, MainGoes
<1>6. CASE Canceled(c)
  <2>1. call' \in [Threads -> CallType] /\ call'[c] = Idle
        /\ \A t \in Threads \ {c} : call'[t] = call[t]
    BY <1>1, <1>6 DEF Canceled
  <2>2. /\ cn' \in [Conns -> ConnType] /\ \A d \in Conns \ {c} : cn'[d] = cn[d]
        /\ cn'[c].is_destructing = cn[c].is_destructing
    <3> DEFINE v == [cn[c] EXCEPT !.canceled = FALSE]
    <3>1. v \in ConnType /\ v.is_destructing = cn[c].is_destructing
      BY <1>1, ZenonT(60) DEF ConnType
    <3>2. cn' = [cn EXCEPT ![c] = v]
      BY <1>1, <1>6 DEF Canceled
    <3> HIDE DEF v
    <3> QED
      BY <1>1, <3>1, <3>2
  <2>3. PICK y \in {"clean", "dead"} :
           /\ mpc' = [mpc EXCEPT ![c] = y]
           /\ mpc[c] \notin {"new", "gone", "erase"}
           /\ mpc[c] \in Cleaning => y = "dead"
    BY <1>6 DEF Canceled, Goto, Cleaning, Granted
  <2>4. y \in MainPcs \ {"new", "gone", "erase"} /\ y \notin Cleaning
        /\ y \notin Granted /\ "dead" \notin Cleaning
    BY DEF MainPcs, Cleaning, Granted
  <2>5. cn[c].is_destructing => y = "dead"
    BY <1>6, <2>3 DEF IInv, DestructInv, Canceled
  <2> QED
    BY <1>2, <1>3, <2>1, <2>2, <2>3, <2>4, <2>5, MainKeeps
<1> QED
  BY <1>4, <1>5, <1>6
-----------------------------------------------------------------------------
(***************************************************************************)
(* ircbot_conn::main_thread_cleanup.                                       *)
(***************************************************************************)
LEMMA CleanInv ==
  ASSUME IInv, NEW c \in Conns,
         \/ CleanBegin(c) \/ PauseBegin(c) \/ PauseGranted(c) \/ PauseTimeout(c)
         \/ LockFxn(c) \/ Purge(c)
  PROVE  IInv'
<1> DEFINE After == {"pause", "scan", "fxn", "purge", "delobj"}
<1>1. /\ mpc[c] \in {"clean", "pause", "scan", "fxn", "purge"}
      /\ UNCHANGED <<epc, cur, irc_conns, list_wr, call, ret>>
  BY DEF CleanBegin, PauseBegin, PauseGranted, PauseTimeout, LockFxn, Purge, botVars
<1>2. PICK y \in After :
         /\ mpc' = [mpc EXCEPT ![c] = y]
         /\ y \in Granted => mpc[c] \in Granted \/ \A e \in EvThreads : ~Running(e)
  BY DEF CleanBegin, PauseBegin, PauseGranted, PauseTimeout, LockFxn, Purge, Goto, Granted
<1>3. /\ cn' \in [Conns -> ConnType] /\ \A d \in Conns \ {c} : cn'[d] = cn[d]
      /\ cn'[c].is_destructing
  <2>1. cn \in [Conns -> ConnType] /\ c \in Threads
    BY ThreadFacts DEF IInv, TypeInv
  <2>2. CASE CleanBegin(c)
    <3> DEFINE v == [cn[c] EXCEPT !.is_destructing = TRUE]
    <3>1. v \in ConnType /\ v.is_destructing
      BY <2>1 DEF ConnType
    <3>2. cn' = [cn EXCEPT ![c] = v]
      BY <2>1, <2>2 DEF CleanBegin
    <3> HIDE DEF v
    <3> QED
      BY <2>1, <3>1, <3>2
  <2>3. CASE LockFxn(c)
    <3> DEFINE v == [cn[c] EXCEPT !.connfxn_mutex = c, !.main_thread_tid = FALSE]
    <3>1. v \in ConnType /\ v.is_destructing = cn[c].is_destructing
      BY <2>1 DEF ConnType
    <3>2. cn' = [cn EXCEPT ![c] = v]
      BY <2>1, <2>3 DEF LockFxn
    <3>3. cn[c].is_destructing
      BY <2>3 DEF LockFxn, IInv, DestructInv, Cleaning, Granted
    <3> HIDE DEF v
    <3> QED
      BY <2>1, <3>1, <3>2, <3>3
  <2>4. CASE UNCHANGED cn /\ mpc[c] # "clean"
    BY <1>1, <2>1, <2>4 DEF IInv, DestructInv, Cleaning, Granted
  <2> QED
    BY <2>2, <2>3, <2>4 DEF PauseBegin, PauseGranted, PauseTimeout, Purge
<1>4. call[c] = Idle
  BY <1>1, MainIdle
<1>5. y \in MainPcs \ {"new", "gone", "erase"} /\ y \in Cleaning
  BY DEF MainPcs, Granted, Cleaning
<1>6. ret' \in [Conns -> {-1, 0}]
  BY <1>1 DEF IInv, TypeInv
<1> QED
  BY <1>1, <1>2, <1>3, <1>4, <1>5, <1>6, MainGoes

\* The object comes into the list and goes from it.
LEMMA LifeInv ==
  ASSUME IInv, NEW c \in Conns, Launch(c) \/ DelLock(c) \/ DelErase(c)
  PROVE  IInv'
<1>0. ASSUME NEW r \in ConnType
      PROVE  /\ [r EXCEPT !.main_thread_tid = TRUE] \in ConnType
             /\ [r EXCEPT !.main_thread_tid = TRUE].is_destructing = r.is_destructing
  BY DEF ConnType
<1> USE ThreadFacts, IdleType
<1>1. /\ call \in [Threads -> CallType] /\ cn \in [Conns -> ConnType]
      /\ mpc \in [Conns -> MainPcs]
  BY DEF IInv, TypeInv
<1>2. UNCHANGED <<epc, cur, ret>>
  BY DEF Launch, DelLock, DelErase
<1>3. CASE Launch(c)
  <2>1. /\ mpc[c] = "new" /\ list_wr = NoThread /\ UNCHANGED <<list_wr, call>>
        /\ irc_conns' = irc_conns \cup {c} /\ mpc' = [mpc EXCEPT ![c] = "top"]
    BY <1>3 DEF Launch, Goto
  <2>2. cn' \in [Conns -> ConnType]
        /\ \A d \in Conns : cn'[d].is_destructing = cn[d].is_destructing
    <3> DEFINE v == [cn[c] EXCEPT !.main_thread_tid = TRUE]
    <3>1. v \in ConnType /\ v.is_destructing = cn[c].is_destructing
      BY <1>0, <1>1
    <3>2. cn' = [cn EXCEPT ![c] = v]
      BY <1>1, <1>3 DEF Launch
    <3> HIDE DEF v
    <3> QED
      BY <1>1, <3>1, <3>2
  <2>3. "top" \in MainPcs \ {"new"} /\ "top" \notin Cleaning /\ "top" \notin Granted
        /\ "new" \notin Cleaning
    BY DEF MainPcs, Cleaning, Granted
  <2>4. TypeInv'
    BY <1>1, <1>2, <2>1, <2>2, <2>3 DEF IInv, TypeInv
  <2>5. ListInv'
    BY <1>1, <2>1 DEF IInv, ListInv
  <2>6. DestructInv'
    BY <1>1, <2>1, <2>2, <2>3 DEF IInv, DestructInv
  <2>7. CallInv'
    <3>1. \A t \in Threads \ {c} : CallOk(t)'
      BY <1>2, <2>1, <2>3, OthersKeep
    <3>2. CallOk(c)'
      BY <2>1, MainIdle DEF CallOk, Idle
    <3> QED
      BY <3>1, <3>2 DEF CallInv
  <2>8. HandlerInv'
    BY <1>1, <1>2, <2>1, <2>3 DEF IInv, HandlerInv
  <2> QED
    BY <2>8, <2>4, <2>5, <2>6, <2>7 DEF IInv
<1>4. CASE DelLock(c)
  <2>1. /\ mpc[c] = "delobj" /\ list_wr = NoThread /\ list_wr' = c
        /\ UNCHANGED <<cn, irc_conns>> /\ mpc' = [mpc EXCEPT ![c] = "erase"]
    BY <1>4 DEF DelLock, Goto
  <2>2. call[c] = Idle
    BY <2>1, MainIdle
  <2> DEFINE v == [Idle EXCEPT !.op = "dtor", !.on = c, !.pc = "kill"]
  <2>3. v \in CallType /\ v.op = "dtor" /\ v.pc = "kill" /\ v.on = c
    BY DEF Idle, CallType, InOp
  <2>4. call' = call \/ call' = [call EXCEPT ![c] = v]
    BY <1>4 DEF DelLock
  <2> HIDE DEF v
  <2>5. /\ call' \in [Threads -> CallType] /\ call'[c] \in {Idle, v}
        /\ \A t \in Threads \ {c} : call'[t] = call[t]
    BY <1>1, <2>2, <2>3, <2>4
  <2>6. "erase" \in MainPcs \ {"new"} /\ {"erase", "delobj"} \subseteq Cleaning
        /\ "delobj" \in Granted
    BY DEF MainPcs, Cleaning, Granted
  <2>7. TypeInv'
    BY <1>1, <1>2, <2>1, <2>5, <2>6 DEF IInv, TypeInv
  <2>8. ListInv'
    BY <1>1, <2>1 DEF IInv, ListInv
  <2>9. DestructInv'
    BY <1>1, <2>1, <2>6 DEF IInv, DestructInv
  <2>10. CallInv'
    <3>1. \A t \in Threads \ {c} : CallOk(t)'
      BY <1>2, <2>1, <2>5, <2>6, OthersKeep
    <3>2. mpc'[c] = "erase"
      BY <1>1, <2>1
    <3>3. CallOk(c)'
      BY <2>3, <2>5, <3>2 DEF CallOk, OwnCall, Idle
    <3> QED
      BY <3>1, <3>3 DEF CallInv
  <2>11. HandlerInv'
    BY <1>1, <1>2, <2>1, <2>6 DEF IInv, HandlerInv
  <2> QED
    BY <2>11, <2>7, <2>8, <2>9, <2>10 DEF IInv
<1>5. CASE DelErase(c)
  <2>1. /\ mpc[c] = "erase" /\ call[c] = Idle /\ list_wr' = NoThread
        /\ irc_conns' = irc_conns \ {c} /\ UNCHANGED <<cn, call>>
        /\ mpc' = [mpc EXCEPT ![c] = "gone"]
    BY <1>5 DEF DelErase, Goto
  <2>2. list_wr = c
    BY <2>1 DEF IInv, ListInv
  <2>3. "gone" \in MainPcs \ {"new"} /\ {"erase", "gone"} \subseteq Cleaning
        /\ "erase" \in Granted
    BY DEF MainPcs, Cleaning, Granted
  <2>4. TypeInv'
    BY <1>1, <1>2, <2>1, <2>3 DEF IInv, TypeInv
  <2>5. ListInv'
    BY <1>1, <2>1, <2>2 DEF IInv, ListInv
  <2>6. DestructInv'
    BY <1>1, <2>1, <2>3 DEF IInv, DestructInv
  <2>7. CallInv'
    <3>1. \A t \in Threads \ {c} : CallOk(t)'
      BY <1>2, <2>1, <2>2, <2>3, OthersKeep
    <3>2. CallOk(c)'
      BY <2>1 DEF CallOk, Idle
    <3> QED
      BY <3>1, <3>2 DEF CallInv
  <2>8. HandlerInv'
    BY <1>1, <1>2, <2>1, <2>3 DEF IInv, HandlerInv
  <2> QED
    BY <2>8, <2>4, <2>5, <2>6, <2>7 DEF IInv
<1> QED
  BY <1>3, <1>4, <1>5
-----------------------------------------------------------------------------
(***************************************************************************)
(* Event threads and operations.                                           *)
(***************************************************************************)
\* A step of thread t that moves no main thread leaves the operations of the
\* other threads as they were.
LEMMA CallKeeps ==
  ASSUME IInv, NEW t \in Threads, UNCHANGED <<mpc, ret, irc_conns>>,
         epc' \in [EvThreads -> EvPcs],
         \A e \in EvThreads \ {t} : epc'[e] = epc[e] /\ cur'[e] = cur[e],
         cur' = [e \in EvThreads |-> cur'[e]],
         t \in EvThreads /\ epc'[t] \in {"run", "cmd"}
           => cur'[t][1] \in Conns /\ mpc[cur'[t][1]] # "new",
         call' \in [Threads -> CallType], \A u \in Threads \ {t} : call'[u] = call[u],
         CallOk(t)',
         cn' \in [Conns -> ConnType],
         \A d \in Conns : cn'[d].is_destructing = cn[d].is_destructing,
         \/ list_wr' = list_wr
         \/ {list_wr, list_wr'} \subseteq {NoThread, t} /\ t \notin Conns
  PROVE  IInv'
<1> USE ThreadFacts
<1>1. TypeInv'
  BY DEF IInv, TypeInv
<1>2. ListInv'
  BY DEF IInv, ListInv
<1>3. DestructInv'
  BY DEF IInv, DestructInv
<1>4. ASSUME NEW u \in Threads \ {t} PROVE CallOk(u)'
  <2>1. CallOk(u) /\ call'[u] = call[u]
    BY DEF IInv, CallInv
  <2>2. CASE call[u] = Idle
    BY <2>1, <2>2 DEF CallOk, Idle
  <2>3. CASE AllCall(u)
    <3>1. AllCall(u)'
      BY <2>1, <2>3 DEF AllCall
    <3> QED
      BY <3>1 DEF CallOk
  <2>4. CASE OneCall(u)
    <3>1. OneCall(u)'
      BY <2>1, <2>4 DEF OneCall
    <3> QED
      BY <3>1 DEF CallOk
  <2>5. CASE OwnCall(u)
    <3>1. OwnCall(u)'
      BY <2>1, <2>5 DEF OwnCall
    <3> QED
      BY <3>1 DEF CallOk
  <2> QED
    BY <2>1, <2>2, <2>3, <2>4, <2>5 DEF CallOk
<1>5. CallInv'
  BY <1>4 DEF CallInv
<1>6. HandlerInv'
  BY DEF IInv, HandlerInv
<1> QED
  BY <1>1, <1>2, <1>3, <1>5, <1>6 DEF IInv

\* The same, for a step that leaves the event threads alone.
LEMMA CallStays ==
  ASSUME IInv, NEW t \in Threads, UNCHANGED <<mpc, ret, irc_conns, epc, cur>>,
         call' \in [Threads -> CallType], \A u \in Threads \ {t} : call'[u] = call[u],
         CallOk(t)',
         cn' \in [Conns -> ConnType],
         \A d \in Conns : cn'[d].is_destructing = cn[d].is_destructing,
         \/ list_wr' = list_wr
         \/ {list_wr, list_wr'} \subseteq {NoThread, t} /\ t \notin Conns
  PROVE  IInv'
<1>1. epc' \in [EvThreads -> EvPcs] /\ cur' = [e \in EvThreads |-> cur'[e]]
  BY DEF IInv, TypeInv, HandlerInv
<1>2. t \in EvThreads /\ epc'[t] \in {"run", "cmd"}
        => cur'[t][1] \in Conns /\ mpc[cur'[t][1]] # "new"
  BY DEF IInv, HandlerInv
<1> QED
  BY <1>1, <1>2, CallKeeps

\* A handler is in an operation only as "cmd".
LEMMA EvIdle ==
  ASSUME IInv, NEW e \in EvThreads, epc[e] # "cmd"
  PROVE  call[e] = Idle
<1>1. CallOk(e)
  BY ThreadFacts DEF IInv, CallInv
<1>2. ~AllCall(e) /\ ~OneCall(e)
  BY DEF AllCall, OneCall
<1>3. ~OwnCall(e)
  BY ThreadFacts DEF OwnCall
<1> QED
  BY <1>1, <1>2, <1>3 DEF CallOk

LEMMA EvInv ==
  ASSUME IInv, NEW e \in EvThreads, EvStep(e)
  PROVE  IInv'
<1> USE ThreadFacts
<1>1. UNCHANGED <<cn, mpc, ret, irc_conns, list_wr, call>>
  BY DEF EvStep, EvCheck, EvResume, EvRelock, EvTake, EvFind, EvDone, botVars
<1>2. epc \in [EvThreads -> EvPcs] /\ cur = [f \in EvThreads |-> cur[f]]
  BY DEF IInv, TypeInv, HandlerInv
<1>3. PICK l, x :
        /\ l \in EvPcs
        /\ epc' = [epc EXCEPT ![e] = l] /\ cur' = [cur EXCEPT ![e] = x]
        /\ l \in {"run", "cmd"} => x = cur[e] /\ cur[e][1] \in irc_conns
  <2>1. cur = [cur EXCEPT ![e] = cur[e]] /\ epc = [epc EXCEPT ![e] = epc[e]]
    BY <1>2
  <2>2. CASE EvCheck(e) \/ EvResume(e) \/ EvRelock(e) \/ EvFind(e)
    BY <1>2, <2>1, <2>2 DEF EvCheck, EvResume, EvRelock, EvFind, EvPcs
  <2>3. CASE EvTake(e)
    <3>1. /\ "find" \in EvPcs /\ "find" \notin {"run", "cmd"}
          /\ epc' = [epc EXCEPT ![e] = "find"]
          /\ cur' = [cur EXCEPT ![e] = Head(events)]
      BY <2>3 DEF EvTake, EvPcs
    <3> QED
      BY <3>1, Zenon
  <2>4. CASE EvDone(e)
    <3>1. /\ "wait" \in EvPcs /\ "wait" \notin {"run", "cmd"}
          /\ epc' = [epc EXCEPT ![e] = "wait"]
          /\ cur' = [cur EXCEPT ![e] = NoEvent]
      BY <2>4 DEF EvDone, EvPcs
    <3> QED
      BY <3>1, Zenon
  <2> QED
    BY <2>2, <2>3, <2>4 DEF EvStep
<1>4. call[e] = Idle
  BY EvIdle DEF EvStep, EvCheck, EvResume, EvRelock, EvTake, EvFind, EvDone
<1>5. CallOk(e)'
  BY <1>1, <1>4 DEF CallOk, Idle
<1>6. /\ cn \in [Conns -> ConnType] /\ call \in [Threads -> CallType]
      /\ \A d \in irc_conns : d \in Conns /\ mpc[d] # "new"
  BY DEF IInv, TypeInv, ListInv
<1>7. /\ epc' \in [EvThreads -> EvPcs] /\ cur' = [f \in EvThreads |-> cur'[f]]
      /\ \A f \in EvThreads \ {e} : epc'[f] = epc[f] /\ cur'[f] = cur[f]
      /\ epc'[e] = l /\ cur'[e] = x
  BY <1>2, <1>3
<1> QED
  BY <1>1, <1>3, <1>5, <1>6, <1>7, CallKeeps

\* Operations begin.
LEMMA CommandInv ==
  ASSUME IInv, NEW e \in EvThreads, Command(e) \/ KillCommand(e) \/ AllCommand(e)
  PROVE  IInv'
<1> USE ThreadFacts
<1>1. UNCHANGED <<cn, mpc, ret, irc_conns, list_wr, cur>>
  BY DEF Command, KillCommand, AllCommand, botVars
<1>2. epc[e] = "run" /\ epc' = [epc EXCEPT ![e] = "cmd"]
  BY DEF Command, KillCommand, AllCommand, MayCall
<1>3. /\ epc' \in [EvThreads -> EvPcs] /\ cur' = [f \in EvThreads |-> cur'[f]]
      /\ epc'[e] = "cmd" /\ \A f \in EvThreads \ {e} : epc'[f] = epc[f] /\ cur'[f] = cur[f]
  BY <1>1, <1>2 DEF IInv, TypeInv, HandlerInv, EvPcs
<1>4. /\ cn \in [Conns -> ConnType] /\ call \in [Threads -> CallType]
      /\ \A d \in irc_conns : d \in Conns /\ mpc[d] # "new"
      /\ cur[e][1] \in Conns /\ mpc[cur[e][1]] # "new"
  BY <1>2 DEF IInv, TypeInv, ListInv, HandlerInv
<1>5. PICK v \in CallType :
        /\ call' = [call EXCEPT ![e] = v]
        /\ \/ v.op \in AllOps /\ v.pc = "list"
           \/ /\ v.op \in OneOps /\ v.pc = "next"
              /\ \E d \in Conns : v.todo = {d} /\ mpc[d] # "new"
  <2>1. CASE Command(e)
    <3>1. PICK op \in {"quit", "disconnect", "reconnect"} :
            call' = [call EXCEPT ![e] = [Idle EXCEPT !.op = op, !.pc = "next",
                                                     !.todo = {cur[e][1]}]]
      BY <2>1 DEF Command
    <3> DEFINE v == [Idle EXCEPT !.op = op, !.pc = "next", !.todo = {cur[e][1]}]
    <3>2. v \in CallType /\ v.op \in OneOps /\ v.pc = "next" /\ v.todo = {cur[e][1]}
      BY <1>4 DEF Idle, CallType, OneOps, InOp
    <3> QED
      BY <1>4, <3>1, <3>2
  <2>2. CASE KillCommand(e)
    <3>1. PICK d \in irc_conns :
            call' = [call EXCEPT ![e] = [Idle EXCEPT !.op = "force_kill",
                                              !.pc = "next", !.todo = {d}]]
      BY <2>2 DEF KillCommand
    <3> DEFINE v == [Idle EXCEPT !.op = "force_kill", !.pc = "next", !.todo = {d}]
    <3>2. v \in CallType /\ v.op \in OneOps /\ v.pc = "next" /\ v.todo = {d}
      BY <1>4 DEF Idle, CallType, OneOps, InOp
    <3> QED
      BY <1>4, <3>1, <3>2
  <2>3. CASE AllCommand(e)
    <3>1. PICK op \in {"quitall", "disconnectall"} :
            call' = [call EXCEPT ![e] = [Idle EXCEPT !.op = op, !.pc = "list"]]
      BY <2>3 DEF AllCommand
    <3> DEFINE v == [Idle EXCEPT !.op = op, !.pc = "list"]
    <3>2. v \in CallType /\ v.op \in AllOps /\ v.pc = "list"
      BY DEF Idle, CallType, AllOps, InOp
    <3> QED
      BY <3>1, <3>2
  <2> QED
    BY <2>1, <2>2, <2>3
<1>6. /\ call' \in [Threads -> CallType] /\ call'[e] = v
      /\ \A u \in Threads \ {e} : call'[u] = call[u]
  BY <1>4, <1>5
<1>7. CallOk(e)'
  <2>1. CASE v.op \in AllOps /\ v.pc = "list"
    <3>1. AllCall(e)'
      BY <1>3, <1>6, <2>1 DEF AllCall
    <3> QED
      BY <3>1 DEF CallOk
  <2>2. CASE /\ v.op \in OneOps /\ v.pc = "next"
             /\ \E d \in Conns : v.todo = {d} /\ mpc[d] # "new"
    <3>1. OneCall(e)'
      BY <1>1, <1>3, <1>6, <2>2 DEF OneCall
    <3> QED
      BY <3>1 DEF CallOk
  <2> QED
    BY <1>5, <2>1, <2>2
<1> QED
  BY <1>1, <1>2, <1>3, <1>4, <1>6, <1>7, CallKeeps

LEMMA WaiterInv == ASSUME IInv, Signal \/ WaitKill PROVE IInv'
<1> USE ThreadFacts
<1>1. UNCHANGED <<cn, mpc, ret, irc_conns, list_wr, epc, cur>>
  BY DEF Signal, WaitKill, botVars
<1>2. PICK op \in {"quitall", "killall"} :
        call' = [call EXCEPT ![Waiter] = [Idle EXCEPT !.op = op, !.pc = "list"]]
  BY DEF Signal, WaitKill
<1> DEFINE v == [Idle EXCEPT !.op = op, !.pc = "list"]
<1>3. v \in CallType /\ v.op \in AllOps /\ v.pc = "list"
  BY DEF Idle, CallType, AllOps, InOp
<1>4. /\ cn \in [Conns -> ConnType] /\ call \in [Threads -> CallType]
  BY DEF IInv, TypeInv
<1>5. call' = [call EXCEPT ![Waiter] = v]
  BY <1>2
<1> HIDE DEF v
<1>6. /\ call' \in [Threads -> CallType] /\ call'[Waiter] = v
      /\ \A u \in Threads \ {Waiter} : call'[u] = call[u]
  BY <1>3, <1>4, <1>5
<1>7. AllCall(Waiter)'
  BY <1>3, <1>6 DEF AllCall
<1> QED
  BY <1>1, <1>4, <1>6, <1>7, CallStays DEF CallOk

\* The loop over the list, and the test at the start of every operation.
LEMMA CallLoopInv ==
  ASSUME IInv, NEW t \in Threads,
         CallList(t) \/ CallEnter(t) \/ CallEnterDeleted(t) \/ CallReturn(t)
  PROVE  IInv'
<1> USE ThreadFacts
<1>1. UNCHANGED <<cn, mpc, ret, irc_conns, epc, cur>>
  BY DEF CallList, CallEnter, CallEnterDeleted, CallReturn, botVars
<1>2. /\ cn \in [Conns -> ConnType] /\ call \in [Threads -> CallType]
      /\ irc_conns \subseteq Conns
  BY DEF IInv, TypeInv
<1>3. CallOk(t) /\ call[t] \in CallType
  BY <1>2 DEF IInv, CallInv
<1>4. CASE CallList(t)
  <2>1. call[t].pc = "list" /\ list_wr = NoThread /\ list_wr' = t
    BY <1>4 DEF CallList
  <2>2. AllCall(t)
    BY <1>3, <2>1, IdleType DEF CallOk, OneCall, OwnCall, InOp
  <2> DEFINE v == [call[t] EXCEPT !.todo = irc_conns, !.pc = "next"]
  <2>3. v \in CallType /\ v.op = call[t].op /\ v.todo = irc_conns /\ v.pc = "next"
    BY <1>2, <1>3 DEF CallType
  <2>4. call' = [call EXCEPT ![t] = v]
    BY <1>2, <1>4 DEF CallList
  <2> HIDE DEF v
  <2>5. /\ call' \in [Threads -> CallType] /\ call'[t] = v
        /\ \A u \in Threads \ {t} : call'[u] = call[u]
    BY <1>2, <2>3, <2>4
  <2>6. AllCall(t)'
    BY <1>1, <2>1, <2>2, <2>3, <2>5 DEF AllCall
  <2>7. t \notin Conns
    BY <2>2 DEF AllCall
  <2> QED
    BY <1>1, <1>2, <2>1, <2>5, <2>6, <2>7, CallStays DEF CallOk
<1>5. CASE CallReturn(t)
  <2>1. /\ call[t].pc = "next" /\ call[t].todo = {} /\ list_wr' = NoThread
        /\ call' = [call EXCEPT ![t] = Idle]
    BY <1>5 DEF CallReturn
  <2>2. AllCall(t)
    BY <1>3, <2>1, IdleType DEF CallOk, OneCall, OwnCall, InOp
  <2>3. list_wr = t /\ t \notin Conns
    BY <2>1, <2>2 DEF AllCall
  <2>4. /\ call' \in [Threads -> CallType] /\ call'[t] = Idle
        /\ \A u \in Threads \ {t} : call'[u] = call[u]
    BY <1>2, <2>1, IdleType
  <2>5. CallOk(t)'
    BY <2>4 DEF CallOk, Idle
  <2> QED
    BY <1>1, <1>2, <2>1, <2>3, <2>4, <2>5, CallStays
<1>6. CASE CallEnter(t)
  <2>1. PICK c \in call[t].todo :
          /\ call[t].pc = "next" /\ UNCHANGED list_wr
          /\ LET rest == [call[t] EXCEPT !.todo = @ \ {c}] IN
             call' = [call EXCEPT ![t] =
                IF ~Refused(call[t].op, c)
                  THEN [rest EXCEPT !.on = c, !.pc = "lock"]
                ELSE IF call[t].op \in AllOps THEN rest ELSE Idle]
    BY <1>6 DEF CallEnter, botVars
  <2> DEFINE rest == [call[t] EXCEPT !.todo = @ \ {c}]
             in == [rest EXCEPT !.on = c, !.pc = "lock"]
             v == IF ~Refused(call[t].op, c) THEN in
                  ELSE IF call[t].op \in AllOps THEN rest ELSE Idle
  <2>2. c \in Conns
    BY <1>3, <2>1 DEF CallType
  <2>3. /\ rest \in CallType /\ rest.todo = call[t].todo \ {c} /\ rest.pc = "next"
        /\ rest.op = call[t].op
    BY <1>3, <2>1 DEF CallType
  <2>4. /\ in \in CallType /\ in.todo = rest.todo /\ in.pc = "lock" /\ in.on = c
        /\ in.op = call[t].op
    <3> HIDE DEF rest
    <3> QED
      BY <2>2, <2>3 DEF CallType, InOp
  <2>5. call' = [call EXCEPT ![t] = v]
    BY <2>1
  <2> HIDE DEF rest, in
  <2>6. v \in CallType
    BY <2>3, <2>4, IdleType
  <2>7. v = in => ~cn[c].is_destructing
    BY <2>3, <2>4, IdleType DEF Refused
  <2>8. v \in {in, rest, Idle} /\ (v = rest => call[t].op \in AllOps)
    BY <2>3, <2>4, IdleType
  <2> HIDE DEF v
  <2>9. /\ call' \in [Threads -> CallType] /\ call'[t] = v
        /\ \A u \in Threads \ {t} : call'[u] = call[u]
    BY <1>2, <2>5, <2>6
  <2>10. CallOk(t)'
    <3>1. CASE v = Idle
      BY <2>9, <3>1 DEF CallOk, Idle
    <3>2. CASE AllCall(t) /\ v \in {in, rest}
      <4>1. c \in irc_conns
        BY <2>1, <3>2 DEF AllCall
      <4>2. AllCall(t)'
        BY <1>1, <2>1, <2>3, <2>4, <2>9, <3>2, <4>1 DEF AllCall, InOp
      <4> QED
        BY <4>2 DEF CallOk
    <3>3. CASE OneCall(t) /\ v \in {in, rest}
      <4>1. v = in
        BY <2>8, <3>3 DEF OneCall, OneOps, AllOps
      <4>2. mpc[c] \notin Granted \cup {"new"}
        BY <2>1, <2>2, <2>7, <3>3, <4>1 DEF OneCall, InOp, IInv, DestructInv, Cleaning
      <4>3. OneCall(t)'
        BY <1>1, <2>2, <2>4, <2>9, <3>3, <4>1, <4>2 DEF OneCall, InOp
      <4> QED
        BY <4>3 DEF CallOk
    <3>4. CASE OwnCall(t) /\ v \in {in, rest}
      <4>1. call[t].op = "disconnect" /\ mpc[t] = "leaving" /\ call[t].todo = {t}
        BY <2>1, <3>4 DEF OwnCall, InOp
      <4>2. v = in /\ c = t
        BY <2>1, <2>8, <3>4, <4>1 DEF AllOps
      <4>3. OwnCall(t)'
        BY <1>1, <2>4, <2>9, <3>4, <4>1, <4>2 DEF OwnCall, InOp
      <4> QED
        BY <4>3 DEF CallOk
    <3> QED
      BY <1>3, <2>1, <2>8, <3>1, <3>2, <3>3, <3>4, IdleType DEF CallOk
  <2> QED
    BY <1>1, <1>2, <2>1, <2>9, <2>10, CallStays
<1>7. CASE CallEnterDeleted(t)
  <2>1. /\ call[t].pc = "next" /\ ~(call[t].todo \subseteq irc_conns) /\ UNCHANGED list_wr
        /\ call' = [call EXCEPT ![t].pc = "lost"]
    BY <1>7 DEF CallEnterDeleted, CallGoto, botVars
  <2>2. OneCall(t)
    <3>1. ~AllCall(t)
      BY <2>1 DEF AllCall
    <3>2. ~OwnCall(t)
      BY <2>1 DEF OwnCall, InOp, IInv, ListInv
    <3> QED
      BY <1>3, <2>1, <3>1, <3>2, IdleType DEF CallOk
  <2> DEFINE v == [call[t] EXCEPT !.pc = "lost"]
  <2>3. /\ v \in CallType /\ v.op = call[t].op /\ v.todo = call[t].todo
        /\ v.pc = "lost"
    BY <1>3 DEF CallType
  <2>4. call' = [call EXCEPT ![t] = v]
    BY <1>2, <2>1
  <2> HIDE DEF v
  <2>5. /\ call' \in [Threads -> CallType] /\ call'[t] = v
        /\ \A u \in Threads \ {t} : call'[u] = call[u]
    BY <1>2, <2>3, <2>4
  <2>6. OneCall(t)'
    BY <1>1, <2>1, <2>2, <2>3, <2>5 DEF OneCall, InOp
  <2> QED
    BY <1>1, <1>2, <2>1, <2>5, <2>6, CallStays DEF CallOk
<1> QED
  BY <1>4, <1>5, <1>6, <1>7

\* Inside an operation, a thread goes on or is done with it.
LEMMA InOpKeeps ==
  ASSUME IInv, NEW t \in Threads, call[t].pc \in InOp,
         UNCHANGED <<mpc, ret, epc, cur, irc_conns, list_wr>>,
         \/ CallOver(t)
         \/ \E l \in InOp : /\ CallGoto(t, l)
                            /\ call[t].op \in {"end", "dtor"} => l \in {"join", "post", "down"},
         cn' \in [Conns -> ConnType],
         \A d \in Conns : cn'[d].is_destructing = cn[d].is_destructing
  PROVE  IInv'
<1> USE ThreadFacts
<1>1. call \in [Threads -> CallType]
  BY DEF IInv, TypeInv
<1>2. CallOk(t) /\ call[t] \in CallType
  BY <1>1 DEF IInv, CallInv
<1>3. PICK v \in CallType :
         /\ call' = [call EXCEPT ![t] = v]
         /\ \/ v = Idle
            \/ /\ v.op = call[t].op /\ v.todo = call[t].todo /\ v.on = call[t].on
               /\ \/ v.pc = "next" /\ v.op \in AllOps
                  \/ /\ v.pc \in InOp
                     /\ v.op \in {"end", "dtor"} => v.pc \in {"join", "post", "down"}
  <2>1. CASE CallOver(t)
    <3>1. CASE call[t].op \in AllOps
      <4> DEFINE v == [call[t] EXCEPT !.pc = "next"]
      <4>1. /\ v \in CallType /\ v.op = call[t].op /\ v.todo = call[t].todo
            /\ v.on = call[t].on /\ v.pc = "next"
        BY <1>2 DEF CallType
      <4>2. call' = [call EXCEPT ![t] = v]
        BY <1>1, <2>1, <3>1 DEF CallOver
      <4> QED
        BY <3>1, <4>1, <4>2
    <3>2. CASE call[t].op \notin AllOps
      <4>1. call' = [call EXCEPT ![t] = Idle]
        BY <1>1, <2>1, <3>2 DEF CallOver
      <4> QED
        BY <4>1, IdleType
    <3> QED
      BY <3>1, <3>2
  <2>2. CASE \E l \in InOp : /\ CallGoto(t, l)
                             /\ call[t].op \in {"end", "dtor"} => l \in {"join", "post", "down"}
    <3>1. PICK l \in InOp : /\ call' = [call EXCEPT ![t].pc = l]
                            /\ call[t].op \in {"end", "dtor"} => l \in {"join", "post", "down"}
      BY <2>2 DEF CallGoto
    <3> DEFINE v == [call[t] EXCEPT !.pc = l]
    <3>2. /\ v \in CallType /\ v.op = call[t].op /\ v.todo = call[t].todo
          /\ v.on = call[t].on /\ v.pc = l
      BY <1>2 DEF CallType
    <3>3. call' = [call EXCEPT ![t] = v]
      BY <1>1, <3>1
    <3> QED
      BY <3>1, <3>2, <3>3
  <2> QED
    BY <2>1, <2>2
<1>4. /\ call' \in [Threads -> CallType] /\ call'[t] = v
      /\ \A u \in Threads \ {t} : call'[u] = call[u]
  BY <1>1, <1>3
<1>5. call[t].pc \notin {"idle", "list", "next", "lost"}
  BY DEF InOp
<1>6. CallOk(t)'
  <2>1. CASE v = Idle
    BY <1>4, <2>1 DEF CallOk, Idle
  <2>2. CASE v # Idle /\ AllCall(t)
    <3>1. v.op \notin {"end", "dtor"}
      BY <1>3, <2>2 DEF AllCall, AllOps
    <3>2. AllCall(t)'
      BY <1>3, <1>4, <1>5, <2>2 DEF AllCall
    <3> QED
      BY <3>2 DEF CallOk
  <2>3. CASE v # Idle /\ OneCall(t)
    <3>1. v.pc \in InOp
      BY <1>3, <2>3 DEF OneCall, OneOps, AllOps
    <3>2. OneCall(t)'
      BY <1>3, <1>4, <1>5, <2>3, <3>1 DEF OneCall
    <3> QED
      BY <3>2 DEF CallOk
  <2>4. CASE v # Idle /\ OwnCall(t)
    <3>1. v.pc \in InOp
      BY <1>3, <2>4 DEF OwnCall, AllOps
    <3>2. t \in Conns /\ v.on = t /\ v.op = call[t].op
      BY <1>3, <1>5, <2>4 DEF OwnCall
    <3>3. CASE call[t].op = "disconnect" /\ mpc[t] = "leaving"
      BY <1>4, <3>1, <3>2, <3>3 DEF OwnCall, CallOk
    <3>4. CASE \/ call[t].op = "end" /\ mpc[t] = "ending"
               \/ call[t].op = "dtor" /\ mpc[t] = "erase"
      <4>1. v.pc \in {"kill", "join", "post", "down"}
        BY <1>3, <2>4, <3>4, IdleType DEF AllOps
      <4> QED
        BY <1>4, <3>2, <3>4, <4>1 DEF OwnCall, CallOk
    <3> QED
      BY <2>4, <3>3, <3>4 DEF OwnCall
  <2> QED
    BY <1>2, <1>5, <2>1, <2>2, <2>3, <2>4, IdleType DEF CallOk
<1> QED
  BY <1>1, <1>4, <1>6, CallStays

\* An operation under way finds its connection.
LEMMA OnExists ==
  ASSUME IInv, NEW t \in Threads, call[t].pc \in InOp
  PROVE  call[t].on \in Conns /\ call[t].on \in irc_conns
<1>1. CallOk(t) /\ call[t].pc \notin {"idle", "list", "next", "lost"}
  BY DEF IInv, CallInv, InOp
<1>2. CASE AllCall(t)
  BY <1>1, <1>2 DEF AllCall, IInv, TypeInv
<1>3. CASE OneCall(t)
  <2>1. call[t].on \in Conns /\ mpc[call[t].on] \notin {"new", "gone"}
    BY <1>1, <1>3 DEF OneCall, Granted
  <2> QED
    BY <2>1 DEF IInv, ListInv
<1>4. CASE OwnCall(t)
  <2>1. t \in Conns /\ call[t].on = t /\ mpc[t] \notin {"new", "gone"}
    BY <1>1, <1>4 DEF OwnCall
  <2> QED
    BY <2>1 DEF IInv, ListInv
<1> QED
  BY <1>1, <1>2, <1>3, <1>4, IdleType DEF CallOk

LEMMA OpInv ==
  ASSUME IInv, NEW t \in Threads,
         \/ CallLock(t) \/ DoQuit(t) \/ DoReconnect(t) \/ DoDisconnect(t)
         \/ DoForceKill(t) \/ CallCancel(t) \/ CallKill(t) \/ CallJoined(t)
         \/ CallPost(t) \/ CallDown(t)
  PROVE  IInv'
<1> DEFINE c == call[t].on
<1>1. call[t].pc \in InOp
  BY ZenonT(60) DEF CallLock, DoQuit, DoReconnect, DoDisconnect, DoForceKill, CallCancel, CallKill,
         CallJoined, CallPost, CallDown, InOp
<1>2. c \in Conns
  BY <1>1, OnExists, SMTT(40)
<1>3. UNCHANGED <<mpc, ret, epc, cur, irc_conns, list_wr>>
  BY DEF CallLock, DoQuit, DoReconnect, DoDisconnect, DoForceKill, CallCancel, CallKill,
         CallJoined, CallPost, CallDown, botVars
<1>4. \/ CallOver(t)
      \/ \E l \in InOp : /\ CallGoto(t, l)
                         /\ call[t].op \in {"end", "dtor"} => l \in {"join", "post", "down"}
  <2>1. CASE CallLock(t)
    <3>1. call[t].op \notin {"end", "dtor"}
      BY <2>1, SMTT(40) DEF CallLock, IInv, CallInv, CallOk, AllCall, OneCall, OwnCall, AllOps,
                  OneOps, Idle
    <3> QED
      BY <2>1, <3>1 DEF CallLock, InOp
  <2>2. CASE ~CallLock(t)
    BY <2>2 DEF DoQuit, DoReconnect, DoDisconnect, DoForceKill, CallCancel, CallKill,
                CallJoined, Close, CallPost, CallDown, InOp
  <2> QED
    BY <2>1, <2>2
<1> HIDE DEF c
<1>5. cn \in [Conns -> ConnType] /\ cn[c] \in ConnType
  BY <1>2 DEF IInv, TypeInv
<1>6. cn' = cn \/ \E v \in ConnType : /\ cn' = [cn EXCEPT ![c] = v]
                                      /\ v.is_destructing = cn[c].is_destructing
  <2>1. CASE CallLock(t)
    <3> DEFINE v == [cn[c] EXCEPT !.connfxn_mutex = t]
    <3>1. v \in ConnType /\ v.is_destructing = cn[c].is_destructing
      BY <1>5 DEF ConnType
    <3>2. cn' = [cn EXCEPT ![c] = v]
      BY <1>5, <2>1 DEF CallLock, c
    <3> QED
      BY <3>1, <3>2
  <2>2. CASE DoQuit(t)
    <3>1. Quits(c) \in BOOLEAN
      BY <1>5 DEF Quits, ConnType
    <3> DEFINE v == [cn[c] EXCEPT !.reconnect_on = FALSE, !.disconnect_on = TRUE,
                                  !.quit_on_timer = Quits(c),
                                  !.connfxn_mutex = NoThread]
    <3>2. v \in ConnType /\ v.is_destructing = cn[c].is_destructing
      BY <1>5, <3>1 DEF ConnType
    <3>3. cn' = [cn EXCEPT ![c] = v]
      BY <1>5, <2>2 DEF DoQuit, c
    <3> QED
      BY <3>2, <3>3
  <2>3. CASE DoReconnect(t)
    <3>1. Quits(c) \in BOOLEAN
      BY <1>5 DEF Quits, ConnType
    <3> DEFINE v == [cn[c] EXCEPT !.reconnect_on = TRUE, !.quit_on_timer = Quits(c)]
    <3>2. v \in ConnType /\ v.is_destructing = cn[c].is_destructing
      BY <1>5, <3>1 DEF ConnType
    <3>3. cn' = [cn EXCEPT ![c] = v]
      BY <1>5, <2>3 DEF DoReconnect, c
    <3> QED
      BY <3>2, <3>3
  <2>4. CASE DoDisconnect(t)
    <3> DEFINE v == [cn[c] EXCEPT !.reconnect_on = FALSE, !.disconnect_on = TRUE]
    <3>1. v \in ConnType /\ v.is_destructing = cn[c].is_destructing
      BY <1>5 DEF ConnType
    <3>2. cn' = [cn EXCEPT ![c] = v]
      BY <1>5, <2>4 DEF DoDisconnect, c
    <3> QED
      BY <3>1, <3>2
  <2>5. CASE DoForceKill(t)
    <3> DEFINE w == \/ cn[c].quit_on_timer
                    \/ /\ cn[c].status = "CONNECTED" /\ ~cn[c].reconnect_on
                       /\ ~cn[c].disconnect_on
               v == [cn[c] EXCEPT !.quit_on_timer = w,
                       !.reconnect_on = FALSE, !.disconnect_on = TRUE,
                       !.main_thread_tid = FALSE, !.connfxn_mutex = NoThread]
    <3>1. w \in BOOLEAN
      BY <1>5 DEF ConnType
    <3>2. v \in ConnType /\ v.is_destructing = cn[c].is_destructing
      <4> HIDE DEF w
      <4> QED
        BY <1>5, <3>1 DEF ConnType
    <3>3. cn' = [cn EXCEPT ![c] = v]
      BY <1>5, <2>5 DEF DoForceKill, c
    <3> QED
      BY <3>2, <3>3
  <2>6. CASE CallCancel(t)
    <3> DEFINE v == [cn[c] EXCEPT !.canceled = TRUE]
    <3>1. v \in ConnType /\ v.is_destructing = cn[c].is_destructing
      BY <1>5 DEF ConnType
    <3>2. cn' = [cn EXCEPT ![c] = v]
      BY <1>5, <2>6 DEF CallCancel, c
    <3> QED
      BY <3>1, <3>2
  <2>7. CASE (CallKill(t) /\ cn' # cn) \/ CallJoined(t)
    <3> DEFINE v == [cn[c] EXCEPT !.send_thread_id = FALSE, !.sock = FALSE]
    <3>1. v \in ConnType /\ v.is_destructing = cn[c].is_destructing
      BY <1>5 DEF ConnType
    <3>2. cn' = [cn EXCEPT ![c] = v]
      BY <1>5, <2>7 DEF CallKill, CallJoined, Close, c
    <3> QED
      BY <3>1, <3>2
  <2>8. CASE CallPost(t)
    BY <2>8 DEF CallPost
  <2>9. CASE CallDown(t)
    <3> DEFINE m == IF call[t].op \in {"end", "dtor"} THEN cn[c].connfxn_mutex
                    ELSE NoThread
               v == [cn[c] EXCEPT !.status = "DISCONNECTED", !.connfxn_mutex = m]
    <3>1. m \in Threads \cup {NoThread}
      BY <1>5 DEF ConnType
    <3>2. v \in ConnType /\ v.is_destructing = cn[c].is_destructing
      <4> HIDE DEF m
      <4> QED
        BY <1>5, <3>1 DEF ConnType
    <3>3. cn' = [cn EXCEPT ![c] = v]
      BY <1>5, <2>9 DEF CallDown, c
    <3> QED
      BY <3>2, <3>3
  <2> QED
    BY <2>1, <2>2, <2>3, <2>4, <2>5, <2>6, <2>7, <2>8, <2>9
<1>7. /\ cn' \in [Conns -> ConnType]
      /\ \A d \in Conns : cn'[d].is_destructing = cn[d].is_destructing
  BY <1>2, <1>5, <1>6
<1> QED
  BY <1>1, <1>3, <1>4, <1>7, InOpKeeps, SMTT(40)
-----------------------------------------------------------------------------
(***************************************************************************)
(* The theorems.                                                           *)
(***************************************************************************)
LEMMA NextInv == IInv /\ [Next]_vars => IInv'
<1> SUFFICES ASSUME IInv, [Next]_vars PROVE IInv'
  OBVIOUS
<1>1. CASE UNCHANGED vars
  BY <1>1 DEF vars, botVars, IInv, TypeInv, ListInv, DestructInv, CallInv, CallOk, AllCall,
              OneCall, OwnCall, Idle, HandlerInv
<1>2. ASSUME NEW c \in Conns, MainStep(c) \/ MainInput(c) PROVE IInv'
  BY <1>2, LoopInv, OwnInv, CleanInv, LifeInv DEF MainStep, MainInput
<1>3. ASSUME NEW e \in EvThreads, EvStep(e) \/ EvCommand(e) PROVE IInv'
  BY <1>3, EvInv, CommandInv DEF EvCommand
<1>4. ASSUME NEW t \in Threads, CallStep(t) \/ CallJoined(t) PROVE IInv'
  BY <1>4, CallLoopInv, OpInv DEF CallStep
<1> QED
  BY <1>1, <1>2, <1>3, <1>4, WaiterInv DEF Next

\* The inductive invariant of the connections, their threads and the operations.
THEOREM Invariance == Spec => []IInv
BY InitInv, NextInv, PTL DEF Spec

\* main_thread_cleanup deletes no connection that quit, disconnect, reconnect or
\* force_kill works on, whoever called it: an operation that passed its test of
\* is_destructing on an existing object is over before the object goes.  The test
\* itself is made on a deleted object by the single operations of event threads
\* only.
THEOREM DeleteIsSafe == Spec => []NoUseAfterDelete
<1>1. ASSUME IInv, NEW t \in Threads, call[t].pc \in {"next", "lost"},
             t \in EvThreads => call[t].op \in AllOps
      PROVE  call[t].todo \subseteq irc_conns
  <2>1. CallOk(t) /\ call[t].pc \notin InOp \cup {"idle", "list"}
    BY <1>1 DEF IInv, CallInv, InOp
  <2>2. ~OneCall(t)
    BY <1>1 DEF OneCall, AllOps, OneOps
  <2>3. OwnCall(t) => call[t].todo = {t} /\ mpc[t] = "leaving" /\ t \in Conns
    BY <2>1 DEF OwnCall, InOp
  <2> QED
    BY <1>1, <2>1, <2>2, <2>3, IdleType DEF CallOk, AllCall, IInv, ListInv
<1>2. IInv => NoUseAfterDelete
  BY <1>1, OnExists DEF NoUseAfterDelete, InOp
<1> QED
  BY <1>2, Invariance, PTL
-----------------------------------------------------------------------------
(***************************************************************************)
(* The send thread.                                                        *)
(***************************************************************************)
LEMMA SenderInit == Init => SenderInv
BY ThreadFacts DEF Init, SenderInv, NewConn, Idle

\* A main thread's own steps, by what becomes of its send thread.
LEMMA SenderMain ==
  ASSUME IInv, SenderInv, NEW c \in Conns, MainStep(c) \/ MainInput(c)
  PROVE  SenderInv'
<1> USE ThreadFacts, IdleType
<1>1. /\ cn \in [Conns -> ConnType] /\ mpc \in [Conns -> MainPcs]
      /\ call \in [Threads -> CallType] /\ ret \in [Conns -> {-1, 0}]
  BY DEF IInv, TypeInv
<1>2. ~Canceled(c)
  BY DEF SenderInv, Canceled
<1> DEFINE Same ==
      \A d \in Conns \ {c} : /\ mpc'[d] = mpc[d] /\ cn'[d] = cn[d] /\ ret'[d] = ret[d]
                             /\ call'[d] = call[d]
<1>3. ASSUME Same, \A t \in Threads \ {c} : call'[t] = call[t],
             \/ call'[c] = call[c]
             \/ call'[c].op \in {"disconnect", "end", "dtor"} /\ call'[c].pc # "cancel",
             ~cn'[c].canceled, cn'[c].send_thread_id => SenderAt(c)'
      PROVE  SenderInv'
  <2>1. ASSUME NEW d \in Conns \ {c}
        PROVE  ~cn'[d].canceled /\ (cn'[d].send_thread_id => SenderAt(d)')
    BY <1>3 DEF SenderInv, SenderAt
  <2> QED
    BY <1>3, <2>1 DEF SenderInv
<1>4. CASE \/ Launch(c) \/ LoopTest(c) \/ Connect(c) \/ DialFails(c) \/ Out(c)
           \/ CleanBegin(c) \/ PauseBegin(c) \/ PauseGranted(c) \/ PauseTimeout(c)
           \/ LockFxn(c) \/ Purge(c) \/ DelErase(c) \/ Leave(c) \/ AfterLoop(c)
  <2>1. /\ ~SenderAt(c) /\ call' = call /\ ret'[c] \in {-1, 0}
        /\ \A d \in Conns \ {c} : ret'[d] = ret[d] /\ mpc'[d] = mpc[d]
    BY <1>1, <1>4 DEF Launch, LoopTest, Connect, DialFails, Out, CleanBegin, PauseBegin,
      PauseGranted, PauseTimeout, LockFxn, Purge, DelErase, Leave, AfterLoop, Goto, SenderAt
  <2>2. /\ \A d \in Conns \ {c} : cn'[d] = cn[d]
        /\ cn'[c].canceled = cn[c].canceled
        /\ cn'[c].send_thread_id = cn[c].send_thread_id
    <3>1. CASE UNCHANGED cn
      BY <3>1
    <3>2. CASE Launch(c)
      BY <1>1, <3>2 DEF Launch, ConnType
    <3>3. CASE LoopTest(c)
      BY <1>1, <3>3 DEF LoopTest, ConnType
    <3>4. CASE Connect(c)
      BY <1>1, <3>4 DEF Connect, ConnType
    <3>5. CASE DialFails(c)
      BY <1>1, <3>5 DEF DialFails, ConnType
    <3>6. CASE Out(c)
      BY <1>1, <3>6 DEF Out, ConnType
    <3>7. CASE CleanBegin(c)
      BY <1>1, <3>7 DEF CleanBegin, ConnType
    <3>8. CASE LockFxn(c)
      BY <1>1, <3>8 DEF LockFxn, ConnType
    <3> QED
      BY <1>4, <3>1, <3>2, <3>3, <3>4, <3>5, <3>6, <3>7, <3>8
         DEF PauseBegin, PauseGranted, PauseTimeout, Purge, DelErase, Leave, AfterLoop
  <2>3. ~cn[c].send_thread_id /\ ~cn[c].canceled
    BY <2>1 DEF SenderInv
  <2> QED
    BY <1>3, <2>1, <2>2, <2>3
<1>5. CASE DelLock(c)
  <2>1. ~SenderAt(c) /\ UNCHANGED <<cn, ret>> /\ mpc' = [mpc EXCEPT ![c] = "erase"]
    BY <1>5 DEF DelLock, SenderAt, Goto
  <2>2. \A t \in Threads : t # c => call'[t] = call[t]
    BY <1>1, <1>5 DEF DelLock
  <2>3. call'[c] = call[c] \/ (call'[c].op = "dtor" /\ call'[c].pc = "kill")
    BY <1>1, <1>5 DEF DelLock, Idle
  <2>4. ~cn[c].send_thread_id /\ ~cn[c].canceled
    BY <2>1 DEF SenderInv
  <2> QED
    BY <1>1, <1>3, <2>1, <2>2, <2>3, <2>4
<1>6. CASE DialSucceeds(c)
  <2>1. /\ mpc' = [mpc EXCEPT ![c] = "announce"] /\ UNCHANGED <<call, ret>>
    BY <1>6 DEF DialSucceeds, Goto
  <2>2. cn'[c].canceled = cn[c].canceled /\ \A d \in Conns \ {c} : cn'[d] = cn[d]
    BY <1>1, <1>6 DEF DialSucceeds, ConnType
  <2>3. SenderAt(c)' /\ ~cn[c].canceled
    BY <1>1, <2>1 DEF SenderAt, SenderInv
  <2> QED
    BY <1>1, <1>3, <2>1, <2>2, <2>3
<1>7. CASE Announce(c)
  <2>1. /\ mpc' = [mpc EXCEPT ![c] = "decide"] /\ UNCHANGED <<cn, call>>
        /\ ret' = [ret EXCEPT ![c] = 0]
    BY <1>7 DEF Announce, Goto
  <2>2. SenderAt(c)' /\ ~cn[c].canceled
    BY <1>1, <2>1 DEF SenderAt, SenderInv
  <2> QED
    BY <1>1, <1>3, <2>1, <2>2
<1>8. CASE Decide(c)
  <2>1. mpc[c] = "decide" /\ UNCHANGED <<cn, ret>>
    BY <1>8 DEF Decide
  <2>2. ~cn[c].canceled /\ (cn[c].send_thread_id => ret[c] = 0)
    BY <2>1 DEF SenderInv, SenderAt
  <2>3. CASE /\ call' = [call EXCEPT ![c] = [Idle EXCEPT
                          !.op = "disconnect", !.todo = {c}, !.pc = "next"]]
             /\ mpc' = [mpc EXCEPT ![c] = "leaving"]
    <3>1. /\ call'[c].op = "disconnect" /\ call'[c].pc = "next"
          /\ \A t \in Threads \ {c} : call'[t] = call[t]
      BY <1>1, <2>3 DEF Idle
    <3>2. SenderAt(c)'
      BY <1>1, <2>3, <3>1 DEF SenderAt
    <3> QED
      BY <1>1, <1>3, <2>1, <2>2, <2>3, <3>1, <3>2
  <2>4. CASE /\ UNCHANGED call /\ \E y \in MainPcs : mpc' = [mpc EXCEPT ![c] = y]
             /\ ret[c] = 0 => mpc'[c] = "login"
    <3>1. cn'[c].send_thread_id => SenderAt(c)'
      BY <1>1, <2>1, <2>2, <2>4 DEF SenderAt
    <3> QED
      BY <1>1, <1>3, <2>1, <2>2, <2>4, <3>1
  <2> QED
    BY <1>1, <1>8, <2>3, <2>4 DEF Decide, Goto, MainPcs
<1>9. CASE Login(c) \/ LoggedIn(c) \/ Receive(c)
  <2>1. /\ UNCHANGED <<cn, call, ret>> /\ mpc'[c] \in {"loop", "dead", "logged"}
        /\ \A d \in Conns \ {c} : mpc'[d] = mpc[d]
    BY <1>1, <1>9 DEF Login, LoggedIn, Receive, Goto
  <2>2. SenderAt(c)' /\ ~cn[c].canceled
    BY <2>1 DEF SenderAt, SenderInv
  <2> QED
    BY <1>1, <1>3, <2>1, <2>2
<1>10. CASE LoggedInSet(c)
  <2>1. /\ mpc' = [mpc EXCEPT ![c] = "loop"] /\ UNCHANGED <<call, ret>>
    BY <1>10 DEF LoggedInSet, Goto
  <2>2. cn'[c].canceled = cn[c].canceled /\ \A d \in Conns \ {c} : cn'[d] = cn[d]
    BY <1>1, <1>10 DEF LoggedInSet, ConnType
  <2>3. SenderAt(c)' /\ ~cn[c].canceled
    BY <1>1, <2>1 DEF SenderAt, SenderInv
  <2> QED
    BY <1>1, <1>3, <2>1, <2>2, <2>3
<1>11. CASE LoopEnd(c)
  <2>1. /\ mpc' = [mpc EXCEPT ![c] = "ending"] /\ UNCHANGED cn
        /\ \A d \in Conns \ {c} : ret'[d] = ret[d]
    BY <1>1, <1>11 DEF LoopEnd, Goto
  <2>2. /\ call'[c].op = "end" /\ call'[c].pc = "kill"
        /\ \A t \in Threads \ {c} : call'[t] = call[t]
    BY <1>1, <1>11 DEF LoopEnd, Idle
  <2>3. SenderAt(c)' /\ ~cn[c].canceled
    BY <1>1, <2>1, <2>2 DEF SenderAt, SenderInv
  <2> QED
    BY <1>1, <1>3, <2>1, <2>2, <2>3
<1> QED
  BY <1>2, <1>4, <1>5, <1>6, <1>7, <1>8, <1>9, <1>10, <1>11 DEF MainStep, MainInput

\* Handlers, and the thread in wait, which begin no force_kill.
LEMMA SenderOutside ==
  ASSUME NoCancel, IInv, SenderInv,
         \/ \E e \in EvThreads : EvStep(e) \/ EvCommand(e)
         \/ Signal \/ WaitKill
  PROVE  SenderInv'
<1> USE ThreadFacts
<1>1. UNCHANGED <<cn, mpc, ret>>
  BY DEF EvStep, EvCommand, EvCheck, EvResume, EvRelock, EvTake, EvFind, EvDone, Command,
         KillCommand, AllCommand, Signal, WaitKill
<1>2. call \in [Threads -> CallType]
  BY DEF IInv, TypeInv
<1> DEFINE Ops == {"quit", "disconnect", "reconnect", "quitall", "disconnectall"}
<1>3. \/ UNCHANGED call
      \/ \E u \in Threads \ Conns : /\ \A t \in Threads \ {u} : call'[t] = call[t]
                                    /\ call'[u].op \in Ops /\ call'[u].pc # "cancel"
  <2>1. ASSUME NEW e \in EvThreads, EvStep(e) PROVE UNCHANGED call
    BY <2>1 DEF EvStep, EvCheck, EvResume, EvRelock, EvTake, EvFind, EvDone
  <2>2. ASSUME NEW e \in EvThreads, EvCommand(e)
        PROVE  /\ \A t \in Threads \ {e} : call'[t] = call[t]
               /\ call'[e].op \in Ops /\ call'[e].pc # "cancel"
    <3>1. ~KillCommand(e)
      BY DEF KillCommand, MayCall, NoCancel
    <3>2. CASE Command(e)
      BY <1>2, <3>2 DEF Command, Idle
    <3>3. CASE AllCommand(e)
      BY <1>2, <3>3 DEF AllCommand, Idle
    <3> QED
      BY <2>2, <3>1, <3>2, <3>3 DEF EvCommand
  <2>3. ASSUME Signal
        PROVE  /\ \A t \in Threads \ {Waiter} : call'[t] = call[t]
               /\ call'[Waiter].op \in Ops /\ call'[Waiter].pc # "cancel"
    BY <1>2, <2>3 DEF Signal, Idle
  <2>4. ~WaitKill
    BY DEF WaitKill, NoCancel
  <2> QED
    BY <2>1, <2>2, <2>3, <2>4
<1>4. /\ \A t \in Threads :
           call'[t].op \notin {"force_kill", "killall"} /\ call'[t].pc # "cancel"
      /\ \A c \in Conns : call'[c] = call[c]
  BY <1>2, <1>3 DEF SenderInv
<1> QED
  BY <1>1, <1>4 DEF SenderInv, SenderAt

\* The operations, which only ever stop a send thread; a main thread's own goes
\* on until it has.
LEMMA SenderCall ==
  ASSUME IInv, SenderInv, NEW t \in Threads, CallStep(t) \/ CallJoined(t)
  PROVE  SenderInv'
<1> USE ThreadFacts, IdleType
<1>1. /\ cn \in [Conns -> ConnType] /\ call \in [Threads -> CallType]
      /\ call[t] \in CallType
  BY SMTT(40) DEF IInv, TypeInv
<1>2. UNCHANGED <<mpc, ret>>
  BY ZenonT(60) DEF CallStep, CallList, CallEnter, CallEnterDeleted, CallReturn, CallLock,
         DoQuit, DoReconnect, DoDisconnect, DoForceKill, CallCancel, CallKill, CallJoined,
         CallPost, CallDown
<1>3. ~DoForceKill(t) /\ ~CallCancel(t)
  BY ZenonT(60) DEF DoForceKill, CallCancel, SenderInv
<1>4. \A u \in Threads \ {t} : call'[u] = call[u]
  BY <1>1, ZenonT(60) DEF CallStep, CallList, CallEnter, CallEnterDeleted, CallReturn,
         CallLock, DoQuit, DoReconnect, DoDisconnect, DoForceKill, CallCancel, CallKill,
         CallJoined, Close, CallPost, CallDown, CallGoto, CallOver
\* The step of t: the place it goes to, or the end of the operation.
<1>5. /\ call'[t].op \in {call[t].op, "none"} /\ call'[t].pc # "cancel"
      /\ call[t].pc = "next" /\ t \in Conns /\ mpc[t] = "leaving" => call'[t].pc = "lock"
      /\ call[t].pc = "lock" => call'[t].pc = "body"
      /\ call[t].pc = "body" /\ call[t].op = "disconnect" => call'[t].pc = "kill"
  <2>1. CASE CallList(t)
    BY <1>1, <2>1 DEF CallList, CallType
  <2>2. CASE CallEnter(t)
    <3>1. PICK c \in call[t].todo :
            /\ call[t].pc = "next"
            /\ LET rest == [call[t] EXCEPT !.todo = @ \ {c}] IN
               call' = [call EXCEPT ![t] =
                IF ~Refused(call[t].op, c)
                  THEN [rest EXCEPT !.on = c, !.pc = "lock"]
                ELSE IF call[t].op \in AllOps THEN rest ELSE Idle]
      BY <2>2 DEF CallEnter
    <3>2. /\ call'[t].op \in {call[t].op, "none"} /\ call'[t].pc # "cancel"
          /\ ~Refused(call[t].op, c) => call'[t].pc = "lock"
      BY <1>1, <3>1 DEF CallType
    <3>3. ASSUME t \in Conns, mpc[t] = "leaving" PROVE ~Refused(call[t].op, c)
      <4>1. OwnCall(t)
        BY <3>1, <3>3 DEF IInv, CallInv, CallOk, AllCall, OneCall
      <4>2. c = t /\ call[t].op = "disconnect"
        BY <3>1, <3>3, <4>1 DEF OwnCall, InOp
      <4>3. ~cn[t].is_destructing
        BY <3>3 DEF IInv, DestructInv, Cleaning, Granted
      <4> QED
        BY <4>2, <4>3 DEF Refused
    <3> QED
      BY <3>1, <3>2, <3>3
  <2>3. CASE CallReturn(t)
    <3>1. ~OwnCall(t)
      BY <2>3 DEF CallReturn, OwnCall, InOp
    <3>2. t \in Conns => mpc[t] # "leaving"
      BY <2>3, <3>1 DEF CallReturn, IInv, CallInv, CallOk, AllCall, OneCall
    <3> QED
      BY <1>1, <2>3, <3>2 DEF CallReturn
  <2>4. CASE CallLock(t)
    BY <1>1, <2>4 DEF CallLock, CallGoto, CallType
  <2>5. CASE DoDisconnect(t)
    BY <1>1, <2>5 DEF DoDisconnect, CallGoto, CallType
  <2>6. CASE CallOver(t) /\ (DoQuit(t) \/ DoReconnect(t) \/ CallDown(t))
    <3>1. call[t].pc \in {"body", "down"} /\ ~(call[t].pc = "body" /\ call[t].op = "disconnect")
      BY <2>6 DEF DoQuit, DoReconnect, CallDown
    <3>2. call'[t].op \in {call[t].op, "none"} /\ call'[t].pc \in {"next", "idle"}
      BY <1>1, <2>6 DEF CallOver, CallType
    <3> QED
      BY <3>1, <3>2, SMTT(40)
  <2>7. CASE CallKill(t) \/ CallJoined(t) \/ CallPost(t)
    BY <1>1, <2>7, SMTT(40) DEF CallKill, CallJoined, Close, CallPost, CallGoto, CallType
  <2>8. CASE CallEnterDeleted(t)
    <3>1. ~(OwnCall(t) /\ mpc[t] = "leaving")
      BY <2>8 DEF CallEnterDeleted, OwnCall, InOp, IInv, ListInv
    <3>2. ~(t \in Conns /\ mpc[t] = "leaving")
      BY <2>8, <3>1, IdleType DEF CallEnterDeleted, IInv, CallInv, CallOk, AllCall, OneCall
    <3> QED
      BY <1>1, <2>8, <3>2 DEF CallEnterDeleted, CallGoto, CallType
  <2> QED
    BY <1>3, <2>1, <2>2, <2>3, <2>4, <2>5, <2>6, <2>7, <2>8
       DEF CallStep, DoQuit, DoReconnect, CallDown
<1>6. /\ \A d \in Conns : cn'[d].canceled = cn[d].canceled
                          /\ (cn'[d].send_thread_id => cn[d].send_thread_id)
      /\ call[t].pc \in {"kill", "join"} /\ call'[t].pc # "join"
           => ~cn'[call[t].on].send_thread_id
  <2>1. CASE UNCHANGED cn /\ call[t].pc \notin {"kill", "join"}
    BY <2>1
  <2>2. call[t].pc \in InOp => call[t].on \in Conns
    BY OnExists
  <2>3. CASE CallLock(t)
    BY <1>1, <2>2, <2>3 DEF CallLock, ConnType, InOp
  <2>4. CASE DoQuit(t)
    BY <1>1, <2>2, <2>4 DEF DoQuit, ConnType, InOp
  <2>5. CASE DoReconnect(t)
    BY <1>1, <2>2, <2>5 DEF DoReconnect, ConnType, InOp
  <2>6. CASE DoDisconnect(t)
    BY <1>1, <2>2, <2>6 DEF DoDisconnect, ConnType, InOp
  <2>7. CASE CallKill(t) \/ CallJoined(t)
    <3>1. CASE Close(t) /\ call[t].pc \in {"kill", "join"}
      BY <1>1, <2>2, <3>1 DEF Close, ConnType, InOp
    <3>2. CASE UNCHANGED cn /\ CallGoto(t, "join")
      BY <1>1, <3>2 DEF CallGoto, CallType
    <3> QED
      BY <2>7, <3>1, <3>2 DEF CallKill, CallJoined
  <2>8. CASE CallDown(t)
    BY <1>1, <2>2, <2>8 DEF CallDown, ConnType, InOp
  <2> QED
    BY <1>3, <2>1, <2>3, <2>4, <2>5, <2>6, <2>7, <2>8
       DEF CallStep, CallList, CallEnter, CallEnterDeleted, CallReturn, CallPost
<1>7. ASSUME NEW c \in Conns, cn'[c].send_thread_id PROVE SenderAt(c)'
  <2>1. SenderAt(c)
    BY <1>6, <1>7 DEF SenderInv
  <2>2. CASE c # t
    BY <1>2, <1>4, <2>1, <2>2 DEF SenderAt
  <2>3. CASE c = t /\ mpc[c] \in {"leaving", "ending"}
    <3>1. call[t].pc # "idle"
      BY <2>1, <2>3 DEF SenderAt
    <3>2. OwnCall(t)
      BY <2>3, <3>1 DEF IInv, CallInv, CallOk, AllCall, OneCall
    <3>3. CASE call[t].pc \in {"kill", "join"}
      <4>1. call'[t].pc = "join"
        BY <1>6, <1>7, <2>3, <3>2, <3>3 DEF OwnCall, InOp
      <4> QED
        BY <1>2, <2>3, <4>1 DEF SenderAt
    <3>4. CASE call[t].pc \notin {"kill", "join"}
      <4>1. mpc[t] = "leaving" /\ call[t].pc \in {"next", "lock", "body"}
            /\ call[t].op = "disconnect"
        BY <2>1, <2>3, <3>2, <3>4 DEF SenderAt, OwnCall
      <4> QED
        BY <1>2, <1>5, <2>3, <4>1 DEF SenderAt
    <3> QED
      BY <3>3, <3>4
  <2>4. CASE mpc[c] \notin {"leaving", "ending"}
    BY <1>2, <2>1, <2>4 DEF SenderAt
  <2> QED
    BY <2>2, <2>3, <2>4
<1>8. \A u \in Threads :
        call'[u].op \notin {"force_kill", "killall"} /\ call'[u].pc # "cancel"
  BY <1>4, <1>5 DEF SenderInv
<1> QED
  BY <1>6, <1>7, <1>8 DEF SenderInv

LEMMA SenderNext ==
  ASSUME NoCancel
  PROVE  IInv /\ SenderInv /\ [Next]_vars => SenderInv'
<1> SUFFICES ASSUME IInv, SenderInv, [Next]_vars PROVE SenderInv'
  OBVIOUS
<1>1. CASE UNCHANGED vars
  BY <1>1 DEF vars, SenderInv, SenderAt
<1> QED
  BY <1>1, SenderMain, SenderOutside, SenderCall DEF Next

\* When nobody cancels main threads, an object that was deleted has no send thread
\* left: main_loop and irc::disconnect stop every thread that connect started.
THEOREM SenderStopped == ASSUME NoCancel PROVE Spec => []SenderGone
<1>1. SenderInv => SenderGone
  BY DEF SenderInv, SenderAt, SenderGone
<1>2. IInv /\ SenderInv /\ [Next]_vars => SenderInv'
  BY SenderNext
<1> QED
  BY <1>1, <1>2, SenderInit, Invariance, PTL DEF Spec
-----------------------------------------------------------------------------
(***************************************************************************)
(* The event queue.                                                        *)
(***************************************************************************)
Event == Conns \X {"other", "disc"}
InHand(e) == IF Running(e) THEN Event ELSE {NoEvent}

\* The locks, the pause and the bounds.
LockTypes ==
  /\ list_wr \in Threads \cup {NoThread} /\ pauser \in Conns \cup {NoThread}
  /\ disconnect_all_ts \in BOOLEAN /\ aborted \in BOOLEAN
  /\ connects \in [Conns -> 0..MaxConnects] /\ msgs \in 0..MaxMsgs

\* An event thread that found the queue filled holds its mutex until it has taken
\* the event, and the purge of a dying connection waits for the mutex.
QueueInv ==
  /\ events \in Seq(Event) /\ queue_mutex \in EvThreads \cup {NoThread}
  /\ cur \in [EvThreads -> Event \cup {NoEvent}]
  /\ \A e \in EvThreads :
       /\ cur[e] \in InHand(e)
       /\ epc[e] \in {"checked", "find"} => queue_mutex = e
       /\ epc[e] = "checked" => events # <<>>

LEMMA QueueInit == Init => LockTypes /\ QueueInv
<1> SUFFICES ASSUME Init PROVE LockTypes /\ QueueInv
  OBVIOUS
<1>1. LockTypes
  <2>1. MaxConnects \in Nat /\ MaxMsgs \in Nat
    BY ConnAssumption
  <2>2. connects \in [Conns -> 0..MaxConnects] /\ msgs \in 0..MaxMsgs
    BY <2>1 DEF Init
  <2> QED
    BY <2>2 DEF Init, LockTypes
<1>2. \A e \in EvThreads : epc[e] = "wait" /\ cur[e] = NoEvent
  BY DEF Init
<1>3. QueueInv
  BY <1>2 DEF Init, QueueInv, InHand, Running
<1> QED
  BY <1>1, <1>3

\* Steps that leave the queue and the event threads alone.
LEMMA QueueKeeps ==
  ASSUME QueueInv, UNCHANGED <<events, queue_mutex, epc, cur>>
  PROVE  QueueInv'
BY DEF QueueInv, InHand, Running, Event, NoEvent

\* add_to_event_queue.
LEMMA PostKeeps ==
  ASSUME QueueInv, NEW c \in Conns, NEW kind \in {"other", "disc"}, Post(c, kind),
         UNCHANGED <<queue_mutex, epc, cur>>
  PROVE  QueueInv'
<1>1. <<c, kind>> \in Event
  BY DEF Event
<1>2. events' \in Seq(Event) /\ events' # <<>>
  BY <1>1 DEF Post, QueueInv
<1> QED
  BY <1>2 DEF QueueInv, InHand, Running, Event, NoEvent

\* What the purge leaves of the queue is a queue.
LEMMA PurgeKeeps ==
  ASSUME QueueInv, NEW c \in Conns, Purge(c)
  PROVE  QueueInv'
<1> DEFINE others == {i \in DOMAIN events : events[i][1] # c \/ events[i][2] = "disc"}
<1>1. events \in Seq(Event) /\ Len(events) \in 0..Len(events)
  BY DEF QueueInv
<1> HIDE DEF others
<1>2. Keep(events, others, Len(events)) \in Seq(Event)
  BY <1>1, KeepType
<1>3. Kept(c) = Keep(events, others, Len(events))
  BY DEF Kept, others
<1>4. events' \in Seq(Event)
  <2>1. Kept(c) \in Seq(Event)
    BY <1>2, <1>3
  <2>2. CASE events' = Kept(c)
    BY <2>1, <2>2
  <2>3. CASE Kept(c) # <<>> /\ events' = Tail(Kept(c))
    BY <2>1, <2>3
  <2> QED
    BY <2>2, <2>3 DEF Purge
<1>5. \A e \in EvThreads : epc[e] # "checked"
  BY ThreadFacts DEF Purge, QueueInv
<1> QED
  BY <1>4, <1>5 DEF Purge, QueueInv, InHand, Running, Event, NoEvent

LEMMA QueueMain ==
  ASSUME IInv, LockTypes, QueueInv, NEW c \in Conns, MainStep(c) \/ MainInput(c)
  PROVE  LockTypes' /\ QueueInv'
<1> USE DEF LockTypes
<1>1. ASSUME UNCHANGED <<epc, cur, connects, msgs, botVars>>
      PROVE  LockTypes' /\ QueueInv'
  BY <1>1, QueueKeeps DEF botVars
<1>2. CASE LoopTest(c) \/ Connect(c) \/ DialFails(c) \/ Decide(c) \/ Leave(c) \/ LoggedIn(c)
  BY <1>1, <1>2 DEF LoopTest, Connect, DialFails, Decide, Leave, LoggedIn
<1>3. CASE LoopEnd(c) \/ AfterLoop(c) \/ Out(c) \/ Canceled(c) \/ CleanBegin(c)
           \/ PauseGranted(c) \/ LockFxn(c)
  BY <1>1, <1>3 DEF LoopEnd, AfterLoop, Out, Canceled, CleanBegin, PauseGranted, LockFxn
<1>4. CASE Launch(c)
  BY <1>4, QueueKeeps DEF Launch
<1>5. CASE Announce(c) \/ LoggedInSet(c)
  BY <1>5, PostKeeps DEF Announce, LoggedInSet
<1>6. CASE Receive(c)
  <2>1. msgs' \in 0..MaxMsgs
    BY <1>6, ConnAssumption DEF Receive
  <2> QED
    BY <1>6, <2>1, PostKeeps DEF Receive
<1>7. CASE DialSucceeds(c)
  <2>1. connects' \in [Conns -> 0..MaxConnects]
    BY <1>7, ConnAssumption DEF DialSucceeds
  <2> QED
    BY <1>7, <2>1, QueueKeeps DEF DialSucceeds, botVars
<1>8. CASE Login(c)
  BY <1>8, QueueKeeps DEF Login
<1>9. CASE PauseBegin(c) \/ PauseTimeout(c)
  BY <1>9, QueueKeeps DEF PauseBegin, PauseTimeout
<1>10. CASE Purge(c)
  <2>1. QueueInv'
    BY <1>10, PurgeKeeps
  <2>2. pauser' \in Conns \cup {NoThread}
    BY <1>10 DEF Purge
  <2> QED
    BY <1>10, <2>1, <2>2 DEF Purge
<1>11. CASE DelLock(c) \/ DelErase(c)
  <2>1. list_wr' \in Threads \cup {NoThread}
    BY <1>11, ThreadFacts DEF DelLock, DelErase
  <2> QED
    BY <1>11, <2>1, QueueKeeps DEF DelLock, DelErase
<1> QED
  BY <1>2, <1>3, <1>4, <1>5, <1>6, <1>7, <1>8, <1>9, <1>10, <1>11
  DEF MainStep, MainInput

\* An event thread goes to l with x in its hands.
EvMove(e, l, x) ==
  /\ l \in EvPcs
  /\ l \in {"find", "run", "cmd"} => x \in Event
  /\ l \notin {"find", "run", "cmd"} => x = NoEvent
  /\ epc' = [epc EXCEPT ![e] = l] /\ cur' = [cur EXCEPT ![e] = x]
  /\ events' \in Seq(Event) /\ queue_mutex' \in EvThreads \cup {NoThread}
  /\ l \in {"checked", "find"} => queue_mutex' = e
  /\ l = "checked" => events' # <<>>
  /\ \A f \in EvThreads \ {e} :
       epc[f] \in {"checked", "find"} =>
         queue_mutex' = f /\ (epc[f] = "checked" => events' # <<>>)

LEMMA EvKeeps ==
  ASSUME IInv, QueueInv, NEW e \in EvThreads, NEW l, NEW x, EvMove(e, l, x)
  PROVE  QueueInv'
<1> USE DEF EvMove
<1>1. /\ epc \in [EvThreads -> EvPcs]
      /\ cur \in [EvThreads -> Event \cup {NoEvent}]
  BY DEF IInv, TypeInv, QueueInv
<1>2. cur' \in [EvThreads -> Event \cup {NoEvent}]
  <2>1. x \in Event \cup {NoEvent}
    OBVIOUS
  <2> QED
    BY <1>1, <2>1
<1>3. epc'[e] = l /\ cur'[e] = x
  BY <1>1
<1>4. \A f \in EvThreads \ {e} : epc'[f] = epc[f] /\ cur'[f] = cur[f]
  BY <1>1
<1>5. ASSUME NEW f \in EvThreads
      PROVE  /\ cur'[f] \in IF epc'[f] \in {"find", "run", "cmd"} THEN Event ELSE {NoEvent}
             /\ epc'[f] \in {"checked", "find"} => queue_mutex' = f
             /\ epc'[f] = "checked" => events' # <<>>
  <2>1. CASE f = e
    BY <1>3, <2>1
  <2>2. CASE f # e
    <3>1. cur[f] \in IF epc[f] \in {"find", "run", "cmd"} THEN Event ELSE {NoEvent}
      BY DEF QueueInv, InHand, Running
    <3> QED
      BY <1>4, <2>2, <3>1
  <2> QED
    BY <2>1, <2>2
<1> QED
  BY <1>2, <1>5 DEF QueueInv, InHand, Running, Event, NoEvent

LEMMA QueueEv ==
  ASSUME IInv, LockTypes, QueueInv, NEW e \in EvThreads, EvStep(e) \/ EvCommand(e)
  PROVE  LockTypes' /\ QueueInv'
<1>1. UNCHANGED <<list_wr, pauser, disconnect_all_ts, aborted, connects, msgs>>
  BY DEF EvStep, EvCommand, EvCheck, EvResume, EvRelock, EvTake, EvFind, EvDone, Command,
         KillCommand, AllCommand, botVars
<1>2. LockTypes'
  BY <1>1 DEF LockTypes
<1> SUFFICES QueueInv'
  BY <1>2
<1>3. e # NoThread /\ NoThread \notin EvThreads
  BY ThreadFacts
<1>4. /\ epc \in [EvThreads -> EvPcs]
      /\ cur \in [EvThreads -> Event \cup {NoEvent}]
      /\ events \in Seq(Event) /\ queue_mutex \in EvThreads \cup {NoThread}
      /\ cur[e] \in (IF epc[e] \in {"find", "run", "cmd"} THEN Event ELSE {NoEvent})
      /\ cur = [cur EXCEPT ![e] = cur[e]]
      /\ \A f \in EvThreads : /\ epc[f] \in {"checked", "find"} => queue_mutex = f
                              /\ epc[f] = "checked" => events # <<>>
  BY DEF IInv, TypeInv, QueueInv, InHand, Running
<1>5. CASE EvCheck(e) \/ EvResume(e) \/ EvRelock(e)
  <2>1. cur' = [cur EXCEPT ![e] = NoEvent] /\ events' = events
    BY <1>4, <1>5 DEF EvCheck, EvResume, EvRelock, botVars
  <2>2. CASE epc' = [epc EXCEPT ![e] = "checked"]
    <3>1. queue_mutex' = e /\ events # <<>> /\ queue_mutex = NoThread
      BY <1>4, <1>5, <2>2 DEF EvCheck, EvResume, EvRelock
    <3>2. \A f \in EvThreads : epc[f] \notin {"checked", "find"}
      BY <1>3, <1>4, <3>1
    <3>3. EvMove(e, "checked", NoEvent)
      BY <1>4, <2>1, <2>2, <3>1, <3>2 DEF EvMove, EvPcs
    <3> QED
      BY <3>3, EvKeeps
  <2>3. ASSUME NEW l \in {"wait", "paused", "resumed"}, UNCHANGED queue_mutex,
               epc' = [epc EXCEPT ![e] = l]
        PROVE  QueueInv'
    <3>1. EvMove(e, l, NoEvent)
      BY <1>4, <2>1, <2>3 DEF EvMove, EvPcs
    <3> QED
      BY <3>1, EvKeeps
  <2> QED
    BY <1>5, <2>2, <2>3 DEF EvCheck, EvResume, EvRelock, botVars
<1>6. CASE EvTake(e)
  <2>1. events # <<>> /\ queue_mutex = e /\ queue_mutex' = e
    BY <1>4, <1>6 DEF EvTake
  <2>2. Head(events) \in Event /\ Tail(events) \in Seq(Event)
    BY <1>4, <2>1
  <2>3. \A f \in EvThreads \ {e} : epc[f] \notin {"checked", "find"}
    BY <1>4, <2>1
  <2>4. /\ epc' = [epc EXCEPT ![e] = "find"] /\ cur' = [cur EXCEPT ![e] = Head(events)]
        /\ events' = Tail(events)
    BY <1>6 DEF EvTake
  <2>5. EvMove(e, "find", Head(events))
    BY <2>1, <2>2, <2>3, <2>4 DEF EvMove, EvPcs
  <2> QED
    BY <2>5, EvKeeps
<1>7. CASE EvFind(e)
  <2>1. queue_mutex = e /\ queue_mutex' = NoThread /\ events' = events
    BY <1>4, <1>7 DEF EvFind
  <2>2. \A f \in EvThreads \ {e} : epc[f] \notin {"checked", "find"}
    BY <1>4, <2>1
  <2>3. CASE epc' = [epc EXCEPT ![e] = "run"] /\ cur' = cur
    <3>1. cur[e] \in Event
      BY <1>4, <1>7 DEF EvFind
    <3>2. EvMove(e, "run", cur[e])
      BY <1>4, <2>1, <2>2, <2>3, <3>1 DEF EvMove, EvPcs
    <3> QED
      BY <3>2, EvKeeps
  <2>4. CASE epc' = [epc EXCEPT ![e] = "wait"] /\ cur' = [cur EXCEPT ![e] = NoEvent]
    <3>1. EvMove(e, "wait", NoEvent)
      BY <1>4, <2>1, <2>2, <2>4 DEF EvMove, EvPcs
    <3> QED
      BY <3>1, EvKeeps
  <2> QED
    BY <1>7, <2>3, <2>4 DEF EvFind
<1>8. CASE EvDone(e)
  <2>1. /\ epc' = [epc EXCEPT ![e] = "wait"] /\ cur' = [cur EXCEPT ![e] = NoEvent]
        /\ UNCHANGED <<events, queue_mutex>>
    BY <1>8 DEF EvDone, botVars
  <2>2. EvMove(e, "wait", NoEvent)
    BY <1>4, <2>1 DEF EvMove, EvPcs
  <2> QED
    BY <2>2, EvKeeps
<1>9. CASE Command(e) \/ KillCommand(e) \/ AllCommand(e)
  <2>1. /\ epc[e] = "run" /\ epc' = [epc EXCEPT ![e] = "cmd"]
        /\ UNCHANGED <<events, queue_mutex, cur>>
    BY <1>9 DEF Command, KillCommand, AllCommand, MayCall, botVars
  <2>2. cur[e] \in Event
    BY <1>4, <2>1
  <2>3. EvMove(e, "cmd", cur[e])
    BY <1>4, <2>1, <2>2 DEF EvMove, EvPcs
  <2> QED
    BY <2>3, EvKeeps
<1> QED
  BY <1>2, <1>5, <1>6, <1>7, <1>8, <1>9 DEF EvStep, EvCommand

LEMMA QueueCall ==
  ASSUME IInv, LockTypes, QueueInv, NEW t \in Threads, CallStep(t) \/ CallJoined(t)
  PROVE  LockTypes' /\ QueueInv'
<1> USE DEF LockTypes
<1>1. ASSUME UNCHANGED <<epc, cur, connects, msgs, botVars>>
      PROVE  LockTypes' /\ QueueInv'
  BY <1>1, QueueKeeps, SMTT(40) DEF botVars
<1>2. CASE CallEnter(t) \/ CallLock(t) \/ DoQuit(t) \/ DoReconnect(t) \/ DoDisconnect(t)
  BY <1>1, <1>2, ZenonT(60) DEF CallEnter, CallLock, DoQuit, DoReconnect, DoDisconnect
<1>3. CASE \/ DoForceKill(t) \/ CallCancel(t) \/ CallKill(t) \/ CallJoined(t)
           \/ CallDown(t) \/ CallEnterDeleted(t)
  BY <1>1, <1>3, ZenonT(60) DEF DoForceKill, CallCancel, CallKill, CallJoined, CallDown,
                                CallEnterDeleted
<1>4. CASE CallList(t) \/ CallReturn(t)
  BY <1>4, QueueKeeps DEF CallList, CallReturn
<1>5. CASE CallPost(t)
  <2>1. call[t].on \in Conns
    BY <1>5, OnExists DEF CallPost, InOp
  <2> QED
    BY <1>5, <2>1, PostKeeps DEF CallPost
<1> QED
  BY <1>2, <1>3, <1>4, <1>5 DEF CallStep

LEMMA QueueNext ==
  IInv /\ LockTypes /\ QueueInv /\ [Next]_vars => LockTypes' /\ QueueInv'
<1> SUFFICES ASSUME IInv, LockTypes, QueueInv, [Next]_vars
             PROVE  LockTypes' /\ QueueInv'
  OBVIOUS
<1>1. ASSUME UNCHANGED <<epc, cur, connects, msgs, botVars>>
      PROVE  LockTypes' /\ QueueInv'
  BY <1>1, QueueKeeps DEF botVars, LockTypes
<1>2. CASE UNCHANGED vars
  BY <1>1, <1>2 DEF vars
<1>3. CASE Signal \/ WaitKill
  BY <1>1, <1>3 DEF Signal, WaitKill
<1> QED
  BY <1>2, <1>3, QueueMain, QueueEv, QueueCall DEF Next

\* The queue mutex keeps event_thread from taking an event that the purge of
\* main_thread_cleanup has deleted, or one from an empty queue, and every handler
\* runs with an event of a connection, for any numbers of threads and connections.
THEOREM TypeCorrect == Spec => []TypeOK
<1>1. ASSUME IInv, LockTypes, QueueInv PROVE TypeOK
  BY <1>1 DEF IInv, TypeInv, MainPcs, EvPcs, LockTypes, QueueInv, InHand, Event, TypeOK
<1> QED
  BY <1>1, QueueInit, QueueNext, Invariance, PTL DEF Spec
=============================================================================
