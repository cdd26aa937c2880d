----------------------------- MODULE Connection -----------------------------
(***************************************************************************)
(* The life of IRC connections (ircbot.cpp, ircbot_conn): the thread that  *)
(* connects, reads, reconnects and in the end destroys its own object; the *)
(* operations quit, disconnect, reconnect and force_kill that handlers,    *)
(* the signal handler and ircbot::wait call on it; and the locks they      *)
(* share: connfxn_mutex, the lock of irc_conns, event_queue_mutex, and the *)
(* pause of the event threads.                                             *)
(*                                                                         *)
(* A connection's main thread is named by the connection.  Event threads   *)
(* keep what matters here of module EventThreads: a thread tests the pause *)
(* and takes an event in two steps, so one event may still be taken after  *)
(* a pause was granted.  The test is made with the queue mutex held or, by *)
(* a thread that was paused, before it locks the mutex again.              *)
(***************************************************************************)
EXTENDS Integers, Sequences, FiniteSets, SeqKeep

CONSTANTS
  Conns,        \* connection objects
  EvThreads,    \* event threads
  Waiter,       \* the thread in ircbot::wait, which also gets the signals
  NoThread,
  Cmds,         \* what handlers call: a subset of AllCmds
  Signals,      \* BOOLEAN: SIGINT and the like may arrive
  Kills,        \* BOOLEAN: shutting down may take longer than 8 seconds
  MaxConnects,  \* bound: successful connects of a connection
  MaxMsgs       \* bound: messages received, all connections together

AllOps == {"quitall", "disconnectall", "killall"}
AllCmds == {"quit", "disconnect", "reconnect", "force_kill", "quitall",
            "disconnectall"}
Threads == EvThreads \cup Conns \cup {Waiter}

ASSUME ConnAssumption ==
  /\ Cmds \subseteq AllCmds
  /\ NoThread \notin Threads /\ Waiter \notin EvThreads \cup Conns
  /\ EvThreads \cap Conns = {}
  /\ Signals \in BOOLEAN /\ Kills \in BOOLEAN
  /\ MaxConnects \in Nat /\ MaxMsgs \in Nat

VARIABLES
  cn,           \* the fields of each ircbot_conn, see ConnType
  mpc, ret,     \* its main thread: place, and result of connect or main_loop
  irc_conns, list_wr,            \* the objects that exist; the list's write lock
  events, queue_mutex, pauser,   \* event queue; who paused the event threads
  epc, cur,     \* event threads: place, and the event in a handler
  call,         \* the operation on a connection that each thread is in
  disconnect_all_ts,             \* it is not 0
  aborted,      \* an assertion failed
  connects, msgs                 \* counted for the bounds

botVars == <<irc_conns, list_wr, events, queue_mutex, pauser, disconnect_all_ts,
             aborted>>
vars == <<cn, mpc, ret, epc, cur, call, connects, msgs, botVars>>

\* Ids and times are kept as whether they are set; sock, whether it is connected.
ConnType ==
  [status : {"DISCONNECTED", "CONNECTING", "CONNECTED"},
   disconnect_on : BOOLEAN, reconnect_on : BOOLEAN, is_destructing : BOOLEAN,
   main_thread_tid : BOOLEAN, quit_on_timer : BOOLEAN, sock : BOOLEAN,
   send_thread_id : BOOLEAN,
   connfxn_mutex : Threads \cup {NoThread}, canceled : BOOLEAN]

\* ircbot_conn::ircbot_conn
NewConn ==
  [status |-> "DISCONNECTED", disconnect_on |-> FALSE, reconnect_on |-> FALSE,
   is_destructing |-> FALSE, main_thread_tid |-> FALSE,
   quit_on_timer |-> FALSE, sock |-> FALSE, send_thread_id |-> FALSE,
   connfxn_mutex |-> NoThread, canceled |-> FALSE]

Idle == [op |-> "none", todo |-> {}, on |-> NoThread, pc |-> "idle"]
NoEvent == <<NoThread, "none">>

Init ==
  /\ cn = [c \in Conns |-> NewConn]
  /\ mpc = [c \in Conns |-> "new"]
  /\ ret = [c \in Conns |-> 0]
  /\ irc_conns = {} /\ list_wr = NoThread
  /\ events = <<>> /\ queue_mutex = NoThread /\ pauser = NoThread
  /\ epc = [e \in EvThreads |-> "wait"]
  /\ cur = [e \in EvThreads |-> NoEvent]
  /\ call = [t \in Threads |-> Idle]
  /\ disconnect_all_ts = FALSE /\ aborted = FALSE
  /\ connects = [c \in Conns |-> 0] /\ msgs = 0

Goto(c, l) == mpc' = [mpc EXCEPT ![c] = l]
\* add_to_event_queue: the mutex is taken and released.
Post(c, kind) ==
  /\ queue_mutex = NoThread
  /\ events' = Append(events, <<c, kind>>)
-----------------------------------------------------------------------------
(***************************************************************************)
(* ircbot_conn::main_loop and irc::main_loop.                              *)
(***************************************************************************)
\* connect_1, called by ircbot::run and by the command connect, creates the
\* object, adds it to the list and launches its thread.
Launch(c) ==
  /\ mpc[c] = "new" /\ list_wr = NoThread
  /\ irc_conns' = irc_conns \cup {c}
  /\ cn' = [cn EXCEPT ![c].main_thread_tid = TRUE]
  /\ Goto(c, "top")
  /\ UNCHANGED <<ret, epc, cur, call, connects, msgs, list_wr, events,
                 queue_mutex, pauser, disconnect_all_ts, aborted>>

\* while(this->disconnect_on == false) { ... reconnect_on = false;
LoopTest(c) ==
  /\ mpc[c] = "top"
  /\ IF cn[c].disconnect_on
       THEN Goto(c, "out") /\ UNCHANGED cn
       ELSE Goto(c, "connect") /\ cn' = [cn EXCEPT ![c].reconnect_on = FALSE]
  /\ UNCHANGED <<ret, epc, cur, call, connects, msgs, botVars>>

\* irc::connect up to sock.connect.
Connect(c) ==
  /\ mpc[c] = "connect"
  /\ IF cn[c].status # "DISCONNECTED"
       THEN /\ Goto(c, "decide") /\ ret' = [ret EXCEPT ![c] = -1]
            /\ UNCHANGED cn
       ELSE /\ Goto(c, "dial") /\ UNCHANGED ret
            /\ cn' = [cn EXCEPT ![c].status = "CONNECTING",
                                ![c].quit_on_timer = FALSE]
  /\ UNCHANGED <<epc, cur, call, connects, msgs, botVars>>

DialFails(c) ==
  /\ mpc[c] = "dial"
  /\ cn' = [cn EXCEPT ![c].status = "DISCONNECTED"]
  /\ ret' = [ret EXCEPT ![c] = -1]
  /\ Goto(c, "decide")
  /\ UNCHANGED <<epc, cur, call, connects, msgs, botVars>>

\* The socket is connected, create_send_thread starts the send thread, ...
DialSucceeds(c) ==
  /\ mpc[c] = "dial" /\ connects[c] < MaxConnects
  /\ connects' = [connects EXCEPT ![c] = @ + 1]
  /\ cn' = [cn EXCEPT ![c].sock = TRUE, ![c].send_thread_id = TRUE]
  /\ Goto(c, "announce")
  /\ UNCHANGED <<ret, epc, cur, call, msgs, botVars>>

\* ... and connect queues the CONNECTED event.
Announce(c) ==
  /\ mpc[c] = "announce" /\ Post(c, "other")
  /\ ret' = [ret EXCEPT ![c] = 0]
  /\ Goto(c, "decide")
  /\ UNCHANGED <<cn, epc, cur, call, connects, msgs, irc_conns, list_wr,
                 queue_mutex, pauser, disconnect_all_ts, aborted>>

\* After connect: give up if told to, sleep and retry if it failed, or log in.
\* Mutant of Decide: disconnect() is left out.
Decide_noclose(c) ==
  /\ mpc[c] = "decide"
  /\ Goto(c, IF cn[c].disconnect_on THEN "out"
             ELSE IF ret[c] = 0 THEN "login" ELSE "top")
  /\ UNCHANGED <<cn, ret, epc, cur, call, connects, msgs, botVars>>
Decide(c) ==
  /\ mpc[c] = "decide"
  /\ IF cn[c].disconnect_on /\ ret[c] = 0
       THEN /\ call' = [call EXCEPT ![c] = [Idle EXCEPT
                          !.op = "disconnect", !.todo = {c}, !.pc = "next"]]
            /\ Goto(c, "leaving")
       ELSE /\ Goto(c, IF cn[c].disconnect_on THEN "out"
                       ELSE IF ret[c] = 0 THEN "login" ELSE "top")
            /\ UNCHANGED call
  /\ UNCHANGED <<cn, ret, epc, cur, connects, msgs, botVars>>

Leave(c) ==
  /\ mpc[c] = "leaving" /\ call[c] = Idle
  /\ Goto(c, "out")
  /\ UNCHANGED <<cn, ret, epc, cur, call, connects, msgs, botVars>>

\* login_to_server: assert(this->status == IRCSTATUS_CONNECTING); a failed
\* assertion ends the process, which the model need not do.
Login(c) ==
  /\ mpc[c] = "login"
  /\ IF cn[c].status = "CONNECTING"
       THEN Goto(c, "loop") /\ UNCHANGED aborted
       ELSE Goto(c, "dead") /\ aborted' = TRUE
  /\ UNCHANGED <<cn, ret, epc, cur, call, connects, msgs, irc_conns, list_wr,
                 events, queue_mutex, pauser, disconnect_all_ts>>

\* A 376 line: the status is tested, then set, and LOGGEDIN is queued.
LoggedIn(c) ==
  /\ mpc[c] = "loop" /\ cn[c].sock /\ cn[c].status = "CONNECTING"
  /\ Goto(c, "logged")
  /\ UNCHANGED <<cn, ret, epc, cur, call, connects, msgs, botVars>>

LoggedInSet(c) ==
  /\ mpc[c] = "logged" /\ Post(c, "other")
  /\ cn' = [cn EXCEPT ![c].status = "CONNECTED"]
  /\ Goto(c, "loop")
  /\ UNCHANGED <<ret, epc, cur, call, connects, msgs, irc_conns, list_wr,
                 queue_mutex, pauser, disconnect_all_ts, aborted>>

\* Another line: an event is queued.
Receive(c) ==
  /\ mpc[c] = "loop" /\ cn[c].sock /\ msgs < MaxMsgs /\ Post(c, "other")
  /\ msgs' = msgs + 1
  /\ UNCHANGED <<cn, mpc, ret, epc, cur, call, connects, irc_conns, list_wr,
                 queue_mutex, pauser, disconnect_all_ts, aborted>>

\* The loop ends after quit, with an error of the socket, or with an ERROR line
\* or a ping timeout; irc::disconnect follows.
LoopEnd(c) ==
  /\ mpc[c] = "loop"
  /\ ret' = [ret EXCEPT ![c] = IF cn[c].quit_on_timer THEN 0 ELSE -1]
  /\ call' = [call EXCEPT ![c] = [Idle EXCEPT !.op = "end", !.on = c,
                                              !.pc = "kill"]]
  /\ Goto(c, "ending")
  /\ UNCHANGED <<cn, epc, cur, connects, msgs, botVars>>
MustEnd(c) == (cn[c].quit_on_timer \/ ~cn[c].sock) /\ LoopEnd(c)

\* Back in ircbot_conn::main_loop: reconnect, exit, or sleep and try again.
AfterLoop(c) ==
  /\ mpc[c] = "ending" /\ call[c] = Idle
  /\ Goto(c, IF cn[c].reconnect_on THEN "top"
             ELSE IF ret[c] = 0 THEN "out" ELSE "top")
  /\ UNCHANGED <<cn, ret, epc, cur, call, connects, msgs, botVars>>

\* The end of main_loop, and main_thread_tid = -1.
Out(c) ==
  /\ mpc[c] = "out"
  /\ cn' = [cn EXCEPT ![c].disconnect_on = FALSE, ![c].reconnect_on = FALSE,
                      ![c].main_thread_tid = FALSE]
  /\ Goto(c, "clean")
  /\ UNCHANGED <<ret, epc, cur, call, connects, msgs, botVars>>

\* pthread_cancel takes effect: at a cancellation point of the loops (any point
\* around connect), with the cleanup handler still to run; or, when main_loop
\* has returned, in the usleep of the cleanup itself, which is then abandoned.
Canceled(c) ==
  /\ cn[c].canceled
  /\ \/ /\ \/ mpc[c] \in {"top", "connect", "dial", "announce", "decide",
                          "loop"}
           \/ (mpc[c] \in {"ending", "leaving"} /\ call[c].pc \in {"kill", "join"})
        /\ Goto(c, "clean")
     \/ /\ mpc[c] \in {"pause", "scan"}
        /\ Goto(c, "dead")
  /\ cn' = [cn EXCEPT ![c].canceled = FALSE]
  /\ call' = [call EXCEPT ![c] = Idle]
  /\ UNCHANGED <<ret, epc, cur, connects, msgs, botVars>>
-----------------------------------------------------------------------------
(***************************************************************************)
(* ircbot_conn::main_thread_cleanup.                                       *)
(***************************************************************************)
\* Mutant of CleanBegin: no pause.
CleanBegin_nopause(c) ==
  /\ mpc[c] = "clean"
  /\ cn' = [cn EXCEPT ![c].is_destructing = TRUE]
  /\ Goto(c, "fxn")
  /\ UNCHANGED <<ret, epc, cur, call, connects, msgs, botVars>>
CleanBegin(c) ==
  /\ mpc[c] = "clean"
  /\ cn' = [cn EXCEPT ![c].is_destructing = TRUE]
  /\ Goto(c, "pause")
  /\ UNCHANGED <<ret, epc, cur, call, connects, msgs, botVars>>

\* pause_event_threads(true): no other caller, ...
PauseBegin(c) ==
  /\ mpc[c] = "pause" /\ pauser = NoThread
  /\ pauser' = c
  /\ Goto(c, "scan")
  /\ UNCHANGED <<cn, ret, epc, cur, call, connects, msgs, irc_conns, list_wr,
                 events, queue_mutex, disconnect_all_ts, aborted>>

Running(e) == epc[e] \in {"find", "run", "cmd"}

\* ... no event thread is RUNNING; ...
PauseGranted(c) ==
  /\ mpc[c] = "scan" /\ \A e \in EvThreads : ~Running(e)
  /\ Goto(c, "fxn")
  /\ UNCHANGED <<cn, ret, epc, cur, call, connects, msgs, botVars>>

\* ... or after 15 seconds the pause is taken back and tried again.
PauseTimeout(c) ==
  /\ mpc[c] = "scan" /\ \E e \in EvThreads : Running(e)
  /\ pauser' = NoThread
  /\ Goto(c, "pause")
  /\ UNCHANGED <<cn, ret, epc, cur, call, connects, msgs, irc_conns, list_wr,
                 events, queue_mutex, disconnect_all_ts, aborted>>

LockFxn(c) ==
  /\ mpc[c] = "fxn" /\ cn[c].connfxn_mutex = NoThread
  /\ cn' = [cn EXCEPT ![c].connfxn_mutex = c, ![c].main_thread_tid = FALSE]
  /\ Goto(c, "purge")
  /\ UNCHANGED <<ret, epc, cur, call, connects, msgs, botVars>>

Kept(c) ==
  LET others == {i \in DOMAIN events : events[i][1] # c \/ events[i][2] = "disc"}
  IN Keep(events, others, Len(events))

\* The loop over the queue (it may lose a survivor at the front, see module
\* DequePurge), and pause_event_threads(false).
Purge(c) ==
  /\ mpc[c] = "purge" /\ queue_mutex = NoThread
  /\ \/ events' = Kept(c)
     \/ /\ events # <<>> /\ Head(events) = <<c, "other">> /\ Kept(c) # <<>>
        /\ events' = Tail(Kept(c))
  /\ pauser' = IF pauser = c THEN NoThread ELSE pauser
  /\ Goto(c, "delobj")
  /\ UNCHANGED <<cn, ret, epc, cur, call, connects, msgs, irc_conns, list_wr,
                 queue_mutex, disconnect_all_ts, aborted>>

\* irc_conns.delobj: the write lock, then ~ircbot_conn, whose quit and
\* disconnect do nothing, and ~irc, which disconnects unless it was done.
DelLock(c) ==
  /\ mpc[c] = "delobj" /\ list_wr = NoThread
  /\ list_wr' = c
  /\ call' = IF cn[c].status = "DISCONNECTED" THEN call
             ELSE [call EXCEPT ![c] = [Idle EXCEPT !.op = "dtor", !.on = c,
                                                   !.pc = "kill"]]
  /\ Goto(c, "erase")
  /\ UNCHANGED <<cn, ret, epc, cur, connects, msgs, irc_conns, events,
                 queue_mutex, pauser, disconnect_all_ts, aborted>>

DelErase(c) ==
  /\ mpc[c] = "erase" /\ call[c] = Idle
  /\ irc_conns' = irc_conns \ {c}
  /\ list_wr' = NoThread
  /\ Goto(c, "gone")
  /\ UNCHANGED <<cn, ret, epc, cur, call, connects, msgs, events, queue_mutex,
                 pauser, disconnect_all_ts, aborted>>
-----------------------------------------------------------------------------
(***************************************************************************)
(* Event threads (ircbot::event_thread) and the commands of their handlers *)
(* (mod_admin.cpp, the Lua methods of a connection).                       *)
(***************************************************************************)
\* while(!events.empty()): the level is tested with the mutex held; in a pause
\* the mutex is released ...
EvCheck(e) ==
  /\ epc[e] = "wait" /\ events # <<>> /\ queue_mutex = NoThread
  /\ IF pauser = NoThread
       THEN queue_mutex' = e /\ epc' = [epc EXCEPT ![e] = "checked"]
       ELSE epc' = [epc EXCEPT ![e] = "paused"] /\ UNCHANGED queue_mutex
  /\ UNCHANGED <<cn, mpc, ret, cur, call, connects, msgs, irc_conns, list_wr,
                 events, pauser, disconnect_all_ts, aborted>>

\* ... until the level is 0 ...
EvResume(e) ==
  /\ epc[e] = "paused" /\ pauser = NoThread
  /\ epc' = [epc EXCEPT ![e] = "resumed"]
  /\ UNCHANGED <<cn, mpc, ret, cur, call, connects, msgs, botVars>>

\* ... and locked again: then only the queue is tested.
EvRelock(e) ==
  /\ epc[e] = "resumed" /\ queue_mutex = NoThread
  /\ IF events = <<>>
       THEN epc' = [epc EXCEPT ![e] = "wait"] /\ UNCHANGED queue_mutex
       ELSE queue_mutex' = e /\ epc' = [epc EXCEPT ![e] = "checked"]
  /\ UNCHANGED <<cn, mpc, ret, cur, call, connects, msgs, irc_conns, list_wr,
                 events, pauser, disconnect_all_ts, aborted>>

EvTake(e) ==
  /\ epc[e] = "checked"
  /\ cur' = [cur EXCEPT ![e] = Head(events)]
  /\ events' = Tail(events)
  /\ epc' = [epc EXCEPT ![e] = "find"]
  /\ UNCHANGED <<cn, mpc, ret, call, connects, msgs, irc_conns, list_wr,
                 queue_mutex, pauser, disconnect_all_ts, aborted>>

\* irc_conns.find_by_ptr takes the read lock with event_queue_mutex held.
EvFind(e) ==
  /\ epc[e] = "find" /\ list_wr = NoThread
  /\ queue_mutex' = NoThread
  /\ IF cur[e][1] \in irc_conns
       THEN epc' = [epc EXCEPT ![e] = "run"] /\ UNCHANGED cur
       ELSE epc' = [epc EXCEPT ![e] = "wait"]
            /\ cur' = [cur EXCEPT ![e] = NoEvent]
  /\ UNCHANGED <<cn, mpc, ret, call, connects, msgs, irc_conns, list_wr,
                 events, pauser, disconnect_all_ts, aborted>>

\* The handlers are done: state = WAITING, evdata = NULL.
\* Mutant of EvDone: evdata is not reset.
EvDone_keep(e) ==
  /\ epc[e] \in {"run", "cmd"} /\ call[e] = Idle
  /\ epc' = [epc EXCEPT ![e] = "wait"]
  /\ UNCHANGED <<cn, mpc, ret, cur, call, connects, msgs, botVars>>
EvDone(e) ==
  /\ epc[e] \in {"run", "cmd"} /\ call[e] = Idle
  /\ epc' = [epc EXCEPT ![e] = "wait"]
  /\ cur' = [cur EXCEPT ![e] = NoEvent]
  /\ UNCHANGED <<cn, mpc, ret, call, connects, msgs, botVars>>

\* A handler calls op; nobody tests whether its connection still exists.
MayCall(e, op) ==
  /\ epc[e] = "run" /\ op \in Cmds
  /\ epc' = [epc EXCEPT ![e] = "cmd"]

\* isrv->quit, isrv->disconnect, isrv->reconnect on its own connection.
Command(e) == \E op \in {"quit", "disconnect", "reconnect"} :
  /\ MayCall(e, op)
  /\ call' = [call EXCEPT ![e] = [Idle EXCEPT !.op = op, !.pc = "next",
                                              !.todo = {cur[e][1]}]]
  /\ UNCHANGED <<cn, mpc, ret, cur, connects, msgs, botVars>>

\* force_kill <name>: find_conn_by_name (read lock), then isrv_t->force_kill.
KillCommand(e) == \E d \in irc_conns :
  /\ MayCall(e, "force_kill") /\ list_wr = NoThread
  /\ call' = [call EXCEPT ![e] = [Idle EXCEPT !.op = "force_kill",
                                              !.pc = "next", !.todo = {d}]]
  /\ UNCHANGED <<cn, mpc, ret, cur, connects, msgs, botVars>>

\* quitall and disconnectall.
AllCommand(e) == \E op \in {"quitall", "disconnectall"} :
  /\ MayCall(e, op)
  /\ call' = [call EXCEPT ![e] = [Idle EXCEPT !.op = op, !.pc = "list"]]
  /\ UNCHANGED <<cn, mpc, ret, cur, connects, msgs, botVars>>

\* A signal: quit_all in the handler, which interrupts the sleep of wait.
Signal ==
  /\ Signals /\ ~disconnect_all_ts /\ call[Waiter] = Idle /\ irc_conns # {}
  /\ call' = [call EXCEPT ![Waiter] = [Idle EXCEPT !.op = "quitall",
                                                   !.pc = "list"]]
  /\ UNCHANGED <<cn, mpc, ret, epc, cur, connects, msgs, botVars>>

\* ircbot::wait finds connections 8 seconds after quit_all or disconnect_all.
WaitKill ==
  /\ Kills /\ disconnect_all_ts /\ call[Waiter] = Idle /\ irc_conns # {}
  /\ call' = [call EXCEPT ![Waiter] = [Idle EXCEPT !.op = "killall",
                                                   !.pc = "list"]]
  /\ UNCHANGED <<cn, mpc, ret, epc, cur, connects, msgs, botVars>>
-----------------------------------------------------------------------------
(***************************************************************************)
(* quit, disconnect, reconnect and force_kill, on one connection or, with  *)
(* irc_conns write-locked, on all.                                         *)
(***************************************************************************)
CallGoto(t, l) == call' = [call EXCEPT ![t].pc = l]
\* An operation is over: the next connection of the list, or the caller goes on.
CallOver(t) ==
  call' = [call EXCEPT ![t] = IF @.op \in AllOps THEN [@ EXCEPT !.pc = "next"]
                              ELSE Idle]

\* quit_all, disconnect_all, force_kill_all: irc_conns.wrlock()
CallList(t) ==
  /\ call[t].pc = "list" /\ list_wr = NoThread
  /\ list_wr' = t
  /\ call' = [call EXCEPT ![t].todo = irc_conns, ![t].pc = "next"]
  /\ UNCHANGED <<cn, mpc, ret, epc, cur, connects, msgs, irc_conns, events,
                 queue_mutex, pauser, disconnect_all_ts, aborted>>

\* if(this->is_destructing) return false;
Refused(op, c) ==
  cn[c].is_destructing \/ (op = "reconnect" /\ cn[c].disconnect_on)

CallEnter(t) == \E c \in call[t].todo :
  /\ call[t].pc = "next"
  /\ LET rest == [call[t] EXCEPT !.todo = @ \ {c}] IN
     call' = [call EXCEPT ![t] =
                IF ~Refused(call[t].op, c)
                  THEN [rest EXCEPT !.on = c, !.pc = "lock"]
                ELSE IF call[t].op \in AllOps THEN rest ELSE Idle]
  /\ UNCHANGED <<cn, mpc, ret, epc, cur, connects, msgs, botVars>>

\* The object was deleted meanwhile.  What is read as is_destructing is undefined:
\* the old value, and the operation is refused (CallEnter), or another, and the
\* thread goes on with freed memory, which is not followed.
CallEnterDeleted(t) ==
  /\ call[t].pc = "next" /\ ~(call[t].todo \subseteq irc_conns)
  /\ CallGoto(t, "lost")
  /\ UNCHANGED <<cn, mpc, ret, epc, cur, connects, msgs, botVars>>

\* The loop over the list is over.
CallReturn(t) ==
  /\ call[t].pc = "next" /\ call[t].todo = {}
  /\ call' = [call EXCEPT ![t] = Idle]
  /\ list_wr' = NoThread /\ disconnect_all_ts' = TRUE
  /\ UNCHANGED <<cn, mpc, ret, epc, cur, connects, msgs, irc_conns, events,
                 queue_mutex, pauser, aborted>>

CallLock(t) == LET c == call[t].on IN
  /\ call[t].pc = "lock" /\ cn[c].connfxn_mutex = NoThread
  /\ cn' = [cn EXCEPT ![c].connfxn_mutex = t]
  /\ CallGoto(t, "body")
  /\ UNCHANGED <<mpc, ret, epc, cur, connects, msgs, botVars>>

\* irc::quit sets quit_on_timer and sends QUIT, unless disconnected.
Quits(c) == cn[c].status # "DISCONNECTED" \/ cn[c].quit_on_timer

\* Mutant of DoQuit: it returns without the unlock.
DoQuit_nounlock(t) == LET c == call[t].on IN
  /\ call[t].pc = "body" /\ call[t].op \in {"quit", "quitall"}
  /\ cn' = [cn EXCEPT ![c].reconnect_on = FALSE, ![c].disconnect_on = TRUE,
                      ![c].quit_on_timer = Quits(c)]
  /\ CallOver(t)
  /\ UNCHANGED <<mpc, ret, epc, cur, connects, msgs, botVars>>
DoQuit(t) == LET c == call[t].on IN
  /\ call[t].pc = "body" /\ call[t].op \in {"quit", "quitall"}
  /\ cn' = [cn EXCEPT ![c].reconnect_on = FALSE, ![c].disconnect_on = TRUE,
                      ![c].quit_on_timer = Quits(c),
                      ![c].connfxn_mutex = NoThread]
  /\ CallOver(t)
  /\ UNCHANGED <<mpc, ret, epc, cur, connects, msgs, botVars>>

\* reconnect returns with connfxn_mutex locked.
DoReconnect(t) == LET c == call[t].on IN
  /\ call[t].pc = "body" /\ call[t].op = "reconnect"
  /\ cn' = [cn EXCEPT ![c].reconnect_on = TRUE, ![c].quit_on_timer = Quits(c)]
  /\ CallOver(t)
  /\ UNCHANGED <<mpc, ret, epc, cur, connects, msgs, botVars>>

DoDisconnect(t) == LET c == call[t].on IN
  /\ call[t].pc = "body" /\ call[t].op \in {"disconnect", "disconnectall"}
  /\ cn' = [cn EXCEPT ![c].reconnect_on = FALSE, ![c].disconnect_on = TRUE]
  /\ CallGoto(t, "kill")
  /\ UNCHANGED <<mpc, ret, epc, cur, connects, msgs, botVars>>

DoForceKill(t) == LET c == call[t].on IN
  /\ call[t].pc = "body" /\ call[t].op \in {"force_kill", "killall"}
  /\ cn' = [cn EXCEPT
              ![c].quit_on_timer = @ \/ /\ cn[c].status = "CONNECTED"
                                        /\ ~cn[c].reconnect_on
                                        /\ ~cn[c].disconnect_on,
              ![c].reconnect_on = FALSE, ![c].disconnect_on = TRUE,
              ![c].main_thread_tid = FALSE, ![c].connfxn_mutex = NoThread]
  /\ IF cn[c].main_thread_tid THEN CallGoto(t, "cancel") ELSE CallOver(t)
  /\ UNCHANGED <<mpc, ret, epc, cur, connects, msgs, botVars>>

\* pthread_cancel(tid), after the mutex was released.
CallCancel(t) ==
  /\ call[t].pc = "cancel"
  /\ cn' = [cn EXCEPT ![call[t].on].canceled = TRUE]
  /\ CallOver(t)
  /\ UNCHANGED <<mpc, ret, epc, cur, connects, msgs, botVars>>

\* irc::disconnect, also called by the main thread and by ~irc:
\* kill_send_thread and sock.close, ...
Close(t) == LET c == call[t].on IN
  /\ cn' = [cn EXCEPT ![c].send_thread_id = FALSE, ![c].sock = FALSE]
  /\ CallGoto(t, IF cn[c].status = "DISCONNECTED" THEN "down" ELSE "post")

\* ... where the send thread may miss the signal, which is sent without
\* send_mutex (KillSignal of SendQueue), and the join lasts ...
CallKill(t) ==
  /\ call[t].pc = "kill"
  /\ \/ Close(t)
     \/ /\ cn[call[t].on].send_thread_id
        /\ CallGoto(t, "join") /\ UNCHANGED cn
  /\ UNCHANGED <<mpc, ret, epc, cur, connects, msgs, botVars>>

\* ... until someone queues a line, which need not happen, ...
CallJoined(t) ==
  /\ call[t].pc = "join" /\ Close(t)
  /\ UNCHANGED <<mpc, ret, epc, cur, connects, msgs, botVars>>

\* ... the DISCONNECTED event, ...
CallPost(t) ==
  /\ call[t].pc = "post" /\ Post(call[t].on, "disc")
  /\ CallGoto(t, "down")
  /\ UNCHANGED <<cn, mpc, ret, epc, cur, connects, msgs, irc_conns, list_wr,
                 queue_mutex, pauser, disconnect_all_ts, aborted>>

\* ... and the status; ircbot_conn::disconnect then unlocks connfxn_mutex.
CallDown(t) == LET c == call[t].on IN
  /\ call[t].pc = "down"
  /\ cn' = [cn EXCEPT ![c].status = "DISCONNECTED",
                      ![c].connfxn_mutex = IF call[t].op \in {"end", "dtor"}
                                             THEN @ ELSE NoThread]
  /\ CallOver(t)
  /\ UNCHANGED <<mpc, ret, epc, cur, connects, msgs, botVars>>
-----------------------------------------------------------------------------
\* What a main thread does by itself, and what it may meet from outside.
MainStep(c) ==
  \/ LoopTest(c) \/ Connect(c) \/ DialFails(c) \/ Announce(c)
  \/ Decide(c) \/ Leave(c) \/ Login(c) \/ LoggedInSet(c) \/ AfterLoop(c)
  \/ Out(c) \/ CleanBegin(c) \/ PauseBegin(c) \/ PauseGranted(c)
  \/ LockFxn(c) \/ Purge(c) \/ DelLock(c) \/ DelErase(c)
MainInput(c) ==
  \/ Launch(c) \/ DialSucceeds(c) \/ LoggedIn(c) \/ Receive(c) \/ LoopEnd(c)
  \/ Canceled(c) \/ PauseTimeout(c)

EvStep(e) ==
  \/ EvCheck(e) \/ EvResume(e) \/ EvRelock(e)
  \/ EvTake(e) \/ EvFind(e) \/ EvDone(e)
EvCommand(e) ==
  Command(e) \/ KillCommand(e) \/ AllCommand(e)

CallStep(t) ==
  \/ CallList(t) \/ CallEnter(t) \/ CallEnterDeleted(t) \/ CallReturn(t) \/ CallLock(t)
  \/ DoQuit(t) \/ DoReconnect(t) \/ DoDisconnect(t) \/ DoForceKill(t)
  \/ CallCancel(t) \/ CallKill(t) \/ CallPost(t) \/ CallDown(t)

Next ==
  \/ \E c \in Conns : MainStep(c) \/ MainInput(c)
  \/ \E e \in EvThreads : EvStep(e) \/ EvCommand(e)
  \/ \E t \in Threads : CallStep(t) \/ CallJoined(t)
  \/ Signal \/ WaitKill

Spec == Init /\ [][Next]_vars

\* The scheduler runs every thread, and a lock that is free again and again is
\* obtained in the end (a thread waits for one thing at a time).  A loop that
\* must end does, a cancellation arrives, and wait looks again.  Nothing makes a
\* connect succeed, lines arrive or be queued, or handlers call anything.
Fairness ==
  /\ \A c \in Conns : SF_vars(MainStep(c) \/ CallStep(c) \/ MustEnd(c)
                               \/ Canceled(c))
  /\ \A e \in EvThreads : SF_vars(EvStep(e) \/ CallStep(e))
  /\ SF_vars(WaitKill \/ CallStep(Waiter))

FairSpec == Spec /\ Fairness
-----------------------------------------------------------------------------
TypeOK ==
  /\ cn \in [Conns -> ConnType]
  /\ mpc \in [Conns -> {"new", "top", "connect", "dial", "announce",
       "decide", "leaving", "login", "loop", "logged", "ending", "out",
       "clean", "pause", "scan", "fxn", "purge", "delobj", "erase", "gone",
       "dead"}]
  /\ ret \in [Conns -> {-1, 0}]
  /\ irc_conns \subseteq Conns /\ list_wr \in Threads \cup {NoThread}
  /\ events \in Seq(Conns \X {"other", "disc"})
  /\ queue_mutex \in EvThreads \cup {NoThread}
  /\ pauser \in Conns \cup {NoThread}
  /\ epc \in [EvThreads -> {"wait", "paused", "resumed", "checked", "find",
                          "run", "cmd"}]
  /\ \A e \in EvThreads : cur[e] \in IF Running(e)
                                       THEN Conns \X {"other", "disc"}
                                       ELSE {NoEvent}
  /\ disconnect_all_ts \in BOOLEAN /\ aborted \in BOOLEAN
  /\ connects \in [Conns -> 0..MaxConnects] /\ msgs \in 0..MaxMsgs

\* main_thread_cleanup sets is_destructing, pauses the event threads and only
\* then deletes the object, so that an operation which passed its test of
\* is_destructing on an object that existed is over by then: no thread locks the
\* mutex of a deleted connection, works on its fields or cancels a thread that has
\* ended.  Even the test itself is made on a deleted object only by an event
\* thread in quit, disconnect, reconnect or force_kill: its event was taken after
\* the pause was granted or was the DISCONNECTED event, which the purge spares, or
\* it found the connection by name; nothing keeps these from the deletion.  The
\* operations on all connections and the main threads never do.
NoUseAfterDelete ==
  \A t \in Threads :
    /\ call[t].pc \in {"lock", "body", "kill", "join", "post", "down", "cancel"}
         => call[t].on \in irc_conns
    /\ call[t].pc \in {"next", "lost"} /\ (t \in EvThreads => call[t].op \in AllOps)
         => call[t].todo \subseteq irc_conns

\* The send thread works on the connection's fields, and ~irc only stops it if
\* the status says so.  When the object is gone, so is the thread.
SenderGone ==
  \A c \in Conns : mpc[c] = "gone" => ~cn[c].send_thread_id

\* A connection told to quit or to disconnect is destroyed, whatever its main
\* thread is doing, unless a thread waits for ever in kill_send_thread for a send
\* thread that missed its signal: main_loop, the cleanup and its locks do not get
\* stuck.  (Excluded is the window between the test of disconnect_on after
\* connect and login_to_server, whose assertion that the status is CONNECTING
\* fails if disconnect comes in it.)
QuitEnds ==
  \A c \in Conns :
    (cn[c].disconnect_on /\ mpc[c] # "login" /\ ~aborted)
      ~> (c \notin irc_conns \/ [](\E t \in Threads : call[t].pc = "join"))

\* ircbot.h, line 259, on quit_all: "quits all bots and exit".  After
\* quit_all has been called, all connections end and wait returns.
QuitAllExits ==
  (\E t \in Threads : call[t].op = "quitall") ~> (irc_conns = {} \/ aborted)
=============================================================================
