# meowbot: TLA+ models and proofs

meowbot is a multi-threaded IRC bot. This directory models its threads and the
state they share: the event queue, the pause under which modules are loaded and
connections destroyed, the life of a connection, the timer list, the send queue
with its flood control, the line reader of the sockets, and what the bot knows
of a channel. Source paths below are relative to `src/`.

    tlc -workers 2 -config EventThreads_pause.cfg MCEventThreads
    tlapm EventThreads_proofs.tla

A cfg belongs to the module it begins with; `EventThreads` is run through
`MCEventThreads`, and `Connection_safe.cfg` through `MCConnection`.

## 1. Inventory

| Component | State | Operations | Talks to |
|---|---|---|---|
| Event queue and event threads (`ircbot.cpp` 1001-1189, 1372-1456) | `events`, `event_queue_mutex`, `event_queue_cond`, `event_threads`, per thread `state`, `evdata`, `kill_on` | `add_to_event_queue`, `event_thread`, `create_event_threads`, `set_event_thread_cnt`, `kill_event_threads` | connections and handlers produce; handlers run in the threads |
| Pause (`ircbot.cpp` 1196-1370) | `event_thread_pause_level`, `event_thread_lock_owner`, `pause_event_threads_fxn_lock` | `pause_event_threads(true/false)` | module commands, thread count, dying connections, shutdown |
| Timers (`ircbot.cpp` 616-735, 1459-1535) | `timers`, `timer_thread_state`, `kill_timer_thread_on` | `add_timer`, `del_timer`, `del_timer_by_cbptr`, `timer_thread` | paused with the event threads; callbacks belong to modules |
| Connections (`ircbot.cpp` 1642-2008) | `irc_conns`, `main_thread_tid`, `connfxn_mutex`, `is_destructing` | `main_loop`, `main_thread_cleanup`, `reconnect`, `quit`, `disconnect`, `force_kill` | pause, event queue, `irc` |
| Send queue (`irc.cpp` 1436-1590) | `send_queue`, `sendq_added`, `send_ready`, `send_mutex`, `send_cond` | `add_to_send_queue`, `send_thread`, `create_send_thread`, `kill_send_thread` | handlers produce; `connect` and `disconnect` create and kill |
| IRC protocol (`irc.cpp` 114-1372) | status, nick, channels, users, server info | `connect`, `login_to_server`, the line parser and its numerics | socket, event queue |
| Handlers (`ircbot.cpp` 508-615, 827-922, 1432-1456) | `cmd_handlers`, `event_handlers`, their rwlocks | register, unregister, `call_event_handlers`, `event_cb_real` | modules |
| Modules (`module.cpp`, `ircbot.cpp` 61-152, 464-506) | map of loaded modules | load, unload, reload | handlers, timers |
| Sockets (`tcpsock.cpp`) | `status`, `read_buffer`, `linebuf` | connect, timed reads, send, close | IRC protocol |
| Configuration, strings, Lua bindings, commands | | text processing | |

What is hard to test here:

- *Check, then act without a lock.* Event threads read the pause level and set
  their state in two steps; the pauser reads the state of one thread after another.
- *Signals without the mutex.* `ircevent_thread_state::kill` and
  `kill_send_thread` set a flag and signal without holding the mutex the waiter
  tests it under; both threads wait before they look at their queue.
- *A lock made by hand.* `pause_event_threads` combines a level, an owner, a
  trylock and 15 second timeouts that undo half of what was done.
- *Order.* Several event threads share a queue; timers and lines are sorted at
  some changes and not at others.
- *Destruction.* A connection purges the queue and deletes itself while event
  threads hold events that point to it, and while other threads are in `quit`,
  `disconnect` or `force_kill` on it.
- *Lock order.* `connfxn_mutex`, the lock of `irc_conns` and the pause are taken
  in different orders by the cleanup of a connection and by those who end it.
- *Lists that mix.* Answers to NAMES and WHO arrive among JOIN, PART, NICK and
  MODE, and QUIT is applied by another thread, possibly late. A NAMES line has
  nicks or nick!user@host, depending on what the server and the bot agreed on.
- *Chunks.* A line may be cut anywhere; the send thread may close the socket
  while the reader has a chunk in its hands; the buffers outlive a connection.

What makes each part correct: events are neither lost nor left lying; the pause
excludes other pausers and stops work; the thread count changes without losing
a thread; timers are called when due; lines are sent by priority and age, no
faster than the server allows, and not after the connection ended; no operation
works on a deleted connection, and a connection that is told to end does; the bot's list
of a channel's users is the server's; the lines handed to `main_loop` are the
lines the server sent.

`PROJECT.json` lists the hazards line by line, with the properties that cover
them or the reason why none does.

## 2. Plan

Done:

1. `EventThreads` (event threads, pause, thread count, shutdown) and its
   abstract specification `PauseLock`; proofs in `EventThreads_proofs`.
2. `DequePurge`: the purge loop on the memory of a `std::deque`; proofs in
   `DequePurge_proofs`.
3. `SendQueue`: send queue and flood control; proofs in `SendQueue_proofs`.
4. `Timers`: the timer list; proofs in `Timers_proofs`.
5. `Connection`: the main thread of a connection, the operations that end it,
   and the locks they share. It takes up the pause of `EventThreads` and the
   loss that `DequePurge` allows. Proofs in `Connection_proofs`.
6. `ChannelState`: who is in a channel and with which modes, against the
   server's own view; proofs in `ChannelState_proofs`.
7. `LineParser` and `LineReader`: from bytes to lines to commands; proofs in
   `LineReader_proofs`.
8. `SeqKeep`: the loops that keep some elements of a sequence, and texts cut into
   pieces, with proofs in `SeqKeep_proofs`.

## 3. Modules

**EventThreads.** Each thread has a program counter. `pc` is that of an event
thread or of the timer thread, `cpc` that of a caller of `pause_event_threads`
(an event thread inside a command, the main thread of a connection, or the
thread that shuts the bot down), `job` what it calls it for. The variables
carry the names of the fields. A step makes at most one access to what is shared
without a common lock: `EvTop` reads the level, `EvTake` sets `RUNNING`, and any
step may come between. `PauseScan` looks at one thread a step.
`pthread_cond_wait` is two steps, release (`EvWait`) and reacquire (`EvWoken`);
`Signal` picks any waiter; `Spurious` allows unsignalled returns. A trylock also
fails while another caller is inside the function for the moment it takes to be
refused (`TrylockFails`). `Timeouts` says whether 15 seconds may pass.
`started` and `awoken` are history variables.

What a handler does is abstracted to what it can call: queue an event, load or
unload a module, set the thread count. Not modelled: a timer callback that
pauses (no module has one), a failing `pthread_create`; `connfxn_mutex` in
`main_thread_cleanup` is the subject of `Connection`. `CreateThread` takes a
thread that is not in use; the instances have enough of them.

**PauseLock** is what the pause promises its callers about ownership: a
recursive lock. `RefinesPauseLock` in `EventThreads` is its specification under
the mapping `holder <- IF pause_level > 0 THEN lock_owner ELSE NoThread`,
`depth <- pause_level`.

**DequePurge** keeps the cells of the deque, because the loop at
`ircbot.cpp` 1787 goes on with an iterator that `erase` invalidated; what then
happens depends on how libstdc++ shifts elements (`Erase`, external). An element
is an event's number in the initial queue; `Survivors` are those that should stay.
`EventThreads.PurgeErase` allows the loss that `OnlyFrontLost` leaves.

**SendQueue** keeps times as differences to the clock (`ahead` is `next_send - now`,
`behind` is `prev_now - now`), cut off below the value where the code no longer tells
them apart. A line is a priority, a cost and its number. `Sorted` is the set of
outcomes of the stable sort, which has one member. A line is sent when the timer is
exactly 10 seconds ahead, as in the code, although the comment there speaks of less
than 10.

**Timers** keeps `next - now` for each timer. `Ratio` stands for the 1000
between the milliseconds the code means and the microseconds `usleep` takes, so
that the thread sleeps much shorter than until the next timer. The outcomes of
`std::sort`, which is not stable, are all sorted arrangements of the timers at
the positions that are left.

**Connection** has a program counter `mpc` for the main thread of each
connection, `epc` for each event thread, and in `call` the operation on a
connection that a thread is in (`quit`, `disconnect`, `reconnect`, `force_kill`,
the `*_all` forms, and `irc::disconnect` at the end of the loop and in the
destructor), with its own places, since each of them tests, locks and acts in
separate steps. The pause is reduced to `pauser` and two facts shown in
`EventThreads`: it is exclusive, and an event thread that has tested the level
may still take one event. The purge may lose a surviving event, as
`OnlyFrontLost` allows. `Kills` and `PauseTimeout` stand for the passing of 8
and 15 seconds. Abstractions:

- One iteration of `irc::main_loop` takes less than 5 seconds, so that the test
  `quit_on_timer + 5 > time(NULL)` (`irc.cpp` 713) ends the loop at the first
  iteration after `quit` (`MustEnd`). The comment there means the opposite, a
  wait of 5 seconds for the server.
- The sleeps between attempts to connect are part of the place `"top"`, and
  starting the send thread and storing its id are one step.
- `kill_send_thread` may last (`"join"`, left by `CallJoined`, which is not fair):
  `SendQueue` shows that the send thread may miss the signal, and then ends only
  when somebody queues a line.
- A thread that is paused in `event_thread` waits for the level without the queue
  mutex and, when it has locked it again, tests the queue only (`EvResume`,
  `EvRelock`), so a pause may come in between.
- A handler calls operations on its connection without looking whether it still
  exists (`Command`), as the commands do. If it was deleted, the test of
  `is_destructing` reads freed memory: it gives the old value, and the operation
  is refused, or anything, and the thread is `"lost"` (`CallEnterDeleted`).
- A failed assertion sets `aborted` and stops the thread; the process would end.
- Not followed: what a thread that is `"lost"` does, a cancellation
  that strikes inside a critical section, two threads that join the send thread
  at once. Each is undefined behaviour or ends the model's interest.

**ChannelState** has one channel, the server's view of it (`online`, `members`,
`srvnick`; external), the lines and requests between the two (`wire`, `reqs`), and the
bot's (`nick`, `joined`, `chan_users`, `who_receiving`, `names_receiving`). One action
handles one line, as in `irc::main_loop`. Whether the server has NAMESX and UHNAMES is
chosen at the start; without NAMESX it shows only the highest mode. With UHNAMES,
which the bot asks for when the server has it (`irc.cpp` 1268), a NAMES line has
nick!user@host; with NAMESX the code cuts that down to the nick, without it only the
modes in front are cut off and the rest is the key (`irc.cpp` 1180, `ircutils.cpp`
42). This is `NamesKey`: with UHNAMES alone the user list gets an entry `Ident(n)`
beside that of the nick `n`, which nothing but the next WHO list removes, and the
modes in NAMES, which the code asks for after WHO because they are complete (`irc.cpp`
1129), go to that entry. (The comments at `irc.cpp` 1266 and 1272 describe each option
with the format of the other.) A QUIT is handled by `OnQuit`, which queues the event
and begins to wait, `QuitDone(i)`, the end of the handlers of any queued QUIT in any
event thread, and `QuitWaited`. The wait may end at any time: it is 100 times
`usleep(50)`, 5 milliseconds and not the 5 seconds of the comment. `late` and
`everLate` record deletions that came after it. A list is answered at one moment and
has one nick a line. Left out: modes with a mask or a number, the topic, and nick
collisions between servers. `Reconnect` is a lost connection followed by a new one.

**LineParser** is `parse_irc_line` as a walk over the line (`Walk`, one `Turn` for
each character, `COMMIT_BUFFER` as `Commit`), and `Parsed`, which says what it
computes from the words of the line. `ParseCorrect`, an assumption that
TLC evaluates, compares them on every line of up to `ParseLen` characters, with a
buffer so small that words overflow it; `ParsesEveryLine` proves it for every line.

**LineReader** has the buffers of a `tcpsock`, the main thread in `readline`, the
network, and a writer that may close the socket (`WriterClose`). A text byte
carries its position as its value: `readline` treats all of them alike, so the
run covers any text. `Chunk` is the loop over a chunk, up to the newline, the
maximal length or its end, with the rest put back in `read_buffer`. `close` is
one step. The history variables keep what a connection inherited (`oldLine`,
`oldBuf`), what arrived and what was returned. What the lines of a stream are is
defined without reference to chunks: `Begun(s, i)` is the line begun in the first `i`
bytes and `LinesIn(s, n)` the lines that end in the first `n`, both by the pieces of
`SeqKeep`.

**SeqKeep** has `Keep(s, K, n)`, what a loop over the first `n` elements of `s`
has kept if it keeps those at the positions `K`: the purge of `Connection`, the loop
over a chunk in `LineReader`, and the reference definitions of `LineReader` and
`DequePurge`. It is `SelectSeq` written as a recursive
function of the position, which can be reasoned about. With it the module says what
a text is cut into by separators and a limit on the length: `TextAt` is the text
since the last separator, `PieceAt` what is left of it when every `w + 1`st element is
lost and ends a piece, and `PiecesTo` the pieces that end. A line of the stream is a
piece between newlines, a word of a line a piece between spaces.

Operators named `X_something` just before `X` are mutants of `X`: plausible
bugs that the property named in `PROJECT.json` catches.

## 4. Runs

| Run | Shows |
|---|---|
| `pause` | `TypeOK`, `ExclusivePause`, `LateStartBound`, `NoLostWakeup`, `ThreadsRemain`, and that `EventThreads` implements `PauseLock` |
| `jobs_end` | `JobsEnd`: loading a module and destroying a connection end even if nothing times out |
| `drain` | `QueueDrains`: the queue becomes empty in spite of pauses |
| `kill_lost` | *violated*: a waiting thread that is told to die may sleep on (`KillHonoured`) |
| `purge_loss` | `OnlyFrontLost`: what the purge loop may lose, and that nothing else is deleted |
| `timers_late` | `LateBound`, and the sleep is never negative (`TypeOK`) |
| `send` | `FloodBound`, `StopsAfterOne`, `LineAfterSleep`, `SendsHighestOldest`, `KillReturns`, and `LinesSent`: a line leaves in the end, or one of higher priority was queued behind it |
| `conn_safe` | `NoUseAfterDelete`: whoever calls what on a connection, nobody is in the middle of it when the object is deleted; who may still test `is_destructing` then |
| `conn_live` | `QuitEnds`: a connection told to end is destroyed unless a thread hangs in `kill_send_thread`; `SenderGone`: its send thread went before it |
| `conn_exit` | *violated*: `quit_all` does not always end the bot (`QuitAllExits`) |
| `channels` | `MembersAgree`, `MissingOnlyLate`, `ModesSound` |
| `lines` | `LinesConserved`, `EofReadsAll`, `LeftoverIsBegun`, `LinesArrive`, and `ParseCorrect` |

The two violated properties state a comment of the source; the findings in
`PROJECT.json` quote it. In `conn_exit`, `force_kill_all` holds the lock of
`irc_conns` and waits for `connfxn_mutex`, which the dying connection keeps while
it waits for that lock in `delobj`.

Some passing properties are weaker than what one would like, because the code is: a
pause that succeeded lets each worker begin one more piece of work (`LateStartBound`);
the purge is exact only if the front of the queue survives (`OnlyFrontLost`); killing
the send thread is certain to return only while it is awake (`KillReturns`); the timer
list is not sorted again when a periodic timer gets its new time, so a timer may be
late by what the ones before it hide (`LateBound`); a user who comes back, or takes
over a nick, before an old QUIT handler ended is deleted from the list
(`MissingOnlyLate`), and if it is the bot itself its own KICK is then dropped and it
never learns that it left, hence the condition `~everLate` in `MembersAgree`; in the
channel it believes it is in, it does not hear of mode changes any more, and a user
deleted late who takes the nick of one whose QUIT handler still runs inherits his
modes, hence the same condition in `ModesSound` (the five changes of the run are too
few to reach these two; a simulation with nine does); whole lines of an old connection
can be handled on the next one if a writer closed the socket under a chunk
(`LeftoverIsBegun`); lines of higher priority that never cease to come keep a lower
one in the queue (`LinesSent`); an event thread whose connection was deleted under it
still tests `is_destructing` (`NoUseAfterDelete`); a send thread that misses the
signal keeps the connection from ending, and a disconnect between the test of
`disconnect_on` after `connect` and `login_to_server` makes the assertion at `irc.cpp`
276 fail, which `QuitEnds` leaves out (`mpc[c] # "login"`). With UHNAMES alone the
three properties of `channels` speak of nicks only and, where they need the members,
of the time when the WHO list has come (`Listed`): before, the bot has no nick from
NAMES, not even its own, and if it is kicked then it drops the KICK and believes that
it is still in the channel. `conn_live` leaves out `reconnect`, which returns with
`connfxn_mutex` locked, so that the connection's cleanup waits for ever; and
`force_kill`, which may cancel the cleanup itself with the bot paused.

**Bounds.** `pause` has two event threads, one connection and two events, with nesting
to depth two and the counts 1 and 2: enough for two commands, a cleanup and the
shutdown to compete, for a nested pause to be refused, and for a thread to be killed
and created again. `jobs_end` has two connections and an event thread instead, so that
three threads compete that try again or give up. `kill_lost` needs two threads.
`purge_loss` covers all queues of up to six events, so that `erase` shifts either half
of the deque by several elements. `send` has three lines of cost 6, so that the second
one already reaches the limit of 10, a clock that is set back by a second, and two
connects, so that a sender that waits for the mutex may reach the next connection.
`timers_late` has three timers, two to hide a third. `conn_safe` has one connection,
two event threads, which are symmetric, the thread in `wait` and the signal: every
pair of operations can meet in every place, and the cleanup with both. `conn_live` has
one event thread and two connects, so that the loop is left by a lost connection and
entered again, and two messages whose handlers call operations, one after the other.
`conn_exit` needs one event thread and a signal. `channels` has three nicks and five
changes on the server: the bot joins, a user quits, comes back and joins, and one more
thing happens, for each combination of NAMESX and UHNAMES. `lines` has two connections
of four bytes, chunks of up to three and lines of up to two, so that a chunk holds
several lines, a line several chunks, and the maximal length is passed. Deadlock is
not checked: the bot stops when it has shut down, and lines, timers, events, changes
and bytes end at their bounds.

**Fairness.** Weak fairness of each thread: the scheduler runs it. Strong fairness of
the steps that wait for a mutex which others take and release: a waiter gets it in the
end. In `SendQueue` the clock also moves; in `Connection` a cancellation that was sent
arrives, and `wait` looks again every second; in `LineReader` the poll returns. No
fairness for what comes from outside: messages, commands, signals, bytes, a connect
that succeeds, disconnects, spurious wakeups, timeouts, and not for the return of a
join that missed its signal (`CallJoined`). `KillHonoured` and `QuitAllExits` are
refuted under the same fairness.

## 5. Proofs

`EventThreads_proofs` proves, for any number of threads, connections and events
and any nesting depth, from `ThreadAssumption` and `BoundAssumption` only:

- `TypeCorrect`: `Spec => []TypeOK`;
- `PauseExclusive`: `Spec => []ExclusivePause`;
- `PauseLockRefined`: `Spec => RefinesPauseLock`;
- `Invariance`: `Spec => []IInv`, on which the others rest.

None of these is inductive by itself. That a thread takes an event only from a
nonempty queue needs to know that it has held the mutex since it looked
(`QueueInv`). That two callers never hold the pause needs the relation between
the level, the owner, the function lock and the number of pauses each caller
has outstanding (`PauseInv`): the owner's count equals the level, except while
it waits in its first pause, and whoever waits holds the function lock. An
unpause that timed out leaves `lock_owner` set, so the owner alone says nothing;
only together with a positive level does it. And since `init_event_threads`
resets level and owner at the end, the invariant has to show that nobody is left
to hold the pause then: every thread that exists is in the list, only threads in
a handler call anything, and the list is empty (`ShutInv`). `TypeOK`,
`QueueInv`, `PauseInv` and `ShutInv` together are `IInv`. There is a lemma for
each group of actions; `NextInv` puts them together. The refinement follows from
`IInv`: an unpause is made by the owner because its count is positive.

The second part of the module goes on from `IInv`:

- `LateStartsBounded`: `Spec => []LateStartBound`;
- `NoWakeupLost`: `Spec => []NoLostWakeup`;
- `ThreadsStay`: `Spec => []ThreadsRemain`, if the bot starts with an event thread
  (the configuration's default is 1);
- `WakeInvariance`: `Spec => []WakeInv`.

A worker that began some work under the pause is not in front of the next piece
until it has read the level again (`LateInv`). That the queue always finds a
thread awake is a matter of who is left when a thread is killed: a thread ends
only if somebody waits for its end (`EndInv`), that one runs a handler or shuts
the bot down and never waits for itself (`ResizeInv`), so there is always one
that has been awake before (`SeasonedInv`); a new thread would not do, since it
waits before it looks at the queue.

`DequePurge_proofs` proves for queues of any length, any events to delete and
either choice of the half that `erase` shifts:

- `FrontLossOnly`: `Spec => []OnlyFrontLost`;
- `PurgeInvariance`: `Spec => []PurgeInv`.

The loop looks at the events in the order of the initial queue, each once, although
its iterator is wrong after an `erase` that shifted the front: the events ahead are
the rest of the initial queue, moved by as many cells as the end of the deque
(`Ahead`), and the iterator is at the last event the loop has decided on or, when
the front was erased, at the cell before the deque, where that event still is
(`Stale`). The cells between the front and the iterator hold the last of the events
that stay (`Behind`): an erase at the wrong cell shortens that list from its front
and never mixes it. If the first event stays, the iterator never leaves the deque and
the list is complete (`ExactInv`).

`SendQueue_proofs` proves `TypeCorrect`, `FloodBounded`, `StopsSoon`,
`LineThere` and `HighestOldestSent` (an action property) for any priorities,
costs and numbers of lines and connects. Lines of one priority stay in order of age
whatever is pushed and sorted, and the queue is in order of priority unless
`sendq_added` is set (`OrderInv`); the sort keeps the first and makes the second
true (`SortedOrder`), so the front is the highest and oldest line. While the
thread sleeps, the timer is at most 10 seconds and the rest of the sleep ahead
(`FloodInv`). The thread that sends after its sleep finds the line because nobody
else takes lines and the queue is cleared only without a thread (`FrontInv`), and
once it has sent without `send_ready` it is on its way out (`StopInv`).

`Connection_proofs` proves for any numbers of connections and event threads:

- `TypeCorrect`: `Spec => []TypeOK`;
- `DeleteIsSafe`: `Spec => []NoUseAfterDelete`;
- `SenderStopped`: `Spec => []SenderGone`, if nobody cancels a thread
  (`NoCancel`, as in the run `conn_live`);
- `Invariance`: `Spec => []IInv`.

Every operation that is past its test has a reason to find its connection (`CallInv`):
one on all connections holds the write lock of the list; one in a handler passed the
test of `is_destructing` before the cleanup set it, and the cleanup cannot get its
pause before the handler has ended; one of a main thread is on its own connection, and
that thread deletes it itself. `HandlerInv` says that a handler's event and its
operation are of connections that were once in the list: if one was deleted since,
`is_destructing` is set and the operation is refused or the thread is lost, and in
both cases it is not past the test. `ListInv` and `DestructInv` say where in the main
thread the object is in the list, and from where on it refuses operations. The
hypothesis `NoCancel` is needed: `disconnect` during the dial sets the status back,
and if the thread is cancelled after `connect` has started a send thread and before it
looks at `disconnect_on`, then `~irc` finds the status `DISCONNECTED` and leaves the
send thread running. For `TypeCorrect`, `QueueInv` says that a thread between its test
and its take holds the mutex and has an event in front of it, which the purge, waiting
for the mutex, cannot take away.

`Timers_proofs` proves `TypeCorrect` and `LatenessBounded`, `Spec => []LateBound`,
for every number of timers, every set of intervals and however slow the callbacks
are. A timer that is due waits for one before it in the list that is not. Their
distance does not change while time passes, and it is less than what
`MaxInterval - 1` times the positions behind the hiding one allows (`HideInv`): when
the hiding timer is due, the scan that calls it also reaches the other, unless
one further to the front stops the scan. What is left is the sleep and the slow
rounds (`LateInv`).

`LineReader_proofs` proves for every chunk size, line limit and number of
connections:

- `LeftoverBegun`: `Spec => []LeftoverIsBegun`;
- `TypeCorrect`: `Spec => []TypeOK`, the limits of the two buffers;
- `LinesAreFit`: `Spec => []LinesFit`, no line returned is empty or longer than
  `maxsize + 1` bytes;
- `LinesKept`: `Spec => []LinesConserved`;
- `EofReadsEverything`: `Spec => []EofReadsAll`;
- `StreamInvariance`: `Spec => []StreamInv`.

What a connection inherits is fixed at `Connect`, so the invariant has to say what
the buffers hold from the end of a connection until then: after an end of file
both are empty (`EofClean`), because it is met with `read_buffer` empty and the
line begun is returned first; after any close `read_buffer` is empty and no chunk
is in the reader's hands, unless the close came under one (`ClosedClean`); and the
reason for a close is recorded only while the socket is closed (`ClosedBy`). With
`LeftoverIsBegun` these are `BufferInv`, which is inductive. The limits need that a
chunk is taken with nothing left behind it in `read_buffer` (`ReaderInv`), and an
induction over the chunk (`KeptFits`).

For the contents of the lines, `StreamInv` says that while a connection is up the
stream ends with what `readline` has not looked at (`Rest`: the chunk, `read_buffer`
and the network), and that the lines returned and the line begun are `LinesIn` and
`Begun` of what comes before. It does not mention chunks, so reading from the buffer
or the socket keeps it (`StreamSame`), and the loop over a chunk runs along the
stream: with each byte the line begun and the lines change as `NextBegun` and
`NextLines` say (`ScanStep`), and so do `Kept` and `lines` (`ChunkScan`).
Two streams that go on with the same bytes from the same line begun have the same
lines from there on (`SameRest`), and a text that fits is its own line begun
(`BegunText`): this gives the stream of the next connection, which begins with
`linebuf` (`StreamConnect`), and `LinesConserved` itself, where what is pending begins
with `linebuf` too. After an end of file nothing changes the lines until the next
connect, so `EofReadsAll` is the last part of `StreamInv`.

The last part of the module is about `parse_irc_line`, as a function:

- `ParsesEveryLine`: `parse_irc_line(line) = Parsed(line)` for a line of any length and
  any characters.

Up to the last parameter, the variables of the walk are a function (`After`) of the
words that ended, the word begun and whether the last character was a space: the
state is how many words there are, and prefix, command and parameters are the first,
the next and the other words. A character changes the words and the word begun as
`TurnGoes` says, and committing the buffer makes it one more word (`CommitAfter`). The
first colon that begins a parameter is where the walk ends (`TurnEnds`), and no turn
changes anything after that (`TurnStays`). `At` puts these together; it solves the
equation of the walk (`AtStart`, `AtStep`), so the walk is defined and equal to it
(`WalkStep`, `WalkAt`). The turn that overflows the buffer leaves `isspace` alone; that
the flag is right there, too, is because a full buffer means that the character before
was no space (`WordsGo`).

`ChannelState_proofs` proves for any set of nicks and any number of changes on the
server:

- `TypeCorrect`: `Spec => []TypeOK`;
- `MembersAgreed`: `Spec /\ BareKeys => []MembersAgree`;
- `MissingLate`: `Spec /\ BareKeys => []MissingOnlyLate`;
- `ModesAreSound`: `Spec /\ BareKeys => []ModesSound`;
- `Invariance`: `Spec /\ BareKeys => []IInv`.

`BareKeys` says that the server does not have UHNAMES alone, so that the user list has
nicks only; `TypeCorrect` holds without it and is an induction of its own (`WideInv`).
For a server with UHNAMES alone the three properties are model-checked only. They say
something only of a state where every line was handled; the invariant must say what
the bot knows while lines are on their way. It compares the bot with the server as it
was when the last handled line was sent: there is a history `h` of the server's views,
one for each line on the wire and one before the first, the last of which is the
present (`Good`). A line tells exactly what changed from one view to the next
(`Legal`); what the server does unseen changes no view, because a view has the members
only while the bot is one of them. The bot's nick is that of `h[0]`, each member in
`h[0]` is in the bot's list, was deleted late or is still to come in the list whose
lines begin the wire (`KnowLate`), and unless a deletion was late each entry has the
right modes and is a member or has quit (`KnowExact`). For a list the invariant has
that it goes on to its end and, from its first line, has every member (`Lists`,
`Full`): this is why clearing the user list at the first line loses nobody. The flags
`who_receiving` and `names_receiving` say whether the wire begins inside a list
(`ListInv`), so NAMES lines are never dropped or taken for the first one while a WHO
list comes in. That the user for whose deletion the main thread waits is not a member
of `h[0]` (`WaitInv`) makes a deletion in time harmless; a late one may hit a user who
is.

`SeqKeep_proofs` has the induction that these proofs use. The library states induction
over the natural numbers with a predicate as a parameter, which the provers do not
instantiate; but it states that `<` on `Nat` is well founded with sets only, and from
that follows that a set which contains 0 and with each number the next contains them
all (`SetInduction`). With it `Keep` is shown to be defined, to go through the
sequence step by step, to return what was at the chosen positions (`KeepStep`,
`KeepIn`), and to depend on nothing else (`KeepAgree`, `KeepNone`). `PieceStep` and
`PiecesStep` say how a text is cut one element at a time, for any separators and any
limit: this needs what the remainder of a length does when it grows by one
(`LeftStep`). The lines of a stream (`ScanStep`) and the words of a line (`WordsStep`)
are two uses of them.

Only model-checked: all liveness (`JobsEnd`, `QueueDrains`, `LinesSent`,
`KillReturns`, `QuitEnds`, `LinesArrive`), which the proof system does not handle.

## 6. Not modelled

Handler registration takes one lock and calls out under it; a handler is one
step of its thread here. Module loading is `dlopen` and a call, under the pause
that `EventThreads` models. Of the sockets, writes are reduced to the close they
cause; listening sockets, child processes and `readline_delim`, which is the loop
of `readline` with another end, are left out. Of the IRC protocol, the topic, the
other tokens of numeric 005 and encodings are data that nothing depends on.
Configuration, string functions, Lua bindings and bot commands are text
processing and data access with no protocol of their own. `main.cpp` sets the
process up; its signal handler is in `Connection`, and `Shutdown` in
`EventThreads` stands for what it does after `wait`.

Of the lines in the repository, about four fifths are third-party code (SQLite,
Lua, pcrecpp) or tables (`modules/mod_hanja_data.h`), and most of the rest are
bot commands; the part that is concurrent or keeps protocol state is a few
thousand lines of `ircbot.cpp`, `irc.cpp` and `tcpsock.cpp`, and that part is
what the map covers.
