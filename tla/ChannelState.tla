---------------------------- MODULE ChannelState ----------------------------
(***************************************************************************)
(* What the bot knows of a channel (irc.cpp): whether it is in it, who     *)
(* else is, and with which modes, as irc::main_loop learns it from the     *)
(* lines of the server and from the NAMES and WHO lists it asks for.       *)
(* The server is external; its own view of the channel is the reference.   *)
(*                                                                         *)
(* A user who quits is not deleted by the main thread: it queues the QUIT  *)
(* event, waits a little for pause_irc_main_thread_on to be cleared, and   *)
(* an event thread deletes the user when the handlers are done             *)
(* (irc::ircbot_event_handler).  That may be late.                         *)
(***************************************************************************)
EXTENDS Integers, Sequences, FiniteSets, SequencesExt

CONSTANTS
  Nicks,         \* nicknames
  FirstNick,     \* the one that the bot has at first
  MaxOps         \* bound: changes made on the server

\* nick!user@host, of the user who has nick n
Ident(n) == <<n, "user@host">>

ASSUME ChannelAssumption ==
  /\ FirstNick \in Nicks /\ IsFiniteSet(Nicks) /\ MaxOps \in Nat
  /\ \A n \in Nicks : Ident(n) \notin Nicks

VARIABLES
  \* the server: users online, members of the channel with their modes, the
  \* bot's nick, lines on their way to the bot and requests of the bot
  online, members, srvnick, wire, reqs, ops,
  \* what the server announced (numeric 005) before the bot joins a channel
  srvinfo,
  \* the bot: its nick, is the channel in chans, chan_users[chan],
  \* who_receiving[chan], names_receiving[chan]
  nick, joined, chan_users, who_receiving, names_receiving,
  \* main thread in the wait after QUIT, pause_irc_main_thread_on, and the
  \* nicks of QUIT events whose handlers are not done
  waiting, pause_irc_main_thread_on, quits,
  \* history: users deleted when the main thread no longer waited for it and
  \* not added again; whether that ever happened
  late, everLate

srvVars == <<online, members, srvnick, ops, srvinfo>>
botVars == <<nick, joined, chan_users, who_receiving, names_receiving>>
quitVars == <<waiting, pause_irc_main_thread_on, quits>>
client == <<botVars, quitVars, late, everLate>>
vars == <<srvVars, wire, reqs, client>>

Modes == {"o", "v"}
Namesx == srvinfo.namesx_on
Uhnames == srvinfo.uhnames_on
\* The key in chan_users of a member that a NAMES line names: its nick, but after
\* PROTOCTL UHNAMES alone the server writes nick!user@host, and all of it is the
\* key: only with NAMESX the nick is taken out of it, else the modes are stripped.
BareKeys == Namesx \/ ~Uhnames
\* Mutant of NamesKey: NAMESX makes no difference.
NamesKey_raw(n) == IF Uhnames THEN Ident(n) ELSE n
NamesKey(n) == IF BareKeys THEN n ELSE Ident(n)
\* Without NAMESX the lists show the highest mode only.
Shown(ms) == IF Namesx \/ "o" \notin ms THEN ms ELSE {"o"}
NoUsers == [n \in {} |-> {}]
With(f, n, ms) == [x \in DOMAIN f \cup {n} |-> IF x = n THEN ms ELSE f[x]]
Without(f, n) == [x \in DOMAIN f \ {n} |-> f[x]]

Init ==
  /\ online = Nicks \ {FirstNick} /\ srvnick = FirstNick
  /\ members \in {[n \in S |-> {}] : S \in SUBSET (Nicks \ {FirstNick})}
  /\ wire = <<>> /\ reqs = <<>> /\ ops = 0
  /\ srvinfo \in [namesx_on : BOOLEAN, uhnames_on : BOOLEAN]
  /\ nick = FirstNick /\ joined = FALSE /\ chan_users = NoUsers
  /\ who_receiving = FALSE /\ names_receiving = FALSE
  /\ waiting = FALSE /\ pause_irc_main_thread_on = FALSE /\ quits = <<>>
  /\ late = {} /\ everLate = FALSE
-----------------------------------------------------------------------------
(***************************************************************************)
(* The server (external).  The bot sees changes of the channel while it is *)
(* in it, and its own ones.                                                *)
(***************************************************************************)
Op == ops < MaxOps /\ ops' = ops + 1
\* The bot is told if it is in the channel before or after the change.
Tell(msg) ==
  wire' = IF srvnick \in DOMAIN members THEN Append(wire, msg) ELSE wire
\* A list: one line per member, and the end.  (Which of nick and nick!user@host a
\* NAMES line has depends on srvinfo only: see NamesKey.)
ListOf(ms, cmd, end) ==
  LET order == SetToSeq(DOMAIN ms)
  IN [i \in 1..Len(order) |-> <<cmd, order[i], Shown(ms[order[i]])>>]
       \o <<<<end>>>>

\* The bot joins (a handler called join_channel); the NAMES list follows.
SrvBotJoin ==
  /\ Op /\ srvnick \notin DOMAIN members
  /\ members' = With(members, srvnick, {})
  /\ wire' = wire \o <<<<"JOIN", srvnick>>>> \o ListOf(members', "353", "366")
  /\ UNCHANGED <<online, srvnick, srvinfo, reqs, client>>

SrvJoin(n) ==
  /\ Op /\ n \in online \ DOMAIN members
  /\ members' = With(members, n, {})
  /\ Tell(<<"JOIN", n>>)
  /\ UNCHANGED <<online, srvnick, srvinfo, reqs, client>>

\* PART by n, or KICK of n.
SrvLeave(n, cmd) ==
  /\ Op /\ n \in DOMAIN members
  /\ members' = Without(members, n)
  /\ Tell(<<cmd, n>>)
  /\ UNCHANGED <<online, srvnick, srvinfo, reqs, client>>

SrvQuit(n) ==
  /\ Op /\ n \in online
  /\ online' = online \ {n}
  /\ members' = Without(members, n)
  /\ wire' = IF n \in DOMAIN members /\ srvnick \in DOMAIN members
               THEN Append(wire, <<"QUIT", n>>) ELSE wire
  /\ UNCHANGED <<srvnick, srvinfo, reqs, client>>

\* A user who quit comes back.
SrvConnect(n) ==
  /\ Op /\ n \in Nicks \ (online \cup {srvnick})
  /\ online' = online \cup {n}
  /\ UNCHANGED <<members, srvnick, srvinfo, wire, reqs, client>>

SrvNick(n, new) ==
  /\ Op /\ n \in online \cup {srvnick} /\ new \notin online \cup {srvnick}
  /\ online' = IF n = srvnick THEN online ELSE (online \ {n}) \cup {new}
  /\ srvnick' = IF n = srvnick THEN new ELSE srvnick
  /\ members' = IF n \in DOMAIN members
                  THEN With(Without(members, n), new, members[n]) ELSE members
  /\ wire' = IF n = srvnick \/ {n, srvnick} \subseteq DOMAIN members
               THEN Append(wire, <<"NICK", n, new>>) ELSE wire
  /\ UNCHANGED <<srvinfo, reqs, client>>

SrvMode(n, m) ==
  /\ Op /\ n \in DOMAIN members
  /\ LET give == m \notin members[n] IN
     /\ members' = [members EXCEPT ![n] = IF give THEN @ \cup {m} ELSE @ \ {m}]
     /\ Tell(<<"MODE", n, give, m>>)
  /\ UNCHANGED <<online, srvnick, srvinfo, reqs, client>>

\* The server answers the bot's next request.
SrvReply ==
  /\ reqs # <<>>
  /\ reqs' = Tail(reqs)
  /\ wire' = wire \o IF Head(reqs) = "WHO" THEN ListOf(members, "352", "315")
                     ELSE ListOf(members, "353", "366")
  /\ UNCHANGED <<srvVars, client>>
-----------------------------------------------------------------------------
(***************************************************************************)
(* The list operations of irc.cpp.                                         *)
(***************************************************************************)
\* add_to_chanuserlist: set_nick takes the modes from the nick's prefix.
\* Mutant of Added: the modes of an entry that exists are kept.
Added_keep(users, n, ms) ==
  With(users, n, ms \cup IF n \in DOMAIN users THEN users[n] ELSE {})
Added(users, n, ms) == With(users, n, ms)
\* add_to_chanlist: a channel that was not listed gets an empty user list.
AddChan == joined' = TRUE /\ chan_users' = IF joined THEN chan_users ELSE NoUsers
\* del_from_chanlist
DelChan == joined' = FALSE /\ chan_users' = IF joined THEN NoUsers ELSE chan_users
\* refresh_chanuserlist
Refresh == IF Namesx THEN "NAMES" ELSE "WHO"

\* irc::main_loop takes the next line, with command cmd.
Line(cmd) ==
  /\ ~waiting /\ wire # <<>> /\ Head(wire)[1] = cmd
  /\ wire' = Tail(wire)
Who == Head(wire)[2]

\* JOIN: of the bot itself, the channel is listed and, without NAMESX, asked for.
OnJoin ==
  /\ Line("JOIN")
  /\ IF Who = nick
       THEN /\ AddChan
            /\ reqs' = IF Namesx THEN reqs ELSE Append(reqs, Refresh)
            /\ UNCHANGED late
       ELSE /\ chan_users' = Added(chan_users, Who, {})
            /\ late' = late \ {Who}
            /\ UNCHANGED <<joined, reqs>>
  /\ UNCHANGED <<srvVars, nick, who_receiving, names_receiving, quitVars,
                 everLate>>

\* del_from_chanuserlist asks for the list if the user is not in it.
OnPart ==
  /\ Line("PART")
  /\ late' = late \ {Who}
  /\ IF Who = nick
       THEN DelChan /\ UNCHANGED reqs
       ELSE /\ chan_users' = Without(chan_users, Who)
            /\ reqs' = IF Who \in DOMAIN chan_users THEN reqs
                       ELSE Append(reqs, Refresh)
            /\ UNCHANGED joined
  /\ UNCHANGED <<srvVars, nick, who_receiving, names_receiving, quitVars,
                 everLate>>

\* KICK: nothing but a request for the list if the user is not in it.
\* Mutant of OnKick: the bot's own nick is not told apart.
OnKick_self ==
  /\ Line("KICK")
  /\ chan_users' = Without(chan_users, Who) /\ late' = late \ {Who}
  /\ UNCHANGED <<reqs, joined, srvVars, nick, who_receiving, names_receiving,
                 quitVars, everLate>>
OnKick ==
  /\ Line("KICK")
  /\ late' = late \ {Who}
  /\ IF Who \notin DOMAIN chan_users
       THEN reqs' = Append(reqs, Refresh) /\ UNCHANGED <<joined, chan_users>>
       ELSE /\ IF Who = nick THEN DelChan
               ELSE chan_users' = Without(chan_users, Who) /\ UNCHANGED joined
            /\ UNCHANGED reqs
  /\ UNCHANGED <<srvVars, nick, who_receiving, names_receiving, quitVars,
                 everLate>>

\* NICK: in every channel that has the user, the entry moves with its modes.
OnNick == LET new == Head(wire)[3]
              known == joined /\ Who \in DOMAIN chan_users IN
  /\ Line("NICK")
  /\ nick' = IF Who = nick THEN new ELSE nick
  /\ chan_users' = IF known
                     THEN Added(Without(chan_users, Who), new, chan_users[Who])
                     ELSE chan_users
  /\ late' = IF known THEN late \ {new}
             ELSE IF Who \in late THEN (late \ {Who}) \cup {new} ELSE late
  /\ UNCHANGED <<srvVars, reqs, joined, who_receiving, names_receiving,
                 quitVars, everLate>>

\* MODE: chan_users[chan][nick] makes an entry if there is none.
OnMode ==
  /\ Line("MODE")
  /\ LET old == IF Who \in DOMAIN chan_users THEN chan_users[Who] ELSE {}
         m == Head(wire)[4]
     IN chan_users' = With(chan_users, Who,
                           IF Head(wire)[3] THEN old \cup {m} ELSE old \ {m})
  /\ late' = late \ {Who}
  /\ UNCHANGED <<srvVars, reqs, nick, joined, who_receiving, names_receiving,
                 quitVars, everLate>>

\* QUIT of another user: the event is queued and the thread begins to wait.
OnQuit ==
  /\ Line("QUIT")
  /\ pause_irc_main_thread_on' = TRUE /\ waiting' = TRUE
  /\ quits' = Append(quits, Who)
  /\ late' = late \ {Who}
  /\ UNCHANGED <<srvVars, reqs, botVars, everLate>>

\* It goes on when the flag is cleared or after 100 times usleep(50).
QuitWaited ==
  /\ waiting
  /\ waiting' = FALSE /\ pause_irc_main_thread_on' = FALSE
  /\ UNCHANGED <<srvVars, wire, reqs, botVars, quits, late, everLate>>

\* ircbot_event_handler on BOTEVENT_EVHANDLER_DONE, in any event thread:
\* del_from_chanuserlist_all, and the flag is cleared.  The deletion is in time
\* if the main thread still waits for this event.
QuitDone(i) ==
  /\ i \in DOMAIN quits
  /\ LET n == quits[i]
         has == joined /\ n \in DOMAIN chan_users
         inTime == waiting /\ pause_irc_main_thread_on /\ i = Len(quits)
     IN /\ chan_users' = IF has THEN Without(chan_users, n) ELSE chan_users
        /\ late' = IF has /\ ~inTime THEN late \cup {n} ELSE late
        /\ everLate' = (everLate \/ (has /\ ~inTime))
  /\ quits' = RemoveAt(quits, i)
  /\ pause_irc_main_thread_on' = FALSE
  /\ UNCHANGED <<srvVars, wire, reqs, nick, joined, who_receiving,
                 names_receiving, waiting>>

\* 352, a line of the WHO list: the first one clears the user list.
On352 ==
  /\ Line("352")
  /\ IF Namesx THEN UNCHANGED <<who_receiving, chan_users, late>>
     ELSE /\ who_receiving' = TRUE
          /\ chan_users' = Added(IF who_receiving THEN chan_users ELSE NoUsers,
                                 Who, Head(wire)[3])
          /\ late' = late \ {Who}
  /\ UNCHANGED <<srvVars, reqs, nick, joined, names_receiving, quitVars,
                 everLate>>

\* 315, the end of it: with UHNAMES, ask for NAMES.
On315 ==
  /\ Line("315")
  /\ who_receiving' = (who_receiving /\ Namesx)
  /\ reqs' = IF Uhnames /\ ~Namesx THEN Append(reqs, "NAMES") ELSE reqs
  /\ UNCHANGED <<srvVars, nick, joined, chan_users, names_receiving, quitVars,
                 late, everLate>>

\* 353, a line of NAMES: dropped while a WHO list comes in; with NAMESX the
\* first one clears the user list.
\* Mutant of On353: every line does.
On353_each ==
  /\ Line("353")
  /\ chan_users' = Added(NoUsers, NamesKey(Who), Head(wire)[3])
  /\ late' = late \ {NamesKey(Who)} /\ names_receiving' = TRUE
  /\ UNCHANGED <<srvVars, reqs, nick, joined, who_receiving, quitVars,
                 everLate>>
On353 ==
  /\ Line("353")
  /\ IF who_receiving THEN UNCHANGED <<names_receiving, chan_users, late>>
     ELSE /\ names_receiving' = TRUE
          /\ chan_users' = Added(IF Namesx /\ ~names_receiving THEN NoUsers
                                 ELSE chan_users, NamesKey(Who), Head(wire)[3])
          /\ late' = late \ {NamesKey(Who)}
  /\ UNCHANGED <<srvVars, reqs, nick, joined, who_receiving, quitVars,
                 everLate>>

On366 ==
  /\ Line("366")
  /\ names_receiving' = FALSE
  /\ UNCHANGED <<srvVars, reqs, nick, joined, chan_users, who_receiving,
                 quitVars, late, everLate>>
\* The connection is lost, and irc::connect made another one: lines and requests
\* on their way are gone, the lists are cleared, the locals of main_loop are new,
\* and the bot has its first nick again (it was free).  QUIT events of the old
\* connection are still in the hands of their handlers.
Reconnect ==
  /\ Op /\ ~waiting /\ FirstNick \notin online
  /\ members' = Without(members, srvnick)
  /\ srvnick' = FirstNick /\ nick' = FirstNick
  /\ wire' = <<>> /\ reqs' = <<>> /\ late' = {}
  /\ joined' = FALSE /\ chan_users' = NoUsers
  /\ who_receiving' = FALSE /\ names_receiving' = FALSE
  /\ UNCHANGED <<online, srvinfo, quitVars, everLate>>
-----------------------------------------------------------------------------
Server ==
  \/ SrvBotJoin \/ SrvReply
  \/ \E n \in Nicks : \/ SrvJoin(n) \/ SrvQuit(n) \/ SrvConnect(n)
                      \/ \E cmd \in {"PART", "KICK"} : SrvLeave(n, cmd)
                      \/ \E new \in Nicks : SrvNick(n, new)
                      \/ \E m \in Modes : SrvMode(n, m)
Bot ==
  \/ OnJoin \/ OnPart \/ OnKick \/ OnNick \/ OnMode \/ OnQuit \/ QuitWaited
  \/ On352 \/ On315 \/ On353 \/ On366 \/ Reconnect
  \/ \E i \in 1..MaxOps : QuitDone(i)

Next == Server \/ Bot
Spec == Init /\ [][Next]_vars
-----------------------------------------------------------------------------
ModeMap(f, keys) == \A n \in DOMAIN f : n \in keys /\ f[n] \in SUBSET Modes
Keys == Nicks \cup IF BareKeys THEN {} ELSE {Ident(n) : n \in Nicks}
TypeOK ==
  /\ online \subseteq Nicks /\ srvnick \in Nicks \ online /\ ModeMap(members, Nicks)
  /\ nick \in Nicks /\ joined \in BOOLEAN /\ ModeMap(chan_users, Keys)
  /\ who_receiving \in BOOLEAN /\ names_receiving \in BOOLEAN
  /\ waiting \in BOOLEAN /\ pause_irc_main_thread_on \in BOOLEAN
  /\ quits \in Seq(Nicks) /\ reqs \in Seq({"WHO", "NAMES"})
  /\ late \subseteq Nicks

\* Every line has been handled.
Settled == wire = <<>> /\ ~waiting
InChannel == srvnick \in DOMAIN members
\* With UHNAMES alone the bot has no nicks from NAMES and waits for the WHO list.
Listed == BareKeys \/ "WHO" \notin ToSet(reqs)

\* As long as no handler of a QUIT was late, the bot knows after each burst of
\* lines its nick, whether it is in the channel, and exactly who else is, but
\* for users whose QUIT handler still runs: the lists it asks for, nick changes
\* and kicks neither lose nor invent a user.  With UHNAMES alone this is true of
\* the nicks, and once the WHO list has come: before, members are missing, and a
\* KICK of the bot itself is dropped, after which it believes that it is still in
\* the channel.  The entries nick!user@host, which only a WHO list clears, are not
\* told apart from users by the code; they are left out here.
MembersAgree ==
  Settled /\ ~everLate =>
    /\ nick = srvnick
    /\ InChannel => joined
    /\ BareKeys /\ joined => InChannel
    /\ InChannel /\ Listed =>
         /\ DOMAIN members \subseteq DOMAIN chan_users
         /\ (DOMAIN chan_users \cap Nicks) \ DOMAIN members \subseteq Range(quits)

\* Whatever the handlers do: while the bot is in the channel (and, with UHNAMES
\* alone, has the WHO list), a member whom it does not know was deleted by the
\* handler of an old QUIT, after coming back or taking over the nick.  (It may be
\* the bot itself: then its own KICK is dropped and it never learns that it left,
\* which is why MembersAgree needs ~everLate.)
MissingOnlyLate ==
  Settled /\ joined /\ InChannel /\ Listed =>
    DOMAIN members \ DOMAIN chan_users \subseteq late

\* As long as no handler of a QUIT was late, the bot never believes that a member
\* has a mode it does not have (commands are granted by it), and with NAMESX it
\* knows them all.  With UHNAMES alone this needs the WHO list too: the modes in
\* NAMES, which the code asks for to correct those in WHO, go to the entries
\* nick!user@host.  (A user whose entry was deleted late and who takes over the
\* nick of one whose QUIT handler still runs gets the modes of that one.)
ModesSound ==
  Settled /\ ~everLate /\ InChannel /\ Listed =>
    \A n \in DOMAIN members \cap DOMAIN chan_users :
      /\ chan_users[n] \subseteq members[n]
      /\ Namesx => chan_users[n] = members[n]
=============================================================================
