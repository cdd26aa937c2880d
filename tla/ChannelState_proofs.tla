------------------------- MODULE ChannelState_proofs -------------------------
(***************************************************************************)
(* What the bot knows of a channel agrees with the server, for any set of  *)
(* nicks and any number of changes.                                        *)
(* Except for the types this is of servers that do not have UHNAMES alone: *)
(* with it, the bot keeps nick!user@host among the nicks (NamesKey).       *)
(*                                                                         *)
(* The invariant compares the bot not with the server as it is but as it   *)
(* was when the last line that the bot has handled was sent: there is a    *)
(* history h of the server's views, h[0] that one, h[i] the view after the *)
(* i-th line on the wire, the last one the present.  Each line says what   *)
(* changed from one view to the next (Legal), and the bot's list agrees    *)
(* with h[0], except for what the rest of a list on the wire still adds    *)
(* (InRun), for users who quit and for those that were deleted late.       *)
(***************************************************************************)
EXTENDS ChannelState, FiniteSetTheorems, SequenceTheorems, TLAPS

\* What the bot should know: its nick and, while it is in the channel, the members.
View(nk, ms) == [nick |-> nk, mem |-> IF nk \in DOMAIN ms THEN ms ELSE NoUsers]
Now == View(srvnick, members)
In(v) == v.nick \in DOMAIN v.mem
Users == UNION {[S -> SUBSET Modes] : S \in SUBSET Nicks}
Views == [nick : Nicks, mem : Users]

ListCmds == {"352", "353"}
EndOf(c) == IF c = "352" THEN "315" ELSE "366"
Msgs ==
  ({"JOIN", "PART", "KICK", "QUIT"} \X Nicks)
    \cup ({"NICK"} \X Nicks \X Nicks)
    \cup ({"MODE"} \X Nicks \X BOOLEAN \X Modes)
    \cup (ListCmds \X Nicks \X SUBSET Modes)
    \cup {<<"315">>, <<"366">>}

\* What a list shows of modes ms, with or without NAMESX.
ShownAs(nx, ms) == IF nx \/ "o" \notin ms THEN ms ELSE {"o"}

\* Line l reports the change from view v to view w.
LegalJoin(v, l, w) ==
  IF l[2] = v.nick THEN ~In(v) /\ In(w) /\ w.nick = v.nick
  ELSE In(v) /\ w = [nick |-> v.nick, mem |-> With(v.mem, l[2], {})]
LegalLeave(v, l, w) ==
  /\ l[2] \in DOMAIN v.mem /\ In(v)
  /\ w = [nick |-> v.nick,
          mem |-> IF l[2] = v.nick THEN NoUsers ELSE Without(v.mem, l[2])]
LegalQuit(v, l, w) ==
  /\ l[2] # v.nick /\ In(v)
  /\ w = [nick |-> v.nick, mem |-> Without(v.mem, l[2])]
LegalNick(v, l, w) ==
  /\ l[3] # v.nick /\ l[3] \notin DOMAIN v.mem
  /\ l[2] = v.nick \/ (In(v) /\ l[2] \in DOMAIN v.mem)
  /\ w = [nick |-> IF l[2] = v.nick THEN l[3] ELSE v.nick,
          mem |-> IF l[2] \in DOMAIN v.mem
                    THEN With(Without(v.mem, l[2]), l[3], v.mem[l[2]])
                    ELSE v.mem]
Changed(ms, give, m) == IF give THEN ms \cup {m} ELSE ms \ {m}
LegalMode(v, l, w) ==
  /\ l[2] \in DOMAIN v.mem /\ In(v)
  /\ w = [nick |-> v.nick,
          mem |-> With(v.mem, l[2], Changed(v.mem[l[2]], l[3], l[4]))]
LegalItem(nx, v, l, w) ==
  w = v /\ (In(v) => l[2] \in DOMAIN v.mem /\ l[3] = ShownAs(nx, v.mem[l[2]]))
Legal(nx, v, l, w) ==
  /\ l[1] = "JOIN" => LegalJoin(v, l, w)
  /\ l[1] \in {"PART", "KICK"} => LegalLeave(v, l, w)
  /\ l[1] = "QUIT" => LegalQuit(v, l, w)
  /\ l[1] = "NICK" => LegalNick(v, l, w)
  /\ l[1] = "MODE" => LegalMode(v, l, w)
  /\ l[1] \in ListCmds => LegalItem(nx, v, l, w)
  /\ l[1] \in {"315", "366"} => w = v

\* The lines of w from i on begin with lines of one list, and n is in one of them.
InRun(w, i, n) ==
  \E j \in 1..Len(w) : /\ i <= j /\ w[j][1] \in ListCmds /\ w[j][2] = n
                       /\ \A k \in 1..Len(w) : i <= k /\ k <= j => w[k][1] = w[j][1]

\* The wire w and its history h, where wr and nr are who_receiving and
\* names_receiving.  A list goes on to its end; it has all members, unless part of
\* it was handled; and the NAMES list follows the bot's own JOIN.
Lists(nx, w) ==
  /\ \A i \in 1..Len(w) : w[i][1] \in ListCmds =>
       i < Len(w) /\ w[i + 1][1] \in {w[i][1], EndOf(w[i][1])}
  /\ nx => \A i \in 1..Len(w) : w[i][1] # "352"
Begins(wr, nr, w, i) ==
  /\ w[i][1] \in ListCmds
  /\ IF i = 1 THEN (w[1][1] = "352" => ~wr) /\ (w[1][1] = "353" => ~nr)
     ELSE w[i - 1][1] # w[i][1]
Full(wr, nr, w, h) ==
  \A i \in 1..Len(w) : Begins(wr, nr, w, i) => \A n \in DOMAIN h[i].mem : InRun(w, i, n)
JoinListed(w, h) ==
  \A i \in 1..Len(w) : w[i][1] = "JOIN" /\ w[i][2] = h[i - 1].nick =>
    i < Len(w) /\ w[i + 1][1] = "353"
Hist(nx, wr, nr, w, h) ==
  /\ h \in [0..Len(w) -> Views]
  /\ \A i \in 1..Len(w) : Legal(nx, h[i - 1], w[i], h[i])
  /\ Lists(nx, w) /\ Full(wr, nr, w, h)

\* The bot in the middle of a list, and what it asks for.
ListInv ==
  /\ who_receiving => wire # <<>> /\ wire[1][1] \in {"352", "315"} /\ ~Namesx
  /\ names_receiving => wire # <<>> /\ wire[1][1] \in {"353", "366"}
  /\ Namesx => \A i \in 1..Len(reqs) : reqs[i] # "WHO"

\* have is right for a member with modes ms.
Right(nx, have, ms) == have \subseteq ms /\ (nx => have = ms)

\* What the bot knows, compared with view v.
Known(n) == n \in DOMAIN chan_users \/ n \in late \/ InRun(wire, 1, n)
Exact(v, n) ==
  \/ InRun(wire, 1, n)
  \/ n \in DOMAIN chan_users /\ Right(Namesx, chan_users[n], v.mem[n])
Quitting(n) == \E i \in 1..Len(quits) : quits[i] = n
KnowLate(v) == In(v) => joined /\ \A n \in DOMAIN v.mem : Known(n)
KnowExact(v) ==
  ~everLate =>
    /\ late = {} /\ (joined => In(v))
    /\ In(v) => /\ \A n \in DOMAIN chan_users : n \in DOMAIN v.mem \/ Quitting(n)
                /\ \A n \in DOMAIN v.mem : Exact(v, n)
\* The user for whose deletion the main thread waits has left.
WaitInv(v) ==
  waiting /\ pause_irc_main_thread_on =>
    quits # <<>> /\ quits[Len(quits)] \notin DOMAIN v.mem
Know(v) == nick = v.nick /\ KnowLate(v) /\ KnowExact(v) /\ WaitInv(v)

SrvInv == DOMAIN members \subseteq online \cup {srvnick}
TypeInv ==
  /\ TypeOK /\ members \in Users /\ chan_users \in Users /\ wire \in Seq(Msgs)
  /\ srvinfo \in [namesx_on : BOOLEAN, uhnames_on : BOOLEAN] /\ everLate \in BOOLEAN
  /\ BareKeys

Good(h) ==
  /\ Hist(Namesx, who_receiving, names_receiving, wire, h) /\ JoinListed(wire, h)
  /\ h[Len(wire)] = Now /\ Know(h[0])
IInv == TypeInv /\ SrvInv /\ ListInv /\ \E h : Good(h)
-----------------------------------------------------------------------------
(***************************************************************************)
(* User lists and lines.                                                   *)
(***************************************************************************)
LEMMA UsersFacts ==
  ASSUME NEW f \in Users
  PROVE  /\ DOMAIN f \subseteq Nicks /\ f \in [DOMAIN f -> SUBSET Modes]
         /\ f = [x \in DOMAIN f |-> f[x]]
         /\ \A n \in DOMAIN f : f[n] \in SUBSET Modes
BY DEF Users

LEMMA NoUsersFacts == NoUsers \in Users /\ DOMAIN NoUsers = {}
<1>1. NoUsers \in [{} -> SUBSET Modes] /\ DOMAIN NoUsers = {}
  BY DEF NoUsers
<1> QED
  BY <1>1 DEF Users

LEMMA UsersOf ==
  ASSUME NEW S \in SUBSET Nicks, NEW f \in [S -> SUBSET Modes]
  PROVE  f \in Users
BY DEF Users

LEMMA WithFacts ==
  ASSUME NEW f \in Users, NEW n \in Nicks, NEW ms \in SUBSET Modes
  PROVE  /\ With(f, n, ms) \in Users /\ DOMAIN With(f, n, ms) = DOMAIN f \cup {n}
         /\ With(f, n, ms)[n] = ms
         /\ \A x \in DOMAIN f : x # n => With(f, n, ms)[x] = f[x]
<1> DEFINE g == [x \in DOMAIN f \cup {n} |-> IF x = n THEN ms ELSE f[x]]
<1>1. DOMAIN f \subseteq Nicks /\ \A x \in DOMAIN f : f[x] \in SUBSET Modes
  BY UsersFacts
<1>2. g \in [DOMAIN f \cup {n} -> SUBSET Modes] /\ DOMAIN f \cup {n} \in SUBSET Nicks
  BY <1>1
<1>3. With(f, n, ms) = g
  BY DEF With
<1>4. g \in Users
  <2> HIDE DEF g
  <2> QED
    BY <1>2, UsersOf
<1>5. /\ DOMAIN g = DOMAIN f \cup {n} /\ g[n] = ms
      /\ \A x \in DOMAIN f : x # n => g[x] = f[x]
  OBVIOUS
<1> QED
  BY <1>3, <1>4, <1>5, Zenon

LEMMA WithoutFacts ==
  ASSUME NEW f \in Users, NEW n
  PROVE  /\ Without(f, n) \in Users /\ DOMAIN Without(f, n) = DOMAIN f \ {n}
         /\ \A x \in DOMAIN f : x # n => Without(f, n)[x] = f[x]
         /\ n \notin DOMAIN f => Without(f, n) = f
<1> DEFINE g == [x \in DOMAIN f \ {n} |-> f[x]]
<1>1. /\ DOMAIN f \subseteq Nicks /\ \A x \in DOMAIN f : f[x] \in SUBSET Modes
      /\ f = [x \in DOMAIN f |-> f[x]]
  BY UsersFacts
<1>2. g \in [DOMAIN f \ {n} -> SUBSET Modes] /\ DOMAIN f \ {n} \in SUBSET Nicks
  BY <1>1
<1>3. Without(f, n) = g
  BY DEF Without
<1>4. g \in Users
  <2> HIDE DEF g
  <2> QED
    BY <1>2, UsersOf
<1>5. DOMAIN g = DOMAIN f \ {n} /\ \A x \in DOMAIN f : x # n => g[x] = f[x]
  OBVIOUS
<1>6. n \notin DOMAIN f => g = f
  BY <1>1
<1> HIDE DEF g
<1> QED
  BY <1>3, <1>4, <1>5, <1>6

\* g is f but for n, who has modes ms; or who is not in it.
Sets(g, f, n, ms) ==
  /\ g \in Users /\ DOMAIN g = DOMAIN f \cup {n} /\ g[n] = ms
  /\ \A x \in DOMAIN f : x # n => g[x] = f[x]
Drops(g, f, n) ==
  /\ g \in Users /\ DOMAIN g = DOMAIN f \ {n} /\ \A x \in DOMAIN f : x # n => g[x] = f[x]
  /\ n \notin DOMAIN f => g = f

LEMMA WithSets ==
  ASSUME NEW f \in Users, NEW n \in Nicks, NEW ms \in SUBSET Modes
  PROVE  Sets(With(f, n, ms), f, n, ms)
BY WithFacts DEF Sets

LEMMA WithoutDrops ==
  ASSUME NEW f \in Users, NEW n
  PROVE  Drops(Without(f, n), f, n)
BY WithoutFacts DEF Drops

LEMMA ViewFacts ==
  ASSUME NEW v \in Views
  PROVE  v.nick \in Nicks /\ v.mem \in Users /\ v = [nick |-> v.nick, mem |-> v.mem]
BY DEF Views

LEMMA MakeView ==
  ASSUME NEW k \in Nicks, NEW f \in Users
  PROVE  /\ [nick |-> k, mem |-> f] \in Views
         /\ [nick |-> k, mem |-> f].nick = k /\ [nick |-> k, mem |-> f].mem = f
BY DEF Views

\* The fields of a line.
LEMMA MsgFacts ==
  ASSUME NEW l \in Msgs
  PROVE  /\ l[1] \in {"JOIN", "PART", "KICK", "QUIT", "NICK", "MODE", "352", "353",
                      "315", "366"}
         /\ l[1] \notin {"315", "366"} => l[2] \in Nicks
         /\ l[1] = "NICK" => l[3] \in Nicks
         /\ l[1] = "MODE" => l[3] \in BOOLEAN /\ l[4] \in Modes
         /\ l[1] \in ListCmds => l[3] \in SUBSET Modes
<1>1. CASE l \in {"JOIN", "PART", "KICK", "QUIT"} \X Nicks
  BY <1>1 DEF ListCmds
<1>2. CASE l \in {"NICK"} \X Nicks \X Nicks
  BY <1>2 DEF ListCmds
<1>3. CASE l \in {"MODE"} \X Nicks \X BOOLEAN \X Modes
  BY <1>3 DEF ListCmds
<1>4. CASE l \in ListCmds \X Nicks \X SUBSET Modes
  BY <1>4 DEF ListCmds
<1>5. CASE l = <<"315">> \/ l = <<"366">>
  BY <1>5 DEF ListCmds
<1> QED
  BY <1>1, <1>2, <1>3, <1>4, <1>5 DEF Msgs
-----------------------------------------------------------------------------
(***************************************************************************)
(* The wire and its history.                                               *)
(***************************************************************************)
LEMMA RunExtends ==
  ASSUME NEW w \in Seq(Msgs), NEW u \in Seq(Msgs), NEW i \in Int, NEW n, InRun(w, i, n)
  PROVE  InRun(w \o u, i, n)
<1> DEFINE x == w \o u
<1>1. PICK j \in 1..Len(w) :
        /\ i <= j /\ w[j][1] \in ListCmds /\ w[j][2] = n
        /\ \A k \in 1..Len(w) : i <= k /\ k <= j => w[k][1] = w[j][1]
  BY DEF InRun
<1>2. Len(w) \in Nat /\ Len(x) = Len(w) + Len(u) /\ Len(u) \in Nat
  OBVIOUS
<1>3. \A k \in 1..Len(w) : k \in 1..Len(x) /\ x[k] = w[k]
  BY <1>2, ConcatProperties
<1>4. \A k \in 1..Len(x) : k <= j => k \in 1..Len(w)
  BY <1>2
<1> HIDE DEF x
<1>5. j \in 1..Len(x) /\ i <= j /\ x[j][1] \in ListCmds /\ x[j][2] = n
  BY <1>1, <1>3
<1>6. \A k \in 1..Len(x) : i <= k /\ k <= j => x[k][1] = x[j][1]
  BY <1>1, <1>3, <1>4
<1>7. InRun(x, i, n)
  BY <1>5, <1>6 DEF InRun
<1> QED
  BY <1>7 DEF x

LEMMA RunTail ==
  ASSUME NEW w \in Seq(Msgs), w # <<>>, NEW n
  PROVE  /\ \A i \in 2..Len(w) : InRun(w, i, n) => InRun(Tail(w), i - 1, n)
         /\ InRun(w, 1, n) => w[1][2] = n \/ InRun(Tail(w), 1, n)
<1> DEFINE x == Tail(w)
<1>1. Len(w) \in Nat /\ Len(w) >= 1 /\ Len(x) = Len(w) - 1
  OBVIOUS
<1>2. \A k \in 1..Len(x) : x[k] = w[k + 1] /\ k + 1 \in 1..Len(w)
  BY <1>1, HeadTailProperties
<1> HIDE DEF x
<1>3. ASSUME NEW i \in 1..Len(w), NEW m \in 1..Len(w), NEW j \in 1..Len(w),
             i <= j, w[j][1] \in ListCmds, w[j][2] = n,
             \A k \in 1..Len(w) : i <= k /\ k <= j => w[k][1] = w[j][1],
             j >= 2, i <= m + 1
      PROVE  m <= j - 1 => InRun(x, m, n)
  <2> HAVE m <= j - 1
  <2> DEFINE q == j - 1
  <2>1. q \in 1..Len(x) /\ m <= q /\ x[q] = w[j]
    <3>1. q \in 1..Len(x) /\ q + 1 = j /\ m <= q
      BY <1>1, <1>3
    <3> QED
      BY <1>2, <3>1
  <2>2. ASSUME NEW k \in 1..Len(x), m <= k, k <= q PROVE x[k][1] = x[q][1]
    <3>1. k + 1 \in 1..Len(w) /\ i <= k + 1 /\ k + 1 <= j
      BY <1>1, <1>3, <2>2
    <3> QED
      BY <1>2, <1>3, <2>1, <3>1
  <2> HIDE DEF q
  <2> QED
    BY <1>3, <2>1, <2>2 DEF InRun
<1>4. ASSUME NEW i \in 2..Len(w), InRun(w, i, n) PROVE InRun(x, i - 1, n)
  <2>1. PICK j \in 1..Len(w) :
          /\ i <= j /\ w[j][1] \in ListCmds /\ w[j][2] = n
          /\ \A k \in 1..Len(w) : i <= k /\ k <= j => w[k][1] = w[j][1]
    BY <1>4 DEF InRun
  <2>2. i \in 1..Len(w) /\ i - 1 \in 1..Len(w) /\ j >= 2 /\ i <= (i - 1) + 1 /\ i - 1 <= j - 1
    BY <1>1, <2>1
  <2> QED
    BY <1>3, <2>1, <2>2
<1>5. ASSUME InRun(w, 1, n) PROVE w[1][2] = n \/ InRun(x, 1, n)
  <2>1. PICK j \in 1..Len(w) :
          /\ 1 <= j /\ w[j][1] \in ListCmds /\ w[j][2] = n
          /\ \A k \in 1..Len(w) : 1 <= k /\ k <= j => w[k][1] = w[j][1]
    BY <1>5 DEF InRun
  <2>2. CASE j = 1
    BY <2>1, <2>2
  <2>3. CASE j # 1
    <3>1. 1 \in 1..Len(w) /\ j >= 2 /\ 1 <= 1 + 1 /\ 1 <= j - 1
      BY <1>1, <2>3
    <3> QED
      BY <1>3, <2>1, <3>1
  <2> QED
    BY <2>2, <2>3
<1> QED
  BY <1>4, <1>5 DEF x

LEMMA RunShift ==
  ASSUME NEW w \in Seq(Msgs), NEW u \in Seq(Msgs), NEW i \in 1..Len(u), NEW n,
         InRun(u, i, n)
  PROVE  InRun(w \o u, Len(w) + i, n)
<1> DEFINE x == w \o u
           d == Len(w)
<1>1. PICK j \in 1..Len(u) :
        /\ i <= j /\ u[j][1] \in ListCmds /\ u[j][2] = n
        /\ \A k \in 1..Len(u) : i <= k /\ k <= j => u[k][1] = u[j][1]
  BY DEF InRun
<1>2. d \in Nat /\ Len(x) = d + Len(u) /\ Len(u) \in Nat
  OBVIOUS
<1>3. \A k \in 1..Len(u) : d + k \in 1..Len(x) /\ x[d + k] = u[k]
  BY <1>2, ConcatProperties
<1> HIDE DEF x, d
<1>4. \A k \in 1..Len(x) : d + i <= k => k - d \in 1..Len(u) /\ x[k] = u[k - d]
  <2> SUFFICES ASSUME NEW k \in 1..Len(x), d + i <= k
               PROVE  k - d \in 1..Len(u) /\ x[k] = u[k - d]
    OBVIOUS
  <2>1. k - d \in 1..Len(u) /\ d + (k - d) = k
    BY <1>2
  <2> QED
    BY <1>3, <2>1
<1>5. d + j \in 1..Len(x) /\ d + i <= d + j /\ x[d + j] = u[j]
  BY <1>1, <1>2, <1>3
<1>6. ASSUME NEW k \in 1..Len(x), d + i <= k, k <= d + j PROVE x[k][1] = x[d + j][1]
  <2>1. k - d \in 1..Len(u) /\ x[k] = u[k - d]
    BY <1>4, <1>6
  <2>2. i <= k - d /\ k - d <= j
    BY <1>2, <1>6
  <2> QED
    BY <1>1, <1>5, <2>1, <2>2
<1>7. InRun(x, d + i, n)
  <2> DEFINE q == d + j
  <2>1. q \in 1..Len(x) /\ d + i <= q /\ x[q][1] \in ListCmds /\ x[q][2] = n
    BY <1>1, <1>5
  <2>2. \A k \in 1..Len(x) : d + i <= k /\ k <= q => x[k][1] = x[q][1]
    BY <1>6
  <2> HIDE DEF q
  <2> QED
    BY <2>1, <2>2 DEF InRun
<1> QED
  BY <1>7 DEF x, d

\* The history of two pieces of wire, one after the other.
Glue(w, h, u, g) ==
  [i \in 0..Len(w \o u) |-> IF i <= Len(w) THEN h[i] ELSE g[i - Len(w)]]

LEMMA GlueFacts ==
  ASSUME NEW w \in Seq(Msgs), NEW u \in Seq(Msgs), NEW h, NEW g,
         h \in [0..Len(w) -> Views], g \in [0..Len(u) -> Views], g[0] = h[Len(w)]
  PROVE  /\ Len(w) \in Nat /\ Len(u) \in Nat /\ Len(w \o u) = Len(w) + Len(u)
         /\ w \o u \in Seq(Msgs)
         /\ Glue(w, h, u, g) \in [0..Len(w \o u) -> Views]
         /\ \A i \in 1..Len(w) : (w \o u)[i] = w[i]
         /\ \A i \in 0..Len(w) : Glue(w, h, u, g)[i] = h[i]
         /\ \A i \in 1..Len(u) : (w \o u)[Len(w) + i] = u[i]
         /\ \A i \in 0..Len(u) : Glue(w, h, u, g)[Len(w) + i] = g[i]
         /\ \A i \in 1..Len(w \o u) : i \in 1..Len(w) \/ \E j \in 1..Len(u) : i = Len(w) + j
<1> DEFINE x == w \o u
           d == Len(w)
           e == Len(u)
           k == Glue(w, h, u, g)
<1>1. d \in Nat /\ e \in Nat /\ Len(x) = d + e /\ x \in Seq(Msgs)
  OBVIOUS
<1>2. /\ \A i \in 1..d : x[i] = w[i]
      /\ \A i \in 1..e : x[d + i] = u[i]
  BY <1>1, ConcatProperties
<1>3. k = [i \in 0..(d + e) |-> IF i <= d THEN h[i] ELSE g[i - d]]
  BY <1>1 DEF Glue
<1>9. h \in [0..d -> Views] /\ g \in [0..e -> Views]
  OBVIOUS
<1> HIDE DEF d, e, k, x
<1>4. k \in [0..(d + e) -> Views]
  <2>1. ASSUME NEW i \in 0..(d + e) PROVE (IF i <= d THEN h[i] ELSE g[i - d]) \in Views
    <3>1. CASE i <= d
      <4>1. i \in 0..d
        BY <1>1, <3>1
      <4> QED
        BY <1>9, <3>1, <4>1
    <3>2. CASE ~(i <= d)
      <4>1. i - d \in 0..e
        BY <1>1, <3>2
      <4> QED
        BY <1>9, <3>2, <4>1
    <3> QED
      BY <3>1, <3>2
  <2> QED
    BY <1>3, <2>1
<1>5. \A i \in 0..d : k[i] = h[i]
  BY <1>1, <1>3
<1>6. ASSUME NEW i \in 0..e PROVE k[d + i] = g[i]
  <2>1. CASE i = 0
    BY <1>1, <1>5, <2>1 DEF d
  <2>2. CASE i # 0
    <3>1. d + i \in 0..(d + e) /\ ~(d + i <= d) /\ (d + i) - d = i
      BY <1>1, <2>2
    <3> QED
      BY <1>3, <3>1
  <2> QED
    BY <2>1, <2>2
<1>7. ASSUME NEW i \in 1..Len(x) PROVE i \in 1..d \/ \E j \in 1..e : i = d + j
  <2>1. CASE i <= d
    BY <1>1, <2>1
  <2>2. CASE ~(i <= d)
    <3>1. i - d \in 1..e /\ i = d + (i - d)
      BY <1>1, <2>2
    <3> QED
      BY <3>1
  <2> QED
    BY <2>1, <2>2
<1>8. k \in [0..Len(x) -> Views]
  BY <1>1, <1>4
<1> QED
  BY <1>1, <1>2, <1>5, <1>6, <1>7, <1>8 DEF x, d, e, k

Ends(f, n, v, w) == f[0] = v /\ f[n] = w

LEMMA GlueEnds ==
  ASSUME NEW w \in Seq(Msgs), NEW u \in Seq(Msgs), NEW h, NEW g,
         h \in [0..Len(w) -> Views], g \in [0..Len(u) -> Views], g[0] = h[Len(w)],
         NEW f, f = Glue(w, h, u, g)
  PROVE  Ends(f, Len(w \o u), h[0], g[Len(u)])
<1> DEFINE x == w \o u
           d == Len(w)
           k == Glue(w, h, u, g)
<1>1. /\ d \in Nat /\ Len(u) \in Nat /\ Len(x) = d + Len(u)
      /\ \A i \in 0..d : k[i] = h[i]
      /\ \A i \in 0..Len(u) : k[d + i] = g[i]
  BY GlueFacts, SMTT(40)
<1> HIDE DEF x, d, k
<1>2. 0 \in 0..d /\ Len(u) \in 0..Len(u)
  BY <1>1
<1>3. k[0] = h[0] /\ k[Len(x)] = g[Len(u)]
  BY <1>1, <1>2
<1> QED
  BY <1>3 DEF x, d, k, Ends

LEMMA GlueHist ==
  ASSUME NEW w \in Seq(Msgs), NEW u \in Seq(Msgs), NEW h, NEW g, NEW nx, NEW wr, NEW nr,
         Hist(nx, wr, nr, w, h), Hist(nx, FALSE, FALSE, u, g), g[0] = h[Len(w)]
  PROVE  Hist(nx, wr, nr, w \o u, Glue(w, h, u, g))
<1> DEFINE x == w \o u
           d == Len(w)
           k == Glue(w, h, u, g)
<1>1. h \in [0..d -> Views] /\ g \in [0..Len(u) -> Views]
  BY DEF Hist
<1>2. /\ d \in Nat /\ Len(u) \in Nat /\ Len(x) = d + Len(u) /\ x \in Seq(Msgs)
      /\ k \in [0..Len(x) -> Views]
      /\ \A i \in 1..d : x[i] = w[i]
      /\ \A i \in 0..d : k[i] = h[i]
      /\ \A i \in 1..Len(u) : x[d + i] = u[i]
      /\ \A i \in 0..Len(u) : k[d + i] = g[i]
      /\ \A i \in 1..Len(x) : i \in 1..d \/ \E j \in 1..Len(u) : i = d + j
  BY <1>1, GlueFacts
<1>3. /\ \A i \in 1..d : Legal(nx, h[i - 1], w[i], h[i])
      /\ Lists(nx, w) /\ Full(wr, nr, w, h)
  BY DEF Hist
<1>4. /\ \A i \in 1..Len(u) : Legal(nx, g[i - 1], u[i], g[i])
      /\ Lists(nx, u) /\ Full(FALSE, FALSE, u, g)
  BY DEF Hist
<1>5. /\ \A n : \A i \in Int : InRun(w, i, n) => InRun(x, i, n)
      /\ \A n : \A i \in 1..Len(u) : InRun(u, i, n) => InRun(x, d + i, n)
  BY RunExtends, RunShift
<1> HIDE DEF x, d, k
<1>6. ASSUME NEW i \in 1..Len(x) PROVE Legal(nx, k[i - 1], x[i], k[i])
  <2>1. CASE i \in 1..d
    <3>1. i \in 0..d /\ i - 1 \in 0..d
      BY <1>2, <2>1
    <3> QED
      BY <1>2, <1>3, <2>1, <3>1
  <2>2. ASSUME NEW j \in 1..Len(u), i = d + j PROVE Legal(nx, k[i - 1], x[i], k[i])
    <3>1. i - 1 = d + (j - 1) /\ j - 1 \in 0..Len(u) /\ j \in 0..Len(u)
      BY <1>2, <2>2
    <3>2. k[i - 1] = g[j - 1] /\ x[i] = u[j] /\ k[i] = g[j]
      BY <1>2, <2>2, <3>1
    <3> QED
      BY <1>4, <3>2
  <2> QED
    BY <1>2, <2>1, <2>2
<1>7. ASSUME NEW i \in 1..Len(x)
      PROVE  /\ x[i][1] \in ListCmds =>
                  i < Len(x) /\ x[i + 1][1] \in {x[i][1], EndOf(x[i][1])}
             /\ nx => x[i][1] # "352"
  <2>1. CASE i \in 1..d
    <3>1. /\ w[i][1] \in ListCmds => i < d /\ w[i + 1][1] \in {w[i][1], EndOf(w[i][1])}
          /\ nx => w[i][1] # "352"
      BY <1>3, <2>1 DEF Lists, d
    <3>2. i < d => i + 1 \in 1..d /\ i < Len(x)
      BY <1>2, <2>1
    <3> QED
      BY <1>2, <2>1, <3>1, <3>2
  <2>2. ASSUME NEW j \in 1..Len(u), i = d + j
        PROVE  /\ x[i][1] \in ListCmds =>
                    i < Len(x) /\ x[i + 1][1] \in {x[i][1], EndOf(x[i][1])}
               /\ nx => x[i][1] # "352"
    <3>1. /\ u[j][1] \in ListCmds => j < Len(u) /\ u[j + 1][1] \in {u[j][1], EndOf(u[j][1])}
          /\ nx => u[j][1] # "352"
      BY <1>4 DEF Lists
    <3>2. j < Len(u) => j + 1 \in 1..Len(u) /\ i < Len(x) /\ i + 1 = d + (j + 1)
      BY <1>2, <2>2
    <3>3. x[i] = u[j] /\ (j < Len(u) => x[i + 1] = u[j + 1])
      BY <1>2, <2>2, <3>2
    <3> QED
      BY <3>1, <3>2, <3>3
  <2> QED
    BY <1>2, <2>1, <2>2
<1>8. Lists(nx, x)
  BY <1>7 DEF Lists
<1>9. ASSUME NEW i \in 1..Len(x), Begins(wr, nr, x, i), NEW n \in DOMAIN k[i].mem
      PROVE  InRun(x, i, n)
  <2>1. CASE i \in 1..d
    <3>1. i \in 0..d /\ i \in Int /\ (i # 1 => i - 1 \in 1..d) /\ (i = 1 => 1 \in 1..d)
      BY <1>2, <2>1
    <3>2. x[i] = w[i] /\ k[i] = h[i] /\ (i # 1 => x[i - 1] = w[i - 1])
      BY <1>2, <2>1, <3>1
    <3>3. Begins(wr, nr, w, i)
      BY <1>9, <3>2 DEF Begins
    <3>4. InRun(w, i, n)
      BY <1>3, <2>1, <3>2, <3>3 DEF Full, d
    <3> QED
      BY <1>5, <3>1, <3>4
  <2>2. ASSUME NEW j \in 1..Len(u), i = d + j PROVE InRun(x, i, n)
    <3>1. j \in 0..Len(u) /\ (j # 1 => i # 1 /\ j - 1 \in 1..Len(u) /\ i - 1 = d + (j - 1))
      BY <1>2, <2>2
    <3>2. x[i] = u[j] /\ k[i] = g[j] /\ (j # 1 => x[i - 1] = u[j - 1])
      BY <1>2, <2>2, <3>1
    <3>3. Begins(FALSE, FALSE, u, j)
      BY <1>9, <3>1, <3>2 DEF Begins
    <3>4. InRun(u, j, n)
      BY <1>4, <3>2, <3>3 DEF Full
    <3> QED
      BY <1>5, <2>2, <3>4
  <2> QED
    BY <1>2, <2>1, <2>2
<1>10. Full(wr, nr, x, k)
  BY <1>9 DEF Full
<1>11. Hist(nx, wr, nr, x, k)
  BY <1>2, <1>6, <1>8, <1>10 DEF Hist
<1> QED
  BY <1>11 DEF x, k

LEMMA GlueJoin ==
  ASSUME NEW w \in Seq(Msgs), NEW u \in Seq(Msgs), NEW h, NEW g,
         h \in [0..Len(w) -> Views], g \in [0..Len(u) -> Views], g[0] = h[Len(w)],
         JoinListed(w, h), JoinListed(u, g)
  PROVE  JoinListed(w \o u, Glue(w, h, u, g))
<1> DEFINE x == w \o u
           d == Len(w)
           k == Glue(w, h, u, g)
<1>2. /\ d \in Nat /\ Len(u) \in Nat /\ Len(x) = d + Len(u)
      /\ \A i \in 1..d : x[i] = w[i]
      /\ \A i \in 0..d : k[i] = h[i]
      /\ \A i \in 1..Len(u) : x[d + i] = u[i]
      /\ \A i \in 0..Len(u) : k[d + i] = g[i]
      /\ \A i \in 1..Len(x) : i \in 1..d \/ \E j \in 1..Len(u) : i = d + j
  BY GlueFacts, SMTT(40)
<1>3. /\ \A i \in 1..d : w[i][1] = "JOIN" /\ w[i][2] = h[i - 1].nick =>
           i < d /\ w[i + 1][1] = "353"
      /\ \A i \in 1..Len(u) : u[i][1] = "JOIN" /\ u[i][2] = g[i - 1].nick =>
           i < Len(u) /\ u[i + 1][1] = "353"
  BY DEF JoinListed
<1> HIDE DEF x, d, k
<1>4. ASSUME NEW i \in 1..Len(x), x[i][1] = "JOIN", x[i][2] = k[i - 1].nick
      PROVE  i < Len(x) /\ x[i + 1][1] = "353"
  <2>1. CASE i \in 1..d
    <3>1. i - 1 \in 0..d
      BY <1>2, <2>1
    <3>2. i < d /\ w[i + 1][1] = "353"
      BY <1>2, <1>3, <1>4, <2>1, <3>1
    <3>3. i + 1 \in 1..d /\ i < Len(x)
      BY <1>2, <2>1, <3>2
    <3> QED
      BY <1>2, <3>2, <3>3
  <2>2. ASSUME NEW j \in 1..Len(u), i = d + j
        PROVE  i < Len(x) /\ x[i + 1][1] = "353"
    <3>1. i - 1 = d + (j - 1) /\ j - 1 \in 0..Len(u)
      BY <1>2, <2>2
    <3>4. x[i] = u[j] /\ k[i - 1] = g[j - 1]
      BY <1>2, <2>2, <3>1
    <3>2. j < Len(u) /\ u[j + 1][1] = "353"
      BY <1>3, <1>4, <3>4
    <3>3. j + 1 \in 1..Len(u) /\ i < Len(x) /\ i + 1 = d + (j + 1)
      BY <1>2, <2>2, <3>2, SMTT(40)
    <3> QED
      BY <1>2, <3>2, <3>3
  <2> QED
    BY <1>2, <2>1, <2>2
<1>5. JoinListed(x, k)
  BY <1>4 DEF JoinListed
<1> QED
  BY <1>5 DEF x, k

\* The rest of the history when a line was handled.
Rest(w, h) == [i \in 0..Len(Tail(w)) |-> h[i + 1]]

LEMMA RestFacts ==
  ASSUME NEW w \in Seq(Msgs), w # <<>>, NEW h, h \in [0..Len(w) -> Views]
  PROVE  /\ Len(w) \in Nat /\ Len(w) >= 1 /\ Len(Tail(w)) = Len(w) - 1
         /\ Tail(w) \in Seq(Msgs) /\ Head(w) = w[1] /\ w[1] \in Msgs
         /\ \A i \in 1..Len(Tail(w)) : i + 1 \in 1..Len(w) /\ Tail(w)[i] = w[i + 1]
         /\ Rest(w, h) \in [0..Len(Tail(w)) -> Views]
         /\ \A i \in 0..Len(Tail(w)) : Rest(w, h)[i] = h[i + 1]
         /\ Rest(w, h)[Len(Tail(w))] = h[Len(w)] /\ Rest(w, h)[0] = h[1]
<1> DEFINE t == Tail(w)
           d == Len(w)
<1>1. d \in Nat /\ d >= 1 /\ Len(t) = d - 1 /\ t \in Seq(Msgs)
      /\ Head(w) = w[1] /\ w[1] \in Msgs
  OBVIOUS
<1>2. \A i \in 1..Len(t) : t[i] = w[i + 1]
  BY <1>1, HeadTailProperties
<1>3. Rest(w, h) = [i \in 0..Len(t) |-> h[i + 1]]
  BY DEF Rest
<1>4. h \in [0..d -> Views]
  OBVIOUS
<1> HIDE DEF t, d
<1>5. \A i \in 0..Len(t) : i + 1 \in 0..d
  BY <1>1
<1>6. [i \in 0..Len(t) |-> h[i + 1]] \in [0..Len(t) -> Views]
  BY <1>4, <1>5
<1>7. \A i \in 0..Len(t) : Rest(w, h)[i] = h[i + 1]
  BY <1>3
<1>8. \A i \in 1..Len(t) : i + 1 \in 1..d
  BY <1>1
<1>9. Len(t) \in 0..Len(t) /\ 0 \in 0..Len(t) /\ Len(t) + 1 = d /\ 0 + 1 = 1
  BY <1>1
<1>10. Rest(w, h)[Len(t)] = h[d] /\ Rest(w, h)[0] = h[1]
  <2>1. Rest(w, h)[Len(t)] = h[Len(t) + 1] /\ Rest(w, h)[0] = h[0 + 1]
    BY <1>7, <1>9
  <2> QED
    BY <1>9, <2>1
<1>11. Rest(w, h) \in [0..Len(t) -> Views]
  BY <1>3, <1>6
<1> QED
  BY <1>1, <1>2, <1>7, <1>8, <1>10, <1>11 DEF t, d

LEMMA RestHist ==
  ASSUME NEW w \in Seq(Msgs), w # <<>>, NEW h, NEW nx, NEW wr, NEW nr, NEW wr2, NEW nr2,
         Hist(nx, wr, nr, w, h), JoinListed(w, h),
         w[1][1] = "352" => wr2, w[1][1] = "353" => nr2
  PROVE  /\ Hist(nx, wr2, nr2, Tail(w), Rest(w, h)) /\ JoinListed(Tail(w), Rest(w, h))
         /\ \A n : InRun(w, 1, n) => w[1][1] \in ListCmds /\ (w[1][2] = n \/ InRun(Tail(w), 1, n))
         /\ w[1][1] \in ListCmds =>
              Tail(w) # <<>> /\ Tail(w)[1][1] \in {w[1][1], EndOf(w[1][1])}
<1> DEFINE t == Tail(w)
           d == Len(w)
           k == Rest(w, h)
<1>1. /\ h \in [0..d -> Views]
      /\ \A i \in 1..d : Legal(nx, h[i - 1], w[i], h[i])
      /\ \A i \in 1..d : w[i][1] \in ListCmds =>
           i < d /\ w[i + 1][1] \in {w[i][1], EndOf(w[i][1])}
      /\ nx => \A i \in 1..d : w[i][1] # "352"
      /\ Full(wr, nr, w, h)
  BY DEF Hist, Lists
<1>2. /\ d \in Nat /\ d >= 1 /\ Len(t) = d - 1
      /\ t \in Seq(Msgs) /\ Head(w) = w[1] /\ w[1] \in Msgs
      /\ \A i \in 1..Len(t) : i + 1 \in 1..d /\ t[i] = w[i + 1]
      /\ k \in [0..Len(t) -> Views]
      /\ \A i \in 0..Len(t) : k[i] = h[i + 1]
  BY <1>1, RestFacts
<1>3. /\ \A n : \A i \in 2..d : InRun(w, i, n) => InRun(t, i - 1, n)
      /\ \A n : InRun(w, 1, n) => w[1][2] = n \/ InRun(t, 1, n)
  BY RunTail
<1>4. \A i \in 1..d : w[i][1] = "JOIN" /\ w[i][2] = h[i - 1].nick =>
        i < d /\ w[i + 1][1] = "353"
  BY DEF JoinListed
<1>5. d > 1 => t # <<>> /\ Len(t) >= 1
  BY <1>2
<1> HIDE DEF t, d, k
<1>6. ASSUME NEW i \in 1..Len(t)
      PROVE  /\ t[i] = w[i + 1] /\ i + 1 \in 1..d /\ k[i] = h[i + 1] /\ k[i - 1] = h[i]
             /\ i < d
             /\ i + 1 < d => i < Len(t) /\ t[i + 1] = w[(i + 1) + 1]
  <2>1. i \in 0..Len(t) /\ i - 1 \in 0..Len(t) /\ (i - 1) + 1 = i /\ i < d
    BY <1>2
  <2>2. i + 1 < d => i + 1 \in 1..Len(t) /\ i < Len(t)
    BY <1>2
  <2> QED
    BY <1>2, <2>1, <2>2
<1>7. ASSUME NEW i \in 1..Len(t) PROVE Legal(nx, k[i - 1], t[i], k[i])
  <2>1. Legal(nx, h[(i + 1) - 1], w[i + 1], h[i + 1]) /\ (i + 1) - 1 = i
    BY <1>1, <1>6
  <2> QED
    BY <1>6, <2>1
<1>8. Lists(nx, t)
  <2>1. ASSUME NEW i \in 1..Len(t)
        PROVE  /\ t[i][1] \in ListCmds =>
                    i < Len(t) /\ t[i + 1][1] \in {t[i][1], EndOf(t[i][1])}
               /\ nx => t[i][1] # "352"
    <3> DEFINE j == i + 1
    <3>1. j \in 1..d /\ t[i] = w[j] /\ (j < d => i < Len(t) /\ t[i + 1] = w[j + 1])
      BY <1>6
    <3> HIDE DEF j
    <3>2. /\ w[j][1] \in ListCmds => j < d /\ w[j + 1][1] \in {w[j][1], EndOf(w[j][1])}
          /\ nx => w[j][1] # "352"
      BY <1>1, <3>1
    <3> QED
      BY <3>1, <3>2
  <2> QED
    BY <2>1 DEF Lists
<1>9. ASSUME NEW i \in 1..Len(t), Begins(wr2, nr2, t, i), NEW n \in DOMAIN k[i].mem
      PROVE  InRun(t, i, n)
  <2> DEFINE j == i + 1
  <2>1. j \in 1..d /\ j \in 2..d /\ j # 1 /\ j - 1 = i /\ t[i] = w[j] /\ k[i] = h[j]
    BY <1>2, <1>6
  <2>2. i # 1 => i - 1 \in 1..Len(t) /\ t[i - 1] = w[i]
    <3>1. i # 1 => i - 1 \in 1..Len(t) /\ (i - 1) + 1 = i
      BY <1>2
    <3> QED
      BY <1>2, <3>1
  <2> HIDE DEF j
  <2>3. w[j][1] \in ListCmds /\ w[i][1] # w[j][1]
    <3>1. CASE i = 1
      <4>1. t[1][1] \in ListCmds /\ (t[1][1] = "352" => ~wr2) /\ (t[1][1] = "353" => ~nr2)
        BY <1>9, <3>1 DEF Begins
      <4> QED
        BY <2>1, <3>1, <4>1 DEF ListCmds
    <3>2. CASE i # 1
      BY <1>9, <2>1, <2>2, <3>2 DEF Begins
    <3> QED
      BY <3>1, <3>2
  <2>4. Begins(wr, nr, w, j)
    BY <2>1, <2>3 DEF Begins
  <2>5. InRun(w, j, n)
    BY <1>1, <1>9, <2>1, <2>4 DEF Full, d
  <2> QED
    BY <1>3, <2>1, <2>5
<1>10. Full(wr2, nr2, t, k)
  BY <1>9 DEF Full
<1>11. Hist(nx, wr2, nr2, t, k)
  BY <1>2, <1>7, <1>8, <1>10 DEF Hist
<1>12. JoinListed(t, k)
  <2>1. ASSUME NEW i \in 1..Len(t), t[i][1] = "JOIN", t[i][2] = k[i - 1].nick
        PROVE  i < Len(t) /\ t[i + 1][1] = "353"
    <3> DEFINE j == i + 1
    <3>1. /\ j \in 1..d /\ j - 1 = i /\ t[i] = w[j] /\ k[i - 1] = h[i]
          /\ (j < d => i < Len(t) /\ t[i + 1] = w[j + 1])
      BY <1>6
    <3> HIDE DEF j
    <3> QED
      BY <1>4, <2>1, <3>1
  <2> QED
    BY <2>1 DEF JoinListed
<1>13. ASSUME NEW n, InRun(w, 1, n) PROVE w[1][1] \in ListCmds
  <2>1. PICK j \in 1..d :
          /\ 1 <= j /\ w[j][1] \in ListCmds /\ w[j][2] = n
          /\ \A q \in 1..d : 1 <= q /\ q <= j => w[q][1] = w[j][1]
    BY <1>13 DEF InRun, d
  <2>2. 1 \in 1..d /\ 1 <= 1 /\ 1 <= j
    BY <1>2
  <2> QED
    BY <2>1, <2>2
<1>14. w[1][1] \in ListCmds => t # <<>> /\ t[1][1] \in {w[1][1], EndOf(w[1][1])}
  <2>1. 1 \in 1..d /\ 1 + 1 = 2
    BY <1>2
  <2>2. d > 1 => t # <<>> /\ 1 \in 1..Len(t) /\ t[1] = w[2]
    <3>1. d > 1 => 1 \in 1..Len(t)
      BY <1>2
    <3> QED
      BY <1>2, <1>5, <2>1, <3>1
  <2>3. w[1][1] \in ListCmds => 1 < d /\ w[2][1] \in {w[1][1], EndOf(w[1][1])}
    BY <1>1, <2>1
  <2> QED
    BY <2>2, <2>3, <1>2
<1> QED
  BY <1>3, <1>11, <1>12, <1>13, <1>14 DEF t, k
-----------------------------------------------------------------------------
(***************************************************************************)
(* What the server sends: one line that is not of a list, or a list.       *)
(***************************************************************************)
Const(u, v) == [i \in 0..Len(u) |-> v]

LEMMA OrderFacts ==
  ASSUME NEW S, IsFiniteSet(S)
  PROVE  /\ SetToSeq(S) \in Seq(S)
         /\ \A x \in S : \E i \in 1..Len(SetToSeq(S)) : SetToSeq(S)[i] = x
<1> DEFINE c == Cardinality(S)
           P(f) == IsInjective(f)
           o == CHOOSE f \in [1..c -> S] : P(f)
<1>1. c \in Nat /\ ExistsBijection(1..c, S)
  BY FS_CardinalityType
<1>2. \E f \in [1..c -> S] : P(f)
  BY <1>1 DEF ExistsBijection, Bijection, Injection
<1>3. o \in [1..c -> S] /\ P(o)
  <2> HIDE DEF c, P
  <2> QED
    BY <1>2
<1>4. o = SetToSeq(S)
  BY DEF SetToSeq
<1> HIDE DEF o
<1>5. o \in Injection(1..c, S)
  BY <1>3 DEF Injection
<1>6. IsFiniteSet(1..c) /\ Cardinality(1..c) = c
  BY <1>1, FS_Interval
<1>7. o \in Surjection(1..c, S)
  BY <1>5, <1>6, FS_Injection
<1>8. o \in Seq(S) /\ Len(o) = c
  BY <1>1, <1>3
<1>9. \A x \in S : \E i \in 1..Len(o) : o[i] = x
  BY <1>7, <1>8 DEF Surjection
<1> QED
  BY <1>4, <1>8, <1>9

LEMMA ListFacts ==
  ASSUME NEW ms \in Users, NEW cmd \in ListCmds
  PROVE  LET u == ListOf(ms, cmd, EndOf(cmd)) IN
         \E d \in Nat :
           /\ u \in Seq(Msgs) /\ Len(u) = d + 1 /\ u[d + 1] = <<EndOf(cmd)>>
           /\ \A i \in 1..d : /\ u[i][1] = cmd /\ u[i][2] \in DOMAIN ms
                              /\ u[i][3] = ShownAs(Namesx, ms[u[i][2]])
           /\ \A n \in DOMAIN ms : \E i \in 1..d : u[i][2] = n
<1> DEFINE o == SetToSeq(DOMAIN ms)
           d == Len(o)
           a == [i \in 1..d |-> <<cmd, o[i], Shown(ms[o[i]])>>]
           e == <<EndOf(cmd)>>
           b == <<e>>
           u == a \o b
<1>1. DOMAIN ms \subseteq Nicks /\ \A n \in DOMAIN ms : ms[n] \in SUBSET Modes
  BY UsersFacts
<1>2. IsFiniteSet(DOMAIN ms)
  BY <1>1, ChannelAssumption, FS_Subset
<1>3. o \in Seq(DOMAIN ms) /\ \A x \in DOMAIN ms : \E i \in 1..d : o[i] = x
  BY <1>2, OrderFacts
<1>4. ListOf(ms, cmd, EndOf(cmd)) = u
  BY DEF ListOf
<1>5. d \in Nat /\ \A i \in 1..d : o[i] \in DOMAIN ms
  BY <1>3
<1> HIDE DEF o, d
<1>6. \A n \in DOMAIN ms : Shown(ms[n]) = ShownAs(Namesx, ms[n]) /\ Shown(ms[n]) \in SUBSET Modes
  BY <1>1 DEF Shown, ShownAs, Modes
<1>7. e \in Msgs
  BY DEF Msgs, EndOf
<1>8. ASSUME NEW i \in 1..d
      PROVE  /\ a[i] \in Msgs /\ a[i][1] = cmd /\ a[i][2] = o[i]
             /\ a[i][3] = ShownAs(Namesx, ms[o[i]])
  <2>1. a[i] = <<cmd, o[i], Shown(ms[o[i]])>>
    OBVIOUS
  <2>2. o[i] \in Nicks /\ Shown(ms[o[i]]) \in SUBSET Modes
    BY <1>1, <1>5, <1>6
  <2>3. a[i] \in ListCmds \X Nicks \X SUBSET Modes
    BY <2>1, <2>2
  <2> HIDE DEF a
  <2>4. a[i] \in Msgs
    BY <2>3 DEF Msgs
  <2>5. a[i][1] = cmd /\ a[i][2] = o[i] /\ a[i][3] = Shown(ms[o[i]])
    BY <2>1
  <2> QED
    BY <1>5, <1>6, <2>4, <2>5
<1>9. a \in Seq(Msgs) /\ Len(a) = d
  BY <1>5, <1>8
<1> HIDE DEF a, e
<1>10. b \in Seq(Msgs) /\ Len(b) = 1 /\ b[1] = e
  BY <1>7
<1> HIDE DEF b
<1>11. /\ u \in Seq(Msgs) /\ Len(u) = d + 1
       /\ \A i \in 1..d : u[i] = a[i]
       /\ u[d + 1] = e
  <2>1. \A i \in 1..Len(b) : u[Len(a) + i] = b[i]
    BY <1>9, <1>10, ConcatProperties
  <2>2. u \in Seq(Msgs) /\ Len(u) = d + 1
    <3>1. u \in Seq(Msgs) /\ Len(u) = Len(a) + Len(b)
      BY <1>9, <1>10, ConcatProperties
    <3> HIDE DEF u
    <3> QED
      BY <1>9, <1>10, <3>1
  <2>4. \A i \in 1..Len(a) : u[i] = a[i]
    BY <1>9, <1>10, ConcatProperties
  <2> HIDE DEF u
  <2>3. u[d + 1] = b[1] /\ \A i \in 1..d : u[i] = a[i]
    <3>1. 1 \in 1..Len(b)
      BY <1>10
    <3>2. u[Len(a) + 1] = b[1]
      BY <2>1, <3>1
    <3> QED
      BY <1>9, <2>4, <3>2
  <2> QED
    BY <1>10, <2>2, <2>3
<1> HIDE DEF u
<1>12. \A i \in 1..d : /\ u[i][1] = cmd /\ u[i][2] \in DOMAIN ms
                       /\ u[i][3] = ShownAs(Namesx, ms[u[i][2]])
  BY <1>5, <1>8, <1>11
<1>13. \A n \in DOMAIN ms : \E i \in 1..d : u[i][2] = n
  BY <1>3, <1>8, <1>11
<1> QED
  BY <1>4, <1>5, <1>11, <1>12, <1>13 DEF e

LEMMA ListHist ==
  ASSUME NEW ms \in Users, NEW cmd \in ListCmds, NEW v \in Views,
         Namesx => cmd # "352", In(v) => v.mem = ms, ~In(v) => v.mem = NoUsers
  PROVE  LET u == ListOf(ms, cmd, EndOf(cmd)) IN
         /\ u \in Seq(Msgs) /\ Len(u) >= 1 /\ (In(v) => u[1][1] = cmd)
         /\ Hist(Namesx, FALSE, FALSE, u, Const(u, v))
         /\ \A i \in 1..Len(u) : u[i][1] # "JOIN"
<1> DEFINE u == ListOf(ms, cmd, EndOf(cmd))
           h == Const(u, v)
<1>1. PICK d \in Nat :
        /\ u \in Seq(Msgs) /\ Len(u) = d + 1 /\ u[d + 1] = <<EndOf(cmd)>>
        /\ \A i \in 1..d : /\ u[i][1] = cmd /\ u[i][2] \in DOMAIN ms
                           /\ u[i][3] = ShownAs(Namesx, ms[u[i][2]])
        /\ \A n \in DOMAIN ms : \E i \in 1..d : u[i][2] = n
  <2>1. LET y == ListOf(ms, cmd, EndOf(cmd)) IN
        \E d \in Nat :
        /\ y \in Seq(Msgs) /\ Len(y) = d + 1 /\ y[d + 1] = <<EndOf(cmd)>>
        /\ \A i \in 1..d : /\ y[i][1] = cmd /\ y[i][2] \in DOMAIN ms
                           /\ y[i][3] = ShownAs(Namesx, ms[y[i][2]])
        /\ \A n \in DOMAIN ms : \E i \in 1..d : y[i][2] = n
    BY ListFacts
  <2> QED
    BY <2>1
<1> HIDE DEF u
<1>2. h = [i \in 0..Len(u) |-> v]
  BY DEF Const
<1> HIDE DEF h
<1>3. h \in [0..Len(u) -> Views] /\ \A i \in 0..Len(u) : h[i] = v
  BY <1>2
<1>4. \A i \in 1..Len(u) : i \in 1..d \/ i = d + 1
  BY <1>1
<1>5. u[d + 1][1] = EndOf(cmd)
  BY <1>1
<1>6. EndOf(cmd) \in {"315", "366"}
  BY DEF EndOf
<1>7. ASSUME NEW i \in 1..Len(u)
      PROVE  /\ u[i][1] \in ListCmds => i \in 1..d /\ u[i][1] = cmd
             /\ u[i][1] \in ListCmds \cup {"315", "366"}
  BY <1>1, <1>4, <1>5, <1>6 DEF ListCmds
<1>8. ASSUME NEW i \in 1..Len(u) PROVE Legal(Namesx, h[i - 1], u[i], h[i])
  <2>1. h[i - 1] = v /\ h[i] = v
    <3>1. i - 1 \in 0..Len(u) /\ i \in 0..Len(u)
      BY <1>1
    <3> QED
      BY <1>3, <3>1
  <2>2. u[i][1] \in ListCmds => LegalItem(Namesx, v, u[i], v)
    BY <1>1, <1>7 DEF LegalItem
  <2> QED
    BY <1>7, <2>1, <2>2 DEF Legal, ListCmds
<1>9. Lists(Namesx, u)
  <2>1. ASSUME NEW i \in 1..Len(u)
        PROVE  /\ u[i][1] \in ListCmds =>
                    i < Len(u) /\ u[i + 1][1] \in {u[i][1], EndOf(u[i][1])}
               /\ Namesx => u[i][1] # "352"
    <3>1. ASSUME u[i][1] \in ListCmds
          PROVE  i < Len(u) /\ u[i + 1][1] \in {cmd, EndOf(cmd)}
      <4>1. i \in 1..d
        BY <1>7, <3>1
      <4>2. i < Len(u) /\ (i + 1 \in 1..d \/ i + 1 = d + 1)
        BY <1>1, <4>1
      <4> QED
        BY <1>1, <1>5, <4>2
    <3> QED
      BY <1>7, <3>1 DEF ListCmds
  <2> QED
    BY <2>1 DEF Lists
<1>10. Full(FALSE, FALSE, u, h)
  <2>1. ASSUME NEW i \in 1..Len(u), Begins(FALSE, FALSE, u, i), NEW n \in DOMAIN h[i].mem
        PROVE  InRun(u, i, n)
    <3>1. u[i][1] \in ListCmds /\ (i # 1 => u[i - 1][1] # u[i][1])
      BY <2>1 DEF Begins
    <3>2. i \in 1..d /\ u[i][1] = cmd
      BY <1>7, <3>1
    <3>3. i = 1
      <4> SUFFICES ASSUME i # 1 PROVE FALSE
        OBVIOUS
      <4>1. i - 1 \in 1..d
        BY <3>2
      <4> QED
        BY <1>1, <3>1, <3>2, <4>1
    <3>4. i \in 0..Len(u)
      BY <1>1
    <3>5. n \in DOMAIN v.mem
      BY <1>3, <2>1, <3>4
    <3>6. In(v)
      BY <3>5, NoUsersFacts
    <3>7. PICK j \in 1..d : u[j][2] = n
      BY <1>1, <3>5, <3>6
    <3>8. j \in 1..Len(u) /\ i <= j /\ u[j][1] = cmd
      BY <1>1, <3>3, <3>7
    <3>9. \A k \in 1..Len(u) : i <= k /\ k <= j => u[k][1] = u[j][1]
      <4>1. \A k \in 1..Len(u) : k <= j => k \in 1..d
        BY <1>1
      <4> QED
        BY <1>1, <3>8, <4>1
    <3> QED
      BY <3>7, <3>8, <3>9 DEF InRun
  <2> QED
    BY <2>1 DEF Full
<1>11. Hist(Namesx, FALSE, FALSE, u, h)
  BY <1>3, <1>8, <1>9, <1>10 DEF Hist
<1>12. In(v) => u[1][1] = cmd
  <2> HAVE In(v)
  <2>1. PICK i \in 1..d : u[i][2] = v.nick
    BY <1>1 DEF In
  <2>2. 1 \in 1..d
    BY <2>1
  <2> QED
    BY <1>1, <2>2
<1>13. \A i \in 1..Len(u) : u[i][1] # "JOIN"
  BY <1>7 DEF ListCmds
<1>14. Len(u) >= 1
  BY <1>1
<1> QED
  BY <1>1, <1>11, <1>12, <1>13, <1>14 DEF u, h

\* A line that is not of a list.
Two(v, w) == [i \in 0..1 |-> IF i = 0 THEN v ELSE w]

LEMMA LineHist ==
  ASSUME NEW l \in Msgs, l[1] \notin ListCmds, NEW v \in Views, NEW w \in Views, NEW nx,
         Legal(nx, v, l, w)
  PROVE  /\ <<l>> \in Seq(Msgs) /\ Len(<<l>>) = 1
         /\ Hist(nx, FALSE, FALSE, <<l>>, Two(v, w))
         /\ Two(v, w)[0] = v /\ Two(v, w)[1] = w
         /\ ~(l[1] = "JOIN" /\ l[2] = v.nick) => JoinListed(<<l>>, Two(v, w))
<1> DEFINE u == <<l>>
           h == Two(v, w)
<1>1. u \in Seq(Msgs) /\ Len(u) = 1 /\ u[1] = l
  OBVIOUS
<1>2. h \in [0..1 -> Views] /\ h[0] = v /\ h[1] = w
  BY DEF Two
<1> HIDE DEF u, h
<1>3. \A i \in 1..Len(u) : i = 1 /\ i - 1 = 0
  BY <1>1
<1>4. \A i \in 1..Len(u) : Legal(nx, h[i - 1], u[i], h[i])
  BY <1>1, <1>2, <1>3
<1>5. Lists(nx, u)
  BY <1>1, <1>3 DEF Lists, ListCmds
<1>6. Full(FALSE, FALSE, u, h)
  BY <1>1, <1>3 DEF Full, Begins
<1>7. Hist(nx, FALSE, FALSE, u, h)
  BY <1>1, <1>2, <1>4, <1>5, <1>6 DEF Hist
<1>8. ~(l[1] = "JOIN" /\ l[2] = v.nick) => JoinListed(u, h)
  BY <1>1, <1>2, <1>3 DEF JoinListed
<1> QED
  BY <1>1, <1>2, <1>7, <1>8 DEF u, h
-----------------------------------------------------------------------------
(***************************************************************************)
(* Steps of the server.                                                    *)
(***************************************************************************)
LEMMA ViewOf ==
  ASSUME NEW k \in Nicks, NEW f \in Users
  PROVE  /\ View(k, f) \in Views /\ View(k, f).nick = k
         /\ In(View(k, f)) <=> k \in DOMAIN f
         /\ k \in DOMAIN f => View(k, f).mem = f
         /\ k \notin DOMAIN f => View(k, f).mem = NoUsers
<1>1. CASE k \in DOMAIN f
  <2>1. View(k, f) = [nick |-> k, mem |-> f]
    BY <1>1 DEF View
  <2> QED
    BY <1>1, <2>1, MakeView DEF In
<1>2. CASE k \notin DOMAIN f
  <2>1. View(k, f) = [nick |-> k, mem |-> NoUsers]
    BY <1>2 DEF View
  <2> QED
    BY <1>2, <2>1, MakeView, NoUsersFacts DEF In
<1> QED
  BY <1>1, <1>2

LEMMA NowView ==
  ASSUME TypeInv
  PROVE  /\ Now \in Views /\ Now.nick = srvnick
         /\ In(Now) <=> srvnick \in DOMAIN members
         /\ In(Now) => Now.mem = members
         /\ ~In(Now) => Now.mem = NoUsers
<1>1. srvnick \in Nicks /\ members \in Users
  BY DEF TypeInv, TypeOK
<1> QED
  BY <1>1, ViewOf DEF Now

\* The bot's knowledge of a view does not depend on what else is sent.
LEMMA KnowMore ==
  ASSUME NEW v, Know(v), client' = client, srvinfo' = srvinfo,
         \A n : InRun(wire, 1, n) => InRun(wire, 1, n)'
  PROVE  Know(v)'
<1>1. /\ nick' = nick /\ joined' = joined /\ chan_users' = chan_users
      /\ waiting' = waiting /\ quits' = quits /\ late' = late /\ everLate' = everLate
      /\ pause_irc_main_thread_on' = pause_irc_main_thread_on
  BY DEF client, botVars, quitVars
<1>2. nick' = v.nick /\ WaitInv(v)'
  BY <1>1 DEF Know, WaitInv
<1>3. KnowLate(v)'
  BY <1>1 DEF Know, KnowLate, Known
<1>4. \A n : Exact(v, n) => Exact(v, n)'
  BY <1>1 DEF Exact, Namesx
<1>5. KnowExact(v)'
  BY <1>1, <1>4 DEF Know, KnowExact, Quitting
<1> QED
  BY <1>2, <1>3, <1>5 DEF Know

\* The server sends nothing, and the bot would see no difference.
LEMMA Silent ==
  ASSUME NEW h, Good(h), wire' = wire, client' = client, srvinfo' = srvinfo, Now' = Now
  PROVE  Good(h)'
<1>1. /\ Hist(Namesx, who_receiving, names_receiving, wire, h) /\ JoinListed(wire, h)
      /\ h[Len(wire)] = Now /\ Know(h[0])
  BY DEF Good
<1>2. who_receiving' = who_receiving /\ names_receiving' = names_receiving /\ Namesx' = Namesx
  BY DEF client, botVars, Namesx
<1>3. Know(h[0])'
  BY <1>1, KnowMore
<1>4. /\ Hist(Namesx, who_receiving, names_receiving, wire, h)' /\ JoinListed(wire, h)'
      /\ h[Len(wire)]' = Now'
  BY <1>1, <1>2
<1> QED
  BY <1>3, <1>4 DEF Good

\* The server sends lines u; g is their history.
LEMMA Sent ==
  ASSUME TypeInv, NEW h, Good(h), client' = client, srvinfo' = srvinfo,
         NEW u \in Seq(Msgs), wire' = wire \o u, NEW g,
         Hist(Namesx, FALSE, FALSE, u, g), JoinListed(u, g), g[0] = Now, g[Len(u)] = Now'
  PROVE  wire' \in Seq(Msgs) /\ \E k : Good(k)'
<1>0. PICK k : k = Glue(wire, h, u, g)
  OBVIOUS
<1>1. /\ Hist(Namesx, who_receiving, names_receiving, wire, h) /\ JoinListed(wire, h)
      /\ h[Len(wire)] = Now /\ Know(h[0])
  BY DEF Good
<1>2. who_receiving' = who_receiving /\ names_receiving' = names_receiving /\ Namesx' = Namesx
  BY DEF client, botVars, Namesx
<1>3. wire \in Seq(Msgs) /\ h \in [0..Len(wire) -> Views] /\ g \in [0..Len(u) -> Views]
  BY <1>1 DEF TypeInv, Hist
<1>4. Hist(Namesx, who_receiving, names_receiving, wire \o u, k)
  BY <1>0, <1>1, <1>3, GlueHist
<1>5. JoinListed(wire \o u, k)
  BY <1>0, <1>1, <1>3, GlueJoin
<1>6. wire \o u \in Seq(Msgs)
  BY <1>3
<1>7. k[0] = h[0] /\ k[Len(wire \o u)] = Now'
  <2>1. g[0] = h[Len(wire)]
    BY <1>1
  <2>2. Ends(k, Len(wire \o u), h[0], g[Len(u)])
    BY <1>0, <1>3, <2>1, GlueEnds
  <2> QED
    BY <2>2 DEF Ends
<1>8. \A n : InRun(wire, 1, n) => InRun(wire, 1, n)'
  BY <1>3, RunExtends
<1>9. Know(h[0])'
  BY <1>1, <1>8, KnowMore
<1>10. Know(k[0])'
  BY <1>7, <1>9
<1>11. Good(k)'
  <2>1. Hist(Namesx, who_receiving, names_receiving, wire, k)' /\ JoinListed(wire, k)'
    BY <1>2, <1>4, <1>5
  <2>2. k[Len(wire)]' = Now'
    BY <1>7
  <2> QED
    BY <1>10, <2>1, <2>2 DEF Good
<1> QED
  BY <1>6, <1>11

\* The server sends one line.
LEMMA SentLine ==
  ASSUME TypeInv, NEW h, Good(h), client' = client, srvinfo' = srvinfo,
         NEW l \in Msgs, l[1] \notin ListCmds, wire' = Append(wire, l), Now' \in Views,
         ~(l[1] = "JOIN" /\ l[2] = Now.nick), Legal(Namesx, Now, l, Now')
  PROVE  wire' \in Seq(Msgs) /\ \E k : Good(k)'
<1>0. PICK v, w, g : v = Now /\ w = Now' /\ g = Two(v, w)
  OBVIOUS
<1>1. v \in Views
  BY <1>0, NowView
<1>2. wire' = wire \o <<l>>
  BY AppendIsConcat DEF TypeInv
<1>3. /\ <<l>> \in Seq(Msgs) /\ Len(<<l>>) = 1
      /\ Hist(Namesx, FALSE, FALSE, <<l>>, g)
      /\ g[0] = Now /\ g[1] = w /\ JoinListed(<<l>>, g)
  <2>1. w \in Views /\ Legal(Namesx, v, l, w) /\ ~(l[1] = "JOIN" /\ l[2] = v.nick)
    BY <1>0
  <2>2. /\ <<l>> \in Seq(Msgs) /\ Len(<<l>>) = 1
        /\ Hist(Namesx, FALSE, FALSE, <<l>>, Two(v, w))
        /\ Two(v, w)[0] = v /\ Two(v, w)[1] = w
        /\ ~(l[1] = "JOIN" /\ l[2] = v.nick) => JoinListed(<<l>>, Two(v, w))
    BY <1>1, <2>1, LineHist, Zenon
  <2> QED
    BY <1>0, <2>1, <2>2
<1>4. g[Len(<<l>>)] = Now'
  BY <1>0, <1>3
<1> QED
  BY <1>2, <1>3, <1>4, Sent

\* What a step of the server leaves alone, and what it keeps of the types.
SrvKeeps ==
  /\ client' = client /\ srvinfo' = srvinfo /\ reqs' \in Seq({"WHO", "NAMES"})
  /\ online' \subseteq Nicks /\ srvnick' \in Nicks \ online' /\ members' \in Users

LEMMA SrvType ==
  ASSUME TypeInv, SrvKeeps, wire' \in Seq(Msgs)
  PROVE  TypeInv'
<1>1. ModeMap(members, Nicks)'
  <2>1. members' \in Users
    BY DEF SrvKeeps
  <2>2. DOMAIN members' \subseteq Nicks /\ \A n \in DOMAIN members' : members'[n] \in SUBSET Modes
    BY <2>1, UsersFacts
  <2> QED
    BY <2>2 DEF ModeMap
<1>2. ModeMap(chan_users, Keys)'
  BY DEF TypeInv, TypeOK, SrvKeeps, client, botVars, ModeMap, Keys, BareKeys, Namesx, Uhnames
<1>3. BareKeys'
  BY DEF TypeInv, SrvKeeps, BareKeys, Namesx, Uhnames
<1> QED
  BY <1>1, <1>2, <1>3 DEF TypeInv, TypeOK, SrvKeeps, client, botVars, quitVars

LEMMA SrvLists ==
  ASSUME TypeInv, ListInv, SrvKeeps, NEW u \in Seq(Msgs), wire' = wire \o u,
         reqs' = reqs \/ (reqs # <<>> /\ reqs' = Tail(reqs))
  PROVE  ListInv'
<1>1. wire \in Seq(Msgs) /\ reqs \in Seq({"WHO", "NAMES"})
  BY DEF TypeInv, TypeOK
<1>2. who_receiving' = who_receiving /\ names_receiving' = names_receiving /\ Namesx' = Namesx
  BY DEF SrvKeeps, client, botVars, Namesx
<1>3. wire # <<>> => wire' # <<>> /\ wire'[1] = wire[1]
  <2> HAVE wire # <<>>
  <2>1. Len(wire) \in Nat /\ Len(wire) >= 1 /\ Len(u) \in Nat
    BY <1>1
  <2>2. Len(wire') = Len(wire) + Len(u) /\ wire'[1] = wire[1]
    BY <1>1, <2>1, ConcatProperties
  <2>3. wire' \in Seq(Msgs)
    BY <1>1, ConcatProperties
  <2> QED
    BY <2>1, <2>2, <2>3
<1>4. Namesx => \A i \in 1..Len(reqs') : reqs'[i] # "WHO"
  <2> HAVE Namesx
  <2>1. \A i \in 1..Len(reqs) : reqs[i] # "WHO"
    BY DEF ListInv
  <2>2. CASE reqs' = reqs
    BY <2>1, <2>2
  <2>3. CASE reqs # <<>> /\ reqs' = Tail(reqs)
    <3>1. /\ Len(reqs) \in Nat /\ Len(reqs') = Len(reqs) - 1
          /\ \A i \in 1..Len(reqs') : reqs'[i] = reqs[i + 1]
      BY <1>1, <2>3, HeadTailProperties
    <3>2. \A i \in 1..Len(reqs') : i + 1 \in 1..Len(reqs)
      BY <3>1
    <3> QED
      BY <2>1, <3>1, <3>2
  <2> QED
    BY <2>2, <2>3
<1> QED
  BY <1>2, <1>3, <1>4 DEF ListInv

LEMMA NowAfter ==
  ASSUME SrvKeeps
  PROVE  /\ Now' \in Views /\ Now'.nick = srvnick'
         /\ In(Now') <=> srvnick' \in DOMAIN members'
         /\ In(Now') => Now'.mem = members'
         /\ ~In(Now') => Now'.mem = NoUsers
<1>1. srvnick' \in Nicks /\ members' \in Users
  BY DEF SrvKeeps
<1>2. Now' = View(srvnick', members')
  BY DEF Now, View
<1> QED
  BY <1>1, <1>2, ViewOf

\* The server sends line l, if it sends one at all.
LEMMA Told ==
  ASSUME TypeInv, ListInv, NEW h, Good(h), SrvKeeps, reqs' = reqs, SrvInv',
         NEW l \in Msgs, l[1] \notin ListCmds, ~(l[1] = "JOIN" /\ l[2] = srvnick),
         NEW told, wire' = IF told THEN Append(wire, l) ELSE wire,
         told => Legal(Namesx, Now, l, Now'), ~told => Now' = Now
  PROVE  IInv'
<1>1. client' = client /\ srvinfo' = srvinfo
  BY DEF SrvKeeps
<1>2. Now.nick = srvnick /\ Now' \in Views
  BY NowView, NowAfter
<1>3. CASE told
  <2>1. wire' = Append(wire, l)
    BY <1>3
  <2>2. wire' = wire \o <<l>> /\ <<l>> \in Seq(Msgs)
    BY <2>1, AppendIsConcat DEF TypeInv
  <2>3. ~(l[1] = "JOIN" /\ l[2] = Now.nick) /\ Legal(Namesx, Now, l, Now')
    BY <1>2, <1>3
  <2>4. wire' \in Seq(Msgs) /\ \E k : Good(k)'
    BY <1>1, <1>2, <2>1, <2>3, SentLine
  <2>5. TypeInv'
    BY <2>4, SrvType
  <2>6. ListInv'
    BY <2>2, SrvLists
  <2> QED
    BY <2>4, <2>5, <2>6 DEF IInv
<1>4. CASE ~told
  <2>1. wire' = wire /\ Now' = Now
    BY <1>4
  <2>2. Good(h)'
    BY <1>1, <2>1, Silent
  <2>3. wire' \in Seq(Msgs)
    BY <2>1 DEF TypeInv
  <2>4. TypeInv'
    BY <2>3, SrvType
  <2>5. ListInv'
    BY <1>1, <2>1 DEF ListInv, client, botVars, Namesx
  <2> QED
    BY <2>2, <2>4, <2>5 DEF IInv
<1> QED
  BY <1>3, <1>4

\* A list is sent after lines a, whose last view is the present.
LEMMA SentList ==
  ASSUME TypeInv, ListInv, NEW h, Good(h), SrvKeeps, SrvInv',
         reqs' = reqs \/ (reqs # <<>> /\ reqs' = Tail(reqs)),
         NEW cmd \in ListCmds, Namesx => cmd # "352",
         wire' = wire \o ListOf(members, cmd, EndOf(cmd)), Now' = Now
  PROVE  IInv'
<1>0. PICK v, u, g : v = Now /\ u = ListOf(members, cmd, EndOf(cmd)) /\ g = Const(u, v)
  OBVIOUS
<1>1. members \in Users /\ v \in Views /\ (In(v) => v.mem = members) /\ (~In(v) => v.mem = NoUsers)
  BY <1>0, NowView DEF TypeInv
<1>2. /\ u \in Seq(Msgs) /\ Len(u) >= 1
      /\ Hist(Namesx, FALSE, FALSE, u, g)
      /\ \A i \in 1..Len(u) : u[i][1] # "JOIN"
  <2> DEFINE y == ListOf(members, cmd, EndOf(cmd))
  <2>1. /\ y \in Seq(Msgs) /\ Len(y) >= 1
        /\ Hist(Namesx, FALSE, FALSE, y, Const(y, v))
        /\ \A i \in 1..Len(y) : y[i][1] # "JOIN"
    BY <1>1, ListHist
  <2> HIDE DEF y
  <2>2. u = y
    BY <1>0 DEF y
  <2> QED
    BY <1>0, <2>1, <2>2
<1>3. JoinListed(u, g)
  BY <1>2 DEF JoinListed
<1>4. g[0] = Now /\ g[Len(u)] = Now'
  <2>1. g = [i \in 0..Len(u) |-> v] /\ 0 \in 0..Len(u) /\ Len(u) \in 0..Len(u)
    BY <1>0, <1>2 DEF Const
  <2> QED
    BY <1>0, <2>1
<1>5. client' = client /\ srvinfo' = srvinfo /\ wire' = wire \o u
  BY <1>0 DEF SrvKeeps
<1>6. wire' \in Seq(Msgs) /\ \E k : Good(k)'
  BY <1>2, <1>3, <1>4, <1>5, Sent
<1>7. TypeInv'
  BY <1>6, SrvType
<1>8. ListInv'
  BY <1>2, <1>5, SrvLists
<1> QED
  BY <1>6, <1>7, <1>8 DEF IInv

\* The lines.
LEMMA Lines ==
  /\ \A n \in Nicks, c \in {"JOIN", "PART", "KICK", "QUIT"} :
       <<c, n>> \in Msgs /\ <<c, n>>[1] = c /\ <<c, n>>[2] = n
  /\ \A n, k \in Nicks : LET l == <<"NICK", n, k>> IN
       l \in Msgs /\ l[1] = "NICK" /\ l[2] = n /\ l[3] = k
  /\ \A n \in Nicks, give \in BOOLEAN, m \in Modes : LET l == <<"MODE", n, give, m>> IN
       l \in Msgs /\ l[1] = "MODE" /\ l[2] = n /\ l[3] = give /\ l[4] = m
BY DEF Msgs

LEMMA SrvJoinStep ==
  ASSUME TypeInv, SrvInv, ListInv, NEW h, Good(h), NEW n \in Nicks, SrvJoin(n)
  PROVE  IInv'
<1> DEFINE told == srvnick \in DOMAIN members
<1>0. PICK l : l = <<"JOIN", n>>
  OBVIOUS
<1>1. l \in Msgs /\ l[1] = "JOIN" /\ l[2] = n
  BY <1>0, Lines
<1>2. /\ n \in online /\ n \notin DOMAIN members /\ members' = With(members, n, {})
      /\ UNCHANGED <<online, srvnick, srvinfo, reqs, client>>
      /\ wire' = IF told THEN Append(wire, l) ELSE wire
  BY <1>0 DEF SrvJoin, Tell
<1>3. members \in Users /\ online \subseteq Nicks /\ srvnick \in Nicks \ online
  BY DEF TypeInv, TypeOK
<1>4. members' \in Users /\ DOMAIN members' = DOMAIN members \cup {n}
  BY <1>2, <1>3, WithFacts
<1>5. SrvKeeps
  BY <1>2, <1>3, <1>4 DEF SrvKeeps, TypeInv, TypeOK
<1>6. SrvInv'
  BY <1>2, <1>4 DEF SrvInv
<1>7. n # srvnick
  BY <1>2, <1>3
<1>8. Now' = View(srvnick, members') /\ Now = View(srvnick, members)
  BY <1>2 DEF Now, View
<1>9. ASSUME told PROVE Legal(Namesx, Now, l, Now')
  <2>1. In(Now) /\ Now.nick = srvnick /\ Now.mem = members
    BY <1>9, NowView
  <2>2. Now' = [nick |-> srvnick, mem |-> members']
    BY <1>4, <1>8, <1>9 DEF View
  <2>3. LegalJoin(Now, l, Now')
    BY <1>1, <1>2, <1>7, <2>1, <2>2 DEF LegalJoin
  <2> QED
    BY <1>1, <2>3 DEF Legal, ListCmds
<1>10. ASSUME ~told PROVE Now' = Now
  BY <1>4, <1>7, <1>8, <1>10 DEF View
<1>11. l[1] \notin ListCmds /\ ~(l[1] = "JOIN" /\ l[2] = srvnick)
  BY <1>1, <1>7 DEF ListCmds
<1> HIDE DEF told
<1> QED
  BY <1>1, <1>2, <1>5, <1>6, <1>9, <1>10, <1>11, Told

LEMMA SrvLeaveStep ==
  ASSUME TypeInv, SrvInv, ListInv, NEW h, Good(h), NEW n \in Nicks,
         NEW cmd \in {"PART", "KICK"}, SrvLeave(n, cmd)
  PROVE  IInv'
<1> DEFINE told == srvnick \in DOMAIN members
<1>0. PICK l : l = <<cmd, n>>
  OBVIOUS
<1>1. l \in Msgs /\ l[1] = cmd /\ l[2] = n
  BY <1>0, Lines
<1>2. /\ n \in DOMAIN members /\ members' = Without(members, n)
      /\ UNCHANGED <<online, srvnick, srvinfo, reqs, client>>
      /\ wire' = IF told THEN Append(wire, l) ELSE wire
  BY <1>0 DEF SrvLeave, Tell
<1>3. members \in Users /\ online \subseteq Nicks /\ srvnick \in Nicks \ online
  BY DEF TypeInv, TypeOK
<1>4. members' \in Users /\ DOMAIN members' = DOMAIN members \ {n}
  BY <1>2, <1>3, WithoutFacts
<1>5. SrvKeeps
  BY <1>2, <1>3, <1>4 DEF SrvKeeps, TypeInv, TypeOK
<1>6. SrvInv'
  BY <1>2, <1>4 DEF SrvInv
<1>8. Now' = View(srvnick, members') /\ Now = View(srvnick, members)
  BY <1>2 DEF Now, View
<1>9. ASSUME told PROVE Legal(Namesx, Now, l, Now')
  <2>1. In(Now) /\ Now.nick = srvnick /\ Now.mem = members
    BY <1>9, NowView
  <2>2. Now' = [nick |-> srvnick, mem |-> IF n = srvnick THEN NoUsers ELSE members']
    BY <1>4, <1>8, <1>9 DEF View
  <2>3. LegalLeave(Now, l, Now')
    BY <1>1, <1>2, <2>1, <2>2 DEF LegalLeave
  <2> QED
    BY <1>1, <2>3 DEF Legal, ListCmds
<1>10. ASSUME ~told PROVE Now' = Now
  BY <1>4, <1>8, <1>10 DEF View
<1>11. l[1] \notin ListCmds /\ ~(l[1] = "JOIN" /\ l[2] = srvnick)
  BY <1>1 DEF ListCmds
<1> HIDE DEF told
<1> QED
  BY <1>1, <1>2, <1>5, <1>6, <1>9, <1>10, <1>11, Told

LEMMA SrvQuitStep ==
  ASSUME TypeInv, SrvInv, ListInv, NEW h, Good(h), NEW n \in Nicks, SrvQuit(n)
  PROVE  IInv'
<1> DEFINE told == n \in DOMAIN members /\ srvnick \in DOMAIN members
<1>0. PICK l : l = <<"QUIT", n>>
  OBVIOUS
<1>1. l \in Msgs /\ l[1] = "QUIT" /\ l[2] = n
  BY <1>0, Lines
<1>2. /\ n \in online /\ online' = online \ {n} /\ members' = Without(members, n)
      /\ UNCHANGED <<srvnick, srvinfo, reqs, client>>
      /\ wire' = IF told THEN Append(wire, l) ELSE wire
  BY <1>0 DEF SrvQuit
<1>3. members \in Users /\ online \subseteq Nicks /\ srvnick \in Nicks \ online
  BY DEF TypeInv, TypeOK
<1>4. /\ members' \in Users /\ DOMAIN members' = DOMAIN members \ {n}
      /\ n \notin DOMAIN members => members' = members
  BY <1>2, <1>3, WithoutFacts
<1>5. SrvKeeps
  BY <1>2, <1>3, <1>4 DEF SrvKeeps, TypeInv, TypeOK
<1>6. SrvInv'
  BY <1>2, <1>4 DEF SrvInv
<1>7. n # srvnick
  BY <1>2, <1>3
<1>8. Now' = View(srvnick, members') /\ Now = View(srvnick, members)
  BY <1>2 DEF Now, View
<1>9. ASSUME told PROVE Legal(Namesx, Now, l, Now')
  <2>1. In(Now) /\ Now.nick = srvnick /\ Now.mem = members
    BY <1>9, NowView
  <2>2. Now' = [nick |-> srvnick, mem |-> members']
    BY <1>4, <1>7, <1>8, <1>9 DEF View
  <2>3. LegalQuit(Now, l, Now')
    BY <1>1, <1>2, <1>7, <2>1, <2>2 DEF LegalQuit
  <2> QED
    BY <1>1, <2>3 DEF Legal, ListCmds
<1>10. ASSUME ~told PROVE Now' = Now
  BY <1>4, <1>7, <1>8, <1>10 DEF View
<1>11. l[1] \notin ListCmds /\ ~(l[1] = "JOIN" /\ l[2] = srvnick)
  BY <1>1 DEF ListCmds
<1> HIDE DEF told
<1> QED
  BY <1>1, <1>2, <1>5, <1>6, <1>9, <1>10, <1>11, Told

LEMMA SrvModeStep ==
  ASSUME TypeInv, SrvInv, ListInv, NEW h, Good(h), NEW n \in Nicks, NEW m \in Modes,
         SrvMode(n, m)
  PROVE  IInv'
<1> DEFINE told == srvnick \in DOMAIN members
<1>0. PICK l, give : give = (m \notin members[n]) /\ l = <<"MODE", n, give, m>>
  OBVIOUS
<1>1. l \in Msgs /\ l[1] = "MODE" /\ l[2] = n /\ l[3] = give /\ l[4] = m
  BY <1>0, Lines
<1>2. /\ n \in DOMAIN members
      /\ members' = [members EXCEPT ![n] = IF give THEN @ \cup {m} ELSE @ \ {m}]
      /\ UNCHANGED <<online, srvnick, srvinfo, reqs, client>>
      /\ wire' = IF told THEN Append(wire, l) ELSE wire
  BY <1>0 DEF SrvMode, Tell
<1>3. members \in Users /\ online \subseteq Nicks /\ srvnick \in Nicks \ online
  BY DEF TypeInv, TypeOK
<1>12. PICK ms : ms = Changed(members[n], give, m)
  OBVIOUS
<1>13. ms \in SUBSET Modes
  BY <1>2, <1>3, <1>12, UsersFacts DEF Changed
<1>14. members' = With(members, n, ms)
  <2>1. members = [x \in DOMAIN members |-> members[x]]
    BY <1>3, UsersFacts
  <2>2. members' = [x \in DOMAIN members |-> IF x = n THEN ms ELSE members[x]]
    BY <1>2, <1>12, <2>1 DEF Changed
  <2>3. DOMAIN members \cup {n} = DOMAIN members
    BY <1>2
  <2> QED
    BY <2>2, <2>3 DEF With
<1>4. members' \in Users /\ DOMAIN members' = DOMAIN members
  <2>1. n \in Nicks /\ DOMAIN members \cup {n} = DOMAIN members
    BY <1>2
  <2>2. With(members, n, ms) \in Users /\ DOMAIN With(members, n, ms) = DOMAIN members \cup {n}
    BY <1>3, <1>13, WithFacts
  <2> QED
    BY <1>14, <2>1, <2>2
<1>5. SrvKeeps
  BY <1>2, <1>3, <1>4 DEF SrvKeeps, TypeInv, TypeOK
<1>6. SrvInv'
  BY <1>2, <1>4 DEF SrvInv
<1>8. Now' = View(srvnick, members') /\ Now = View(srvnick, members)
  BY <1>2 DEF Now, View
<1>9. ASSUME told PROVE Legal(Namesx, Now, l, Now')
  <2>1. In(Now) /\ Now.nick = srvnick /\ Now.mem = members
    BY <1>9, NowView
  <2>2. Now' = [nick |-> srvnick, mem |-> members']
    BY <1>4, <1>8, <1>9 DEF View
  <2>3. LegalMode(Now, l, Now')
    BY <1>1, <1>2, <1>12, <1>14, <2>1, <2>2 DEF LegalMode
  <2> QED
    BY <1>1, <2>3 DEF Legal, ListCmds
<1>10. ASSUME ~told PROVE Now' = Now
  BY <1>4, <1>8, <1>10 DEF View
<1>11. l[1] \notin ListCmds /\ ~(l[1] = "JOIN" /\ l[2] = srvnick)
  BY <1>1 DEF ListCmds
<1> HIDE DEF told
<1> QED
  BY <1>1, <1>2, <1>5, <1>6, <1>9, <1>10, <1>11, Told

LEMMA SrvNickStep ==
  ASSUME TypeInv, SrvInv, ListInv, NEW h, Good(h), NEW n \in Nicks, NEW new \in Nicks,
         SrvNick(n, new)
  PROVE  IInv'
<1> DEFINE told == n = srvnick \/ {n, srvnick} \subseteq DOMAIN members
<1>0. PICK l : l = <<"NICK", n, new>>
  OBVIOUS
<1>1. l \in Msgs /\ l[1] = "NICK" /\ l[2] = n /\ l[3] = new
  BY <1>0, Lines
<1>2. /\ n \in online \cup {srvnick} /\ new \notin online \cup {srvnick}
      /\ online' = IF n = srvnick THEN online ELSE (online \ {n}) \cup {new}
      /\ srvnick' = IF n = srvnick THEN new ELSE srvnick
      /\ members' = IF n \in DOMAIN members
                      THEN With(Without(members, n), new, members[n]) ELSE members
      /\ UNCHANGED <<srvinfo, reqs, client>>
      /\ wire' = IF told THEN Append(wire, l) ELSE wire
  BY <1>0 DEF SrvNick
<1>3. members \in Users /\ online \subseteq Nicks /\ srvnick \in Nicks \ online
  BY DEF TypeInv, TypeOK
<1>4. new \notin DOMAIN members /\ new # n /\ new # srvnick
  BY <1>2 DEF SrvInv
<1>12. /\ members' \in Users
       /\ n \in DOMAIN members => DOMAIN members' = (DOMAIN members \ {n}) \cup {new}
       /\ n \notin DOMAIN members => members' = members
  <2>1. CASE n \in DOMAIN members
    <3>1. Without(members, n) \in Users /\ DOMAIN Without(members, n) = DOMAIN members \ {n}
      BY <1>3, WithoutFacts
    <3>2. members[n] \in SUBSET Modes
      BY <1>3, <2>1, UsersFacts
    <3> QED
      BY <1>2, <2>1, <3>1, <3>2, WithFacts
  <2>2. CASE n \notin DOMAIN members
    BY <1>2, <1>3, <2>2
  <2> QED
    BY <2>1, <2>2
<1>5. SrvKeeps
  <2>1. online' \subseteq Nicks /\ srvnick' \in Nicks \ online'
    BY <1>2, <1>3, <1>4
  <2> QED
    BY <1>2, <1>12, <2>1 DEF SrvKeeps, TypeInv, TypeOK
<1>6. SrvInv'
  <2>1. DOMAIN members \subseteq online \cup {srvnick}
    BY DEF SrvInv
  <2>2. CASE n = srvnick
    BY <1>2, <1>12, <2>1, <2>2 DEF SrvInv
  <2>3. CASE n # srvnick
    BY <1>2, <1>12, <2>1, <2>3 DEF SrvInv
  <2> QED
    BY <2>2, <2>3
<1>9. ASSUME told PROVE Legal(Namesx, Now, l, Now')
  <2>1. /\ Now.nick = srvnick /\ (In(Now) <=> srvnick \in DOMAIN members)
        /\ (In(Now) => Now.mem = members) /\ (~In(Now) => Now.mem = NoUsers)
    BY NowView
  <2>2. Now' = View(srvnick', members')
    BY DEF Now, View
  <2>3. CASE srvnick \in DOMAIN members
    <3>1. n \in DOMAIN members
      BY <1>9, <2>3
    <3>2. srvnick' \in DOMAIN members'
      BY <1>2, <1>12, <2>3, <3>1
    <3>3. Now' = [nick |-> IF n = srvnick THEN new ELSE srvnick,
                  mem |-> With(Without(members, n), new, members[n])]
      BY <1>2, <2>2, <3>1, <3>2 DEF View
    <3>4. In(Now) /\ Now.mem = members
      BY <2>1, <2>3
    <3>5. LegalNick(Now, l, Now')
      BY <1>1, <1>4, <2>1, <3>1, <3>3, <3>4 DEF LegalNick
    <3> QED
      BY <1>1, <3>5 DEF Legal, ListCmds
  <2>4. CASE srvnick \notin DOMAIN members
    <3>1. n = srvnick /\ members' = members
      BY <1>9, <1>12, <2>4
    <3>2. srvnick' = new /\ new \notin DOMAIN members'
      BY <1>2, <1>4, <3>1
    <3>3. Now' = [nick |-> new, mem |-> NoUsers]
      BY <2>2, <3>2 DEF View
    <3>4. ~In(Now) /\ Now.mem = NoUsers /\ DOMAIN NoUsers = {}
      BY <2>1, <2>4, NoUsersFacts
    <3>5. LegalNick(Now, l, Now')
      BY <1>1, <1>4, <2>1, <3>1, <3>3, <3>4 DEF LegalNick
    <3> QED
      BY <1>1, <3>5 DEF Legal, ListCmds
  <2> QED
    BY <2>3, <2>4
<1>10. ASSUME ~told PROVE Now' = Now
  <2>1. Now' = View(srvnick, members') /\ Now = View(srvnick, members)
    BY <1>2, <1>10 DEF Now, View
  <2>2. CASE n \notin DOMAIN members
    BY <1>12, <2>1, <2>2
  <2>3. CASE n \in DOMAIN members
    <3>1. srvnick \notin DOMAIN members /\ srvnick \notin DOMAIN members'
      BY <1>4, <1>10, <1>12, <2>3
    <3> QED
      BY <2>1, <3>1 DEF View
  <2> QED
    BY <2>2, <2>3
<1>11. l[1] \notin ListCmds /\ ~(l[1] = "JOIN" /\ l[2] = srvnick)
  BY <1>1 DEF ListCmds
<1> HIDE DEF told
<1> QED
  BY <1>1, <1>2, <1>5, <1>6, <1>9, <1>10, <1>11, Told

LEMMA SrvConnectStep ==
  ASSUME TypeInv, SrvInv, ListInv, NEW h, Good(h), NEW n \in Nicks, SrvConnect(n)
  PROVE  IInv'
<1>1. /\ n \notin online \cup {srvnick} /\ online' = online \cup {n}
      /\ UNCHANGED <<members, srvnick, srvinfo, wire, reqs, client>>
  BY DEF SrvConnect
<1>2. members \in Users /\ online \subseteq Nicks /\ srvnick \in Nicks \ online
      /\ wire \in Seq(Msgs)
  BY DEF TypeInv, TypeOK
<1>3. SrvKeeps
  BY <1>1, <1>2 DEF SrvKeeps, TypeInv, TypeOK
<1>4. SrvInv'
  BY <1>1 DEF SrvInv
<1>5. Now' = Now
  BY <1>1 DEF Now, View
<1>6. Good(h)'
  BY <1>1, <1>5, Silent
<1>7. TypeInv'
  BY <1>1, <1>2, <1>3, SrvType
<1>8. ListInv'
  BY <1>1 DEF ListInv, client, botVars, Namesx
<1> QED
  BY <1>4, <1>6, <1>7, <1>8 DEF IInv

LEMMA SrvReplyStep ==
  ASSUME TypeInv, SrvInv, ListInv, NEW h, Good(h), SrvReply
  PROVE  IInv'
<1>1. /\ reqs # <<>> /\ reqs' = Tail(reqs)
      /\ wire' = wire \o IF Head(reqs) = "WHO" THEN ListOf(members, "352", "315")
                         ELSE ListOf(members, "353", "366")
      /\ UNCHANGED <<srvVars, client>>
  BY DEF SrvReply
<1>2. /\ reqs \in Seq({"WHO", "NAMES"})
      /\ members \in Users /\ online \subseteq Nicks /\ srvnick \in Nicks \ online
  BY DEF TypeInv, TypeOK
<1>3. members' = members /\ online' = online /\ srvnick' = srvnick /\ srvinfo' = srvinfo
  BY <1>1 DEF srvVars
<1>4. SrvKeeps
  BY <1>1, <1>2, <1>3 DEF SrvKeeps
<1>5. SrvInv'
  BY <1>3 DEF SrvInv
<1>6. Now' = Now
  BY <1>3 DEF Now, View
<1>7. Head(reqs) = "WHO" => ~Namesx
  <2>1. Head(reqs) = reqs[1] /\ 1 \in 1..Len(reqs)
    BY <1>1, <1>2
  <2> QED
    BY <2>1 DEF ListInv
<1>8. CASE Head(reqs) = "WHO"
  <2>1. wire' = wire \o ListOf(members, "352", EndOf("352")) /\ "352" \in ListCmds
    BY <1>1, <1>8 DEF EndOf, ListCmds
  <2> QED
    BY <1>1, <1>4, <1>5, <1>6, <1>7, <1>8, <2>1, SentList
<1>9. CASE Head(reqs) # "WHO"
  <2>1. wire' = wire \o ListOf(members, "353", EndOf("353")) /\ "353" \in ListCmds
    BY <1>1, <1>9 DEF EndOf, ListCmds
  <2>2. Namesx => "353" # "352"
    OBVIOUS
  <2> QED
    BY <1>1, <1>4, <1>5, <1>6, <2>1, <2>2, SentList
<1> QED
  BY <1>8, <1>9

LEMMA SrvBotJoinStep ==
  ASSUME TypeInv, SrvInv, ListInv, NEW h, Good(h), SrvBotJoin
  PROVE  IInv'
<1>1. /\ srvnick \notin DOMAIN members /\ members' = With(members, srvnick, {})
      /\ wire' = wire \o <<<<"JOIN", srvnick>>>> \o ListOf(members', "353", "366")
      /\ UNCHANGED <<online, srvnick, srvinfo, reqs, client>>
  BY DEF SrvBotJoin
<1>2. /\ members \in Users /\ online \subseteq Nicks /\ srvnick \in Nicks \ online
      /\ wire \in Seq(Msgs)
  BY DEF TypeInv, TypeOK
<1>3. members' \in Users /\ DOMAIN members' = DOMAIN members \cup {srvnick}
  BY <1>1, <1>2, WithFacts
<1>4. SrvKeeps
  BY <1>1, <1>2, <1>3 DEF SrvKeeps, TypeInv, TypeOK
<1>5. SrvInv'
  BY <1>1, <1>3 DEF SrvInv
<1>6. PICK l, ms, v, w, a, b, u, f, g, k :
        /\ l = <<"JOIN", srvnick>> /\ ms = members' /\ v = Now /\ w = Now'
        /\ a = <<l>> /\ b = ListOf(members', "353", "366") /\ u = a \o b
        /\ f = Two(v, w) /\ g = Const(b, w) /\ k = Glue(a, f, b, g)
  <2> DEFINE l == <<"JOIN", srvnick>>
             a == <<l>>
             b == ListOf(members', "353", "366")
             f == Two(Now, Now')
             g == Const(b, Now')
  <2> HIDE DEF l, a, b, f, g
  <2>1. \E k : k = Glue(a, f, b, g)
    OBVIOUS
  <2> QED
    BY <2>1 DEF l, a, b, f, g
<1>7. l \in Msgs /\ l[1] = "JOIN" /\ l[2] = srvnick
  BY <1>2, <1>6, Lines
<1>8. v \in Views /\ v.nick = srvnick /\ ~In(v)
  BY <1>1, <1>6, NowView
<1>9. w \in Views /\ w.nick = srvnick /\ In(w) /\ w.mem = ms /\ ms \in Users
  BY <1>1, <1>3, <1>4, <1>6, NowAfter
<1>10. /\ a \in Seq(Msgs) /\ Len(a) = 1 /\ a[1] = l
       /\ Hist(Namesx, FALSE, FALSE, a, f) /\ f[0] = v /\ f[1] = w
  <2>1. Legal(Namesx, v, l, w) /\ l[1] \notin ListCmds
    BY <1>7, <1>8, <1>9 DEF Legal, LegalJoin, ListCmds
  <2> QED
    BY <1>6, <1>7, <1>8, <1>9, <2>1, LineHist, ZenonT(60)
<1>11. /\ b \in Seq(Msgs) /\ Len(b) >= 1 /\ b[1][1] = "353"
       /\ Hist(Namesx, FALSE, FALSE, b, g)
       /\ \A i \in 1..Len(b) : b[i][1] # "JOIN"
  <2>1. b = ListOf(ms, "353", "366")
    BY <1>6 DEF ListOf, Shown, Namesx
  <2>2. b = ListOf(ms, "353", EndOf("353")) /\ "353" \in ListCmds
    BY <2>1 DEF EndOf, ListCmds
  <2>3. Namesx => "353" # "352"
    OBVIOUS
  <2> DEFINE y == ListOf(ms, "353", EndOf("353"))
  <2>4. /\ y \in Seq(Msgs) /\ Len(y) >= 1 /\ (In(w) => y[1][1] = "353")
        /\ Hist(Namesx, FALSE, FALSE, y, Const(y, w))
        /\ \A i \in 1..Len(y) : y[i][1] # "JOIN"
    BY <1>9, <2>2, <2>3, ListHist
  <2>5. b = y
    BY <2>2
  <2> HIDE DEF y
  <2> QED
    BY <1>6, <1>9, <2>4, <2>5
<1>12. g \in [0..Len(b) -> Views] /\ f \in [0..Len(a) -> Views]
  BY <1>10, <1>11 DEF Hist
<1>13. g[0] = w /\ g[Len(b)] = w
  <2>1. g = [i \in 0..Len(b) |-> w] /\ 0 \in 0..Len(b) /\ Len(b) \in 0..Len(b)
    BY <1>6, <1>11 DEF Const
  <2> QED
    BY <2>1
<1>14. g[0] = f[Len(a)]
  BY <1>10, <1>13
<1>15. Hist(Namesx, FALSE, FALSE, u, k)
  BY <1>6, <1>10, <1>11, <1>14, GlueHist
<1>16. Ends(k, Len(u), v, w)
  <2>1. Ends(k, Len(a \o b), f[0], g[Len(b)])
    BY <1>6, <1>10, <1>11, <1>12, <1>14, GlueEnds
  <2> QED
    BY <1>6, <1>10, <1>13, <2>1
<1>17. /\ u \in Seq(Msgs) /\ Len(u) = 1 + Len(b) /\ u[1] = l
       /\ \A i \in 2..Len(u) : u[i] = b[i - 1] /\ i - 1 \in 1..Len(b)
  <2>1. /\ u \in Seq(Msgs) /\ Len(u) = Len(a) + Len(b)
        /\ \A i \in 1..Len(a) + Len(b) : u[i] = IF i <= Len(a) THEN a[i] ELSE b[i - Len(a)]
    BY <1>6, <1>10, <1>11, ConcatProperties
  <2>2. Len(b) \in Nat
    BY <1>11
  <2> QED
    BY <1>10, <2>1, <2>2
<1>18. JoinListed(u, k)
  <2>1. 2 \in 2..Len(u) /\ 1 < Len(u) /\ u[2][1] = "353"
    <3>1. 2 \in 2..Len(u) /\ 2 - 1 = 1
      BY <1>11, <1>17
    <3> QED
      BY <1>11, <1>17, <3>1
  <2>2. \A i \in 1..Len(u) : i = 1 \/ i \in 2..Len(u)
    OBVIOUS
  <2>3. \A i \in 2..Len(u) : u[i][1] # "JOIN"
    BY <1>11, <1>17
  <2> QED
    BY <2>1, <2>2, <2>3 DEF JoinListed
<1>19. client' = client /\ srvinfo' = srvinfo /\ wire' = wire \o u
  <2>1. wire' = (wire \o a) \o b
    BY <1>1, <1>6
  <2>2. (wire \o a) \o b = wire \o (a \o b)
    BY <1>2, <1>10, <1>11, ConcatAssociative, SMTT(40)
  <2> QED
    BY <1>1, <1>6, <2>1, <2>2
<1>20. wire' \in Seq(Msgs) /\ \E q : Good(q)'
  <2>1. k[0] = Now /\ k[Len(u)] = Now'
    BY <1>6, <1>16 DEF Ends
  <2> QED
    BY <1>15, <1>17, <1>18, <1>19, <2>1, Sent
<1>21. TypeInv'
  BY <1>4, <1>20, SrvType
<1>22. ListInv'
  BY <1>1, <1>4, <1>17, <1>19, SrvLists
<1> QED
  BY <1>5, <1>20, <1>21, <1>22 DEF IInv
-----------------------------------------------------------------------------
(***************************************************************************)
(* Steps of the bot.                                                       *)
(***************************************************************************)
\* What the bot's steps keep of the types.
BotKeeps ==
  /\ UNCHANGED <<online, srvinfo>> /\ srvnick' \in Nicks \ online /\ members' \in Users
  /\ nick' \in Nicks /\ joined' \in BOOLEAN /\ chan_users' \in Users
  /\ who_receiving' \in BOOLEAN /\ names_receiving' \in BOOLEAN
  /\ waiting' \in BOOLEAN /\ pause_irc_main_thread_on' \in BOOLEAN
  /\ quits' \in Seq(Nicks) /\ reqs' \in Seq({"WHO", "NAMES"})
  /\ late' \subseteq Nicks /\ everLate' \in BOOLEAN

LEMMA UsersModes ==
  ASSUME NEW f \in Users
  PROVE  ModeMap(f, Nicks)
BY UsersFacts DEF ModeMap

LEMMA BotType ==
  ASSUME TypeInv, BotKeeps, wire' \in Seq(Msgs)
  PROVE  TypeInv'
<1>1. /\ members \in Users /\ online \subseteq Nicks /\ srvnick \in Nicks \ online
      /\ srvinfo \in [namesx_on : BOOLEAN, uhnames_on : BOOLEAN]
  BY DEF TypeInv, TypeOK
<1>2. /\ members' \in Users /\ online' \subseteq Nicks /\ srvnick' \in Nicks \ online'
      /\ srvinfo' \in [namesx_on : BOOLEAN, uhnames_on : BOOLEAN]
  BY <1>1 DEF BotKeeps, srvVars
<1>3. ModeMap(members, Nicks)' /\ ModeMap(chan_users, Keys)'
  <2>1. ModeMap(members', Nicks)
    BY <1>2, UsersModes
  <2>2. chan_users' \in Users
    BY DEF BotKeeps
  <2>3. ModeMap(chan_users', Nicks)
    BY <2>2, UsersModes
  <2> QED
    BY <2>1, <2>3 DEF ModeMap, Keys
<1>4. BareKeys'
  BY DEF TypeInv, BotKeeps, BareKeys, Namesx, Uhnames
<1> QED
  BY <1>2, <1>3, <1>4 DEF TypeInv, TypeOK, BotKeeps

\* irc::main_loop handled line l, sent when the server's view changed from v to w.
Handled(l, v, w) ==
  /\ ~waiting /\ wire # <<>> /\ l = Head(wire) /\ l \in Msgs /\ l = wire[1]
  /\ wire' = Tail(wire) /\ wire' \in Seq(Msgs)
  /\ v \in Views /\ w \in Views /\ Legal(Namesx, v, l, w)
  /\ \A n : InRun(wire, 1, n) =>
       l[1] \in ListCmds /\ (l[2] = n \/ InRun(wire', 1, n))
  /\ l[1] \in ListCmds => wire' # <<>> /\ wire'[1][1] \in {l[1], EndOf(l[1])}
  /\ who_receiving => l[1] \in {"352", "315"} /\ ~Namesx
  /\ names_receiving => l[1] \in {"353", "366"}
  /\ Namesx => l[1] # "352"
  /\ nick = v.nick /\ KnowLate(v) /\ KnowExact(v)

\* A line of the bot's own joining is followed by the list of members.
OwnJoin(l, v, w) ==
  l[1] = "JOIN" /\ l[2] = v.nick =>
    wire' # <<>> /\ wire'[1][1] = "353" /\ \A n \in DOMAIN w.mem : InRun(wire', 1, n)

\* The first line of a list: what the rest of it adds are all members.
NewList(l, w) ==
  (l[1] = "352" /\ ~who_receiving) \/ (l[1] = "353" /\ ~names_receiving) =>
    \A n \in DOMAIN w.mem : InRun(wire, 1, n)

LEMMA HandledFacts ==
  ASSUME TypeInv, ListInv, NEW h, Good(h), NEW cmd, Line(cmd)
  PROVE  \E l, v, w :
           /\ v = h[0] /\ w = h[1] /\ l[1] = cmd /\ Handled(l, v, w)
           /\ OwnJoin(l, v, w) /\ NewList(l, w)
<1>1. PICK l, v, w : l = Head(wire) /\ v = h[0] /\ w = h[1]
  OBVIOUS
<1>2. /\ Hist(Namesx, who_receiving, names_receiving, wire, h) /\ JoinListed(wire, h)
      /\ Know(h[0])
  BY DEF Good
<1>3. ~waiting /\ wire # <<>> /\ l[1] = cmd /\ wire' = Tail(wire)
  BY <1>1 DEF Line
<1>4. wire \in Seq(Msgs) /\ h \in [0..Len(wire) -> Views]
  BY <1>2 DEF TypeInv, Hist
<1>5. /\ Len(wire) \in Nat /\ Len(wire) >= 1 /\ Len(Tail(wire)) = Len(wire) - 1
      /\ Tail(wire) \in Seq(Msgs) /\ Head(wire) = wire[1] /\ wire[1] \in Msgs
  BY <1>3, <1>4
<1>6. 1 \in 1..Len(wire) /\ 1 \in 0..Len(wire) /\ 0 \in 0..Len(wire) /\ 1 - 1 = 0
  BY <1>5
<1>7. v \in Views /\ w \in Views /\ Legal(Namesx, v, l, w)
  <2>1. Legal(Namesx, h[1 - 1], wire[1], h[1])
    BY <1>2, <1>6 DEF Hist
  <2> QED
    BY <1>1, <1>4, <1>5, <1>6, <2>1
<1>8. /\ \A n : InRun(wire, 1, n) =>
           wire[1][1] \in ListCmds /\ (wire[1][2] = n \/ InRun(Tail(wire), 1, n))
      /\ wire[1][1] \in ListCmds =>
           Tail(wire) # <<>> /\ Tail(wire)[1][1] \in {wire[1][1], EndOf(wire[1][1])}
  BY <1>2, <1>3, <1>4, RestHist
<1>9. Handled(l, v, w)
  <2>1. nick = v.nick /\ KnowLate(v) /\ KnowExact(v)
    BY <1>1, <1>2 DEF Know
  <2>2. /\ who_receiving => l[1] \in {"352", "315"} /\ ~Namesx
        /\ names_receiving => l[1] \in {"353", "366"}
    BY <1>1, <1>5 DEF ListInv
  <2>3. Namesx => l[1] # "352"
    BY <1>1, <1>2, <1>5, <1>6 DEF Hist, Lists
  <2> QED
    BY <1>1, <1>3, <1>5, <1>7, <1>8, <2>1, <2>2, <2>3 DEF Handled
<1>10. OwnJoin(l, v, w)
  <2>1. SUFFICES ASSUME l[1] = "JOIN", l[2] = v.nick
                 PROVE  /\ wire' # <<>> /\ wire'[1][1] = "353"
                        /\ \A n \in DOMAIN w.mem : InRun(wire', 1, n)
    BY DEF OwnJoin
  <2>2. 1 < Len(wire) /\ wire[2][1] = "353"
    <3>1. wire[1][1] = "JOIN" /\ wire[1][2] = h[1 - 1].nick
      BY <1>1, <1>5, <1>6, <2>1
    <3>2. 1 < Len(wire) /\ wire[1 + 1][1] = "353"
      BY <1>2, <1>6, <3>1 DEF JoinListed
    <3> QED
      BY <3>2
  <2>3. 2 \in 1..Len(wire) /\ 2 \in 2..Len(wire) /\ 2 \in 0..Len(wire) /\ 2 - 1 = 1
    BY <1>5, <2>2
  <2>4. h[2] = w
    <3>1. Legal(Namesx, h[2 - 1], wire[2], h[2])
      BY <1>2, <2>3 DEF Hist
    <3> QED
      BY <1>1, <2>2, <2>3, <3>1 DEF Legal, LegalItem, ListCmds
  <2>5. Begins(who_receiving, names_receiving, wire, 2)
    <3>1. wire[2 - 1][1] # wire[2][1]
      BY <1>1, <1>5, <2>1, <2>2, <2>3
    <3> QED
      BY <2>2, <3>1 DEF Begins, ListCmds
  <2>6. \A n \in DOMAIN w.mem : InRun(wire, 2, n)
    BY <1>2, <2>3, <2>4, <2>5 DEF Hist, Full
  <2>7. \A n \in DOMAIN w.mem : InRun(Tail(wire), 1, n)
    BY <1>3, <1>4, <2>3, <2>6, RunTail
  <2>8. wire' # <<>> /\ wire'[1][1] = "353"
    <3> DEFINE t == Tail(wire)
    <3>1. t \in Seq(Msgs) /\ Len(t) \in Nat /\ Len(t) >= 1
      BY <1>5, <2>2
    <3>2. t[1] = wire[2]
      <4>1. \A i \in 1..Len(t) : t[i] = wire[i + 1]
        BY <1>3, <1>4, HeadTailProperties
      <4>2. 1 \in 1..Len(t) /\ 1 + 1 = 2
        BY <3>1
      <4> QED
        BY <4>1, <4>2
    <3>3. wire' = t
      BY <1>3
    <3> HIDE DEF t
    <3>4. t # <<>>
      BY <3>1
    <3> QED
      BY <2>2, <3>2, <3>3, <3>4
  <2> QED
    BY <1>3, <2>7, <2>8
<1>11. NewList(l, w)
  <2>1. SUFFICES ASSUME (l[1] = "352" /\ ~who_receiving) \/ (l[1] = "353" /\ ~names_receiving)
                 PROVE  \A n \in DOMAIN w.mem : InRun(wire, 1, n)
    BY DEF NewList
  <2>2. Begins(who_receiving, names_receiving, wire, 1)
    BY <1>1, <1>5, <2>1 DEF Begins, ListCmds
  <2> QED
    BY <1>1, <1>2, <1>6, <2>2 DEF Hist, Full
<1> QED
  BY <1>1, <1>3, <1>9, <1>10, <1>11

\* What handling a line of command cmd does to the flags and the requests.
Flags(cmd) ==
  /\ cmd \notin {"352", "315"} => who_receiving' = who_receiving
  /\ cmd = "352" => who_receiving' = TRUE
  /\ cmd = "315" => who_receiving' = (who_receiving /\ Namesx)
  /\ cmd \notin {"353", "366"} => names_receiving' = names_receiving
  /\ cmd = "353" => names_receiving' = TRUE
  /\ cmd = "366" => names_receiving' = FALSE
  /\ \/ reqs' = reqs
     \/ \E r \in {"WHO", "NAMES"} : reqs' = Append(reqs, r) /\ (Namesx => r # "WHO")

LEMMA BotLine ==
  ASSUME TypeInv, SrvInv, ListInv, NEW h, Good(h), NEW cmd, Line(cmd),
         srvVars' = srvVars, BotKeeps, Flags(cmd), Know(h[1])'
  PROVE  IInv'
<1>1. PICK l, v, w :
        /\ v = h[0] /\ w = h[1] /\ l[1] = cmd /\ Handled(l, v, w)
  BY HandledFacts
<1>2. PICK k : k = Rest(wire, h)
  OBVIOUS
<1>3. /\ Hist(Namesx, who_receiving, names_receiving, wire, h) /\ JoinListed(wire, h)
      /\ h[Len(wire)] = Now
  BY DEF Good
<1>4. /\ wire \in Seq(Msgs) /\ h \in [0..Len(wire) -> Views] /\ wire # <<>>
      /\ wire' = Tail(wire) /\ wire' \in Seq(Msgs) /\ l = wire[1]
  BY <1>1, <1>3 DEF TypeInv, Hist, Handled
<1>5. Namesx' = Namesx /\ members' = members /\ online' = online /\ srvnick' = srvnick
  BY DEF srvVars, Namesx
<1>6. Hist(Namesx, who_receiving', names_receiving', Tail(wire), k) /\ JoinListed(Tail(wire), k)
  <2>1. (wire[1][1] = "352" => who_receiving') /\ (wire[1][1] = "353" => names_receiving')
    BY <1>1, <1>4 DEF Flags
  <2> QED
    BY <1>2, <1>3, <1>4, <2>1, RestHist
<1>7. k[0] = h[1] /\ k[Len(Tail(wire))] = Now
  <2> DEFINE q == Rest(wire, h)
             t == Tail(wire)
  <2>1. q[Len(t)] = h[Len(wire)] /\ q[0] = h[1]
    BY <1>4, RestFacts
  <2> QED
    BY <1>2, <1>3, <2>1
<1>8. Now' = Now
  BY <1>5 DEF Now, View
<1>9. Good(k)'
  <2>1. Hist(Namesx, who_receiving, names_receiving, wire, k)' /\ JoinListed(wire, k)'
    BY <1>4, <1>5, <1>6
  <2>2. (k[Len(wire)] = Now)'
    BY <1>4, <1>7, <1>8
  <2>3. Know(k[0])'
    BY <1>7
  <2> QED
    BY <2>1, <2>2, <2>3 DEF Good
<1>10. TypeInv'
  BY <1>4, BotType
<1>11. SrvInv'
  BY <1>5 DEF SrvInv
<1>12. ListInv'
  <2>1. /\ who_receiving => cmd \in {"352", "315"} /\ ~Namesx
        /\ names_receiving => cmd \in {"353", "366"}
        /\ Namesx => cmd # "352"
        /\ cmd \in ListCmds => wire' # <<>> /\ wire'[1][1] \in {cmd, EndOf(cmd)}
    BY <1>1 DEF Handled
  <2>2. who_receiving' => wire' # <<>> /\ wire'[1][1] \in {"352", "315"} /\ ~Namesx'
    <3>1. who_receiving' => cmd = "352"
      BY <2>1 DEF Flags
    <3> QED
      BY <1>5, <2>1, <3>1 DEF ListCmds, EndOf
  <2>3. names_receiving' => wire' # <<>> /\ wire'[1][1] \in {"353", "366"}
    <3>1. names_receiving' => cmd = "353"
      BY <2>1 DEF Flags
    <3> QED
      BY <2>1, <3>1 DEF ListCmds, EndOf
  <2>4. Namesx' => \A i \in 1..Len(reqs') : reqs'[i] # "WHO"
    <3>1. reqs \in Seq({"WHO", "NAMES"}) /\ (Namesx => \A i \in 1..Len(reqs) : reqs[i] # "WHO")
      BY DEF TypeInv, TypeOK, ListInv
    <3>2. CASE reqs' = reqs
      BY <1>5, <3>1, <3>2
    <3>3. CASE \E r \in {"WHO", "NAMES"} : reqs' = Append(reqs, r) /\ (Namesx => r # "WHO")
      <4>1. PICK r \in {"WHO", "NAMES"} : reqs' = Append(reqs, r) /\ (Namesx => r # "WHO")
        BY <3>3
      <4>2. /\ Len(reqs') = Len(reqs) + 1 /\ reqs'[Len(reqs) + 1] = r /\ Len(reqs) \in Nat
            /\ \A i \in 1..Len(reqs) : reqs'[i] = reqs[i]
        BY <3>1, <4>1, AppendProperties
      <4> QED
        BY <1>5, <3>1, <4>1, <4>2
    <3> QED
      BY <3>2, <3>3 DEF Flags
  <2> QED
    BY <2>2, <2>3, <2>4 DEF ListInv
<1> QED
  BY <1>9, <1>10, <1>11, <1>12 DEF IInv

\* What the bot knows when it handles a line that is not of a list.
LEMMA Plain ==
  ASSUME NEW l, NEW v, NEW w, Handled(l, v, w), l[1] \notin ListCmds
  PROVE  /\ nick = v.nick /\ ~waiting
         /\ In(v) => joined /\ \A n \in DOMAIN v.mem : n \in DOMAIN chan_users \/ n \in late
         /\ ~everLate => late = {} /\ (joined => In(v))
         /\ ~everLate /\ In(v) =>
              /\ \A n \in DOMAIN chan_users : n \in DOMAIN v.mem \/ Quitting(n)
              /\ \A n \in DOMAIN v.mem : /\ n \in DOMAIN chan_users
                                         /\ Right(Namesx, chan_users[n], v.mem[n])
BY DEF Handled, KnowLate, KnowExact, Known, Exact

\* The views before and after a line, and the line's fields.
LEMMA HandledTypes ==
  ASSUME NEW l, NEW v, NEW w, Handled(l, v, w)
  PROVE  /\ v.nick \in Nicks /\ v.mem \in Users /\ w.nick \in Nicks /\ w.mem \in Users
         /\ l[1] \notin {"315", "366"} => l[2] \in Nicks
         /\ l[1] = "NICK" => l[3] \in Nicks
         /\ l[1] = "MODE" => l[3] \in BOOLEAN /\ l[4] \in Modes
         /\ l[1] \in ListCmds => l[3] \in SUBSET Modes
BY MsgFacts, ViewFacts DEF Handled

LEMMA SrvSame ==
  ASSUME TypeInv, srvVars' = srvVars
  PROVE  UNCHANGED <<online, srvinfo>> /\ srvnick' \in Nicks \ online /\ members' \in Users
BY DEF TypeInv, TypeOK, srvVars

LEMMA BotFacts ==
  ASSUME TypeInv
  PROVE  /\ nick \in Nicks /\ joined \in BOOLEAN /\ chan_users \in Users
         /\ who_receiving \in BOOLEAN /\ names_receiving \in BOOLEAN
         /\ waiting \in BOOLEAN /\ pause_irc_main_thread_on \in BOOLEAN
         /\ quits \in Seq(Nicks) /\ reqs \in Seq({"WHO", "NAMES"})
         /\ late \subseteq Nicks /\ everLate \in BOOLEAN
         /\ Namesx \in BOOLEAN /\ Uhnames \in BOOLEAN
BY DEF TypeInv, TypeOK, Namesx, Uhnames

\* The next request.
Asked(cond) ==
  reqs' = IF cond THEN Append(reqs, Refresh) ELSE reqs

LEMMA AskedFacts ==
  ASSUME TypeInv, NEW cond, Asked(cond)
  PROVE  /\ reqs' \in Seq({"WHO", "NAMES"})
         /\ \/ reqs' = reqs
            \/ \E r \in {"WHO", "NAMES"} : reqs' = Append(reqs, r) /\ (Namesx => r # "WHO")
<1>1. reqs \in Seq({"WHO", "NAMES"})
  BY BotFacts
<1>2. Refresh \in {"WHO", "NAMES"} /\ (Namesx => Refresh # "WHO")
  BY DEF Refresh
<1>3. CASE cond
  <2>1. reqs' = Append(reqs, Refresh)
    BY <1>3 DEF Asked
  <2>2. Append(reqs, Refresh) \in Seq({"WHO", "NAMES"})
    BY <1>1, <1>2, AppendProperties
  <2> QED
    BY <1>2, <2>1, <2>2
<1>4. CASE ~cond
  BY <1>1, <1>4 DEF Asked
<1> QED
  BY <1>3, <1>4

LEMMA JoinStep ==
  ASSUME TypeInv, SrvInv, ListInv, NEW h, Good(h), OnJoin
  PROVE  IInv'
<1>1. Line("JOIN") /\ srvVars' = srvVars
  BY DEF OnJoin
<1>2. PICK l, v, w :
        /\ v = h[0] /\ w = h[1] /\ l[1] = "JOIN" /\ Handled(l, v, w) /\ OwnJoin(l, v, w)
  BY <1>1, HandledFacts
<1>3. /\ nick = v.nick /\ ~waiting
      /\ In(v) => joined /\ \A n \in DOMAIN v.mem : n \in DOMAIN chan_users \/ n \in late
      /\ ~everLate => late = {} /\ (joined => In(v))
      /\ ~everLate /\ In(v) =>
           /\ \A n \in DOMAIN chan_users : n \in DOMAIN v.mem \/ Quitting(n)
           /\ \A n \in DOMAIN v.mem : /\ n \in DOMAIN chan_users
                                      /\ Right(Namesx, chan_users[n], v.mem[n])
  BY <1>2, Plain DEF ListCmds
<1>4. v.nick \in Nicks /\ v.mem \in Users /\ w.nick \in Nicks /\ w.mem \in Users /\ l[2] \in Nicks
  BY <1>2, HandledTypes
<1>5. PICK n : n = l[2] /\ n = Who
  BY <1>2 DEF Handled, Who
<1>6. /\ UNCHANGED <<nick, who_receiving, names_receiving, quitVars, everLate>>
      /\ n = nick =>
           /\ joined' = TRUE /\ chan_users' = IF joined THEN chan_users ELSE NoUsers
           /\ Asked(~Namesx) /\ late' = late
      /\ n # nick =>
           /\ chan_users' = With(chan_users, n, {}) /\ late' = late \ {n}
           /\ joined' = joined /\ reqs' = reqs
  BY <1>5 DEF OnJoin, AddChan, Added, Asked
<1>7. LegalJoin(v, l, w)
  BY <1>2 DEF Handled, Legal
<1>8. /\ waiting' = waiting /\ quits' = quits /\ everLate' = everLate /\ nick' = nick
      /\ pause_irc_main_thread_on' = pause_irc_main_thread_on
      /\ Namesx' = Namesx
      /\ who_receiving' = who_receiving /\ names_receiving' = names_receiving
  BY <1>1, <1>6 DEF quitVars, srvVars, Namesx
<1>9. CASE n = nick
  <2>1. /\ joined' = TRUE /\ chan_users' = IF joined THEN chan_users ELSE NoUsers
        /\ Asked(~Namesx) /\ late' = late
    BY <1>6, <1>9
  <2>2. BotKeeps
    <3>1. chan_users' \in Users
      BY <2>1, BotFacts, NoUsersFacts
    <3>2. reqs' \in Seq({"WHO", "NAMES"})
      BY <2>1, AskedFacts
    <3> QED
      BY <1>1, <1>8, <2>1, <3>1, <3>2, BotFacts, SrvSame DEF BotKeeps
  <2>8. Flags("JOIN")
    <3>1. \/ reqs' = reqs
          \/ \E r \in {"WHO", "NAMES"} : reqs' = Append(reqs, r) /\ (Namesx => r # "WHO")
      BY <2>1, AskedFacts
    <3> QED
      BY <1>8, <3>1 DEF Flags
  <2>3. ~In(v) /\ In(w) /\ w.nick = v.nick
    BY <1>3, <1>5, <1>7, <1>9 DEF LegalJoin
  <2>4. \A x \in DOMAIN w.mem : InRun(wire', 1, x)
    BY <1>2, <1>3, <1>5, <1>9 DEF OwnJoin
  <2>5. KnowLate(w)'
    BY <2>1, <2>4 DEF KnowLate, Known
  <2>6. KnowExact(w)'
    <3>1. ~everLate' => late' = {} /\ DOMAIN chan_users' = {}
      BY <1>3, <1>8, <2>1, <2>3, NoUsersFacts
    <3> QED
      BY <2>3, <2>4, <3>1 DEF KnowExact, Exact
  <2>7. Know(w)'
    BY <1>3, <1>8, <2>3, <2>5, <2>6 DEF Know, WaitInv
  <2> QED
    BY <1>1, <1>2, <2>2, <2>7, <2>8, BotLine
<1>10. CASE n # nick
  <2>1. /\ chan_users' = With(chan_users, n, {}) /\ late' = late \ {n}
        /\ joined' = joined /\ reqs' = reqs
    BY <1>6, <1>10
  <2>0. n \in Nicks /\ {} \in SUBSET Modes
    BY <1>4, <1>5
  <2>2. /\ chan_users' \in Users /\ DOMAIN chan_users' = DOMAIN chan_users \cup {n}
        /\ chan_users'[n] = {}
        /\ \A x \in DOMAIN chan_users : x # n => chan_users'[x] = chan_users[x]
    <3>1. Sets(chan_users', chan_users, n, {})
      BY <2>0, <2>1, BotFacts, WithSets
    <3> QED
      BY <3>1 DEF Sets
  <2>3. BotKeeps
    BY <1>1, <1>8, <2>1, <2>2, BotFacts, SrvSame DEF BotKeeps
  <2>10. Flags("JOIN")
    BY <1>8, <2>1 DEF Flags
  <2>4. In(v) /\ w = [nick |-> v.nick, mem |-> With(v.mem, n, {})]
    BY <1>3, <1>5, <1>7, <1>10 DEF LegalJoin
  <2>5. /\ w.nick = v.nick /\ DOMAIN w.mem = DOMAIN v.mem \cup {n} /\ w.mem[n] = {}
        /\ \A x \in DOMAIN v.mem : x # n => w.mem[x] = v.mem[x]
    <3>1. w.nick = v.nick /\ w.mem = With(v.mem, n, {})
      BY <2>4
    <3>2. Sets(w.mem, v.mem, n, {})
      BY <1>4, <2>0, <3>1, WithSets
    <3> QED
      BY <3>1, <3>2 DEF Sets
  <2>6. In(w)
    BY <2>4, <2>5 DEF In
  <2>7. KnowLate(w)'
    BY <1>3, <2>1, <2>2, <2>4, <2>5 DEF KnowLate, Known
  <2>8. KnowExact(w)'
    <3>1. ASSUME ~everLate
          PROVE  \A x \in DOMAIN w.mem : /\ x \in DOMAIN chan_users'
                                         /\ Right(Namesx, chan_users'[x], w.mem[x])
      BY <1>3, <2>2, <2>4, <2>5, <3>1 DEF Right
    <3> QED
      BY <1>3, <1>8, <2>1, <2>2, <2>4, <2>5, <2>6, <3>1 DEF KnowExact, Exact, Quitting
  <2>9. Know(w)'
    BY <1>3, <1>8, <2>5, <2>7, <2>8 DEF Know, WaitInv
  <2> QED
    BY <1>1, <1>2, <2>3, <2>9, <2>10, BotLine
<1> QED
  BY <1>9, <1>10

\* PART and KICK.
LEMMA LeaveStep ==
  ASSUME TypeInv, SrvInv, ListInv, NEW h, Good(h), NEW cmd \in {"PART", "KICK"},
         (cmd = "PART" /\ OnPart) \/ (cmd = "KICK" /\ OnKick)
  PROVE  IInv'
<1>1. Line(cmd) /\ srvVars' = srvVars
  BY DEF OnPart, OnKick
<1>2. PICK l, v, w : v = h[0] /\ w = h[1] /\ l[1] = cmd /\ Handled(l, v, w)
  BY <1>1, HandledFacts
<1>3. /\ nick = v.nick /\ ~waiting
      /\ In(v) => joined /\ \A n \in DOMAIN v.mem : n \in DOMAIN chan_users \/ n \in late
      /\ ~everLate => late = {} /\ (joined => In(v))
      /\ ~everLate /\ In(v) =>
           /\ \A n \in DOMAIN chan_users : n \in DOMAIN v.mem \/ Quitting(n)
           /\ \A n \in DOMAIN v.mem : /\ n \in DOMAIN chan_users
                                      /\ Right(Namesx, chan_users[n], v.mem[n])
  BY <1>2, Plain DEF ListCmds
<1>4. v.nick \in Nicks /\ v.mem \in Users /\ w.nick \in Nicks /\ w.mem \in Users /\ l[2] \in Nicks
  BY <1>2, HandledTypes
<1>5. PICK n : n = l[2] /\ n = Who
  BY <1>2 DEF Handled, Who
<1>6. UNCHANGED <<nick, who_receiving, names_receiving, quitVars, everLate>> /\ late' = late \ {n}
  BY <1>5 DEF OnPart, OnKick
<1>7. LegalLeave(v, l, w)
  BY <1>2 DEF Handled, Legal
<1>8. /\ waiting' = waiting /\ quits' = quits /\ everLate' = everLate /\ nick' = nick
      /\ pause_irc_main_thread_on' = pause_irc_main_thread_on
      /\ Namesx' = Namesx
      /\ who_receiving' = who_receiving /\ names_receiving' = names_receiving
  BY <1>1, <1>6 DEF quitVars, srvVars, Namesx
<1>9. \E c \in BOOLEAN : Asked(c)
  <2>1. reqs' = reqs => Asked(FALSE)
    BY DEF Asked
  <2>2. reqs' = Append(reqs, Refresh) => Asked(TRUE)
    BY DEF Asked
  <2>3. reqs' = reqs \/ reqs' = Append(reqs, Refresh)
    BY DEF OnPart, OnKick
  <2> QED
    BY <2>1, <2>2, <2>3
<1>10. /\ reqs' \in Seq({"WHO", "NAMES"})
       /\ \/ reqs' = reqs
          \/ \E r \in {"WHO", "NAMES"} : reqs' = Append(reqs, r) /\ (Namesx => r # "WHO")
  BY <1>9, AskedFacts
<1>11. Flags(cmd)
  BY <1>8, <1>10 DEF Flags
<1>12. In(v) /\ n \in DOMAIN v.mem
       /\ w = [nick |-> v.nick, mem |-> IF n = v.nick THEN NoUsers ELSE Without(v.mem, n)]
  BY <1>5, <1>7 DEF LegalLeave
<1>13. \/ n = nick /\ joined' = FALSE /\ chan_users' = IF joined THEN NoUsers ELSE chan_users
       \/ /\ joined' = joined /\ chan_users' = Without(chan_users, n)
          /\ n = nick => n \notin DOMAIN chan_users
  <2>1. n \notin DOMAIN chan_users => Without(chan_users, n) = chan_users
    BY BotFacts, WithoutFacts
  <2> QED
    BY <1>5, <2>1 DEF OnPart, OnKick, DelChan
<1>14. CASE n = nick
  <2>1. ~In(w) /\ w.nick = v.nick
    BY <1>3, <1>12, <1>14, NoUsersFacts DEF In
  <2>2. BotKeeps
    <3>1. joined' \in BOOLEAN /\ chan_users' \in Users
      <4>1. Without(chan_users, n) \in Users
        BY BotFacts, WithoutFacts
      <4> QED
        BY <1>13, <4>1, BotFacts, NoUsersFacts
    <3> QED
      BY <1>1, <1>6, <1>8, <1>10, <3>1, BotFacts, SrvSame DEF BotKeeps
  <2>3. ~everLate => joined' = FALSE /\ late' = {}
    BY <1>3, <1>6, <1>12, <1>13, <1>14
  <2>4. KnowLate(w)' /\ KnowExact(w)'
    BY <1>8, <2>1, <2>3 DEF KnowLate, KnowExact
  <2>5. Know(w)'
    BY <1>3, <1>8, <2>1, <2>4 DEF Know, WaitInv
  <2> QED
    BY <1>1, <1>2, <1>11, <2>2, <2>5, BotLine
<1>15. CASE n # nick
  <2>1. joined' = joined /\ chan_users' = Without(chan_users, n)
    BY <1>13, <1>15
  <2>2. /\ chan_users' \in Users /\ DOMAIN chan_users' = DOMAIN chan_users \ {n}
        /\ \A x \in DOMAIN chan_users : x # n => chan_users'[x] = chan_users[x]
    <3>1. Drops(chan_users', chan_users, n)
      BY <2>1, BotFacts, WithoutDrops
    <3> QED
      BY <3>1 DEF Drops
  <2>3. BotKeeps
    BY <1>1, <1>6, <1>8, <1>10, <2>1, <2>2, BotFacts, SrvSame DEF BotKeeps
  <2>4. /\ w.nick = v.nick /\ DOMAIN w.mem = DOMAIN v.mem \ {n}
        /\ \A x \in DOMAIN v.mem : x # n => w.mem[x] = v.mem[x]
    <3>1. w.nick = v.nick /\ w.mem = Without(v.mem, n)
      BY <1>3, <1>12, <1>15
    <3>2. Drops(w.mem, v.mem, n)
      BY <1>4, <3>1, WithoutDrops
    <3> QED
      BY <3>1, <3>2 DEF Drops
  <2>5. In(w)
    BY <1>3, <1>12, <1>15, <2>4 DEF In
  <2>6. KnowLate(w)'
    BY <1>3, <1>6, <1>12, <2>1, <2>2, <2>4 DEF KnowLate, Known
  <2>7. KnowExact(w)'
    <3>1. ASSUME ~everLate
          PROVE  \A x \in DOMAIN w.mem : /\ x \in DOMAIN chan_users'
                                         /\ Right(Namesx, chan_users'[x], w.mem[x])
      BY <1>3, <1>12, <2>2, <2>4, <3>1
    <3>2. ASSUME ~everLate
          PROVE  \A x \in DOMAIN chan_users' : x \in DOMAIN w.mem \/ Quitting(x)
      BY <1>3, <1>12, <2>2, <2>4, <3>2
    <3>3. \A x : Quitting(x)' <=> Quitting(x)
      BY <1>8 DEF Quitting
    <3> QED
      BY <1>3, <1>6, <1>8, <2>5, <3>1, <3>2, <3>3 DEF KnowExact, Exact
  <2>8. Know(w)'
    BY <1>3, <1>8, <2>4, <2>6, <2>7 DEF Know, WaitInv
  <2> QED
    BY <1>1, <1>2, <1>11, <2>3, <2>8, BotLine
<1> QED
  BY <1>14, <1>15

LEMMA QuitStep ==
  ASSUME TypeInv, SrvInv, ListInv, NEW h, Good(h), OnQuit
  PROVE  IInv'
<1>1. Line("QUIT") /\ srvVars' = srvVars
  BY DEF OnQuit
<1>2. PICK l, v, w : v = h[0] /\ w = h[1] /\ l[1] = "QUIT" /\ Handled(l, v, w)
  BY <1>1, HandledFacts
<1>3. /\ nick = v.nick /\ ~waiting
      /\ In(v) => joined /\ \A n \in DOMAIN v.mem : n \in DOMAIN chan_users \/ n \in late
      /\ ~everLate => late = {} /\ (joined => In(v))
      /\ ~everLate /\ In(v) =>
           /\ \A n \in DOMAIN chan_users : n \in DOMAIN v.mem \/ Quitting(n)
           /\ \A n \in DOMAIN v.mem : /\ n \in DOMAIN chan_users
                                      /\ Right(Namesx, chan_users[n], v.mem[n])
  BY <1>2, Plain DEF ListCmds
<1>4. v.nick \in Nicks /\ v.mem \in Users /\ w.nick \in Nicks /\ w.mem \in Users /\ l[2] \in Nicks
  BY <1>2, HandledTypes
<1>5. PICK n : n = l[2] /\ n = Who
  BY <1>2 DEF Handled, Who
<1>6. /\ pause_irc_main_thread_on' = TRUE /\ waiting' = TRUE /\ quits' = Append(quits, n)
      /\ late' = late \ {n} /\ reqs' = reqs /\ everLate' = everLate
      /\ nick' = nick /\ joined' = joined /\ chan_users' = chan_users
      /\ who_receiving' = who_receiving /\ names_receiving' = names_receiving
      /\ Namesx' = Namesx
  BY <1>1, <1>5 DEF OnQuit, botVars, srvVars, Namesx
<1>7. LegalQuit(v, l, w)
  BY <1>2 DEF Handled, Legal
<1>8. n \in Nicks /\ quits \in Seq(Nicks)
  BY <1>4, <1>5, BotFacts
<1>9. /\ quits' \in Seq(Nicks) /\ Len(quits') = Len(quits) + 1 /\ Len(quits) \in Nat
      /\ quits'[Len(quits')] = n
      /\ \A i \in 1..Len(quits) : quits'[i] = quits[i]
  <2>1. /\ quits' \in Seq(Nicks) /\ Len(quits') = Len(quits) + 1 /\ Len(quits) \in Nat
        /\ quits'[Len(quits) + 1] = n
        /\ \A i \in 1..Len(quits) : quits'[i] = quits[i]
    BY <1>6, <1>8, AppendProperties
  <2> QED
    BY <2>1
<1>10. BotKeeps
  BY <1>1, <1>6, <1>9, BotFacts, SrvSame DEF BotKeeps
<1>11. Flags("QUIT")
  BY <1>6 DEF Flags
<1>12. n # v.nick /\ In(v) /\ w = [nick |-> v.nick, mem |-> Without(v.mem, n)]
  BY <1>5, <1>7 DEF LegalQuit
<1>13. /\ w.nick = v.nick /\ DOMAIN w.mem = DOMAIN v.mem \ {n}
       /\ \A x \in DOMAIN v.mem : x # n => w.mem[x] = v.mem[x]
  <2>1. w.nick = v.nick /\ w.mem = Without(v.mem, n)
    BY <1>12
  <2>2. Drops(w.mem, v.mem, n)
    BY <1>4, <2>1, WithoutDrops
  <2> QED
    BY <2>1, <2>2 DEF Drops
<1>14. In(w)
  BY <1>12, <1>13 DEF In
<1>15. Quitting(n)' /\ \A x : Quitting(x) => Quitting(x)'
  <2>1. Len(quits') \in 1..Len(quits') /\ \A i \in 1..Len(quits) : i \in 1..Len(quits')
    BY <1>9
  <2> QED
    BY <1>9, <2>1 DEF Quitting
<1>16. KnowLate(w)'
  BY <1>3, <1>6, <1>12, <1>13 DEF KnowLate, Known
<1>17. KnowExact(w)'
  <2>1. ASSUME ~everLate
        PROVE  \A x \in DOMAIN w.mem : /\ x \in DOMAIN chan_users'
                                       /\ Right(Namesx, chan_users'[x], w.mem[x])
    BY <1>3, <1>6, <1>12, <1>13, <2>1
  <2>2. ASSUME ~everLate
        PROVE  \A x \in DOMAIN chan_users' : x \in DOMAIN w.mem \/ Quitting(x)'
    BY <1>3, <1>6, <1>12, <1>13, <1>15, <2>2
  <2> QED
    BY <1>3, <1>6, <1>14, <2>1, <2>2 DEF KnowExact, Exact
<1>18. WaitInv(w)'
  <2>1. quits' # <<>>
    BY <1>9
  <2> QED
    BY <1>9, <1>13, <2>1 DEF WaitInv
<1>19. Know(w)'
  BY <1>3, <1>6, <1>13, <1>16, <1>17, <1>18 DEF Know
<1> QED
  BY <1>1, <1>2, <1>10, <1>11, <1>19, BotLine

LEMMA ModeStep ==
  ASSUME TypeInv, SrvInv, ListInv, NEW h, Good(h), OnMode
  PROVE  IInv'
<1>1. Line("MODE") /\ srvVars' = srvVars
  BY DEF OnMode
<1>2. PICK l, v, w : v = h[0] /\ w = h[1] /\ l[1] = "MODE" /\ Handled(l, v, w)
  BY <1>1, HandledFacts
<1>3. /\ nick = v.nick /\ ~waiting
      /\ In(v) => joined /\ \A n \in DOMAIN v.mem : n \in DOMAIN chan_users \/ n \in late
      /\ ~everLate => late = {} /\ (joined => In(v))
      /\ ~everLate /\ In(v) =>
           /\ \A n \in DOMAIN chan_users : n \in DOMAIN v.mem \/ Quitting(n)
           /\ \A n \in DOMAIN v.mem : /\ n \in DOMAIN chan_users
                                      /\ Right(Namesx, chan_users[n], v.mem[n])
  BY <1>2, Plain DEF ListCmds
<1>4. /\ v.nick \in Nicks /\ v.mem \in Users /\ w.nick \in Nicks /\ w.mem \in Users
      /\ l[2] \in Nicks /\ l[3] \in BOOLEAN /\ l[4] \in Modes
  BY <1>2, HandledTypes
<1>5. PICK n, give, m, old, ms, ns :
        /\ n = l[2] /\ n = Who /\ give = l[3] /\ m = l[4] /\ l = Head(wire)
        /\ old = (IF n \in DOMAIN chan_users THEN chan_users[n] ELSE {})
        /\ ms = Changed(old, give, m) /\ ns = Changed(v.mem[n], give, m)
  BY <1>2 DEF Handled, Who
<1>6. /\ UNCHANGED <<reqs, nick, joined, who_receiving, names_receiving, quitVars, everLate>>
      /\ late' = late \ {n} /\ chan_users' = With(chan_users, n, ms)
  BY <1>5 DEF OnMode, Changed
<1>7. LegalMode(v, l, w)
  BY <1>2 DEF Handled, Legal
<1>8. /\ waiting' = waiting /\ quits' = quits /\ everLate' = everLate /\ nick' = nick
      /\ pause_irc_main_thread_on' = pause_irc_main_thread_on
      /\ Namesx' = Namesx /\ reqs' = reqs /\ joined' = joined
      /\ who_receiving' = who_receiving /\ names_receiving' = names_receiving
  BY <1>1, <1>6 DEF quitVars, srvVars, Namesx
<1>9. n \in Nicks /\ ms \in SUBSET Modes
  <2>1. old \in SUBSET Modes
    BY <1>5, BotFacts, UsersFacts
  <2> QED
    BY <1>4, <1>5, <2>1 DEF Changed
<1>10. /\ chan_users' \in Users /\ DOMAIN chan_users' = DOMAIN chan_users \cup {n}
       /\ chan_users'[n] = ms
       /\ \A x \in DOMAIN chan_users : x # n => chan_users'[x] = chan_users[x]
  <2>1. Sets(chan_users', chan_users, n, ms)
    BY <1>6, <1>9, BotFacts, WithSets
  <2> QED
    BY <2>1 DEF Sets
<1>11. BotKeeps
  BY <1>1, <1>6, <1>8, <1>10, BotFacts, SrvSame DEF BotKeeps
<1>12. Flags("MODE")
  BY <1>8 DEF Flags
<1>13. In(v) /\ n \in DOMAIN v.mem /\ w.nick = v.nick /\ w.mem = With(v.mem, n, ns)
  BY <1>5, <1>7 DEF LegalMode
<1>14. /\ DOMAIN w.mem = DOMAIN v.mem /\ w.mem[n] = ns
       /\ \A x \in DOMAIN v.mem : x # n => w.mem[x] = v.mem[x]
  <2>1. ns \in SUBSET Modes
    BY <1>4, <1>5, <1>13, UsersFacts DEF Changed
  <2>2. Sets(w.mem, v.mem, n, ns)
    BY <1>4, <1>9, <1>13, <2>1, WithSets
  <2>3. DOMAIN v.mem \cup {n} = DOMAIN v.mem
    BY <1>13
  <2> QED
    BY <2>2, <2>3 DEF Sets
<1>15. In(w)
  BY <1>13, <1>14 DEF In
<1>16. KnowLate(w)'
  BY <1>3, <1>6, <1>8, <1>10, <1>13, <1>14 DEF KnowLate, Known
<1>17. KnowExact(w)'
  <2>1. ASSUME ~everLate, NEW x \in DOMAIN w.mem
        PROVE  x \in DOMAIN chan_users' /\ Right(Namesx, chan_users'[x], w.mem[x])
    <3>1. x \in DOMAIN chan_users /\ Right(Namesx, chan_users[x], v.mem[x])
      BY <1>3, <1>13, <1>14, <2>1
    <3>2. CASE x = n
      <4>1. old = chan_users[n]
        BY <1>5, <3>1, <3>2
      <4>2. Right(Namesx, ms, ns)
        BY <1>5, <3>1, <3>2, <4>1 DEF Right, Changed
      <4> QED
        BY <1>10, <1>14, <3>2, <4>2
    <3>3. CASE x # n
      BY <1>10, <1>14, <2>1, <3>1, <3>3
    <3> QED
      BY <3>2, <3>3
  <2>2. ASSUME ~everLate
        PROVE  \A x \in DOMAIN chan_users' : x \in DOMAIN w.mem \/ Quitting(x)
    BY <1>3, <1>10, <1>13, <1>14, <2>2
  <2>3. \A x : Quitting(x)' <=> Quitting(x)
    BY <1>8 DEF Quitting
  <2> QED
    BY <1>3, <1>6, <1>8, <1>15, <2>1, <2>2, <2>3 DEF KnowExact, Exact
<1>18. Know(w)'
  BY <1>3, <1>8, <1>13, <1>16, <1>17 DEF Know, WaitInv
<1> QED
  BY <1>1, <1>2, <1>11, <1>12, <1>18, BotLine

LEMMA NickStep ==
  ASSUME TypeInv, SrvInv, ListInv, NEW h, Good(h), OnNick
  PROVE  IInv'
<1>1. Line("NICK") /\ srvVars' = srvVars
  BY DEF OnNick
<1>2. PICK l, v, w : v = h[0] /\ w = h[1] /\ l[1] = "NICK" /\ Handled(l, v, w)
  BY <1>1, HandledFacts
<1>3. /\ nick = v.nick /\ ~waiting
      /\ In(v) => joined /\ \A n \in DOMAIN v.mem : n \in DOMAIN chan_users \/ n \in late
      /\ ~everLate => late = {} /\ (joined => In(v))
      /\ ~everLate /\ In(v) =>
           /\ \A n \in DOMAIN chan_users : n \in DOMAIN v.mem \/ Quitting(n)
           /\ \A n \in DOMAIN v.mem : /\ n \in DOMAIN chan_users
                                      /\ Right(Namesx, chan_users[n], v.mem[n])
  BY <1>2, Plain DEF ListCmds
<1>4. /\ v.nick \in Nicks /\ v.mem \in Users /\ w.nick \in Nicks /\ w.mem \in Users
      /\ l[2] \in Nicks /\ l[3] \in Nicks
  BY <1>2, HandledTypes
<1>5. PICK n, new, known, mid, mem :
        /\ n = l[2] /\ n = Who /\ new = l[3] /\ l = Head(wire)
        /\ known = (joined /\ n \in DOMAIN chan_users)
        /\ mid = Without(chan_users, n) /\ mem = Without(v.mem, n)
  BY <1>2 DEF Handled, Who
<1>6. /\ nick' = IF n = nick THEN new ELSE nick
      /\ chan_users' = IF known THEN With(mid, new, chan_users[n]) ELSE chan_users
      /\ late' = IF known THEN late \ {new}
                 ELSE IF n \in late THEN (late \ {n}) \cup {new} ELSE late
      /\ UNCHANGED <<reqs, joined, who_receiving, names_receiving, quitVars, everLate>>
  BY <1>5 DEF OnNick, Added
<1>7. LegalNick(v, l, w)
  BY <1>2 DEF Handled, Legal
<1>8. /\ waiting' = waiting /\ quits' = quits /\ everLate' = everLate
      /\ pause_irc_main_thread_on' = pause_irc_main_thread_on
      /\ Namesx' = Namesx /\ reqs' = reqs /\ joined' = joined
      /\ who_receiving' = who_receiving /\ names_receiving' = names_receiving
  BY <1>1, <1>6 DEF quitVars, srvVars, Namesx
<1>9. n \in Nicks /\ new \in Nicks
  BY <1>4, <1>5
<1>10. /\ chan_users' \in Users
       /\ known => /\ DOMAIN chan_users' = (DOMAIN chan_users \ {n}) \cup {new}
                   /\ chan_users'[new] = chan_users[n]
                   /\ \A x \in DOMAIN chan_users :
                        x # n /\ x # new => chan_users'[x] = chan_users[x]
       /\ ~known => chan_users' = chan_users
  <2>1. CASE known
    <3>1. Drops(mid, chan_users, n)
      BY <1>5, BotFacts, WithoutDrops
    <3>2. mid \in Users
      BY <3>1 DEF Drops
    <3>3. chan_users[n] \in SUBSET Modes
      BY <1>5, <2>1, BotFacts, UsersFacts
    <3>4. Sets(chan_users', mid, new, chan_users[n])
      BY <1>6, <1>9, <2>1, <3>2, <3>3, WithSets
    <3> QED
      BY <2>1, <3>1, <3>4 DEF Drops, Sets
  <2>2. CASE ~known
    BY <1>6, <2>2, BotFacts
  <2> QED
    BY <2>1, <2>2
<1>11. BotKeeps
  <2>1. nick' \in Nicks /\ late' \subseteq Nicks
    BY <1>6, <1>9, BotFacts
  <2> QED
    BY <1>1, <1>8, <1>10, <2>1, BotFacts, SrvSame DEF BotKeeps
<1>12. Flags("NICK")
  BY <1>8 DEF Flags
<1>13. /\ new # v.nick /\ new \notin DOMAIN v.mem
       /\ n = v.nick \/ (In(v) /\ n \in DOMAIN v.mem)
       /\ w.nick = (IF n = v.nick THEN new ELSE v.nick)
       /\ w.mem = IF n \in DOMAIN v.mem THEN With(mem, new, v.mem[n]) ELSE v.mem
  BY <1>5, <1>7 DEF LegalNick
<1>14. /\ n \in DOMAIN v.mem =>
            /\ DOMAIN w.mem = (DOMAIN v.mem \ {n}) \cup {new}
            /\ w.mem[new] = v.mem[n]
            /\ \A x \in DOMAIN v.mem : x # n /\ x # new => w.mem[x] = v.mem[x]
       /\ n \notin DOMAIN v.mem => w.mem = v.mem
  <2>1. CASE n \in DOMAIN v.mem
    <3>1. Drops(mem, v.mem, n)
      BY <1>4, <1>5, WithoutDrops
    <3>2. mem \in Users
      BY <3>1 DEF Drops
    <3>3. v.mem[n] \in SUBSET Modes
      BY <1>4, <2>1, UsersFacts
    <3>4. Sets(w.mem, mem, new, v.mem[n])
      BY <1>9, <1>13, <2>1, <3>2, <3>3, WithSets
    <3> QED
      BY <2>1, <3>1, <3>4 DEF Drops, Sets
  <2>2. CASE n \notin DOMAIN v.mem
    BY <1>13, <2>2
  <2> QED
    BY <2>1, <2>2
<1>15. In(w) <=> In(v)
  <2>1. CASE n = v.nick
    BY <1>13, <1>14, <2>1 DEF In
  <2>2. CASE n # v.nick
    BY <1>13, <1>14, <2>2 DEF In
  <2> QED
    BY <2>1, <2>2
<1>16. In(v) => n \in DOMAIN v.mem
  BY <1>13 DEF In
<1>17. KnowLate(w)'
  <2>1. SUFFICES ASSUME In(w)
                 PROVE  /\ joined'
                        /\ \A x \in DOMAIN w.mem : x \in DOMAIN chan_users' \/ x \in late'
    BY DEF KnowLate, Known
  <2>2. In(v) /\ n \in DOMAIN v.mem /\ joined
    BY <1>3, <1>15, <1>16, <2>1
  <2>3. CASE known
    BY <1>3, <1>6, <1>8, <1>10, <1>14, <2>2, <2>3
  <2>4. CASE ~known
    <3>1. n \in late
      BY <1>3, <1>5, <2>2, <2>4
    <3>2. chan_users' = chan_users /\ late' = (late \ {n}) \cup {new}
      BY <1>6, <2>4, <3>1
    <3> QED
      BY <1>3, <1>8, <1>14, <2>2, <3>2
  <2> QED
    BY <2>3, <2>4
<1>18. KnowExact(w)'
  <2>1. SUFFICES ASSUME ~everLate
                 PROVE  /\ late' = {} /\ (joined' => In(w))
                        /\ In(w) =>
                             /\ \A x \in DOMAIN chan_users' : x \in DOMAIN w.mem \/ Quitting(x)
                             /\ \A x \in DOMAIN w.mem :
                                  /\ x \in DOMAIN chan_users'
                                  /\ Right(Namesx, chan_users'[x], w.mem[x])
    <3>1. \A x : Quitting(x)' <=> Quitting(x)
      BY <1>8 DEF Quitting
    <3> QED
      BY <1>8, <3>1 DEF KnowExact, Exact
  <2>2. late' = {} /\ (joined' => In(w))
    BY <1>3, <1>6, <1>8, <1>15, <2>1
  <2>3. ASSUME In(w)
        PROVE  /\ \A x \in DOMAIN chan_users' : x \in DOMAIN w.mem \/ Quitting(x)
               /\ \A x \in DOMAIN w.mem : /\ x \in DOMAIN chan_users'
                                          /\ Right(Namesx, chan_users'[x], w.mem[x])
    <3>1. In(v) /\ n \in DOMAIN v.mem /\ joined /\ n \in DOMAIN chan_users
      BY <1>3, <1>15, <1>16, <2>1, <2>3
    <3>2. known
      BY <1>5, <3>1
    <3>3. \A x \in DOMAIN chan_users' : x \in DOMAIN w.mem \/ Quitting(x)
      BY <1>3, <1>10, <1>14, <2>1, <3>1, <3>2
    <3>4. \A x \in DOMAIN w.mem : /\ x \in DOMAIN chan_users'
                                  /\ Right(Namesx, chan_users'[x], w.mem[x])
      <4>1. ASSUME NEW x \in DOMAIN w.mem
            PROVE  x \in DOMAIN chan_users' /\ Right(Namesx, chan_users'[x], w.mem[x])
        <5>1. CASE x = new
          BY <1>3, <1>10, <1>14, <2>1, <3>1, <3>2, <5>1
        <5>2. CASE x # new
          <6>1. x \in DOMAIN v.mem /\ x # n
            BY <1>14, <3>1, <4>1, <5>2
          <6>2. x \in DOMAIN chan_users /\ Right(Namesx, chan_users[x], v.mem[x])
            BY <1>3, <2>1, <3>1, <6>1
          <6>3. chan_users'[x] = chan_users[x] /\ w.mem[x] = v.mem[x] /\ x \in DOMAIN chan_users'
            BY <1>10, <1>14, <3>1, <3>2, <5>2, <6>1, <6>2
          <6> QED
            BY <6>2, <6>3
        <5> QED
          BY <5>1, <5>2
      <4> QED
        BY <4>1
    <3> QED
      BY <3>3, <3>4
  <2> QED
    BY <2>2, <2>3
<1>19. Know(w)'
  <2>1. nick' = w.nick
    BY <1>3, <1>6, <1>13
  <2> QED
    BY <1>3, <1>8, <1>17, <1>18, <2>1 DEF Know, WaitInv
<1> QED
  BY <1>1, <1>2, <1>11, <1>12, <1>19, BotLine

\* 315 and 366.
LEMMA EndStep ==
  ASSUME TypeInv, SrvInv, ListInv, NEW h, Good(h), NEW cmd \in {"315", "366"},
         (cmd = "315" /\ On315) \/ (cmd = "366" /\ On366)
  PROVE  IInv'
<1>1. Line(cmd) /\ srvVars' = srvVars
  BY DEF On315, On366
<1>2. PICK l, v, w : v = h[0] /\ w = h[1] /\ l[1] = cmd /\ Handled(l, v, w)
  BY <1>1, HandledFacts
<1>3. /\ nick = v.nick /\ ~waiting
      /\ In(v) => joined /\ \A n \in DOMAIN v.mem : n \in DOMAIN chan_users \/ n \in late
      /\ ~everLate => late = {} /\ (joined => In(v))
      /\ ~everLate /\ In(v) =>
           /\ \A n \in DOMAIN chan_users : n \in DOMAIN v.mem \/ Quitting(n)
           /\ \A n \in DOMAIN v.mem : /\ n \in DOMAIN chan_users
                                      /\ Right(Namesx, chan_users[n], v.mem[n])
  BY <1>2, Plain DEF ListCmds
<1>4. w = v
  BY <1>2 DEF Handled, Legal
<1>5. /\ nick' = nick /\ joined' = joined /\ chan_users' = chan_users
      /\ late' = late /\ everLate' = everLate
      /\ waiting' = waiting /\ quits' = quits
      /\ pause_irc_main_thread_on' = pause_irc_main_thread_on
      /\ Namesx' = Namesx
  BY <1>1 DEF On315, On366, quitVars, srvVars, Namesx
<1>6. /\ cmd = "315" => /\ who_receiving' = (who_receiving /\ Namesx)
                        /\ names_receiving' = names_receiving
                        /\ reqs' = IF Uhnames /\ ~Namesx THEN Append(reqs, "NAMES") ELSE reqs
      /\ cmd = "366" => /\ who_receiving' = who_receiving /\ names_receiving' = FALSE
                        /\ reqs' = reqs
  BY DEF On315, On366
<1>7. reqs' = reqs \/ reqs' = Append(reqs, "NAMES")
  BY <1>6
<1>8. reqs' \in Seq({"WHO", "NAMES"})
  <2>1. reqs \in Seq({"WHO", "NAMES"}) /\ Append(reqs, "NAMES") \in Seq({"WHO", "NAMES"})
    BY BotFacts, AppendProperties
  <2> QED
    BY <1>7, <2>1
<1>9. who_receiving' \in BOOLEAN /\ names_receiving' \in BOOLEAN
  BY <1>6, BotFacts
<1>10. BotKeeps
  BY <1>1, <1>5, <1>8, <1>9, BotFacts, SrvSame DEF BotKeeps
<1>11. Flags(cmd)
  <2>1. \/ reqs' = reqs
        \/ \E r \in {"WHO", "NAMES"} : reqs' = Append(reqs, r) /\ (Namesx => r # "WHO")
    BY <1>7
  <2> QED
    BY <1>6, <2>1 DEF Flags
<1>12. KnowLate(w)'
  BY <1>3, <1>4, <1>5 DEF KnowLate, Known
<1>13. KnowExact(w)'
  <2>1. \A x : Quitting(x)' <=> Quitting(x)
    BY <1>5 DEF Quitting
  <2> QED
    BY <1>3, <1>4, <1>5, <2>1 DEF KnowExact, Exact
<1>14. Know(w)'
  BY <1>3, <1>4, <1>5, <1>12, <1>13 DEF Know, WaitInv
<1> QED
  BY <1>1, <1>2, <1>10, <1>11, <1>14, BotLine

\* A line of a list; base is what is kept of the list the bot has.
LEMMA ItemStep ==
  ASSUME TypeInv, SrvInv, ListInv, NEW h, Good(h), NEW cmd \in ListCmds, Line(cmd),
         srvVars' = srvVars, UNCHANGED <<reqs, nick, joined, quitVars, everLate>>,
         late' = late \ {Who}, NEW base \in {chan_users, NoUsers},
         chan_users' = With(base, Who, Head(wire)[3]),
         base = NoUsers /\ base # chan_users =>
           (cmd = "352" /\ ~who_receiving) \/ (cmd = "353" /\ ~names_receiving),
         cmd = "352" => who_receiving' = TRUE /\ names_receiving' = names_receiving,
         cmd = "353" => names_receiving' = TRUE /\ who_receiving' = who_receiving
  PROVE  IInv'
<1>2. PICK l, v, w :
        v = h[0] /\ w = h[1] /\ l[1] = cmd /\ Handled(l, v, w) /\ NewList(l, w)
  BY HandledFacts
<1>3. nick = v.nick /\ ~waiting /\ KnowLate(v) /\ KnowExact(v)
  BY <1>2 DEF Handled
<1>4. /\ v.nick \in Nicks /\ v.mem \in Users /\ w.nick \in Nicks /\ w.mem \in Users
      /\ l[2] \in Nicks /\ l[3] \in SUBSET Modes
  BY <1>2, HandledTypes DEF ListCmds
<1>5. PICK n, ms : n = l[2] /\ n = Who /\ ms = l[3] /\ ms = Head(wire)[3]
  BY <1>2 DEF Handled, Who
<1>6. /\ waiting' = waiting /\ quits' = quits /\ everLate' = everLate /\ nick' = nick
      /\ pause_irc_main_thread_on' = pause_irc_main_thread_on
      /\ Namesx' = Namesx /\ reqs' = reqs /\ joined' = joined
      /\ late' = late \ {n}
  BY <1>5 DEF quitVars, srvVars, Namesx
<1>7. base \in Users /\ n \in Nicks /\ ms \in SUBSET Modes
  BY <1>4, <1>5, BotFacts, NoUsersFacts
<1>8. /\ chan_users' \in Users /\ DOMAIN chan_users' = DOMAIN base \cup {n}
      /\ chan_users'[n] = ms
      /\ \A x \in DOMAIN base : x # n => chan_users'[x] = base[x]
  <2>1. Sets(chan_users', base, n, ms)
    BY <1>5, <1>7, WithSets
  <2> QED
    BY <2>1 DEF Sets
<1>9. w = v /\ (In(v) => n \in DOMAIN v.mem /\ ms = ShownAs(Namesx, v.mem[n]))
  <2>1. LegalItem(Namesx, v, l, w)
    BY <1>2 DEF Handled, Legal
  <2> QED
    BY <1>5, <2>1 DEF LegalItem
<1>10. \A x : InRun(wire, 1, x) => x = n \/ InRun(wire, 1, x)'
  <2>1. \A x : InRun(wire, 1, x) => l[2] = x \/ InRun(wire', 1, x)
    BY <1>2 DEF Handled
  <2> QED
    BY <1>5, <2>1 DEF InRun
<1>11. base = chan_users \/ (base = NoUsers /\ \A x \in DOMAIN v.mem : InRun(wire, 1, x))
  <2>1. CASE base = chan_users
    BY <2>1
  <2>2. CASE base # chan_users
    <3>1. base = NoUsers
      BY <2>2
    <3>2. (l[1] = "352" /\ ~who_receiving) \/ (l[1] = "353" /\ ~names_receiving)
      BY <1>2, <2>2, <3>1
    <3>3. \A x \in DOMAIN w.mem : InRun(wire, 1, x)
      BY <1>2, <3>2 DEF NewList
    <3> QED
      BY <1>9, <3>1, <3>3
  <2> QED
    BY <2>1, <2>2
<1>12. BotKeeps
  <2>1. who_receiving' \in BOOLEAN /\ names_receiving' \in BOOLEAN
    BY BotFacts DEF ListCmds
  <2> QED
    BY <1>6, <1>8, <2>1, BotFacts, SrvSame DEF BotKeeps
<1>13. Flags(cmd)
  BY <1>6 DEF Flags, ListCmds
<1>14. KnowLate(w)'
  <2>1. SUFFICES ASSUME In(v), NEW x \in DOMAIN v.mem PROVE Known(x)'
    BY <1>3, <1>6, <1>9 DEF KnowLate
  <2>2. Known(x)
    BY <1>3, <2>1 DEF KnowLate
  <2>3. CASE x = n
    BY <1>8, <2>3 DEF Known
  <2>4. CASE x # n
    <3>1. CASE InRun(wire, 1, x)
      BY <1>10, <2>4, <3>1 DEF Known
    <3>2. CASE ~InRun(wire, 1, x)
      <4>1. base = chan_users
        BY <1>11, <2>1, <3>2
      <4> QED
        BY <1>6, <1>8, <2>2, <2>4, <3>2, <4>1 DEF Known
    <3> QED
      BY <3>1, <3>2
  <2> QED
    BY <2>3, <2>4
<1>15. KnowExact(w)'
  <2>1. SUFFICES ASSUME ~everLate
                 PROVE  /\ late' = {} /\ (joined' => In(v))
                        /\ In(v) =>
                             /\ \A x \in DOMAIN chan_users' : x \in DOMAIN v.mem \/ Quitting(x)
                             /\ \A x \in DOMAIN v.mem : Exact(v, x)'
    <3>1. \A x : Quitting(x)' <=> Quitting(x)
      BY <1>6 DEF Quitting
    <3> QED
      BY <1>6, <1>9, <3>1 DEF KnowExact
  <2>2. /\ late = {} /\ (joined => In(v))
        /\ In(v) => /\ \A x \in DOMAIN chan_users : x \in DOMAIN v.mem \/ Quitting(x)
                    /\ \A x \in DOMAIN v.mem : Exact(v, x)
    BY <1>3, <2>1 DEF KnowExact
  <2>3. ASSUME In(v)
        PROVE  \A x \in DOMAIN chan_users' : x \in DOMAIN v.mem \/ Quitting(x)
    <3>1. DOMAIN base \subseteq DOMAIN chan_users
      BY <1>11, NoUsersFacts
    <3> QED
      BY <1>8, <1>9, <2>2, <2>3, <3>1
  <2>4. ASSUME In(v), NEW x \in DOMAIN v.mem PROVE Exact(v, x)'
    <3>1. CASE x = n
      <4>1. Right(Namesx, ms, v.mem[n])
        BY <1>9, <2>4 DEF Right, ShownAs
      <4> QED
        BY <1>6, <1>8, <3>1, <4>1 DEF Exact
    <3>2. CASE x # n
      <4>1. CASE InRun(wire, 1, x)
        BY <1>10, <3>2, <4>1 DEF Exact
      <4>2. CASE ~InRun(wire, 1, x)
        <5>1. base = chan_users
          BY <1>11, <2>4, <4>2
        <5>2. x \in DOMAIN chan_users /\ Right(Namesx, chan_users[x], v.mem[x])
          BY <2>2, <2>4, <4>2 DEF Exact
        <5> QED
          BY <1>6, <1>8, <3>2, <5>1, <5>2 DEF Exact
      <4> QED
        BY <4>1, <4>2
    <3> QED
      BY <3>1, <3>2
  <2> QED
    BY <1>6, <2>2, <2>3, <2>4
<1>16. Know(w)'
  BY <1>3, <1>6, <1>9, <1>14, <1>15 DEF Know, WaitInv
<1> QED
  BY <1>2, <1>12, <1>13, <1>16, BotLine

LEMMA WhoStep ==
  ASSUME TypeInv, SrvInv, ListInv, NEW h, Good(h), On352
  PROVE  IInv'
<1>1. Line("352") /\ srvVars' = srvVars
  BY DEF On352
<1>2. PICK l, v, w : v = h[0] /\ w = h[1] /\ l[1] = "352" /\ Handled(l, v, w)
  BY <1>1, HandledFacts
<1>3. ~Namesx
  BY <1>2 DEF Handled
<1>4. PICK base : base = IF who_receiving THEN chan_users ELSE NoUsers
  OBVIOUS
<1>5. /\ who_receiving' = TRUE /\ chan_users' = With(base, Who, Head(wire)[3])
      /\ late' = late \ {Who} /\ names_receiving' = names_receiving
      /\ UNCHANGED <<reqs, nick, joined, quitVars, everLate>>
  BY <1>3, <1>4 DEF On352, Added
<1>6. /\ base \in {chan_users, NoUsers}
      /\ base = NoUsers /\ base # chan_users =>
           ("352" = "352" /\ ~who_receiving) \/ ("352" = "353" /\ ~names_receiving)
  BY <1>4
<1>7. "352" \in ListCmds
      /\ ("352" = "352" => who_receiving' = TRUE /\ names_receiving' = names_receiving)
      /\ ("352" = "353" => names_receiving' = TRUE /\ who_receiving' = who_receiving)
  BY <1>5 DEF ListCmds
<1> QED
  BY <1>1, <1>5, <1>6, <1>7, ItemStep

LEMMA NamesStep ==
  ASSUME TypeInv, SrvInv, ListInv, NEW h, Good(h), On353
  PROVE  IInv'
<1>1. Line("353") /\ srvVars' = srvVars
  BY DEF On353
<1>2. PICK l, v, w : v = h[0] /\ w = h[1] /\ l[1] = "353" /\ Handled(l, v, w)
  BY <1>1, HandledFacts
<1>3. ~who_receiving
  BY <1>2 DEF Handled
<1>4. PICK base : base = IF Namesx /\ ~names_receiving THEN NoUsers ELSE chan_users
  OBVIOUS
<1>5. /\ names_receiving' = TRUE /\ chan_users' = With(base, Who, Head(wire)[3])
      /\ late' = late \ {Who} /\ who_receiving' = who_receiving
      /\ UNCHANGED <<reqs, nick, joined, quitVars, everLate>>
  <2>1. NamesKey(Who) = Who
    BY DEF TypeInv, NamesKey
  <2> QED
    BY <1>3, <1>4, <2>1 DEF On353, Added
<1>6. /\ base \in {chan_users, NoUsers}
      /\ base = NoUsers /\ base # chan_users =>
           ("353" = "352" /\ ~who_receiving) \/ ("353" = "353" /\ ~names_receiving)
  BY <1>4
<1>7. "353" \in ListCmds
      /\ ("353" = "352" => who_receiving' = TRUE /\ names_receiving' = names_receiving)
      /\ ("353" = "353" => names_receiving' = TRUE /\ who_receiving' = who_receiving)
  BY <1>5 DEF ListCmds
<1> QED
  BY <1>1, <1>5, <1>6, <1>7, ItemStep

\* Steps that handle no line: the server is not concerned, nor the wire.
LEMMA NoLine ==
  ASSUME TypeInv, SrvInv, ListInv, NEW h, Good(h), srvVars' = srvVars,
         UNCHANGED <<wire, reqs, who_receiving, names_receiving>>, BotKeeps, Know(h[0])'
  PROVE  IInv'
<1>1. /\ Hist(Namesx, who_receiving, names_receiving, wire, h) /\ JoinListed(wire, h)
      /\ h[Len(wire)] = Now
  BY DEF Good
<1>2. /\ Namesx' = Namesx /\ members' = members /\ online' = online /\ srvnick' = srvnick
      /\ Now' = Now
  BY DEF srvVars, Namesx, Now, View
<1>3. Good(h)'
  <2>1. /\ Hist(Namesx, who_receiving, names_receiving, wire, h)' /\ JoinListed(wire, h)'
        /\ (h[Len(wire)] = Now)'
    BY <1>1, <1>2
  <2> QED
    BY <2>1 DEF Good
<1>4. TypeInv'
  <2>1. wire' \in Seq(Msgs)
    BY DEF TypeInv
  <2> QED
    BY <2>1, BotType
<1>5. SrvInv' /\ ListInv'
  BY <1>2 DEF SrvInv, ListInv
<1> QED
  BY <1>3, <1>4, <1>5 DEF IInv

LEMMA QuitWaitedStep ==
  ASSUME TypeInv, SrvInv, ListInv, NEW h, Good(h), QuitWaited
  PROVE  IInv'
<1>1. /\ waiting' = FALSE /\ pause_irc_main_thread_on' = FALSE
      /\ srvVars' = srvVars /\ wire' = wire /\ reqs' = reqs /\ quits' = quits
      /\ late' = late /\ everLate' = everLate
      /\ nick' = nick /\ joined' = joined /\ chan_users' = chan_users
      /\ who_receiving' = who_receiving /\ names_receiving' = names_receiving
      /\ Namesx' = Namesx
  BY DEF QuitWaited, botVars, srvVars, Namesx
<1>2. PICK v : v = h[0]
  OBVIOUS
<1>3. nick = v.nick /\ KnowLate(v) /\ KnowExact(v)
  BY <1>2 DEF Good, Know
<1>4. BotKeeps
  BY <1>1, BotFacts, SrvSame DEF BotKeeps
<1>5. KnowLate(v)' /\ KnowExact(v)'
  <2>1. \A x : (Quitting(x)' <=> Quitting(x)) /\ (Exact(v, x)' <=> Exact(v, x))
               /\ (Known(x)' <=> Known(x))
    BY <1>1 DEF Quitting, Exact, Known
  <2> QED
    BY <1>1, <1>3, <2>1 DEF KnowLate, KnowExact
<1>6. Know(v)'
  BY <1>1, <1>3, <1>5 DEF Know, WaitInv
<1> QED
  BY <1>1, <1>2, <1>4, <1>6, NoLine

\* A sequence without its i-th element.
LEMMA RemoveAtFacts ==
  ASSUME NEW S, NEW s \in Seq(S), NEW i \in 1..Len(s)
  PROVE  /\ RemoveAt(s, i) \in Seq(S)
         /\ \A j \in 1..Len(s) : j # i => \E k \in 1..Len(RemoveAt(s, i)) : RemoveAt(s, i)[k] = s[j]
<1> DEFINE a == SubSeq(s, 1, i - 1)
           b == SubSeq(s, i + 1, Len(s))
           r == a \o b
<1>1. RemoveAt(s, i) = r
  BY DEF RemoveAt
<1>2. Len(s) \in Nat /\ i \in Nat /\ 1 <= i /\ i <= Len(s)
  OBVIOUS
<1>3. /\ a \in Seq(S) /\ Len(a) = i - 1 /\ \A j \in 1..(i - 1) : a[j] = s[j]
  <2>1. \A j \in 1..(i - 1) : s[j] \in S
    BY <1>2
  <2> QED
    BY <1>2, <2>1
<1>4. /\ b \in Seq(S) /\ Len(b) = Len(s) - i
      /\ \A j \in 1..(Len(s) - i) : b[j] = s[i + j]
  <2>1. \A j \in (i + 1)..Len(s) : s[j] \in S
    BY <1>2
  <2> QED
    BY <1>2, <2>1
<1> HIDE DEF a, b
<1>5. /\ r \in Seq(S) /\ Len(r) = Len(a) + Len(b)
      /\ \A j \in 1..Len(a) + Len(b) : r[j] = IF j <= Len(a) THEN a[j] ELSE b[j - Len(a)]
  BY <1>3, <1>4, ConcatProperties
<1> HIDE DEF r
<1>6. ASSUME NEW j \in 1..Len(s), j # i PROVE \E k \in 1..Len(r) : r[k] = s[j]
  <2>1. CASE j < i
    <3>1. j \in 1..(i - 1) /\ j \in 1..Len(a) + Len(b) /\ j <= Len(a) /\ j \in 1..Len(r)
      BY <1>2, <1>3, <1>4, <1>5, <2>1
    <3> QED
      BY <1>3, <1>5, <3>1
  <2>2. CASE j > i
    <3> DEFINE k == j - 1
    <3>1. /\ k \in 1..Len(a) + Len(b) /\ k \in 1..Len(r) /\ ~(k <= Len(a))
          /\ k - Len(a) = j - i /\ j - i \in 1..(Len(s) - i) /\ i + (j - i) = j
      BY <1>2, <1>3, <1>4, <1>5, <2>2
    <3> HIDE DEF k
    <3>2. r[k] = b[j - i]
      BY <1>5, <3>1
    <3>3. b[j - i] = s[j]
      BY <1>4, <3>1
    <3> QED
      BY <3>1, <3>2, <3>3
  <2> QED
    BY <1>2, <1>6, <2>1, <2>2
<1> QED
  BY <1>1, <1>5, <1>6

LEMMA QuitDoneStep ==
  ASSUME TypeInv, SrvInv, ListInv, NEW h, Good(h), NEW i \in 1..MaxOps, QuitDone(i)
  PROVE  IInv'
<1>1. PICK n, has, inTime :
        /\ n = quits[i] /\ has = (joined /\ n \in DOMAIN chan_users)
        /\ inTime = (waiting /\ pause_irc_main_thread_on /\ i = Len(quits))
  OBVIOUS
<1>2. /\ i \in DOMAIN quits /\ quits' = RemoveAt(quits, i)
      /\ chan_users' = IF has THEN Without(chan_users, n) ELSE chan_users
      /\ late' = IF has /\ ~inTime THEN late \cup {n} ELSE late
      /\ everLate' = (everLate \/ (has /\ ~inTime))
      /\ pause_irc_main_thread_on' = FALSE
      /\ UNCHANGED <<srvVars, wire, reqs, nick, joined, who_receiving, names_receiving, waiting>>
  BY <1>1 DEF QuitDone
<1>3. PICK v : v = h[0]
  OBVIOUS
<1>4. nick = v.nick /\ KnowLate(v) /\ KnowExact(v) /\ WaitInv(v)
  BY <1>3 DEF Good, Know
<1>5. Namesx' = Namesx
  BY <1>2 DEF srvVars, Namesx
<1>6. /\ i \in 1..Len(quits) /\ n \in Nicks /\ quits' \in Seq(Nicks)
      /\ \A j \in 1..Len(quits) : j # i => \E k \in 1..Len(quits') : quits'[k] = quits[j]
  <2>1. quits \in Seq(Nicks)
    BY BotFacts
  <2>2. i \in 1..Len(quits)
    BY <1>2, <2>1
  <2>3. n \in Nicks
    BY <1>1, <2>1, <2>2
  <2> QED
    BY <1>2, <2>1, <2>2, <2>3, RemoveAtFacts
<1>7. \A x : Quitting(x) => x = n \/ Quitting(x)'
  BY <1>1, <1>6 DEF Quitting
<1>8. /\ chan_users' \in Users
      /\ has => /\ DOMAIN chan_users' = DOMAIN chan_users \ {n}
                /\ \A x \in DOMAIN chan_users : x # n => chan_users'[x] = chan_users[x]
      /\ ~has => chan_users' = chan_users
  <2>1. Drops(Without(chan_users, n), chan_users, n)
    BY BotFacts, WithoutDrops
  <2> QED
    BY <1>2, <2>1, BotFacts DEF Drops
<1>9. late' \subseteq Nicks /\ everLate' \in BOOLEAN
  BY <1>1, <1>2, <1>6, BotFacts
<1>10. BotKeeps
  BY <1>2, <1>6, <1>8, <1>9, BotFacts, SrvSame DEF BotKeeps
\* A deletion in time is that of a user who is not a member any more.
<1>11. has /\ inTime => n \notin DOMAIN v.mem
  BY <1>1, <1>4 DEF WaitInv
<1>12. \A x : InRun(wire, 1, x)' <=> InRun(wire, 1, x)
  BY <1>2
<1>13. KnowLate(v)'
  <2>1. SUFFICES ASSUME In(v) PROVE joined' /\ \A x \in DOMAIN v.mem : Known(x)'
    BY DEF KnowLate
  <2>2. joined' /\ \A x \in DOMAIN v.mem : Known(x)
    BY <1>2, <1>4, <2>1 DEF KnowLate
  <2>3. ASSUME NEW x \in DOMAIN v.mem PROVE Known(x)'
    <3>1. CASE x # n
      BY <1>2, <1>8, <1>12, <2>2, <3>1 DEF Known
    <3>2. CASE x = n /\ has
      <4>1. ~inTime
        BY <1>11, <2>3, <3>2
      <4> QED
        BY <1>2, <3>2, <4>1 DEF Known
    <3>3. CASE ~has
      BY <1>2, <1>8, <1>12, <2>2, <3>3 DEF Known
    <3> QED
      BY <3>1, <3>2, <3>3
  <2> QED
    BY <2>2, <2>3
<1>14. KnowExact(v)'
  <2>1. SUFFICES ASSUME ~everLate'
                 PROVE  /\ late' = {} /\ (joined' => In(v))
                        /\ In(v) =>
                             /\ \A x \in DOMAIN chan_users' : x \in DOMAIN v.mem \/ Quitting(x)'
                             /\ \A x \in DOMAIN v.mem : Exact(v, x)'
    BY DEF KnowExact
  <2>2. ~everLate /\ ~(has /\ ~inTime)
    BY <1>2, <2>1
  <2>3. /\ late = {} /\ (joined => In(v))
        /\ In(v) => /\ \A x \in DOMAIN chan_users : x \in DOMAIN v.mem \/ Quitting(x)
                    /\ \A x \in DOMAIN v.mem : Exact(v, x)
    BY <1>4, <2>2 DEF KnowExact
  <2>4. ASSUME In(v), NEW x \in DOMAIN chan_users' PROVE x \in DOMAIN v.mem \/ Quitting(x)'
    <3>1. joined
      BY <1>4, <2>4 DEF KnowLate
    <3>2. x # n /\ x \in DOMAIN chan_users
      BY <1>1, <1>8, <2>4, <3>1
    <3> QED
      BY <1>7, <2>3, <2>4, <3>2
  <2>5. ASSUME In(v), NEW x \in DOMAIN v.mem PROVE Exact(v, x)'
    <3>1. Exact(v, x)
      BY <2>3, <2>5
    <3>2. CASE has
      <4>1. x # n
        BY <1>11, <2>2, <2>5, <3>2
      <4> QED
        BY <1>5, <1>8, <1>12, <3>1, <3>2, <4>1 DEF Exact
    <3>3. CASE ~has
      BY <1>5, <1>8, <1>12, <3>1, <3>3 DEF Exact
    <3> QED
      BY <3>2, <3>3
  <2> QED
    BY <1>2, <2>2, <2>3, <2>4, <2>5
<1>15. Know(v)'
  BY <1>2, <1>4, <1>13, <1>14 DEF Know, WaitInv
<1> QED
  BY <1>2, <1>3, <1>10, <1>15, NoLine

LEMMA ReconnectStep ==
  ASSUME TypeInv, SrvInv, ListInv, Reconnect
  PROVE  IInv'
<1>1. /\ ~waiting /\ FirstNick \notin online
      /\ members' = Without(members, srvnick)
      /\ srvnick' = FirstNick /\ nick' = FirstNick
      /\ wire' = <<>> /\ reqs' = <<>> /\ late' = {}
      /\ joined' = FALSE /\ chan_users' = NoUsers
      /\ who_receiving' = FALSE /\ names_receiving' = FALSE
      /\ online' = online /\ srvinfo' = srvinfo /\ everLate' = everLate
      /\ waiting' = waiting /\ quits' = quits
      /\ pause_irc_main_thread_on' = pause_irc_main_thread_on
  BY DEF Reconnect, quitVars
<1>2. members \in Users /\ online \subseteq Nicks /\ FirstNick \in Nicks
  BY ChannelAssumption DEF TypeInv, TypeOK
<1>3. members' \in Users /\ DOMAIN members' = DOMAIN members \ {srvnick}
  BY <1>1, <1>2, WithoutFacts
<1>4. BotKeeps
  <2>1. reqs' \in Seq({"WHO", "NAMES"}) /\ srvnick' \in Nicks \ online
    BY <1>1, <1>2
  <2> QED
    BY <1>1, <1>2, <1>3, <2>1, BotFacts, NoUsersFacts DEF BotKeeps
<1>5. wire' \in Seq(Msgs) /\ Len(wire') = 0
  BY <1>1
<1>6. TypeInv'
  BY <1>4, <1>5, BotType
<1>7. SrvInv' /\ FirstNick \notin DOMAIN members'
  BY <1>1, <1>3 DEF SrvInv
<1>8. ListInv'
  BY <1>1 DEF ListInv
<1>9. PICK v, h : v = Now' /\ h = [j \in 0..0 |-> v]
  OBVIOUS
<1>10. v \in Views /\ v.nick = FirstNick /\ ~In(v) /\ v.mem = NoUsers
  <2>1. v = View(FirstNick, members')
    BY <1>1, <1>9 DEF Now, View
  <2> QED
    BY <1>2, <1>3, <1>7, <2>1, ViewOf
<1>11. h \in [0..0 -> Views] /\ h[0] = v
  BY <1>9, <1>10
<1>12. Know(v)'
  BY <1>1, <1>10 DEF Know, KnowLate, KnowExact, WaitInv
<1>13. Good(h)'
  <2>1. \A i \in 1..Len(wire') : FALSE
    BY <1>5
  <2>2. Hist(Namesx', who_receiving', names_receiving', wire', h)
    BY <1>5, <1>11, <2>1 DEF Hist, Lists, Full
  <2>3. JoinListed(wire', h)
    BY <2>1 DEF JoinListed
  <2>4. h[Len(wire')] = Now' /\ Know(h[0])'
    BY <1>5, <1>9, <1>11, <1>12
  <2> QED
    BY <2>2, <2>3, <2>4 DEF Good
<1> QED
  BY <1>6, <1>7, <1>8, <1>13 DEF IInv
-----------------------------------------------------------------------------
LEMMA Start ==
  ASSUME Init, BareKeys
  PROVE  IInv
<1>1. PICK S \in SUBSET (Nicks \ {FirstNick}) : members = [n \in S |-> {}]
  BY DEF Init
<1>2. /\ online = Nicks \ {FirstNick} /\ srvnick = FirstNick
      /\ wire = <<>> /\ reqs = <<>>
      /\ srvinfo \in [namesx_on : BOOLEAN, uhnames_on : BOOLEAN]
      /\ nick = FirstNick /\ joined = FALSE /\ chan_users = NoUsers
      /\ who_receiving = FALSE /\ names_receiving = FALSE
      /\ waiting = FALSE /\ pause_irc_main_thread_on = FALSE /\ quits = <<>>
      /\ late = {} /\ everLate = FALSE
  BY DEF Init
<1>3. members \in Users /\ DOMAIN members = S /\ FirstNick \notin S /\ FirstNick \in Nicks
  <2>1. S \in SUBSET Nicks /\ members \in [S -> SUBSET Modes]
    BY <1>1
  <2> QED
    BY <1>1, <2>1, UsersOf, ChannelAssumption
<1>4. TypeInv
  <2>1. ModeMap(members, Nicks) /\ ModeMap(chan_users, Keys)
    <3>1. ModeMap(members, Nicks) /\ ModeMap(chan_users, Nicks)
      BY <1>2, <1>3, UsersModes, NoUsersFacts
    <3> QED
      BY <3>1 DEF ModeMap, Keys
  <2>2. quits \in Seq(Nicks) /\ reqs \in Seq({"WHO", "NAMES"}) /\ wire \in Seq(Msgs)
    BY <1>2
  <2>3. /\ online \subseteq Nicks /\ srvnick \in Nicks \ online /\ nick \in Nicks
        /\ late \subseteq Nicks /\ chan_users \in Users
    BY <1>2, <1>3, NoUsersFacts
  <2> QED
    BY <1>2, <1>3, <2>1, <2>2, <2>3 DEF TypeInv, TypeOK
<1>5. SrvInv
  BY <1>2, <1>3 DEF SrvInv
<1>6. ListInv
  <2>1. \A i \in 1..Len(reqs) : FALSE
    BY <1>2
  <2> QED
    BY <1>2, <2>1 DEF ListInv
<1>7. PICK v, h : v = Now /\ h = [j \in 0..0 |-> v]
  OBVIOUS
<1>8. v \in Views /\ v.nick = FirstNick /\ ~In(v)
  <2>1. v = View(FirstNick, members)
    BY <1>2, <1>7 DEF Now
  <2> QED
    BY <1>3, <2>1, ViewOf
<1>9. h \in [0..0 -> Views] /\ h[0] = v
  BY <1>7, <1>8
<1>10. Know(v)
  BY <1>2, <1>8 DEF Know, KnowLate, KnowExact, WaitInv
<1>11. Good(h)
  <2>1. Len(wire) = 0 /\ \A i \in 1..Len(wire) : FALSE
    BY <1>2
  <2>2. Hist(Namesx, who_receiving, names_receiving, wire, h)
    BY <1>9, <2>1 DEF Hist, Lists, Full
  <2>3. JoinListed(wire, h)
    BY <2>1 DEF JoinListed
  <2>4. h[Len(wire)] = Now /\ Know(h[0])
    BY <1>7, <1>9, <1>10, <2>1
  <2> QED
    BY <2>2, <2>3, <2>4 DEF Good
<1> QED
  BY <1>4, <1>5, <1>6, <1>11 DEF IInv

LEMMA Steps ==
  ASSUME IInv, [Next]_vars
  PROVE  IInv'
<1>1. TypeInv /\ SrvInv /\ ListInv
  BY DEF IInv
<1>2. PICK h : Good(h)
  BY DEF IInv
<1>3. CASE Server
  <2>1. CASE SrvBotJoin
    BY <1>1, <1>2, <2>1, SrvBotJoinStep
  <2>2. CASE SrvReply
    BY <1>1, <1>2, <2>2, SrvReplyStep
  <2>3. ASSUME NEW n \in Nicks, SrvJoin(n) PROVE IInv'
    BY <1>1, <1>2, <2>3, SrvJoinStep
  <2>4. ASSUME NEW n \in Nicks, SrvQuit(n) PROVE IInv'
    BY <1>1, <1>2, <2>4, SrvQuitStep
  <2>5. ASSUME NEW n \in Nicks, SrvConnect(n) PROVE IInv'
    BY <1>1, <1>2, <2>5, SrvConnectStep
  <2>6. ASSUME NEW n \in Nicks, NEW cmd \in {"PART", "KICK"}, SrvLeave(n, cmd) PROVE IInv'
    BY <1>1, <1>2, <2>6, SrvLeaveStep
  <2>7. ASSUME NEW n \in Nicks, NEW new \in Nicks, SrvNick(n, new) PROVE IInv'
    BY <1>1, <1>2, <2>7, SrvNickStep
  <2>8. ASSUME NEW n \in Nicks, NEW m \in Modes, SrvMode(n, m) PROVE IInv'
    BY <1>1, <1>2, <2>8, SrvModeStep
  <2> QED
    BY <1>3, <2>1, <2>2, <2>3, <2>4, <2>5, <2>6, <2>7, <2>8 DEF Server
<1>4. CASE Bot
  <2>1. CASE OnJoin
    BY <1>1, <1>2, <2>1, JoinStep
  <2>2. CASE OnPart
    <3>1. "PART" \in {"PART", "KICK"} /\ ("PART" = "PART" /\ OnPart)
      BY <2>2
    <3> QED
      BY <1>1, <1>2, <3>1, LeaveStep
  <2>3. CASE OnKick
    <3>1. "KICK" \in {"PART", "KICK"} /\ ("KICK" = "KICK" /\ OnKick)
      BY <2>3
    <3> QED
      BY <1>1, <1>2, <3>1, LeaveStep
  <2>4. CASE OnNick
    BY <1>1, <1>2, <2>4, NickStep
  <2>5. CASE OnMode
    BY <1>1, <1>2, <2>5, ModeStep
  <2>6. CASE OnQuit
    BY <1>1, <1>2, <2>6, QuitStep
  <2>7. CASE QuitWaited
    BY <1>1, <1>2, <2>7, QuitWaitedStep
  <2>8. CASE On352
    BY <1>1, <1>2, <2>8, WhoStep
  <2>9. CASE On315
    <3>1. "315" \in {"315", "366"} /\ ("315" = "315" /\ On315)
      BY <2>9
    <3> QED
      BY <1>1, <1>2, <3>1, EndStep
  <2>10. CASE On353
    BY <1>1, <1>2, <2>10, NamesStep
  <2>11. CASE On366
    <3>1. "366" \in {"315", "366"} /\ ("366" = "366" /\ On366)
      BY <2>11
    <3> QED
      BY <1>1, <1>2, <3>1, EndStep
  <2>12. CASE Reconnect
    BY <1>1, <2>12, ReconnectStep
  <2>13. ASSUME NEW i \in 1..MaxOps, QuitDone(i) PROVE IInv'
    BY <1>1, <1>2, <2>13, QuitDoneStep
  <2> QED
    BY <1>4, <2>1, <2>2, <2>3, <2>4, <2>5, <2>6, <2>7, <2>8, <2>9, <2>10, <2>11, <2>12,
       <2>13 DEF Bot
<1>5. CASE UNCHANGED vars
  <2>1. srvVars' = srvVars /\ UNCHANGED <<wire, reqs, who_receiving, names_receiving>>
        /\ UNCHANGED <<nick, joined, chan_users, waiting, pause_irc_main_thread_on, quits,
                       late, everLate>>
    BY <1>5 DEF vars, client, botVars, quitVars
  <2>2. BotKeeps
    BY <1>1, <2>1, BotFacts, SrvSame DEF BotKeeps
  <2>3. PICK v : v = h[0] /\ Know(v)
    BY <1>2 DEF Good
  <2>4. Namesx' = Namesx
    BY <2>1 DEF srvVars, Namesx
  <2>5. Know(v)'
    <3>1. \A x : (Quitting(x)' <=> Quitting(x)) /\ (Exact(v, x)' <=> Exact(v, x))
                 /\ (Known(x)' <=> Known(x))
      BY <2>1, <2>4 DEF Quitting, Exact, Known
    <3>2. KnowLate(v)' /\ KnowExact(v)'
      BY <2>1, <2>3, <3>1 DEF Know, KnowLate, KnowExact
    <3> QED
      BY <2>1, <2>3, <3>2 DEF Know, WaitInv
  <2> QED
    BY <1>1, <1>2, <2>1, <2>2, <2>3, <2>5, NoLine
<1> QED
  BY <1>3, <1>4, <1>5 DEF Next

\* Unless the server has UHNAMES alone, what the bot knows is what the server's view
\* was when the last line it has handled was sent, and the lines on the wire tell the
\* rest (irc::main_loop).
THEOREM Invariance == Spec /\ BareKeys => []IInv
<1>1. Init /\ BareKeys => IInv
  BY Start
<1>2. IInv /\ [Next]_vars => IInv'
  BY Steps
<1> QED
  BY <1>1, <1>2, PTL DEF Spec

-----------------------------------------------------------------------------
(***************************************************************************)
(* The types, in every configuration.  The keys of chan_users may be       *)
(* nick!user@host here.                                                    *)
(***************************************************************************)
WideInv ==
  /\ TypeOK /\ members \in Users /\ wire \in Seq(Msgs)
  /\ srvinfo \in [namesx_on : BOOLEAN, uhnames_on : BOOLEAN]

LEMMA WideServer ==
  ASSUME WideInv, SrvKeeps, wire' \in Seq(Msgs)
  PROVE  WideInv'
<1>1. ModeMap(members, Nicks)'
  <2>1. members' \in Users
    BY DEF SrvKeeps
  <2>2. DOMAIN members' \subseteq Nicks /\ \A n \in DOMAIN members' : members'[n] \in SUBSET Modes
    BY <2>1, UsersFacts
  <2> QED
    BY <2>2 DEF ModeMap
<1>2. ModeMap(chan_users, Keys)'
  BY DEF WideInv, TypeOK, SrvKeeps, client, botVars, ModeMap, Keys, BareKeys, Namesx, Uhnames
<1> QED
  BY <1>1, <1>2 DEF WideInv, TypeOK, SrvKeeps, client, botVars, quitVars

\* A line of the server is told or not.
LEMMA TellTypes ==
  ASSUME WideInv, NEW l \in Msgs, NEW told, wire' = IF told THEN Append(wire, l) ELSE wire
  PROVE  wire' \in Seq(Msgs)
<1>1. wire \in Seq(Msgs) /\ Append(wire, l) \in Seq(Msgs)
  BY AppendProperties DEF WideInv
<1> QED
  BY <1>1

LEMMA ListTypes ==
  ASSUME NEW ms \in Users
  PROVE  ListOf(ms, "352", "315") \in Seq(Msgs) /\ ListOf(ms, "353", "366") \in Seq(Msgs)
<1>1. "352" \in ListCmds /\ "353" \in ListCmds /\ EndOf("352") = "315" /\ EndOf("353") = "366"
  BY DEF ListCmds, EndOf
<1> QED
  BY <1>1, ListFacts

LEMMA ServerTypes ==
  ASSUME WideInv, Server
  PROVE  WideInv'
<1>1. /\ members \in Users /\ online \subseteq Nicks /\ srvnick \in Nicks \ online
      /\ reqs \in Seq({"WHO", "NAMES"}) /\ wire \in Seq(Msgs)
  BY DEF WideInv, TypeOK
<1>2. CASE SrvBotJoin
  <2>1. /\ members' = With(members, srvnick, {})
        /\ wire' = wire \o <<<<"JOIN", srvnick>>>> \o ListOf(members', "353", "366")
        /\ UNCHANGED <<online, srvnick, srvinfo, reqs, client>>
    BY <1>2 DEF SrvBotJoin
  <2>2. members' \in Users
    BY <1>1, <2>1, WithFacts
  <2>3. <<"JOIN", srvnick>> \in Msgs
    BY <1>1, Lines
  <2>4. <<<<"JOIN", srvnick>>>> \in Seq(Msgs)
    BY <2>3
  <2>5. wire' \in Seq(Msgs)
    BY <1>1, <2>1, <2>2, <2>4, ListTypes, ConcatProperties
  <2>6. SrvKeeps
    BY <1>1, <2>1, <2>2 DEF SrvKeeps
  <2> QED
    BY <2>5, <2>6, WideServer
<1>3. CASE SrvReply
  <2>1. /\ reqs' = Tail(reqs) /\ reqs # <<>> /\ UNCHANGED <<srvVars, client>>
        /\ wire' = wire \o IF Head(reqs) = "WHO" THEN ListOf(members, "352", "315")
                           ELSE ListOf(members, "353", "366")
    BY <1>3 DEF SrvReply
  <2>2. wire' \in Seq(Msgs)
    BY <1>1, <2>1, ListTypes, ConcatProperties
  <2>3. SrvKeeps
    BY <1>1, <2>1 DEF SrvKeeps, srvVars
  <2> QED
    BY <2>2, <2>3, WideServer
<1>4. ASSUME NEW n \in Nicks, SrvJoin(n) PROVE WideInv'
  <2>1. /\ members' = With(members, n, {}) /\ UNCHANGED <<online, srvnick, srvinfo, reqs, client>>
        /\ wire' = IF srvnick \in DOMAIN members THEN Append(wire, <<"JOIN", n>>) ELSE wire
    BY <1>4 DEF SrvJoin, Tell
  <2>2. wire' \in Seq(Msgs)
    <3>1. PICK l, told : l = <<"JOIN", n>> /\ told = (srvnick \in DOMAIN members)
      OBVIOUS
    <3>2. l \in Msgs /\ wire' = IF told THEN Append(wire, l) ELSE wire
      BY <2>1, <3>1, Lines
    <3> QED
      BY <3>2, TellTypes
  <2>3. SrvKeeps
    BY <1>1, <2>1, WithFacts DEF SrvKeeps
  <2> QED
    BY <2>2, <2>3, WideServer
<1>5. ASSUME NEW n \in Nicks, NEW cmd \in {"PART", "KICK"}, SrvLeave(n, cmd) PROVE WideInv'
  <2>1. /\ members' = Without(members, n) /\ UNCHANGED <<online, srvnick, srvinfo, reqs, client>>
        /\ wire' = IF srvnick \in DOMAIN members THEN Append(wire, <<cmd, n>>) ELSE wire
    BY <1>5 DEF SrvLeave, Tell
  <2>2. wire' \in Seq(Msgs)
    <3>1. PICK l, told : l = <<cmd, n>> /\ told = (srvnick \in DOMAIN members)
      OBVIOUS
    <3>2. l \in Msgs /\ wire' = IF told THEN Append(wire, l) ELSE wire
      BY <2>1, <3>1, Lines
    <3> QED
      BY <3>2, TellTypes
  <2>3. SrvKeeps
    BY <1>1, <2>1, WithoutFacts DEF SrvKeeps
  <2> QED
    BY <2>2, <2>3, WideServer
<1>6. ASSUME NEW n \in Nicks, SrvQuit(n) PROVE WideInv'
  <2>1. /\ online' = online \ {n} /\ members' = Without(members, n)
        /\ UNCHANGED <<srvnick, srvinfo, reqs, client>>
        /\ wire' = IF n \in DOMAIN members /\ srvnick \in DOMAIN members
                     THEN Append(wire, <<"QUIT", n>>) ELSE wire
    BY <1>6 DEF SrvQuit
  <2>2. wire' \in Seq(Msgs)
    <3>1. PICK l, told : l = <<"QUIT", n>> /\ told = (n \in DOMAIN members /\ srvnick \in DOMAIN members)
      OBVIOUS
    <3>2. l \in Msgs /\ wire' = IF told THEN Append(wire, l) ELSE wire
      BY <2>1, <3>1, Lines
    <3> QED
      BY <3>2, TellTypes
  <2>3. SrvKeeps
    BY <1>1, <2>1, WithoutFacts DEF SrvKeeps
  <2> QED
    BY <2>2, <2>3, WideServer
<1>7. ASSUME NEW n \in Nicks, SrvConnect(n) PROVE WideInv'
  <2>1. /\ online' = online \cup {n} /\ n # srvnick
        /\ UNCHANGED <<members, srvnick, srvinfo, wire, reqs, client>>
    BY <1>7 DEF SrvConnect
  <2>2. SrvKeeps
    BY <1>1, <2>1 DEF SrvKeeps
  <2> QED
    BY <1>1, <2>1, <2>2, WideServer
<1>8. ASSUME NEW n \in Nicks, NEW new \in Nicks, SrvNick(n, new) PROVE WideInv'
  <2>1. /\ new \notin online \cup {srvnick}
        /\ online' = IF n = srvnick THEN online ELSE (online \ {n}) \cup {new}
        /\ srvnick' = IF n = srvnick THEN new ELSE srvnick
        /\ members' = IF n \in DOMAIN members
                        THEN With(Without(members, n), new, members[n]) ELSE members
        /\ UNCHANGED <<srvinfo, reqs, client>>
        /\ wire' = IF n = srvnick \/ {n, srvnick} \subseteq DOMAIN members
                     THEN Append(wire, <<"NICK", n, new>>) ELSE wire
    BY <1>8 DEF SrvNick
  <2>2. wire' \in Seq(Msgs)
    <3>1. PICK l, told : l = <<"NICK", n, new>> /\ told = (n = srvnick \/ {n, srvnick} \subseteq DOMAIN members)
      OBVIOUS
    <3>2. l \in Msgs /\ wire' = IF told THEN Append(wire, l) ELSE wire
      BY <2>1, <3>1, Lines
    <3> QED
      BY <3>2, TellTypes
  <2>3. n \in DOMAIN members => members[n] \in SUBSET Modes
    BY <1>1, UsersFacts
  <2>4. Without(members, n) \in Users
    BY <1>1, WithoutFacts
  <2>5. members' \in Users
    BY <1>1, <2>1, <2>3, <2>4, WithFacts
  <2>6. online' \subseteq Nicks /\ srvnick' \in Nicks \ online'
    BY <1>1, <2>1
  <2>7. SrvKeeps
    BY <1>1, <2>1, <2>5, <2>6 DEF SrvKeeps
  <2> QED
    BY <2>2, <2>7, WideServer
<1>9. ASSUME NEW n \in Nicks, NEW m \in Modes, SrvMode(n, m) PROVE WideInv'
  <2>0. PICK give, l : give = (m \notin members[n]) /\ l = <<"MODE", n, give, m>>
    OBVIOUS
  <2>1. /\ n \in DOMAIN members /\ UNCHANGED <<online, srvnick, srvinfo, reqs, client>>
        /\ members' = [members EXCEPT ![n] = IF give THEN @ \cup {m} ELSE @ \ {m}]
        /\ wire' = IF srvnick \in DOMAIN members THEN Append(wire, l) ELSE wire
    BY <1>9, <2>0 DEF SrvMode, Tell
  <2>2. l \in Msgs
    BY <2>0, Lines
  <2>3. wire' \in Seq(Msgs)
    BY <2>1, <2>2, TellTypes
  <2>4. DOMAIN members \in SUBSET Nicks /\ \A x \in DOMAIN members : members[x] \in SUBSET Modes
    BY <1>1, UsersFacts
  <2>5. members' \in [DOMAIN members -> SUBSET Modes]
    <3>1. members \in [DOMAIN members -> SUBSET Modes]
      BY <1>1, UsersFacts
    <3>2. members[n] \cup {m} \in SUBSET Modes /\ members[n] \ {m} \in SUBSET Modes
      BY <2>1, <2>4
    <3> QED
      BY <2>1, <3>1, <3>2
  <2>6. members' \in Users
    BY <2>4, <2>5, UsersOf
  <2>7. SrvKeeps
    BY <1>1, <2>1, <2>6 DEF SrvKeeps
  <2> QED
    BY <2>3, <2>7, WideServer
<1> QED
  BY <1>2, <1>3, <1>4, <1>5, <1>6, <1>7, <1>8, <1>9 DEF Server

\* What a step of the bot keeps of the types.
WideKeeps ==
  /\ UNCHANGED <<online, srvinfo>> /\ srvnick' \in Nicks \ online /\ members' \in Users
  /\ nick' \in Nicks /\ joined' \in BOOLEAN /\ ModeMap(chan_users', Keys)
  /\ who_receiving' \in BOOLEAN /\ names_receiving' \in BOOLEAN
  /\ waiting' \in BOOLEAN /\ pause_irc_main_thread_on' \in BOOLEAN
  /\ quits' \in Seq(Nicks) /\ reqs' \in Seq({"WHO", "NAMES"})
  /\ late' \subseteq Nicks /\ wire' \in Seq(Msgs)

LEMMA WideBot ==
  ASSUME WideInv, WideKeeps
  PROVE  WideInv'
<1>1. ModeMap(members', Nicks)
  BY UsersModes DEF WideKeeps
<1>2. Keys' = Keys
  BY DEF WideKeeps, Keys, BareKeys, Namesx, Uhnames
<1>3. ModeMap(members, Nicks)' /\ ModeMap(chan_users, Keys)'
  BY <1>1, <1>2 DEF WideKeeps, ModeMap
<1> QED
  BY <1>3 DEF WideInv, TypeOK, WideKeeps

\* The list operations.
LEMMA MapWith ==
  ASSUME NEW K, NEW f, ModeMap(f, K), NEW n \in K, NEW ms \in SUBSET Modes
  PROVE  ModeMap(With(f, n, ms), K)
BY DEF ModeMap, With

LEMMA MapWithout ==
  ASSUME NEW K, NEW f, ModeMap(f, K), NEW n
  PROVE  ModeMap(Without(f, n), K)
BY DEF ModeMap, Without

LEMMA MapNone == ASSUME NEW K PROVE ModeMap(NoUsers, K)
BY DEF ModeMap, NoUsers

LEMMA WideFacts ==
  ASSUME WideInv
  PROVE  /\ nick \in Nicks /\ joined \in BOOLEAN /\ ModeMap(chan_users, Keys)
         /\ who_receiving \in BOOLEAN /\ names_receiving \in BOOLEAN
         /\ waiting \in BOOLEAN /\ pause_irc_main_thread_on \in BOOLEAN
         /\ quits \in Seq(Nicks) /\ reqs \in Seq({"WHO", "NAMES"})
         /\ late \subseteq Nicks /\ wire \in Seq(Msgs) /\ members \in Users
         /\ srvnick \in Nicks \ online
BY DEF WideInv, TypeOK

\* A line of the server and the request that may follow.
LEMMA LineTypes ==
  ASSUME WideInv, NEW cmd, Line(cmd)
  PROVE  /\ Head(wire) \in Msgs /\ Head(wire)[1] = cmd /\ wire' \in Seq(Msgs)
         /\ cmd \notin {"315", "366"} => Who \in Nicks /\ Who \in Keys
BY MsgFacts, HeadTailProperties DEF Line, Who, WideInv, Keys

LEMMA AskTypes ==
  ASSUME WideInv, NEW r \in {"WHO", "NAMES", Refresh}
  PROVE  Append(reqs, r) \in Seq({"WHO", "NAMES"})
<1>1. r \in {"WHO", "NAMES"} /\ reqs \in Seq({"WHO", "NAMES"})
  BY WideFacts DEF Refresh
<1> QED
  BY <1>1, AppendProperties

LEMMA BotTypes ==
  ASSUME WideInv, Bot
  PROVE  WideInv'
<1>0. /\ nick \in Nicks /\ joined \in BOOLEAN /\ ModeMap(chan_users, Keys)
      /\ who_receiving \in BOOLEAN /\ names_receiving \in BOOLEAN
      /\ waiting \in BOOLEAN /\ pause_irc_main_thread_on \in BOOLEAN
      /\ quits \in Seq(Nicks) /\ reqs \in Seq({"WHO", "NAMES"})
      /\ late \subseteq Nicks /\ wire \in Seq(Msgs) /\ members \in Users
      /\ srvnick \in Nicks \ online /\ ModeMap(NoUsers, Keys)
      /\ \A n : ModeMap(Without(chan_users, n), Keys)
  BY WideFacts, MapNone, MapWithout
<1>1. CASE OnJoin
  <2>1. Line("JOIN") /\ "JOIN" \notin {"315", "366"}
    BY <1>1 DEF OnJoin
  <2>2. Who \in Nicks /\ Who \in Keys /\ wire' \in Seq(Msgs)
    BY <2>1, LineTypes
  <2>3. ModeMap(Added(chan_users, Who, {}), Keys)
    BY <1>0, <2>2, MapWith DEF Added
  <2>4. Append(reqs, Refresh) \in Seq({"WHO", "NAMES"})
    BY AskTypes
  <2>5. WideKeeps
    BY <1>0, <1>1, <2>2, <2>3, <2>4 DEF WideKeeps, OnJoin, AddChan, srvVars, quitVars
  <2> QED
    BY <2>5, WideBot
<1>2. CASE OnPart
  <2>1. Line("PART") /\ "PART" \notin {"315", "366"}
    BY <1>2 DEF OnPart
  <2>2. Who \in Nicks /\ Who \in Keys /\ wire' \in Seq(Msgs)
    BY <2>1, LineTypes
  <2>3. Append(reqs, Refresh) \in Seq({"WHO", "NAMES"})
    BY AskTypes
  <2>4. WideKeeps
    BY <1>0, <1>2, <2>2, <2>3 DEF WideKeeps, OnPart, DelChan, srvVars, quitVars
  <2> QED
    BY <2>4, WideBot
<1>3. CASE OnKick
  <2>1. Line("KICK") /\ "KICK" \notin {"315", "366"}
    BY <1>3 DEF OnKick
  <2>2. Who \in Nicks /\ Who \in Keys /\ wire' \in Seq(Msgs)
    BY <2>1, LineTypes
  <2>3. Append(reqs, Refresh) \in Seq({"WHO", "NAMES"})
    BY AskTypes
  <2>4. WideKeeps
    BY <1>0, <1>3, <2>2, <2>3 DEF WideKeeps, OnKick, DelChan, srvVars, quitVars
  <2> QED
    BY <2>4, WideBot
<1>4. CASE OnNick
  <2>1. Line("NICK") /\ "NICK" \notin {"315", "366"}
    BY <1>4 DEF OnNick
  <2>2. Who \in Nicks /\ Who \in Keys /\ wire' \in Seq(Msgs)
    BY <2>1, LineTypes
  <2>3. PICK new : new = Head(wire)[3]
    OBVIOUS
  <2>4. new \in Nicks /\ new \in Keys
    BY <2>1, <2>3, LineTypes, MsgFacts DEF Keys
  <2>5. Who \in DOMAIN chan_users =>
          ModeMap(Added(Without(chan_users, Who), new, chan_users[Who]), Keys)
    <3> SUFFICES ASSUME Who \in DOMAIN chan_users
                 PROVE  ModeMap(Added(Without(chan_users, Who), new, chan_users[Who]), Keys)
      OBVIOUS
    <3>1. chan_users[Who] \in SUBSET Modes /\ ModeMap(Without(chan_users, Who), Keys)
      BY <1>0 DEF ModeMap
    <3> QED
      BY <2>4, <3>1, MapWith DEF Added
  <2>6. /\ nick' \in {nick, new} /\ late' \subseteq late \cup {new}
        /\ \/ chan_users' = chan_users
           \/ /\ Who \in DOMAIN chan_users
              /\ chan_users' = Added(Without(chan_users, Who), new, chan_users[Who])
        /\ UNCHANGED <<srvVars, reqs, joined, who_receiving, names_receiving, quitVars>>
    BY <1>4, <2>3 DEF OnNick
  <2>7. ModeMap(chan_users', Keys) /\ nick' \in Nicks /\ late' \subseteq Nicks
    BY <1>0, <2>4, <2>5, <2>6
  <2>8. WideKeeps
    BY <1>0, <2>2, <2>6, <2>7 DEF WideKeeps, srvVars, quitVars
  <2> QED
    BY <2>8, WideBot
<1>5. CASE OnMode
  <2>1. Line("MODE") /\ "MODE" \notin {"315", "366"}
    BY <1>5 DEF OnMode
  <2>2. Who \in Nicks /\ Who \in Keys /\ wire' \in Seq(Msgs)
    BY <2>1, LineTypes
  <2>3. PICK old, m, ms :
          /\ old = IF Who \in DOMAIN chan_users THEN chan_users[Who] ELSE {}
          /\ m = Head(wire)[4]
          /\ ms = IF Head(wire)[3] THEN old \cup {m} ELSE old \ {m}
    OBVIOUS
  <2>4. ms \in SUBSET Modes
    <3>1. m \in Modes
      BY <2>1, <2>3, LineTypes, MsgFacts
    <3>2. old \in SUBSET Modes
      BY <1>0, <2>3 DEF ModeMap
    <3> QED
      BY <2>3, <3>1, <3>2
  <2>5. ModeMap(With(chan_users, Who, ms), Keys)
    BY <1>0, <2>2, <2>4, MapWith
  <2>6. /\ chan_users' = With(chan_users, Who, ms) /\ late' = late \ {Who}
        /\ UNCHANGED <<srvVars, reqs, nick, joined, who_receiving, names_receiving, quitVars>>
    BY <1>5, <2>3 DEF OnMode
  <2>7. WideKeeps
    BY <1>0, <2>2, <2>5, <2>6 DEF WideKeeps, srvVars, quitVars
  <2> QED
    BY <2>7, WideBot
<1>6. CASE OnQuit
  <2>1. Line("QUIT") /\ "QUIT" \notin {"315", "366"}
    BY <1>6 DEF OnQuit
  <2>2. Who \in Nicks /\ wire' \in Seq(Msgs)
    BY <2>1, LineTypes
  <2>3. Append(quits, Who) \in Seq(Nicks)
    BY <1>0, <2>2, AppendProperties
  <2>4. WideKeeps
    BY <1>0, <1>6, <2>2, <2>3 DEF WideKeeps, OnQuit, srvVars, botVars
  <2> QED
    BY <2>4, WideBot
<1>7. CASE QuitWaited
  <2>1. WideKeeps
    BY <1>0, <1>7 DEF WideKeeps, QuitWaited, srvVars, botVars
  <2> QED
    BY <2>1, WideBot
<1>8. ASSUME Line("352") \/ Line("353"), NEW f, NEW n \in Keys, ModeMap(f, Keys)
      PROVE  ModeMap(Added(f, n, Head(wire)[3]), Keys)
  <2>1. Head(wire)[3] \in SUBSET Modes
    BY <1>8, LineTypes, MsgFacts DEF ListCmds
  <2> QED
    BY <1>8, <2>1, MapWith DEF Added
<1>9. CASE On352
  <2>1. Line("352") /\ "352" \notin {"315", "366"}
    BY <1>9 DEF On352
  <2>2. Who \in Nicks /\ Who \in Keys /\ wire' \in Seq(Msgs)
    BY <2>1, LineTypes
  <2>3. /\ ModeMap(Added(chan_users, Who, Head(wire)[3]), Keys)
        /\ ModeMap(Added(NoUsers, Who, Head(wire)[3]), Keys)
    BY <1>0, <1>8, <2>1, <2>2
  <2>4. /\ who_receiving' \in BOOLEAN /\ late' \subseteq late
        /\ \/ chan_users' = chan_users
           \/ chan_users' = Added(chan_users, Who, Head(wire)[3])
           \/ chan_users' = Added(NoUsers, Who, Head(wire)[3])
        /\ UNCHANGED <<srvVars, reqs, nick, joined, names_receiving, quitVars>>
    BY <1>0, <1>9 DEF On352
  <2>5. ModeMap(chan_users', Keys)
    BY <1>0, <2>3, <2>4
  <2>6. WideKeeps
    BY <1>0, <2>2, <2>4, <2>5 DEF WideKeeps, srvVars, quitVars
  <2> QED
    BY <2>6, WideBot
<1>10. CASE On353
  <2>1. Line("353") /\ "353" \notin {"315", "366"}
    BY <1>10 DEF On353
  <2>2. Who \in Nicks /\ wire' \in Seq(Msgs)
    BY <2>1, LineTypes
  <2>3. PICK k : k = NamesKey(Who)
    OBVIOUS
  <2>4. k \in Keys
    BY <2>2, <2>3 DEF NamesKey, Keys
  <2>5. /\ ModeMap(Added(chan_users, k, Head(wire)[3]), Keys)
        /\ ModeMap(Added(NoUsers, k, Head(wire)[3]), Keys)
    BY <1>0, <1>8, <2>1, <2>4
  <2>6. /\ names_receiving' \in BOOLEAN /\ late' \subseteq late
        /\ \/ chan_users' = chan_users
           \/ chan_users' = Added(chan_users, k, Head(wire)[3])
           \/ chan_users' = Added(NoUsers, k, Head(wire)[3])
        /\ UNCHANGED <<srvVars, reqs, nick, joined, who_receiving, quitVars>>
    BY <1>0, <1>10, <2>3 DEF On353
  <2>7. ModeMap(chan_users', Keys)
    BY <1>0, <2>5, <2>6
  <2>8. WideKeeps
    BY <1>0, <2>2, <2>6, <2>7 DEF WideKeeps, srvVars, quitVars
  <2> QED
    BY <2>8, WideBot
<1>11. CASE On315
  <2>1. Line("315")
    BY <1>11 DEF On315
  <2>2. wire' \in Seq(Msgs)
    BY <2>1, LineTypes
  <2>3. Append(reqs, "NAMES") \in Seq({"WHO", "NAMES"})
    BY AskTypes
  <2>4. Namesx \in BOOLEAN
    BY DEF WideInv, Namesx
  <2>5. who_receiving' \in BOOLEAN
    BY <1>0, <1>11, <2>4 DEF On315
  <2>6. WideKeeps
    BY <1>0, <1>11, <2>2, <2>3, <2>5 DEF WideKeeps, On315, srvVars, quitVars
  <2> QED
    BY <2>6, WideBot
<1>12. CASE On366
  <2>1. Line("366")
    BY <1>12 DEF On366
  <2>2. wire' \in Seq(Msgs)
    BY <2>1, LineTypes
  <2>3. WideKeeps
    BY <1>0, <1>12, <2>2 DEF WideKeeps, On366, srvVars, quitVars
  <2> QED
    BY <2>3, WideBot
<1>13. CASE Reconnect
  <2>1. Without(members, srvnick) \in Users
    BY <1>0, WithoutFacts
  <2>2. <<>> \in Seq(Msgs) /\ <<>> \in Seq({"WHO", "NAMES"})
    OBVIOUS
  <2>3. WideKeeps
    BY <1>0, <1>13, <2>1, <2>2, ChannelAssumption DEF WideKeeps, Reconnect, quitVars
  <2> QED
    BY <2>3, WideBot
<1>14. ASSUME NEW i \in 1..MaxOps, QuitDone(i) PROVE WideInv'
  <2>1. PICK n : n = quits[i]
    OBVIOUS
  <2>2. i \in 1..Len(quits)
    BY <1>0, <1>14 DEF QuitDone
  <2>3. n \in Nicks /\ RemoveAt(quits, i) \in Seq(Nicks)
    BY <1>0, <2>1, <2>2, RemoveAtFacts
  <2>4. /\ chan_users' \in {chan_users, Without(chan_users, n)} /\ late' \subseteq late \cup {n}
        /\ quits' = RemoveAt(quits, i) /\ pause_irc_main_thread_on' = FALSE
        /\ UNCHANGED <<srvVars, wire, reqs, nick, joined, who_receiving, names_receiving,
                       waiting>>
    BY <1>14, <2>1 DEF QuitDone
  <2>5. ModeMap(chan_users', Keys) /\ late' \subseteq Nicks
    BY <1>0, <2>3, <2>4
  <2>6. WideKeeps
    BY <1>0, <2>3, <2>4, <2>5 DEF WideKeeps, srvVars
  <2> QED
    BY <2>6, WideBot
<1> QED
  BY <1>1, <1>2, <1>3, <1>4, <1>5, <1>6, <1>7, <1>9, <1>10, <1>11, <1>12, <1>13, <1>14
     DEF Bot

\* In every configuration the variables of the server and of the bot have their types:
\* the keys of the user list are nicks or, with UHNAMES alone, nick!user@host too.
THEOREM TypeCorrect == Spec => []TypeOK
<1>1. Init => WideInv
  <2>1. SUFFICES ASSUME Init PROVE WideInv
    OBVIOUS
  <2>2. PICK S \in SUBSET (Nicks \ {FirstNick}) : members = [n \in S |-> {}]
    BY <2>1 DEF Init
  <2>3. members \in Users
    <3>1. S \in SUBSET Nicks /\ members \in [S -> SUBSET Modes]
      BY <2>2
    <3> QED
      BY <3>1, UsersOf
  <2>4. ModeMap(members, Nicks) /\ ModeMap(chan_users, Keys)
    BY <2>1, <2>3, UsersModes, MapNone DEF Init
  <2>5. wire \in Seq(Msgs) /\ quits \in Seq(Nicks) /\ reqs \in Seq({"WHO", "NAMES"})
    BY <2>1 DEF Init
  <2> QED
    BY <2>1, <2>3, <2>4, <2>5, ChannelAssumption DEF WideInv, TypeOK, Init
<1>2. WideInv /\ [Next]_vars => WideInv'
  <2>1. SUFFICES ASSUME WideInv, [Next]_vars PROVE WideInv'
    OBVIOUS
  <2>2. CASE UNCHANGED vars
    <3>1. WideKeeps
      BY <2>1, <2>2, WideFacts DEF WideKeeps, vars, srvVars, client, botVars, quitVars
    <3> QED
      BY <2>1, <3>1, WideBot
  <2> QED
    BY <2>1, <2>2, ServerTypes, BotTypes DEF Next
<1>3. WideInv => TypeOK
  BY DEF WideInv
<1> QED
  BY <1>1, <1>2, <1>3, PTL DEF Spec
-----------------------------------------------------------------------------
\* With no line left the bot compares with the server as it is.
LEMMA SettledKnow ==
  ASSUME IInv, Settled
  PROVE  Know(Now) /\ \A n : ~InRun(wire, 1, n)
<1>1. PICK h : Good(h)
  BY DEF IInv
<1>2. wire = <<>> /\ Len(wire) = 0
  BY DEF Settled
<1>3. h[0] = Now /\ Know(h[0])
  BY <1>1, <1>2 DEF Good
<1>4. \A i \in 1..Len(wire) : FALSE
  BY <1>2
<1>5. Know(Now)
  <2> DEFINE v == h[0]
  <2>1. v = Now /\ Know(v)
    BY <1>3
  <2> HIDE DEF v
  <2> QED
    BY <2>1
<1> QED
  BY <1>4, <1>5 DEF InRun

\* Unless a handler of a QUIT was late or the server has UHNAMES alone, the bot knows
\* its nick, whether it is in the channel, and who else is.
THEOREM MembersAgreed == Spec /\ BareKeys => []MembersAgree
<1>1. IInv => MembersAgree
  <2>0. ASSUME NEW A, NEW B, NEW C, A \ C \subseteq B PROVE (A \cap Nicks) \ C \subseteq B
    BY <2>0
  <2>1. SUFFICES ASSUME IInv, Settled, ~everLate
                 PROVE  /\ nick = srvnick
                        /\ joined = (srvnick \in DOMAIN members)
                        /\ joined => /\ DOMAIN members \subseteq DOMAIN chan_users
                                     /\ DOMAIN chan_users \ DOMAIN members \subseteq Range(quits)
    BY <2>0 DEF MembersAgree, InChannel
  <2>2. TypeInv
    BY <2>1 DEF IInv
  <2>3. /\ Now.nick = srvnick
        /\ In(Now) <=> srvnick \in DOMAIN members
        /\ In(Now) => Now.mem = members
    BY <2>2, NowView
  <2>4. Know(Now) /\ \A n : ~InRun(wire, 1, n)
    BY <2>1, SettledKnow
  <2>5. nick = srvnick /\ joined \in BOOLEAN
    BY <2>2, <2>3, <2>4, BotFacts DEF Know
  <2>6. joined <=> In(Now)
    BY <2>1, <2>4 DEF Know, KnowLate, KnowExact
  <2>7. joined = (srvnick \in DOMAIN members)
    BY <2>3, <2>5, <2>6
  <2>8. ASSUME joined
        PROVE  /\ DOMAIN members \subseteq DOMAIN chan_users
               /\ DOMAIN chan_users \ DOMAIN members \subseteq Range(quits)
    <3>1. /\ \A n \in DOMAIN chan_users : n \in DOMAIN members \/ Quitting(n)
          /\ \A n \in DOMAIN members : n \in DOMAIN chan_users
      BY <2>1, <2>3, <2>4, <2>6, <2>8 DEF Know, KnowExact, Exact
    <3>2. \A n : Quitting(n) => n \in Range(quits)
      <4>1. DOMAIN quits = 1..Len(quits)
        BY <2>2, BotFacts
      <4> QED
        BY <4>1 DEF Quitting, Range
    <3> QED
      BY <3>1, <3>2
  <2> QED
    BY <2>5, <2>7, <2>8
<1> QED
  BY <1>1, Invariance, PTL

\* Unless the server has UHNAMES alone, a member whom the bot does not know was deleted
\* by a late handler.
THEOREM MissingLate == Spec /\ BareKeys => []MissingOnlyLate
<1>1. IInv => MissingOnlyLate
  <2>1. SUFFICES ASSUME IInv, Settled, srvnick \in DOMAIN members
                 PROVE  DOMAIN members \ DOMAIN chan_users \subseteq late
    BY DEF MissingOnlyLate, InChannel
  <2>2. In(Now) /\ Now.mem = members
    BY <2>1, NowView DEF IInv
  <2>3. Know(Now) /\ \A n : ~InRun(wire, 1, n)
    BY <2>1, SettledKnow
  <2> QED
    BY <2>2, <2>3 DEF Know, KnowLate, Known
<1> QED
  BY <1>1, Invariance, PTL

\* Unless a handler of a QUIT was late or the server has UHNAMES alone, the bot does
\* not believe that a member has a mode he does not have.
THEOREM ModesAreSound == Spec /\ BareKeys => []ModesSound
<1>1. IInv => ModesSound
  <2>1. SUFFICES ASSUME IInv, Settled, ~everLate, srvnick \in DOMAIN members
                 PROVE  \A n \in DOMAIN members \cap DOMAIN chan_users :
                          /\ chan_users[n] \subseteq members[n]
                          /\ Namesx => chan_users[n] = members[n]
    BY DEF ModesSound, InChannel
  <2>2. /\ In(Now) <=> srvnick \in DOMAIN members
        /\ In(Now) => Now.mem = members
    BY <2>1, NowView DEF IInv
  <2>3. Know(Now) /\ \A n : ~InRun(wire, 1, n)
    BY <2>1, SettledKnow
  <2>4. In(Now)
    BY <2>1, <2>2
  <2>5. \A n \in DOMAIN members : Right(Namesx, chan_users[n], members[n])
    BY <2>1, <2>2, <2>3, <2>4 DEF Know, KnowExact, Exact
  <2> QED
    BY <2>5 DEF Right
<1> QED
  BY <1>1, Invariance, PTL
=============================================================================
