----------------------------- MODULE LineReader -----------------------------
(***************************************************************************)
(* How lines reach irc::main_loop (tcpsock.cpp): tcpsock::readline takes    *)
(* chunks from read_buffer or the socket, builds the line in linebuf, and   *)
(* puts the rest of a chunk back.  It runs in the connection's main thread; *)
(* the send thread closes the socket when a write fails, at any moment and  *)
(* without the reader's lock.  The server and the network are external.     *)
(*                                                                          *)
(* The same tcpsock object serves the connections one after the other.      *)
(* What readline returns goes on to parse_irc_line (LineParser).            *)
(***************************************************************************)
EXTENDS LineParser

CONSTANTS
  ChunkSize,     \* sizeof(buf) in readline
  MaxSize,       \* maxsize of readline
  MaxConns,      \* bound: connections made
  MaxBytes       \* bound: bytes sent on one connection

\* The code tells apart newlines, bytes that it skips ("\r" and "\0") and the
\* others; those are numbered here, to know each one again.
NL == 0
Skip == -1
Text == 1..(MaxConns * MaxBytes)
Bytes == Text \cup {NL, Skip}
ASSUME ReaderAssumption ==
  /\ ChunkSize \in Nat \ {0} /\ MaxSize \in Nat
  /\ MaxConns \in Nat /\ MaxBytes \in Nat

VARIABLES
  \* tcpsock: is status CONNECTED, and the two buffers
  connected, read_buffer, linebuf,
  \* the main thread: "main" between calls of readline, "read" before a
  \* timed_read_nolock, "got" with a chunk in buf, "down" after main_loop,
  \* "off" after irc::disconnect
  pc, buf,
  \* the network: bytes that arrived and are not read, and the end of them
  net, eof,
  \* history: connections made; what linebuf and read_buffer held at the last
  \* connect; bytes arrived since then, lines readline returned; what ended this
  \* connection and the one before; did a writer close the socket under a chunk
  conns, oldLine, oldBuf, arrived, lines, closedBy, lastClose, raced

sockVars == <<connected, read_buffer, linebuf>>
netVars == <<net, eof>>
connVars == <<conns, oldLine, oldBuf, lastClose>>
vars == <<sockVars, pc, buf, netVars, connVars, arrived, lines, closedBy, raced>>

Init ==
  /\ connected = FALSE /\ read_buffer = <<>> /\ linebuf = <<>>
  /\ pc = "off" /\ buf = <<>> /\ net = <<>> /\ eof = FALSE
  /\ conns = 0 /\ oldLine = <<>> /\ oldBuf = <<>> /\ arrived = <<>> /\ lines = <<>>
  /\ closedBy = "none" /\ lastClose = "none" /\ raced = FALSE
-----------------------------------------------------------------------------
(***************************************************************************)
(* The network.                                                            *)
(***************************************************************************)
Arrive(b) ==
  /\ connected /\ ~eof /\ Len(arrived) < MaxBytes
  /\ b \in Text => b = (conns - 1) * MaxBytes + Len(arrived) + 1
  /\ net' = Append(net, b) /\ arrived' = Append(arrived, b)
  /\ UNCHANGED <<sockVars, pc, buf, eof, connVars, lines, closedBy, raced>>

\* The server closes the connection, or resets it: what is not read is gone.
PeerClose ==
  /\ connected /\ ~eof
  /\ eof' = TRUE
  /\ \/ UNCHANGED <<net, arrived>>
     \/ /\ net # <<>> /\ net' = <<>>
        /\ arrived' = SubSeq(arrived, 1, Len(arrived) - Len(net))
  /\ UNCHANGED <<sockVars, pc, buf, connVars, lines, closedBy, raced>>
-----------------------------------------------------------------------------
(***************************************************************************)
(* tcpsock                                                                  *)
(***************************************************************************)
\* connect_sock
Connect ==
  /\ pc = "off" /\ conns < MaxConns
  /\ conns' = conns + 1 /\ connected' = TRUE /\ pc' = "main"
  /\ oldLine' = linebuf /\ oldBuf' = read_buffer
  /\ net' = <<>> /\ eof' = FALSE /\ arrived' = <<>> /\ lines' = <<>>
  /\ closedBy' = "none" /\ lastClose' = closedBy
  /\ UNCHANGED <<read_buffer, linebuf, buf, raced>>

\* close: linebuf stays.
\* Mutant of Close: read_buffer stays, too.
Close_keep(by) ==
  /\ connected' = FALSE /\ UNCHANGED read_buffer
  /\ closedBy' = IF connected THEN by ELSE closedBy
Close(by) ==
  /\ connected' = FALSE
  /\ read_buffer' = IF connected THEN <<>> ELSE read_buffer
  /\ closedBy' = IF connected THEN by ELSE closedBy

\* timed_write_nolock and send, in the send thread, on an error.
WriterClose ==
  /\ connected
  /\ Close("writer")
  /\ raced' = (raced \/ pc = "got")
  /\ UNCHANGED <<linebuf, pc, buf, netVars, connVars, arrived, lines>>

\* readline begins; on a closed socket it returns -2 and main_loop ends.
Call ==
  /\ pc = "main"
  /\ pc' = IF connected THEN "read" ELSE "down"
  /\ UNCHANGED <<sockVars, buf, netVars, connVars, arrived, lines, closedBy,
                 raced>>

\* timed_read_nolock looks into read_buffer first, ...
\* Mutant of ReadBuffered: the rest is taken only when there is more to read.
ReadBuffered_wait ==
  /\ pc = "read" /\ connected /\ read_buffer # <<>> /\ net # <<>>
  /\ LET n == IF Len(read_buffer) < ChunkSize THEN Len(read_buffer) ELSE ChunkSize
     IN /\ buf' = SubSeq(read_buffer, 1, n)
        /\ read_buffer' = SubSeq(read_buffer, n + 1, Len(read_buffer))
  /\ pc' = "got"
  /\ UNCHANGED <<connected, linebuf, netVars, connVars, arrived, lines, closedBy,
                 raced>>
ReadBuffered ==
  /\ pc = "read" /\ connected /\ read_buffer # <<>>
  /\ LET n == IF Len(read_buffer) < ChunkSize THEN Len(read_buffer) ELSE ChunkSize
     IN /\ buf' = SubSeq(read_buffer, 1, n)
        /\ read_buffer' = SubSeq(read_buffer, n + 1, Len(read_buffer))
  /\ pc' = "got"
  /\ UNCHANGED <<connected, linebuf, netVars, connVars, arrived, lines, closedBy,
                 raced>>

\* ... then polls the socket and reads, ...
ReadSocket ==
  /\ pc = "read" /\ connected /\ read_buffer = <<>> /\ net # <<>>
  /\ LET n == IF Len(net) < ChunkSize THEN Len(net) ELSE ChunkSize
     IN buf' = SubSeq(net, 1, n) /\ net' = SubSeq(net, n + 1, Len(net))
  /\ pc' = "got"
  /\ UNCHANGED <<sockVars, eof, connVars, arrived, lines, closedBy, raced>>

\* ... or times out: readline returns -1 and linebuf stays.
TimedOut ==
  /\ pc = "read" /\ connected /\ read_buffer = <<>> /\ net = <<>> /\ ~eof
  /\ pc' = "main"
  /\ UNCHANGED <<sockVars, buf, netVars, connVars, arrived, lines, closedBy,
                 raced>>

\* On an error the line begun is returned; without one, -2, and main_loop ends.
\* Mutant of ReadFails: the line begun is dropped.
ReadFails_drop ==
  /\ pc = "read" /\ (connected => read_buffer = <<>> /\ net = <<>> /\ eof)
  /\ Close("eof")
  /\ pc' = "down"
  /\ UNCHANGED <<linebuf, lines, buf, netVars, connVars, arrived, raced>>
ReadFails ==
  /\ pc = "read" /\ (connected => read_buffer = <<>> /\ net = <<>> /\ eof)
  /\ Close("eof")
  /\ IF linebuf = <<>> THEN pc' = "down" /\ UNCHANGED <<linebuf, lines>>
     ELSE /\ pc' = "main" /\ linebuf' = <<>>
          /\ lines' = Append(lines, linebuf)
  /\ UNCHANGED <<buf, netVars, connVars, arrived, raced>>

\* The loop over the chunk stops at a newline, or at a byte too many, which is
\* lost; the rest goes back to read_buffer.
Kept(k) == linebuf \o Keep(buf, {j \in DOMAIN buf : buf[j] \in Text}, k)
\* Mutant of Stops: the line may become one byte longer.
Stops_late(k) == \/ buf[k] = NL
                 \/ buf[k] \in Text /\ Len(Kept(k - 1)) > MaxSize + 1
Stops(k) == \/ buf[k] = NL
            \/ buf[k] \in Text /\ Len(Kept(k - 1)) > MaxSize
\* Mutant of Chunk: the rest of the chunk is forgotten.
Chunk_forget ==
  /\ pc = "got" /\ buf' = <<>>
  /\ LET stops == {k \in DOMAIN buf : Stops(k)} IN
     IF stops = {} THEN /\ linebuf' = Kept(Len(buf)) /\ pc' = "read"
                        /\ UNCHANGED <<read_buffer, lines>>
     ELSE \E k \in stops :
       /\ \A j \in stops : k <= j
       /\ lines' = IF Kept(k - 1) = <<>> THEN lines ELSE Append(lines, Kept(k - 1))
       /\ linebuf' = <<>> /\ pc' = "main" /\ UNCHANGED read_buffer
  /\ UNCHANGED <<connected, netVars, connVars, arrived, closedBy, raced>>
Chunk ==
  /\ pc = "got" /\ buf' = <<>>
  /\ LET stops == {k \in DOMAIN buf : Stops(k)} IN
     IF stops = {} THEN /\ linebuf' = Kept(Len(buf)) /\ pc' = "read"
                        /\ UNCHANGED <<read_buffer, lines>>
     ELSE \E k \in stops :
       /\ \A j \in stops : k <= j
       /\ lines' = IF Kept(k - 1) = <<>> THEN lines ELSE Append(lines, Kept(k - 1))
       /\ linebuf' = <<>> /\ pc' = "main"
       /\ read_buffer' = read_buffer \o SubSeq(buf, k + 1, Len(buf))
  /\ UNCHANGED <<connected, netVars, connVars, arrived, closedBy, raced>>

\* main_loop ends by itself: quit, ping timeout, ERROR.
LoopEnds ==
  /\ pc = "main" /\ pc' = "down"
  /\ UNCHANGED <<sockVars, buf, netVars, connVars, arrived, lines, closedBy,
                 raced>>

\* irc::disconnect
Disconnect ==
  /\ pc = "down" /\ pc' = "off"
  /\ Close("loop")
  /\ UNCHANGED <<linebuf, buf, netVars, connVars, arrived, lines, raced>>
-----------------------------------------------------------------------------
Reader == \/ Call \/ ReadBuffered \/ ReadSocket \/ TimedOut \/ ReadFails
          \/ Chunk
Next == \/ Reader \/ LoopEnds \/ Disconnect \/ Connect \/ WriterClose
        \/ PeerClose \/ \E b \in Bytes : Arrive(b)
\* The main thread is scheduled and the poll ends.
Spec == Init /\ [][Next]_vars /\ WF_vars(Reader)
-----------------------------------------------------------------------------
TypeOK ==
  /\ connected \in BOOLEAN /\ eof \in BOOLEAN /\ raced \in BOOLEAN
  /\ pc \in {"main", "read", "got", "down", "off"}
  /\ Len(buf) <= ChunkSize /\ Len(linebuf) <= MaxSize + 1
  /\ linebuf \in Seq(Text) /\ read_buffer \in Seq(Bytes) /\ net \in Seq(Bytes)
  /\ buf \in Seq(Bytes) /\ (buf # <<>>) = (pc = "got")
  /\ Len(read_buffer) < ChunkSize

\* Among the first bytes of s, the line begun and the lines that end, without empty
\* ones; the lines of s, and those of s when no more bytes come.
Begun(s, i) == PieceAt(s, {NL}, {Skip}, MaxSize + 1, i)
LinesIn(s, n) == PiecesTo(s, {NL}, {Skip}, MaxSize + 1, n)
Whole(s) == LinesIn(s, Len(s))
AllLines(s) ==
  LET b == Begun(s, Len(s)) IN IF b = <<>> THEN Whole(s) ELSE Append(Whole(s), b)

stream == oldLine \o oldBuf \o arrived
pending == linebuf \o buf \o read_buffer \o net

\* However the bytes are cut into chunks and wherever a read times out: what
\* readline returned and what it will return of the bytes it still has are the
\* lines of the stream, in order, each once.
LinesConserved ==
  connected => lines \o Whole(pending) = Whole(stream)

\* When the server ended the connection, main_loop ends only after it was given
\* everything that arrived, an unfinished last line included.
EofReadsAll ==
  pc \in {"down", "off"} /\ closedBy = "eof" => lines = AllLines(stream)

\* What one connection leaves to the next is at most the line begun in linebuf,
\* and nothing at all after an end of file; the bytes behind it, whole lines
\* perhaps, are handled again only if a writer closed the socket while the reader
\* had a chunk in its hands.
LeftoverIsBegun ==
  /\ lastClose = "eof" => oldLine = <<>> /\ oldBuf = <<>>
  /\ ~raced => oldBuf = <<>>

\* A whole line that arrived does not wait in a buffer for more bytes to come:
\* it is returned, or the connection or the loop ends.
LinesArrive ==
  connected /\ pc \notin {"down", "off"} /\ Whole(pending) # <<>>
    ~> ~connected \/ pc \in {"down", "off"} \/ Whole(pending) = <<>>
=============================================================================
