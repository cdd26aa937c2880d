-------------------------- MODULE LineReader_proofs --------------------------
(***************************************************************************)
(* What a connection leaves in the buffers of tcpsock for the next one, the *)
(* sizes of the buffers, and that readline returns the lines of the stream, *)
(* for all chunk and line sizes and any number of connections and bytes;    *)
(* and that parse_irc_line parses lines of every length.                    *)
(***************************************************************************)
EXTENDS LineReader, SeqKeep_proofs, TLAPS

\* An end of file is met with read_buffer empty and gives up or returns the line
\* begun, so that both buffers are empty until the next connect.
EofClean ==
  closedBy = "eof" => /\ ~connected /\ pc \in {"main", "down", "off"}
                      /\ linebuf = <<>> /\ read_buffer = <<>>

\* close has cleared read_buffer, and only a chunk in the reader's hands can fill
\* it again.
ClosedClean ==
  ~connected /\ ~raced => pc # "got" /\ read_buffer = <<>>

\* Why the socket was closed is known only when it is; main_loop has ended with
\* the socket closed before the next connect.
ClosedBy ==
  /\ connected => closedBy = "none"
  /\ pc = "off" => ~connected

BufferInv == EofClean /\ ClosedClean /\ ClosedBy /\ LeftoverIsBegun

LEMMA BufferInit == Init => BufferInv
BY DEF Init, BufferInv, EofClean, ClosedClean, ClosedBy, LeftoverIsBegun

\* The inductive step, one case per action.
LEMMA BufferStep == BufferInv /\ [Next]_vars => BufferInv'
<1> SUFFICES ASSUME BufferInv, [Next]_vars PROVE BufferInv'
  OBVIOUS
<1> USE DEF BufferInv, EofClean, ClosedClean, ClosedBy, LeftoverIsBegun,
            sockVars, netVars, connVars
<1>1. ASSUME NEW b \in Bytes, Arrive(b) PROVE BufferInv'
  BY <1>1 DEF Arrive
<1>2. CASE PeerClose
  BY <1>2 DEF PeerClose
<1>3. CASE Connect
  BY <1>3 DEF Connect
<1>4. CASE WriterClose
  BY <1>4 DEF WriterClose, Close
<1>5. CASE Call
  BY <1>5 DEF Call
<1>6. CASE ReadBuffered
  BY <1>6 DEF ReadBuffered
<1>7. CASE ReadSocket
  BY <1>7 DEF ReadSocket
<1>8. CASE TimedOut
  BY <1>8 DEF TimedOut
<1>9. CASE ReadFails
  BY <1>9 DEF ReadFails, Close
<1>10. CASE Chunk
  <2>1. pc = "got" /\ UNCHANGED <<connected, connVars, closedBy, raced>>
    BY <1>10 DEF Chunk
  <2>2. pc' \in {"read", "main"}
    BY <1>10 DEF Chunk
  <2> QED
    BY <2>1, <2>2
<1>11. CASE LoopEnds
  BY <1>11 DEF LoopEnds
<1>12. CASE Disconnect
  BY <1>12 DEF Disconnect, Close
<1>13. CASE UNCHANGED vars
  BY <1>13 DEF vars
<1> QED
  BY <1>1, <1>2, <1>3, <1>4, <1>5, <1>6, <1>7, <1>8, <1>9, <1>10, <1>11, <1>12,
     <1>13 DEF Next, Reader

\* tcpsock::close and readline leave at most a line begun to the next connection,
\* unless a writer closes the socket under a chunk.
THEOREM LeftoverBegun == Spec => []LeftoverIsBegun
<1>1. BufferInv => LeftoverIsBegun
  BY DEF BufferInv
<1> QED
  BY BufferInit, BufferStep, <1>1, PTL DEF Spec
-----------------------------------------------------------------------------
(***************************************************************************)
(* The sizes of the buffers and of the lines.                              *)
(***************************************************************************)
Line == {x \in Seq(Text) : x # <<>> /\ Len(x) <= MaxSize + 1}

\* Every line that readline returned is a line: some text, and no more of it
\* than maxsize allows.
LinesFit == lines \in Seq(Line)

\* A chunk was taken from the buffer whole or with the buffer empty, so that what
\* is put back of it finds the buffer empty.
ReaderInv ==
  /\ TypeOK /\ LinesFit
  /\ pc = "got" => read_buffer = <<>>

\* As long as the loop over the chunk does not stop, the line in linebuf fits.
LEMMA KeptFits ==
  ASSUME TypeOK, NEW n \in 0..Len(buf), \A j \in 1..n : ~Stops(j)
  PROVE  Kept(n) \in Seq(Text) /\ Len(Kept(n)) <= MaxSize + 1
<1> DEFINE K == {j \in DOMAIN buf : buf[j] \in Text}
           Fits(m) == Kept(m) \in Seq(Text) /\ Len(Kept(m)) <= MaxSize + 1
           T == {m \in Nat : m <= n => Fits(m)}
<1>1. /\ buf \in Seq(Bytes) /\ linebuf \in Seq(Text)
      /\ Len(linebuf) <= MaxSize + 1 /\ MaxSize \in Nat /\ n \in Nat
      /\ Len(buf) \in Nat /\ DOMAIN buf = 1..Len(buf)
  BY ReaderAssumption DEF TypeOK
<1>2. \A i \in 1..Len(buf) : i \in K => buf[i] \in Text
  OBVIOUS
<1>3. \A m : Kept(m) = linebuf \o Keep(buf, K, m)
  BY DEF Kept
<1> HIDE DEF K
<1>4. ASSUME NEW m \in 0..Len(buf)
      PROVE  Keep(buf, K, m) \in Seq(Text)
  BY <1>1, <1>2, KeepIn
<1>5. /\ Keep(buf, K, 0) = <<>>
      /\ \A m \in 1..Len(buf) :
           Keep(buf, K, m) = IF m \in K THEN Append(Keep(buf, K, m - 1), buf[m])
                             ELSE Keep(buf, K, m - 1)
  BY <1>1, KeepStep, ZenonT(60)
<1>6. 0 \in T
  <2>1. Kept(0) = linebuf
    <3>1. linebuf \o <<>> = linebuf
      BY <1>1
    <3> QED
      BY <1>3, <1>5, <3>1, Zenon
  <2> QED
    BY <1>1, <2>1
<1>7. ASSUME NEW m \in Nat, m \in T PROVE m + 1 \in T
  <2> SUFFICES ASSUME m + 1 <= n PROVE Fits(m + 1)
    OBVIOUS
  <2> DEFINE x == Keep(buf, K, m)
  <2>1. /\ m + 1 \in 1..Len(buf) /\ (m + 1) - 1 = m /\ m \in 0..Len(buf)
        /\ m + 1 \in 0..Len(buf) /\ m + 1 \in 1..n /\ m <= n
    BY <1>1
  <2>2. x \in Seq(Text)
    BY <1>4, <2>1
  <2>3. Keep(buf, K, m + 1) = IF m + 1 \in K THEN Append(x, buf[m + 1]) ELSE x
    BY <1>5, <2>1
  <2>4. Kept(m) = linebuf \o x /\ Kept(m + 1) = linebuf \o Keep(buf, K, m + 1)
    BY <1>3
  <2>5. Fits(m)
    BY <1>7, <2>1
  <2> HIDE DEF x
  <2>6. CASE m + 1 \in K
    <3>1. buf[m + 1] \in Text
      BY <1>2, <2>1, <2>6
    <3>2. ~(Len(Kept((m + 1) - 1)) > MaxSize)
      BY <2>1, <3>1 DEF Stops
    <3>3. Len(linebuf \o x) <= MaxSize
      BY <1>1, <2>1, <2>2, <2>4, <3>2
    <3>4. /\ linebuf \o Append(x, buf[m + 1]) \in Seq(Text)
          /\ Len(linebuf \o Append(x, buf[m + 1])) = Len(linebuf \o x) + 1
      BY <1>1, <2>2, <3>1
    <3>5. Len(linebuf \o Append(x, buf[m + 1])) <= MaxSize + 1
      BY <1>1, <2>2, <3>3, <3>4
    <3> QED
      BY <2>3, <2>4, <2>6, <3>4, <3>5
  <2>7. CASE m + 1 \notin K
    BY <2>3, <2>4, <2>5, <2>7
  <2> QED
    BY <2>6, <2>7
<1>8. n \in T
  <2> HIDE DEF T
  <2> QED
    BY <1>1, <1>6, <1>7, SetInduction
<1> QED
  BY <1>1, <1>8

LEMMA EmptyBuffer ==
  /\ Len(<<>>) = 0 /\ <<>> \in Seq(Text) /\ <<>> \in Seq(Bytes)
  /\ Len(<<>>) < ChunkSize /\ Len(<<>>) <= ChunkSize /\ Len(<<>>) <= MaxSize + 1
BY ReaderAssumption

\* A chunk that takes the whole buffer.
LEMMA TakeAll ==
  ASSUME NEW S, NEW s \in Seq(S)
  PROVE  SubSeq(s, 1, Len(s)) = s /\ SubSeq(s, Len(s) + 1, Len(s)) = <<>>
<1>1. Len(s) \in Nat
  OBVIOUS
<1>2. SubSeq(s, 1, Len(s)) = s
  OBVIOUS
<1>3. SubSeq(s, Len(s) + 1, Len(s)) = <<>>
  BY <1>1
<1> QED
  BY <1>2, <1>3

LEMMA ReaderInit == Init => ReaderInv
<1> SUFFICES ASSUME Init PROVE ReaderInv
  OBVIOUS
<1>1. TypeOK
  BY EmptyBuffer DEF Init, TypeOK
<1> QED
  BY <1>1 DEF Init, ReaderInv, LinesFit

\* One pass over a chunk.
LEMMA ChunkFits ==
  ASSUME ReaderInv, Chunk
  PROVE  ReaderInv'
<1> DEFINE stops == {k \in DOMAIN buf : Stops(k)}
<1>1. /\ buf \in Seq(Bytes) /\ Len(buf) \in Nat /\ DOMAIN buf = 1..Len(buf)
      /\ Len(buf) <= ChunkSize /\ ChunkSize \in Nat \ {0} /\ MaxSize \in Nat
      /\ read_buffer = <<>> /\ buf # <<>> /\ TypeOK /\ lines \in Seq(Line)
  BY ReaderAssumption DEF ReaderInv, TypeOK, LinesFit, Chunk
<1>2. /\ buf' = <<>> /\ UNCHANGED <<connected, net, eof, raced>>
  BY DEF Chunk, netVars
<1>3. CASE stops = {}
  <2>1. linebuf' = Kept(Len(buf)) /\ pc' = "read" /\ UNCHANGED <<read_buffer, lines>>
    BY <1>3 DEF Chunk
  <2>2. Len(buf) \in 0..Len(buf) /\ \A j \in 1..Len(buf) : ~Stops(j)
    BY <1>1, <1>3
  <2>3. linebuf' \in Seq(Text) /\ Len(linebuf') <= MaxSize + 1
    BY <1>1, <2>1, <2>2, KeptFits
  <2> QED
    BY <1>1, <1>2, <2>1, <2>3 DEF ReaderInv, TypeOK, LinesFit
<1>4. CASE stops # {}
  <2>1. PICK k \in stops :
          /\ \A j \in stops : k <= j
          /\ lines' = IF Kept(k - 1) = <<>> THEN lines ELSE Append(lines, Kept(k - 1))
          /\ linebuf' = <<>> /\ pc' = "main"
          /\ read_buffer' = read_buffer \o SubSeq(buf, k + 1, Len(buf))
    BY <1>4 DEF Chunk
  <2>2. /\ k \in 1..Len(buf) /\ k - 1 \in 0..Len(buf)
        /\ \A j \in 1..(k - 1) : j \in DOMAIN buf /\ ~(k <= j)
    BY <1>1
  <2>3. \A j \in 1..(k - 1) : ~Stops(j)
    BY <2>1, <2>2
  <2>4. Kept(k - 1) \in Seq(Text) /\ Len(Kept(k - 1)) <= MaxSize + 1
    BY <1>1, <2>2, <2>3, KeptFits
  <2>5. lines' \in Seq(Line)
    <3>1. CASE Kept(k - 1) = <<>>
      BY <1>1, <2>1, <3>1
    <3>2. CASE Kept(k - 1) # <<>>
      <4>1. Kept(k - 1) \in Line
        BY <2>4, <3>2 DEF Line
      <4> QED
        BY <1>1, <2>1, <3>2, <4>1
    <3> QED
      BY <3>1, <3>2
  <2> DEFINE rest == SubSeq(buf, k + 1, Len(buf))
  <2>6. rest \in Seq(Bytes) /\ Len(rest) < ChunkSize
    BY <1>1, <2>2
  <2>7. read_buffer' = rest
    BY <1>1, <2>1, <2>6
  <2> HIDE DEF rest
  <2>8. Len(linebuf') <= MaxSize + 1 /\ linebuf' \in Seq(Text)
    BY <1>1, <2>1
  <2> QED
    BY <1>1, <1>2, <2>1, <2>5, <2>6, <2>7, <2>8 DEF ReaderInv, TypeOK, LinesFit
<1> QED
  BY <1>3, <1>4

LEMMA ReaderStep == ReaderInv /\ [Next]_vars => ReaderInv'
<1> SUFFICES ASSUME ReaderInv, [Next]_vars PROVE ReaderInv'
  OBVIOUS
<1>a. ChunkSize \in Nat \ {0} /\ MaxSize \in Nat
  BY ReaderAssumption
<1> USE DEF ReaderInv, TypeOK, LinesFit, sockVars, netVars, connVars
<1>1. ASSUME NEW b \in Bytes, Arrive(b) PROVE ReaderInv'
  BY <1>1 DEF Arrive
<1>2. CASE PeerClose
  BY <1>2 DEF PeerClose
<1>3. CASE Connect
  <2>1. lines' \in Seq(Line)
    BY <1>3 DEF Connect
  <2> QED
    BY <1>3, <2>1, EmptyBuffer DEF Connect
<1>4. CASE WriterClose
  BY <1>4, EmptyBuffer DEF WriterClose, Close
<1>5. CASE Call
  BY <1>5 DEF Call
<1>6. CASE ReadBuffered
  <2>1. Len(read_buffer) \in 1..(ChunkSize - 1)
    BY <1>a, <1>6 DEF ReadBuffered
  <2>2. /\ buf' = SubSeq(read_buffer, 1, Len(read_buffer))
        /\ read_buffer' = SubSeq(read_buffer, Len(read_buffer) + 1, Len(read_buffer))
    BY <1>a, <1>6, <2>1 DEF ReadBuffered
  <2>3. /\ buf' \in Seq(Bytes) /\ Len(buf') <= ChunkSize /\ buf' # <<>>
        /\ read_buffer' = <<>>
    <3>1. read_buffer \in Seq(Bytes) /\ read_buffer # <<>>
      BY <1>6 DEF ReadBuffered
    <3> HIDE DEF ReaderInv, TypeOK, LinesFit
    <3>2. buf' = read_buffer /\ read_buffer' = <<>>
      BY <2>2, <3>1, TakeAll
    <3>3. Len(buf') <= ChunkSize
      BY <1>a, <2>1, <3>2
    <3> QED
      BY <3>1, <3>2, <3>3, Zenon
  <2> QED
    BY <1>a, <1>6, <2>3 DEF ReadBuffered
<1>7. CASE ReadSocket
  <2>1. PICK n : n = IF Len(net) < ChunkSize THEN Len(net) ELSE ChunkSize
    OBVIOUS
  <2>2. buf' = SubSeq(net, 1, n) /\ net' = SubSeq(net, n + 1, Len(net))
    BY <1>7, <2>1 DEF ReadSocket
  <2>3. n \in 1..Len(net) /\ n <= ChunkSize
    BY <1>a, <1>7, <2>1 DEF ReadSocket
  <2>4. buf' \in Seq(Bytes) /\ Len(buf') = n /\ net' \in Seq(Bytes)
    BY <2>2, <2>3, SMTT(40)
  <2>5. buf' # <<>> /\ Len(buf') <= ChunkSize
    BY <2>3, <2>4
  <2> QED
    BY <1>7, <2>4, <2>5 DEF ReadSocket
<1>8. CASE TimedOut
  BY <1>8 DEF TimedOut
<1>9. CASE ReadFails
  <2>1. lines' \in Seq(Line)
    <3>1. linebuf # <<>> => linebuf \in Line
      BY DEF Line
    <3>2. CASE linebuf = <<>>
      BY <1>9, <3>2 DEF ReadFails
    <3>3. CASE linebuf # <<>>
      <4>1. lines' = Append(lines, linebuf) /\ lines \in Seq(Line)
        BY <1>9, <3>3 DEF ReadFails
      <4> HIDE DEF TypeOK, ReaderInv, LinesFit
      <4> QED
        BY <3>1, <3>3, <4>1
    <3> QED
      BY <3>2, <3>3
  <2> QED
    BY <1>9, <2>1, EmptyBuffer DEF ReadFails, Close
<1>10. CASE Chunk
  BY <1>10, ChunkFits
<1>11. CASE LoopEnds
  BY <1>11 DEF LoopEnds
<1>12. CASE Disconnect
  BY <1>12, EmptyBuffer DEF Disconnect, Close
<1>13. CASE UNCHANGED vars
  BY <1>13 DEF vars
<1> QED
  BY <1>1, <1>2, <1>3, <1>4, <1>5, <1>6, <1>7, <1>8, <1>9, <1>10, <1>11, <1>12,
     <1>13 DEF Next, Reader

\* readline keeps linebuf within maxsize + 1 bytes and read_buffer smaller than
\* a chunk, also when the send thread closes the socket under it.
THEOREM TypeCorrect == Spec => []TypeOK
<1>1. ReaderInv => TypeOK
  BY DEF ReaderInv
<1> QED
  BY ReaderInit, ReaderStep, <1>1, PTL DEF Spec

\* No line that readline returns is empty or longer than maxsize + 1 bytes.
THEOREM LinesAreFit == Spec => []LinesFit
<1>1. ReaderInv => LinesFit
  BY DEF ReaderInv
<1> QED
  BY ReaderInit, ReaderStep, <1>1, PTL DEF Spec
-----------------------------------------------------------------------------
(***************************************************************************)
(* The lines of a stream, byte by byte.                                    *)
(***************************************************************************)
LEMMA ByteKinds ==
  /\ NL \in Int /\ \A b \in Bytes : b \in Text \/ b = NL \/ b = Skip
  /\ NL \notin Text /\ Skip \notin Text /\ NL # Skip /\ Text \subseteq Bytes
  /\ NL \in Bytes /\ Skip \in Bytes
BY DEF Bytes, Text, NL, Skip

\* A byte that ends a line; what the line begun and the lines are after a byte.
Ending(b, c) == \/ c = NL
                \/ c \in Text /\ Len(b) = MaxSize + 1
NextBegun(b, c) == IF Ending(b, c) THEN <<>> ELSE IF c \in Text THEN Append(b, c) ELSE b
NextLines(l, b, c) == IF Ending(b, c) /\ b # <<>> THEN Append(l, b) ELSE l

LEMMA ScanStep ==
  ASSUME NEW s \in Seq(Bytes)
  PROVE  /\ Begun(s, 0) = <<>> /\ LinesIn(s, 0) = <<>>
         /\ \A i \in 0..Len(s) : /\ Begun(s, i) \in Seq(Text)
                                 /\ Len(Begun(s, i)) \in 0..(MaxSize + 1)
                                 /\ LinesIn(s, i) \in Seq(Seq(Text))
         /\ \A i \in 1..Len(s) :
              /\ Begun(s, i) = NextBegun(Begun(s, i - 1), s[i])
              /\ LinesIn(s, i) = NextLines(LinesIn(s, i - 1), Begun(s, i - 1), s[i])
<1>1. Bytes \ ({NL} \cup {Skip}) = Text
  BY ByteKinds
<1>2. MaxSize \in Nat /\ MaxSize + 1 \in Nat \ {0}
  BY ReaderAssumption
<1>3. /\ PieceGoes(Bytes, s, {NL}, {Skip}, MaxSize + 1)
      /\ PiecesGo(Bytes, s, {NL}, {Skip}, MaxSize + 1)
  BY <1>2, PieceStep, PiecesStep, Zenon
<1>4. \A i : /\ Begun(s, i) = PieceAt(s, {NL}, {Skip}, MaxSize + 1, i)
             /\ LinesIn(s, i) = PiecesTo(s, {NL}, {Skip}, MaxSize + 1, i)
  BY DEF Begun, LinesIn
<1>5. Begun(s, 0) = <<>> /\ LinesIn(s, 0) = <<>>
  BY <1>3, <1>4, Zenon DEF PieceGoes, PiecesGo
<1>6. \A i \in 0..Len(s) : /\ Begun(s, i) \in Seq(Text)
                           /\ Len(Begun(s, i)) \in 0..(MaxSize + 1)
                           /\ LinesIn(s, i) \in Seq(Seq(Text))
  BY <1>1, <1>3, <1>4, Zenon DEF PieceGoes, PiecesGo
<1>7. ASSUME NEW b, NEW i \in 1..Len(s)
      PROVE  /\ EndsPiece(b, s[i], {NL}, {Skip}, MaxSize + 1) <=> Ending(b, s[i])
             /\ NextPiece(b, s[i], {NL}, {Skip}, MaxSize + 1) = NextBegun(b, s[i])
             /\ \A l : NextPieces(l, b, s[i], {NL}, {Skip}, MaxSize + 1) = NextLines(l, b, s[i])
  <2>1. s[i] \in Bytes
    OBVIOUS
  <2>2. EndsPiece(b, s[i], {NL}, {Skip}, MaxSize + 1) <=> Ending(b, s[i])
    BY <2>1, ByteKinds DEF EndsPiece, Ending
  <2>3. s[i] # NL => (s[i] \in {Skip} <=> s[i] \notin Text)
    BY <2>1, ByteKinds
  <2>4. s[i] = NL => Ending(b, s[i])
    BY DEF Ending
  <2> QED
    BY <2>2, <2>3, <2>4, Zenon DEF NextPiece, NextPieces, NextBegun, NextLines
<1>8. ASSUME NEW i \in 1..Len(s)
      PROVE  /\ Begun(s, i) = NextBegun(Begun(s, i - 1), s[i])
             /\ LinesIn(s, i) = NextLines(LinesIn(s, i - 1), Begun(s, i - 1), s[i])
  <2>1. Begun(s, i) = NextPiece(Begun(s, i - 1), s[i], {NL}, {Skip}, MaxSize + 1)
    BY <1>3, <1>4, Zenon DEF PieceGoes
  <2>2. LinesIn(s, i) = NextPieces(LinesIn(s, i - 1), Begun(s, i - 1), s[i], {NL}, {Skip},
                                   MaxSize + 1)
    BY <1>3, <1>4, Zenon DEF PiecesGo
  <2> QED
    BY <1>7, <2>1, <2>2, Zenon
<1> QED
  BY <1>5, <1>6, <1>8

\* Two streams that go on with the same n bytes from the same line begun.
GoOn(x, d, y, e, n) ==
  /\ d + n <= Len(x) /\ e + n <= Len(y)
  /\ \A m \in 1..n : x[d + m] = y[e + m]
  /\ Begun(x, d) = Begun(y, e) /\ LinesIn(y, e) = <<>>

LEMMA SameRest ==
  ASSUME NEW x \in Seq(Bytes), NEW y \in Seq(Bytes), NEW d \in Nat, NEW e \in Nat,
         NEW n \in Nat, GoOn(x, d, y, e, n)
  PROVE  /\ Begun(x, d + n) = Begun(y, e + n)
         /\ LinesIn(x, d + n) = LinesIn(x, d) \o LinesIn(y, e + n)
<1>0. /\ d + n <= Len(x) /\ e + n <= Len(y)
      /\ \A m \in 1..n : x[d + m] = y[e + m]
      /\ Begun(x, d) = Begun(y, e) /\ LinesIn(y, e) = <<>>
  BY DEF GoOn
<1> DEFINE Same(m) == /\ Begun(x, d + m) = Begun(y, e + m)
                      /\ LinesIn(x, d + m) = LinesIn(x, d) \o LinesIn(y, e + m)
           T == {m \in Nat : m <= n => Same(m)}
<1>1. Len(x) \in Nat /\ Len(y) \in Nat
  OBVIOUS
<1>2. \A i \in 0..Len(x) : LinesIn(x, i) \in Seq(Seq(Text)) /\ Begun(x, i) \in Seq(Text)
  BY ScanStep
<1>3. \A i \in 0..Len(y) : LinesIn(y, i) \in Seq(Seq(Text)) /\ Begun(y, i) \in Seq(Text)
  BY ScanStep
<1>4. 0 \in T
  <2>1. d \in 0..Len(x) /\ d + 0 = d /\ e + 0 = e
    BY <1>0, <1>1
  <2>2. LinesIn(x, d) \o <<>> = LinesIn(x, d)
    BY <1>2, <2>1
  <2>3. Same(0)
    BY <1>0, <2>1, <2>2
  <2> QED
    BY <2>3
<1>5. ASSUME NEW m \in Nat, m \in T PROVE m + 1 \in T
  <2> SUFFICES ASSUME m + 1 <= n PROVE Same(m + 1)
    OBVIOUS
  <2> DEFINE i == d + (m + 1)
             j == e + (m + 1)
             c == x[i]
             b == Begun(x, d + m)
             v == LinesIn(y, e + m)
             w == LinesIn(x, d)
  <2>1. /\ i \in 1..Len(x) /\ i - 1 = d + m /\ j \in 1..Len(y) /\ j - 1 = e + m
        /\ m + 1 \in 1..n /\ m <= n /\ d \in 0..Len(x) /\ e + m \in 0..Len(y)
        /\ d + m \in 0..Len(x)
    BY <1>0, <1>1
  <2>2. y[j] = c
    BY <1>0, <2>1
  <2>3. Begun(y, e + m) = b /\ LinesIn(x, d + m) = w \o v
    BY <1>5, <2>1
  <2>4. Begun(x, i) = NextBegun(b, c) /\ LinesIn(x, i) = NextLines(w \o v, b, c)
    BY <2>1, <2>3, ScanStep
  <2>5. Begun(y, j) = NextBegun(b, c) /\ LinesIn(y, j) = NextLines(v, b, c)
    BY <2>1, <2>2, <2>3, ScanStep
  <2>6. v \in Seq(Seq(Text)) /\ w \in Seq(Seq(Text)) /\ b \in Seq(Text)
    BY <1>2, <1>3, <2>1
  <2> HIDE DEF i, j, c, b, v, w
  <2>7. NextLines(w \o v, b, c) = w \o NextLines(v, b, c)
    <3>1. Append(w \o v, b) = w \o Append(v, b)
      BY <2>6, AppendFacts
    <3> QED
      BY <3>1 DEF NextLines
  <2>8. Begun(x, i) = Begun(y, j) /\ LinesIn(x, i) = w \o LinesIn(y, j)
    BY <2>4, <2>5, <2>7
  <2> QED
    BY <2>8 DEF i, j, w
<1>6. n \in T
  <2> HIDE DEF T
  <2> QED
    BY <1>4, <1>5, SetInduction
<1> QED
  BY <1>6

\* A text that fits is a line begun.
LEMMA BegunText ==
  ASSUME NEW y \in Seq(Bytes), NEW b \in Seq(Text), Len(b) <= MaxSize + 1,
         Len(b) <= Len(y), \A i \in 1..Len(b) : y[i] = b[i]
  PROVE  Begun(y, Len(b)) = b /\ LinesIn(y, Len(b)) = <<>>
<1> DEFINE Same(m) == Begun(y, m) = SubSeq(b, 1, m) /\ LinesIn(y, m) = <<>>
           T == {m \in Nat : m <= Len(b) => Same(m)}
<1>1. Len(y) \in Nat /\ Len(b) \in Nat /\ MaxSize \in Nat
  BY ReaderAssumption
<1>2. 0 \in T
  <2>1. SubSeq(b, 1, 0) = <<>>
    BY <1>1
  <2>2. Begun(y, 0) = <<>> /\ LinesIn(y, 0) = <<>>
    BY ScanStep
  <2> QED
    BY <2>1, <2>2
<1>3. ASSUME NEW m \in Nat, m \in T PROVE m + 1 \in T
  <2> SUFFICES ASSUME m + 1 <= Len(b) PROVE Same(m + 1)
    OBVIOUS
  <2> DEFINE p == SubSeq(b, 1, m)
             c == y[m + 1]
  <2>1. m + 1 \in 1..Len(y) /\ m + 1 \in 1..Len(b) /\ (m + 1) - 1 = m /\ m <= Len(b)
    BY <1>1
  <2>2. Begun(y, m) = p /\ LinesIn(y, m) = <<>>
    BY <1>3, <2>1
  <2>3. c = b[m + 1] /\ c \in Text
    BY <2>1
  <2>4. p \in Seq(Text) /\ Len(p) = m
    BY <1>1, <2>1
  <2>5. SubSeq(b, 1, m + 1) = Append(p, b[m + 1])
    BY <1>1, <2>1
  <2>6. Begun(y, m + 1) = NextBegun(p, c) /\ LinesIn(y, m + 1) = NextLines(<<>>, p, c)
    BY <2>1, <2>2, ScanStep
  <2> HIDE DEF p, c
  <2>7. ~Ending(p, c)
    BY <1>1, <2>1, <2>3, <2>4, ByteKinds DEF Ending
  <2> QED
    BY <2>3, <2>5, <2>6, <2>7 DEF NextBegun, NextLines
<1>4. Len(b) \in T
  <2> HIDE DEF T
  <2> QED
    BY <1>1, <1>2, <1>3, SetInduction
<1>5. SubSeq(b, 1, Len(b)) = b
  OBVIOUS
<1> QED
  BY <1>1, <1>4, <1>5
-----------------------------------------------------------------------------
(***************************************************************************)
(* What was read of the stream.                                            *)
(***************************************************************************)
\* The bytes that readline has not looked at.
Rest == (buf \o read_buffer) \o net

\* The stream s ends with r, and l and b are the lines and the line begun of what
\* comes before that.
Follows(s, r, l, b) ==
  LET d == Len(s) - Len(r)
  IN /\ d \in Nat /\ \A m \in 1..Len(r) : s[d + m] = r[m]
     /\ l = LinesIn(s, d) /\ b = Begun(s, d)

StreamInv ==
  /\ oldLine \in Seq(Text) /\ oldBuf \in Seq(Bytes) /\ arrived \in Seq(Bytes)
  /\ connected => Follows(stream, Rest, lines, linebuf) /\ Len(net) <= Len(arrived)
  /\ closedBy = "eof" => lines = AllLines(stream)

LEMMA TextIsBytes == ASSUME NEW b \in Seq(Text) PROVE b \in Seq(Bytes)
<1>1. Text \subseteq Bytes
  BY ByteKinds
<1> QED
  BY <1>1

\* What was read of a stream depends on what was read of it.
LEMMA SameRead ==
  ASSUME NEW x \in Seq(Bytes), NEW z \in Seq(Bytes), NEW d \in Nat,
         d <= Len(x), d <= Len(z), \A m \in 1..d : x[m] = z[m]
  PROVE  Begun(x, d) = Begun(z, d) /\ LinesIn(x, d) = LinesIn(z, d)
<1>1. /\ Begun(x, 0) = <<>> /\ LinesIn(x, 0) = <<>>
      /\ Begun(z, 0) = <<>> /\ LinesIn(z, 0) = <<>>
  BY ScanStep
<1> DEFINE o == 0
<1>2. /\ o \in Nat /\ o + d = d /\ o + d <= Len(x) /\ o + d <= Len(z)
      /\ \A m \in 1..d : x[o + m] = z[o + m]
  OBVIOUS
<1>3. /\ Begun(x, d) = Begun(z, d)
      /\ LinesIn(x, d) = LinesIn(x, 0) \o LinesIn(z, d)
  <2>1. Begun(x, o) = Begun(z, o) /\ LinesIn(z, o) = <<>> /\ LinesIn(x, o) = LinesIn(x, 0)
    BY <1>1
  <2> HIDE DEF o
  <2>2. GoOn(x, o, z, o, d)
    BY <1>2, <2>1 DEF GoOn
  <2>3. /\ Begun(x, o + d) = Begun(z, o + d)
        /\ LinesIn(x, o + d) = LinesIn(x, o) \o LinesIn(z, o + d)
    BY <1>2, <2>2, SameRest
  <2> QED
    BY <1>2, <2>1, <2>3
<1>4. LinesIn(z, d) \in Seq(Seq(Text))
  <2>1. d \in 0..Len(z)
    OBVIOUS
  <2> QED
    BY <2>1, ScanStep
<1>5. <<>> \o LinesIn(z, d) = LinesIn(z, d)
  BY <1>4
<1> QED
  BY <1>1, <1>3, <1>5

LEMMA FollowsTo ==
  ASSUME NEW x \in Seq(Bytes), NEW z \in Seq(Bytes), NEW r \in Seq(Bytes),
         NEW t \in Seq(Bytes), NEW l, NEW b, Follows(x, r, l, b),
         Len(z) - Len(t) = Len(x) - Len(r),
         \A m \in 1..(Len(x) - Len(r)) : x[m] = z[m],
         \A m \in 1..Len(t) : z[Len(z) - Len(t) + m] = t[m]
  PROVE  Follows(z, t, l, b)
<1> DEFINE d == Len(x) - Len(r)
<1>1. /\ d \in Nat /\ l = LinesIn(x, d) /\ b = Begun(x, d)
      /\ Len(x) \in Nat /\ Len(r) \in Nat /\ Len(z) \in Nat /\ Len(t) \in Nat
  BY DEF Follows
<1>2. d <= Len(x) /\ d <= Len(z) /\ Len(z) - Len(t) = d /\ \A m \in 1..d : x[m] = z[m]
  BY <1>1
<1> HIDE DEF d
<1>3. Begun(x, d) = Begun(z, d) /\ LinesIn(x, d) = LinesIn(z, d)
  BY <1>1, <1>2, SameRead
<1> QED
  BY <1>1, <1>2, <1>3 DEF Follows

\* The lines returned and those of the line begun and the rest are the lines of
\* the stream.
LEMMA SameWhole ==
  ASSUME NEW x \in Seq(Bytes), NEW y \in Seq(Bytes), NEW d \in Nat, NEW e \in Nat,
         NEW n \in Nat, Len(x) = d + n, Len(y) = e + n, GoOn(x, d, y, e, n)
  PROVE  LinesIn(x, d) \o Whole(y) = Whole(x)
<1>1. LinesIn(x, d + n) = LinesIn(x, d) \o LinesIn(y, e + n)
  BY SameRest
<1> QED
  BY <1>1 DEF Whole

LEMMA FollowsWhole ==
  ASSUME NEW x \in Seq(Bytes), NEW r \in Seq(Bytes), NEW l, NEW b, Follows(x, r, l, b)
  PROVE  l \o Whole(b \o r) = Whole(x)
<1>1. PICK d \in Nat, n \in Nat :
        /\ n = Len(r) /\ Len(x) = d + n /\ l = LinesIn(x, d) /\ b = Begun(x, d)
        /\ \A m \in 1..n : x[d + m] = r[m]
  <2> DEFINE d == Len(x) - Len(r)
  <2>1. /\ d \in Nat /\ Len(r) \in Nat /\ Len(x) = d + Len(r)
        /\ l = LinesIn(x, d) /\ b = Begun(x, d)
        /\ \A m \in 1..Len(r) : x[d + m] = r[m]
    BY DEF Follows
  <2> HIDE DEF d
  <2> QED
    BY <2>1
<1>2. b \in Seq(Text) /\ Len(b) \in 0..(MaxSize + 1) /\ MaxSize \in Nat
  <2>1. d \in 0..Len(x)
    BY <1>1
  <2> QED
    BY <1>1, <2>1, ScanStep, ReaderAssumption
<1>3. b \in Seq(Bytes)
  BY <1>2, TextIsBytes
<1>4. PICK y \in Seq(Bytes), e \in Nat :
        /\ y = b \o r /\ e = Len(b) /\ Len(y) = e + n
        /\ \A i \in 1..e : y[i] = b[i]
        /\ \A m \in 1..n : y[e + m] = r[m]
  <2> DEFINE y == b \o r
             e == Len(b)
  <2>1. /\ y \in Seq(Bytes) /\ e \in Nat /\ Len(y) = e + n
        /\ \A i \in 1..e : y[i] = b[i]
        /\ \A m \in 1..n : y[e + m] = r[m]
    BY <1>1, <1>3
  <2> QED
    BY <2>1
<1>5. Begun(y, e) = b /\ LinesIn(y, e) = <<>>
  <2>1. Len(b) <= Len(y) /\ Len(b) <= MaxSize + 1
    BY <1>1, <1>2, <1>4
  <2> QED
    BY <1>2, <1>4, <2>1, BegunText
<1>6. \A m \in 1..n : x[d + m] = y[e + m]
  BY <1>1, <1>4
<1>7. GoOn(x, d, y, e, n)
  BY <1>1, <1>4, <1>5, <1>6 DEF GoOn
<1>8. LinesIn(x, d) \o Whole(y) = Whole(x)
  BY <1>1, <1>4, <1>7, SameWhole
<1> QED
  BY <1>1, <1>4, <1>8

\* The loop over the chunk goes on as the lines of the stream do.
LEMMA KeptStep ==
  ASSUME TypeOK
  PROVE  /\ Kept(0) = linebuf
         /\ \A n \in 1..Len(buf) : Kept(n) = IF buf[n] \in Text THEN Append(Kept(n - 1), buf[n])
                                             ELSE Kept(n - 1)
<1> DEFINE K == {j \in DOMAIN buf : buf[j] \in Text}
<1>1. /\ buf \in Seq(Bytes) /\ linebuf \in Seq(Text) /\ Len(buf) \in Nat
      /\ DOMAIN buf = 1..Len(buf)
  BY DEF TypeOK
<1>2. \A n : Kept(n) = linebuf \o Keep(buf, K, n)
  BY DEF Kept
<1>3. \A n \in 1..Len(buf) : n \in K <=> buf[n] \in Text
  BY <1>1
<1> HIDE DEF K
<1>4. /\ Keep(buf, K, 0) = <<>>
      /\ \A n \in 1..Len(buf) : Keep(buf, K, n) = IF n \in K THEN Append(Keep(buf, K, n - 1), buf[n])
                                                  ELSE Keep(buf, K, n - 1)
  BY <1>1, KeepStep
<1>5. ASSUME NEW n \in 0..Len(buf) PROVE Keep(buf, K, n) \in Seq(Text)
  <2>1. \A i \in 1..Len(buf) : i \in K => buf[i] \in Text
    BY <1>3
  <2> QED
    BY <1>1, <2>1, KeepIn
<1>6. Kept(0) = linebuf
  <2>1. linebuf \o <<>> = linebuf
    BY <1>1
  <2> QED
    BY <1>2, <1>4, <2>1, Zenon
<1>7. ASSUME NEW n \in 1..Len(buf)
      PROVE  Kept(n) = IF buf[n] \in Text THEN Append(Kept(n - 1), buf[n]) ELSE Kept(n - 1)
  <2> DEFINE k == Keep(buf, K, n - 1)
  <2>1. k \in Seq(Text)
    <3>1. n - 1 \in 0..Len(buf)
      BY <1>1
    <3> QED
      BY <1>5, <3>1
  <2>2. Keep(buf, K, n) = IF buf[n] \in Text THEN Append(k, buf[n]) ELSE k
    BY <1>3, <1>4
  <2>3. Kept(n) = linebuf \o Keep(buf, K, n) /\ Kept(n - 1) = linebuf \o k
    BY <1>2
  <2> HIDE DEF k
  <2>4. buf[n] \in Text => Append(linebuf \o k, buf[n]) = linebuf \o Append(k, buf[n])
    BY <1>1, <2>1, AppendFacts
  <2> QED
    BY <2>2, <2>3, <2>4
<1> QED
  BY <1>6, <1>7

LEMMA StopsIsEnding ==
  ASSUME TypeOK, NEW n \in 0..Len(buf), \A j \in 1..n : ~Stops(j), n + 1 <= Len(buf)
  PROVE  Stops(n + 1) <=> Ending(Kept(n), buf[n + 1])
<1>1. Kept(n) \in Seq(Text) /\ Len(Kept(n)) <= MaxSize + 1 /\ MaxSize \in Nat
  BY KeptFits, ReaderAssumption
<1>2. (n + 1) - 1 = n /\ Len(Kept(n)) \in Nat
  BY <1>1
<1>3. Len(Kept(n)) > MaxSize <=> Len(Kept(n)) = MaxSize + 1
  BY <1>1, <1>2
<1> QED
  BY <1>2, <1>3 DEF Stops, Ending

LEMMA ChunkScan ==
  ASSUME TypeOK, NEW x \in Seq(Bytes), NEW d \in Nat, d + Len(buf) <= Len(x),
         \A m \in 1..Len(buf) : x[d + m] = buf[m],
         lines = LinesIn(x, d), linebuf = Begun(x, d),
         NEW n \in 0..Len(buf), \A j \in 1..n : ~Stops(j)
  PROVE  Begun(x, d + n) = Kept(n) /\ LinesIn(x, d + n) = lines
<1> DEFINE Same(m) == Begun(x, d + m) = Kept(m) /\ LinesIn(x, d + m) = lines
           T == {m \in Nat : m <= n => Same(m)}
<1>1. Len(x) \in Nat /\ Len(buf) \in Nat /\ n \in Nat /\ n <= Len(buf)
  BY DEF TypeOK
<1>2. 0 \in T
  <2>1. d + 0 = d
    OBVIOUS
  <2>2. Same(0)
    BY <2>1, KeptStep
  <2> QED
    BY <2>2
<1>3. ASSUME NEW m \in Nat, m \in T PROVE m + 1 \in T
  <2> SUFFICES ASSUME m + 1 <= n PROVE Same(m + 1)
    OBVIOUS
  <2>1. /\ m + 1 \in 1..Len(buf) /\ d + (m + 1) \in 1..Len(x) /\ (d + (m + 1)) - 1 = d + m
        /\ (m + 1) - 1 = m /\ m \in 0..Len(buf) /\ m + 1 \in 1..n /\ m <= n
        /\ m + 1 <= Len(buf)
    BY <1>1
  <2>2. Same(m)
    BY <1>3, <2>1
  <2>3. ~Ending(Kept(m), buf[m + 1])
    <3>1. \A j \in 1..m : j \in 1..n
      BY <1>1, <2>1
    <3>2. \A j \in 1..m : ~Stops(j)
      BY <3>1
    <3>3. ~Stops(m + 1)
      BY <2>1
    <3> QED
      BY <2>1, <3>2, <3>3, StopsIsEnding
  <2>4. x[d + (m + 1)] = buf[m + 1]
    BY <2>1
  <2>5. Kept(m + 1) = IF buf[m + 1] \in Text THEN Append(Kept(m), buf[m + 1]) ELSE Kept(m)
    BY <2>1, KeptStep
  <2>6. /\ Begun(x, d + (m + 1)) = NextBegun(Kept(m), buf[m + 1])
        /\ LinesIn(x, d + (m + 1)) = NextLines(lines, Kept(m), buf[m + 1])
    BY <2>1, <2>2, <2>4, ScanStep
  <2> QED
    BY <2>3, <2>5, <2>6 DEF NextBegun, NextLines
<1>4. n \in T
  <2> HIDE DEF T
  <2> QED
    BY <1>1, <1>2, <1>3, SetInduction
<1> QED
  BY <1>1, <1>4

LEMMA ThreeParts ==
  ASSUME NEW S, NEW u \in Seq(S), NEW v \in Seq(S), NEW w \in Seq(S)
  PROVE  /\ (u \o v) \o w \in Seq(S)
         /\ Len((u \o v) \o w) = Len(u) + Len(v) + Len(w)
         /\ Len(u) \in Nat /\ Len(v) \in Nat /\ Len(w) \in Nat
         /\ \A i \in 1..Len(u) : ((u \o v) \o w)[i] = u[i]
         /\ \A i \in 1..Len(v) : ((u \o v) \o w)[Len(u) + i] = v[i]
         /\ \A i \in 1..Len(w) : ((u \o v) \o w)[Len(u) + Len(v) + i] = w[i]
         /\ (u \o v) \o w = u \o (v \o w)
<1>1. Len(u) \in Nat /\ Len(v) \in Nat /\ Len(w) \in Nat
  OBVIOUS
<1>2. u \o v \in Seq(S) /\ Len(u \o v) = Len(u) + Len(v)
  OBVIOUS
<1> DEFINE t == (u \o v) \o w
           z == u \o (v \o w)
<1>3. t \in Seq(S) /\ Len(t) = Len(u) + Len(v) + Len(w)
  BY <1>1, <1>2
<1>4. \A i \in 1..Len(u) : t[i] = u[i]
  BY <1>1, <1>2
<1>5. \A i \in 1..Len(v) : t[Len(u) + i] = v[i]
  BY <1>1, <1>2
<1>6. \A i \in 1..Len(w) : t[Len(u) + Len(v) + i] = w[i]
  BY <1>1, <1>2
<1>7. /\ z \in Seq(S) /\ Len(z) = Len(t)
      /\ \A i \in 1..Len(t) : z[i] = t[i]
  <2>1. v \o w \in Seq(S) /\ Len(v \o w) = Len(v) + Len(w)
    OBVIOUS
  <2>2. z \in Seq(S) /\ Len(z) = Len(t)
    BY <1>1, <1>3, <2>1
  <2>3. ASSUME NEW i \in 1..Len(t) PROVE z[i] = t[i]
    <3>1. CASE i <= Len(u)
      BY <1>1, <1>2, <1>3, <2>1, <3>1
    <3>2. CASE i > Len(u) /\ i <= Len(u) + Len(v)
      BY <1>1, <1>2, <1>3, <2>1, <3>2
    <3>3. CASE i > Len(u) + Len(v)
      BY <1>1, <1>2, <1>3, <2>1, <3>3
    <3> QED
      BY <1>1, <1>3, <3>1, <3>2, <3>3
  <2> QED
    BY <2>2, <2>3
<1> HIDE DEF t, z
<1>8. t = z
  BY <1>3, <1>7
<1> QED
  BY <1>1, <1>3, <1>4, <1>5, <1>6, <1>8 DEF t, z

LEMMA Assoc ==
  ASSUME NEW u \in Seq(Bytes), NEW v \in Seq(Bytes), NEW w \in Seq(Bytes)
  PROVE  (u \o v) \o w = u \o (v \o w)
BY ThreeParts

LEMMA AssocFour ==
  ASSUME NEW b \in Seq(Bytes), NEW u \in Seq(Bytes), NEW v \in Seq(Bytes),
         NEW w \in Seq(Bytes)
  PROVE  ((b \o u) \o v) \o w = b \o ((u \o v) \o w)
<1>1. u \o v \in Seq(Bytes)
  OBVIOUS
<1>2. PICK x \in Seq(Bytes) : x = u \o v
  BY <1>1
<1>3. (b \o u) \o v = b \o x
  BY <1>2, Assoc
<1>4. (b \o x) \o w = b \o (x \o w)
  BY Assoc, SMTT(40)
<1> QED
  BY <1>2, <1>3, <1>4

\* The types of the stream and of what readline has not looked at.
LEMMA StreamType ==
  ASSUME TypeOK, StreamInv
  PROVE  /\ stream \in Seq(Bytes) /\ Rest \in Seq(Bytes)
         /\ Len(stream) = Len(oldLine) + Len(oldBuf) + Len(arrived)
         /\ Len(Rest) = Len(buf) + Len(read_buffer) + Len(net)
         /\ buf \in Seq(Bytes) /\ read_buffer \in Seq(Bytes) /\ net \in Seq(Bytes)
         /\ linebuf \in Seq(Bytes) /\ arrived \in Seq(Bytes)
         /\ oldLine \in Seq(Bytes) /\ oldBuf \in Seq(Bytes)
<1>1. /\ buf \in Seq(Bytes) /\ read_buffer \in Seq(Bytes) /\ net \in Seq(Bytes)
      /\ linebuf \in Seq(Text) /\ arrived \in Seq(Bytes)
      /\ oldLine \in Seq(Text) /\ oldBuf \in Seq(Bytes)
  BY DEF TypeOK, StreamInv
<1>2. linebuf \in Seq(Bytes) /\ oldLine \in Seq(Bytes)
  BY <1>1, TextIsBytes
<1>3. stream \in Seq(Bytes) /\ Len(stream) = Len(oldLine) + Len(oldBuf) + Len(arrived)
  BY <1>1, <1>2, ThreeParts DEF stream
<1>4. Rest \in Seq(Bytes) /\ Len(Rest) = Len(buf) + Len(read_buffer) + Len(net)
  BY <1>1, ThreeParts DEF Rest
<1> QED
  BY <1>1, <1>2, <1>3, <1>4

LEMMA StreamConserved == TypeOK /\ StreamInv => LinesConserved
<1> SUFFICES ASSUME TypeOK, StreamInv, connected
             PROVE  lines \o Whole(pending) = Whole(stream)
  BY DEF LinesConserved
<1>1. /\ stream \in Seq(Bytes) /\ Rest \in Seq(Bytes) /\ linebuf \in Seq(Bytes)
      /\ buf \in Seq(Bytes) /\ read_buffer \in Seq(Bytes) /\ net \in Seq(Bytes)
  BY StreamType
<1>2. pending = linebuf \o Rest
  <2>1. /\ linebuf \in Seq(Bytes) /\ buf \in Seq(Bytes) /\ read_buffer \in Seq(Bytes)
        /\ net \in Seq(Bytes)
    BY <1>1
  <2>2. ((linebuf \o buf) \o read_buffer) \o net = linebuf \o ((buf \o read_buffer) \o net)
    BY <2>1, AssocFour, SMTT(60)
  <2> QED
    BY <2>2 DEF pending, Rest
<1>3. Follows(stream, Rest, lines, linebuf)
  BY DEF StreamInv
<1>4. lines \o Whole(linebuf \o Rest) = Whole(stream)
  BY <1>1, <1>3, FollowsWhole
<1> QED
  BY <1>2, <1>4

LEMMA StreamInit == Init => StreamInv
<1>1. <<>> \in Seq(Text) /\ <<>> \in Seq(Bytes)
  OBVIOUS
<1> QED
  BY <1>1 DEF Init, StreamInv

\* The reader's own steps over the bytes: what it has not looked at stays the rest
\* of the stream.
LEMMA StreamSame ==
  ASSUME StreamInv, UNCHANGED <<oldLine, oldBuf, arrived, lines, linebuf, closedBy>>,
         connected' => connected /\ Rest' = Rest /\ Len(net') <= Len(net),
         net \in Seq(Bytes), net' \in Seq(Bytes), arrived \in Seq(Bytes)
  PROVE  StreamInv'
<1>1. stream' = stream
  BY DEF stream
<1>2. Len(net) \in Nat /\ Len(net') \in Nat /\ Len(arrived) \in Nat
  OBVIOUS
<1>3. connected' => Follows(stream, Rest, lines, linebuf)' /\ Len(net') <= Len(arrived')
  BY <1>1, <1>2 DEF StreamInv, Follows
<1> QED
  BY <1>1, <1>3 DEF StreamInv, AllLines, Whole

LEMMA StreamArrive ==
  ASSUME TypeOK, TypeOK', ClosedBy, StreamInv, NEW b \in Bytes, Arrive(b)
  PROVE  StreamInv'
<1>1. /\ connected /\ net' = Append(net, b) /\ arrived' = Append(arrived, b)
      /\ UNCHANGED <<connected, read_buffer, linebuf, pc, buf, conns, oldLine, oldBuf,
                     lines, closedBy>>
      /\ closedBy # "eof"
  BY DEF Arrive, sockVars, connVars, ClosedBy
<1>2. /\ stream \in Seq(Bytes) /\ Rest \in Seq(Bytes)
      /\ buf \in Seq(Bytes) /\ read_buffer \in Seq(Bytes) /\ net \in Seq(Bytes)
      /\ arrived \in Seq(Bytes) /\ oldLine \in Seq(Bytes) /\ oldBuf \in Seq(Bytes)
  BY StreamType
<1>3. stream' = Append(stream, b)
  <2>1. oldLine \o oldBuf \in Seq(Bytes)
    BY <1>2
  <2>2. (oldLine \o oldBuf) \o Append(arrived, b) = Append((oldLine \o oldBuf) \o arrived, b)
    BY <1>2, <2>1, AppendFacts, SMTT(40)
  <2> QED
    BY <1>1, <2>2 DEF stream
<1>4. Rest' = Append(Rest, b)
  <2>1. buf \o read_buffer \in Seq(Bytes)
    BY <1>2
  <2>2. (buf \o read_buffer) \o Append(net, b) = Append((buf \o read_buffer) \o net, b)
    BY <1>2, <2>1, AppendFacts
  <2> QED
    BY <1>1, <2>2 DEF Rest
<1>5. Follows(stream, Rest, lines, linebuf) /\ Len(net) <= Len(arrived)
  BY <1>1 DEF StreamInv
<1>6. Follows(Append(stream, b), Append(Rest, b), lines, linebuf)
  <2> DEFINE x == stream
             r == Rest
             z == Append(stream, b)
             t == Append(Rest, b)
             d == Len(stream) - Len(Rest)
  <2>1. /\ x \in Seq(Bytes) /\ r \in Seq(Bytes) /\ z \in Seq(Bytes) /\ t \in Seq(Bytes)
        /\ Len(x) \in Nat /\ Len(r) \in Nat /\ Len(z) = Len(x) + 1 /\ Len(t) = Len(r) + 1
        /\ \A m \in 1..Len(x) : z[m] = x[m]
        /\ \A m \in 1..Len(r) : t[m] = r[m]
        /\ z[Len(x) + 1] = b /\ t[Len(r) + 1] = b
    BY <1>2
  <2>2. /\ d \in Nat /\ d = Len(x) - Len(r) /\ Follows(x, r, lines, linebuf)
        /\ \A m \in 1..Len(r) : x[d + m] = r[m]
    BY <1>5 DEF Follows
  <2> HIDE DEF x, r, z, t, d
  <2>3. Len(z) - Len(t) = Len(x) - Len(r)
    BY <2>1
  <2>4. \A m \in 1..(Len(x) - Len(r)) : x[m] = z[m]
    BY <2>1
  <2>5. ASSUME NEW m \in 1..Len(t) PROVE z[Len(z) - Len(t) + m] = t[m]
    <3>1. Len(z) - Len(t) + m = d + m
      BY <2>2, <2>3
    <3>2. CASE m \in 1..Len(r)
      <4>1. d + m \in 1..Len(x)
        BY <2>1, <2>2, <3>2
      <4> QED
        BY <2>1, <2>2, <3>1, <3>2, <4>1
    <3>3. CASE m = Len(r) + 1
      <4>1. d + m = Len(x) + 1
        BY <2>1, <2>2, <3>3
      <4> QED
        BY <2>1, <3>1, <3>3, <4>1
    <3> QED
      BY <2>1, <3>2, <3>3
  <2>6. Follows(z, t, lines, linebuf)
    BY <2>1, <2>2, <2>3, <2>4, <2>5, FollowsTo
  <2> QED
    BY <2>6 DEF z, t
<1>7. Len(net') <= Len(arrived')
  BY <1>1, <1>2, <1>5
<1>8. arrived' \in Seq(Bytes)
  BY <1>1, <1>2
<1>9. Follows(stream, Rest, lines, linebuf)'
  BY <1>1, <1>3, <1>4, <1>6 DEF Follows
<1> QED
  BY <1>1, <1>7, <1>8, <1>9 DEF StreamInv

\* A reset takes the bytes in the network back out of the stream.
LEMMA Shortened ==
  ASSUME NEW p \in Seq(Bytes), NEW a \in Seq(Bytes), NEW q \in Seq(Bytes),
         NEW w \in Seq(Bytes), NEW l, NEW b, Len(w) <= Len(a),
         Follows(p \o a, q \o w, l, b)
  PROVE  Follows(p \o SubSeq(a, 1, Len(a) - Len(w)), q, l, b)
<1>1. PICK x, z, r, c :
        /\ x = p \o a /\ r = q \o w /\ c = SubSeq(a, 1, Len(a) - Len(w)) /\ z = p \o c
  OBVIOUS
<1>2. /\ Len(p) \in Nat /\ Len(a) \in Nat /\ Len(q) \in Nat /\ Len(w) \in Nat
      /\ c \in Seq(Bytes) /\ Len(c) = Len(a) - Len(w)
      /\ \A i \in 1..Len(c) : c[i] = a[i]
  BY <1>1, SMTT(40)
<1>3. /\ x \in Seq(Bytes) /\ r \in Seq(Bytes) /\ z \in Seq(Bytes)
      /\ Len(x) = Len(p) + Len(a) /\ Len(r) = Len(q) + Len(w)
      /\ Len(z) = Len(p) + Len(c)
      /\ \A i \in 1..Len(z) : z[i] = x[i]
      /\ \A i \in 1..Len(q) : r[i] = q[i]
  <2>1. x \in Seq(Bytes) /\ r \in Seq(Bytes) /\ z \in Seq(Bytes)
    BY <1>1, <1>2
  <2>2. /\ Len(x) = Len(p) + Len(a) /\ Len(r) = Len(q) + Len(w)
        /\ Len(z) = Len(p) + Len(c)
    BY <1>1, <1>2
  <2>3. ASSUME NEW i \in 1..Len(z) PROVE z[i] = x[i]
    <3>1. CASE i <= Len(p)
      BY <1>1, <1>2, <2>2, <3>1
    <3>2. CASE i > Len(p)
      <4>1. i - Len(p) \in 1..Len(c) /\ i - Len(p) \in 1..Len(a)
        BY <1>2, <2>2, <3>2
      <4>2. z[i] = c[i - Len(p)] /\ x[i] = a[i - Len(p)]
        BY <1>1, <1>2, <2>2, <3>2, <4>1
      <4> QED
        BY <1>2, <4>1, <4>2
    <3> QED
      BY <1>2, <2>2, <3>1, <3>2
  <2>4. \A i \in 1..Len(q) : r[i] = q[i]
    BY <1>1
  <2> QED
    BY <2>1, <2>2, <2>3, <2>4
<1>4. PICK d \in Nat :
        /\ d = Len(x) - Len(r) /\ Follows(x, r, l, b)
        /\ \A m \in 1..Len(r) : x[d + m] = r[m]
  <2>1. Follows(x, r, l, b)
    BY <1>1
  <2> QED
    BY <2>1 DEF Follows
<1>5. Len(z) - Len(q) = Len(x) - Len(r)
  BY <1>2, <1>3
<1>6. \A m \in 1..(Len(x) - Len(r)) : x[m] = z[m]
  BY <1>2, <1>3, <1>4, <1>5
<1>7. ASSUME NEW m \in 1..Len(q) PROVE z[Len(z) - Len(q) + m] = q[m]
  <2>1. /\ Len(z) - Len(q) + m = d + m /\ m \in 1..Len(r) /\ d + m \in 1..Len(z)
    BY <1>2, <1>3, <1>4, <1>5
  <2> QED
    BY <1>3, <1>4, <2>1
<1>8. Follows(z, q, l, b)
  BY <1>3, <1>4, <1>5, <1>6, <1>7, FollowsTo
<1> QED
  BY <1>1, <1>8

LEMMA StreamPeerClose ==
  ASSUME TypeOK, ClosedBy, StreamInv, PeerClose
  PROVE  StreamInv'
<1>1. /\ connected /\ closedBy # "eof"
      /\ UNCHANGED <<connected, read_buffer, linebuf, pc, buf, conns, oldLine, oldBuf,
                     lines, closedBy>>
  BY DEF PeerClose, sockVars, connVars, ClosedBy
<1>2. /\ buf \in Seq(Bytes) /\ read_buffer \in Seq(Bytes) /\ net \in Seq(Bytes)
      /\ arrived \in Seq(Bytes) /\ oldLine \in Seq(Bytes) /\ oldBuf \in Seq(Bytes)
  BY StreamType
<1>3. CASE UNCHANGED <<net, arrived>>
  <2>1. Rest' = Rest /\ Len(net') <= Len(net) /\ net' \in Seq(Bytes)
    BY <1>1, <1>2, <1>3 DEF Rest
  <2> QED
    BY <1>1, <1>2, <1>3, <2>1, StreamSame
<1>4. CASE net' = <<>> /\ arrived' = SubSeq(arrived, 1, Len(arrived) - Len(net))
  <2>1. Follows(stream, Rest, lines, linebuf) /\ Len(net) <= Len(arrived)
    BY <1>1 DEF StreamInv
  <2> DEFINE p == oldLine \o oldBuf
             q == buf \o read_buffer
  <2>2. p \in Seq(Bytes) /\ q \in Seq(Bytes)
    BY <1>2
  <2>3. stream' = p \o arrived' /\ Rest' = q \o net'
    BY <1>1 DEF stream, Rest
  <2>4. stream = p \o arrived /\ Rest = q \o net
    BY DEF stream, Rest
  <2> HIDE DEF p, q
  <2>5. Follows(p \o arrived, q \o net, lines, linebuf)
    BY <2>1, <2>4
  <2>6. Follows(p \o arrived', q, lines, linebuf)
    BY <1>2, <1>4, <2>1, <2>2, <2>5, Shortened
  <2>7. q \o net' = q
    BY <1>4, <2>2
  <2>8. Follows(stream, Rest, lines, linebuf)'
    BY <1>1, <2>3, <2>6, <2>7 DEF Follows
  <2>9. arrived' \in Seq(Bytes) /\ Len(net') <= Len(arrived')
    BY <1>2, <1>4, <2>1
  <2> QED
    BY <1>1, <2>8, <2>9 DEF StreamInv
<1> QED
  BY <1>3, <1>4 DEF PeerClose

LEMMA StreamConnect ==
  ASSUME TypeOK, StreamInv, Connect
  PROVE  StreamInv'
<1>1. /\ oldLine' = linebuf /\ oldBuf' = read_buffer /\ net' = <<>> /\ arrived' = <<>>
      /\ lines' = <<>> /\ closedBy' = "none" /\ UNCHANGED <<read_buffer, linebuf, buf>>
      /\ buf = <<>>
  BY DEF Connect, TypeOK
<1>2. /\ linebuf \in Seq(Text) /\ read_buffer \in Seq(Bytes) /\ linebuf \in Seq(Bytes)
      /\ Len(linebuf) <= MaxSize + 1
  BY StreamType DEF TypeOK
<1>3. <<>> \in Seq(Bytes) /\ Len(<<>>) <= Len(<<>>)
  OBVIOUS
<1>4. PICK y \in Seq(Bytes), d \in Nat :
        /\ y = linebuf \o read_buffer /\ d = Len(linebuf)
        /\ Len(y) = d + Len(read_buffer) /\ Len(read_buffer) \in Nat
        /\ \A i \in 1..d : y[i] = linebuf[i]
        /\ \A m \in 1..Len(read_buffer) : y[d + m] = read_buffer[m]
  <2> DEFINE y == linebuf \o read_buffer
             d == Len(linebuf)
  <2>1. /\ y \in Seq(Bytes) /\ d \in Nat
        /\ Len(y) = d + Len(read_buffer) /\ Len(read_buffer) \in Nat
        /\ \A i \in 1..d : y[i] = linebuf[i]
        /\ \A m \in 1..Len(read_buffer) : y[d + m] = read_buffer[m]
    BY <1>2
  <2> QED
    BY <2>1
<1>5. Begun(y, d) = linebuf /\ LinesIn(y, d) = <<>>
  <2>1. Len(linebuf) <= Len(y)
    BY <1>4
  <2> QED
    BY <1>2, <1>4, <2>1, BegunText
<1>6. Follows(y, read_buffer, <<>>, linebuf)
  <2>1. Len(y) - Len(read_buffer) = d
    BY <1>4
  <2> QED
    BY <1>4, <1>5, <2>1 DEF Follows
<1>7. stream' = y
  <2>1. stream' = (linebuf \o read_buffer) \o <<>>
    BY <1>1 DEF stream
  <2>2. y \o <<>> = y
    OBVIOUS
  <2> QED
    BY <1>4, <2>1, <2>2
<1>8. Rest' = read_buffer
  <2>1. Rest' = (<<>> \o read_buffer) \o <<>>
    BY <1>1 DEF Rest
  <2>2. (<<>> \o read_buffer) \o <<>> = read_buffer
    BY <1>2
  <2> QED
    BY <2>1, <2>2
<1>9. Follows(stream, Rest, lines, linebuf)'
  BY <1>1, <1>6, <1>7, <1>8 DEF Follows
<1> QED
  BY <1>1, <1>2, <1>3, <1>9 DEF StreamInv

LEMMA StreamReadBuffered ==
  ASSUME TypeOK, StreamInv, ReadBuffered
  PROVE  StreamInv'
<1>1. /\ read_buffer \in Seq(Bytes) /\ net \in Seq(Bytes) /\ arrived \in Seq(Bytes)
      /\ Len(read_buffer) < ChunkSize /\ buf = <<>>
  BY StreamType DEF TypeOK, ReadBuffered
<1>2. /\ buf' = SubSeq(read_buffer, 1, Len(read_buffer))
      /\ read_buffer' = SubSeq(read_buffer, Len(read_buffer) + 1, Len(read_buffer))
      /\ UNCHANGED <<connected, linebuf, net, oldLine, oldBuf, arrived, lines, closedBy>>
  BY <1>1 DEF ReadBuffered, netVars, connVars
<1>3. buf' = read_buffer /\ read_buffer' = <<>>
  BY <1>1, <1>2, TakeAll
<1>4. Rest' = Rest
  <2>1. Rest' = (read_buffer \o <<>>) \o net /\ Rest = (<<>> \o read_buffer) \o net
    BY <1>1, <1>2, <1>3 DEF Rest
  <2>2. read_buffer \o <<>> = read_buffer /\ <<>> \o read_buffer = read_buffer
    BY <1>1
  <2> QED
    BY <2>1, <2>2
<1>5. Len(net) <= Len(net)
  BY <1>1
<1> QED
  BY <1>1, <1>2, <1>4, <1>5, StreamSame

\* What is read goes from the network into the chunk.
LEMMA CutInTwo ==
  ASSUME NEW s \in Seq(Bytes), NEW n \in 0..Len(s)
  PROVE  /\ SubSeq(s, 1, n) \o SubSeq(s, n + 1, Len(s)) = s
         /\ SubSeq(s, 1, n) \in Seq(Bytes) /\ SubSeq(s, n + 1, Len(s)) \in Seq(Bytes)
         /\ Len(SubSeq(s, n + 1, Len(s))) = Len(s) - n
<1>1. PICK u, v : u = SubSeq(s, 1, n) /\ v = SubSeq(s, n + 1, Len(s))
  OBVIOUS
<1>2. /\ u \in Seq(Bytes) /\ v \in Seq(Bytes) /\ Len(u) = n /\ Len(v) = Len(s) - n
      /\ n \in Nat /\ Len(s) \in Nat
      /\ \A i \in 1..n : u[i] = s[i]
      /\ \A i \in 1..(Len(s) - n) : v[i] = s[n + i]
  BY <1>1
<1>3. PICK t : t = u \o v
  OBVIOUS
<1>4. t \in Seq(Bytes) /\ Len(t) = Len(s)
  <2>1. u \o v \in Seq(Bytes) /\ Len(u \o v) = Len(u) + Len(v)
    BY <1>2
  <2> QED
    BY <1>2, <1>3, <2>1
<1>5. ASSUME NEW i \in 1..Len(s) PROVE t[i] = s[i]
  <2>1. CASE i <= n
    BY <1>2, <1>3, <2>1
  <2>2. CASE i > n
    <3>1. i - n \in 1..(Len(s) - n) /\ n + (i - n) = i
      BY <1>2, <2>2
    <3>2. t[i] = v[i - n]
      BY <1>2, <1>3, <2>2, <3>1
    <3> QED
      BY <1>2, <3>1, <3>2
  <2> QED
    BY <1>2, <2>1, <2>2
<1>6. t = s
  BY <1>4, <1>5
<1> QED
  BY <1>1, <1>2, <1>3, <1>6

LEMMA StreamReadSocket ==
  ASSUME TypeOK, StreamInv, ReadSocket
  PROVE  StreamInv'
<1>1. /\ net \in Seq(Bytes) /\ arrived \in Seq(Bytes) /\ buf = <<>> /\ read_buffer = <<>>
      /\ Len(net) \in Nat /\ ChunkSize \in Nat
      /\ UNCHANGED <<connected, read_buffer, linebuf, oldLine, oldBuf, arrived, lines,
                     closedBy>>
  BY StreamType, ReaderAssumption DEF TypeOK, ReadSocket, sockVars, connVars
<1>2. PICK n : n = IF Len(net) < ChunkSize THEN Len(net) ELSE ChunkSize
  OBVIOUS
<1>3. n \in 0..Len(net)
  BY <1>1, <1>2
<1>4. buf' = SubSeq(net, 1, n) /\ net' = SubSeq(net, n + 1, Len(net))
  BY <1>2 DEF ReadSocket
<1>5. /\ buf' \o net' = net /\ net' \in Seq(Bytes) /\ buf' \in Seq(Bytes)
      /\ Len(net') = Len(net) - n
  BY <1>1, <1>3, <1>4, CutInTwo
<1>6. Len(net') <= Len(net)
  BY <1>1, <1>3, <1>5
<1>7. Rest' = Rest
  <2>1. Rest' = (buf' \o <<>>) \o net' /\ Rest = (<<>> \o <<>>) \o net
    BY <1>1 DEF Rest
  <2>2. buf' \o <<>> = buf' /\ <<>> \o <<>> = <<>> /\ <<>> \o net = net
    BY <1>1, <1>5
  <2> QED
    BY <1>5, <2>1, <2>2
<1> QED
  BY <1>1, <1>5, <1>6, <1>7, StreamSame

\* The end of the file is met with the whole stream read.
LEMMA StreamReadFails ==
  ASSUME TypeOK, EofClean, StreamInv, ReadFails
  PROVE  StreamInv'
<1>1. /\ connected' = FALSE /\ UNCHANGED <<oldLine, oldBuf, arrived>>
      /\ closedBy' = IF connected THEN "eof" ELSE closedBy
      /\ pc = "read" /\ buf = <<>>
      /\ connected => read_buffer = <<>> /\ net = <<>>
      /\ lines' = IF linebuf = <<>> THEN lines ELSE Append(lines, linebuf)
  BY DEF ReadFails, Close, TypeOK, netVars, connVars
<1>2. stream' = stream
  BY <1>1 DEF stream
<1>3. CASE connected
  <2>1. Rest = <<>>
    <3>1. Rest = (<<>> \o <<>>) \o <<>>
      BY <1>1, <1>3 DEF Rest
    <3>2. <<>> \o <<>> = <<>>
      OBVIOUS
    <3> QED
      BY <3>1, <3>2
  <2>2. Follows(stream, <<>>, lines, linebuf)
    BY <1>3, <2>1 DEF StreamInv
  <2>3. Len(stream) - Len(<<>>) = Len(stream)
    <3>1. Len(stream) \in Nat
      BY StreamType
    <3> QED
      BY <3>1
  <2>4. lines = Whole(stream) /\ linebuf = Begun(stream, Len(stream))
    BY <2>2, <2>3 DEF Follows, Whole
  <2>5. lines' = AllLines(stream)
    BY <1>1, <2>4 DEF AllLines
  <2> QED
    BY <1>1, <1>2, <2>5 DEF StreamInv, AllLines, Whole
<1>4. CASE ~connected
  <2>1. closedBy # "eof"
    BY <1>1 DEF EofClean
  <2> QED
    BY <1>1, <1>4, <2>1 DEF StreamInv
<1> QED
  BY <1>3, <1>4

LEMMA RestOfChunk ==
  ASSUME NEW s \in Seq(Bytes), NEW k \in 1..Len(s)
  PROVE  /\ SubSeq(s, k + 1, Len(s)) \in Seq(Bytes)
         /\ Len(SubSeq(s, k + 1, Len(s))) = Len(s) - k
         /\ \A i \in 1..(Len(s) - k) : SubSeq(s, k + 1, Len(s))[i] = s[k + i]
OBVIOUS

\* The loop over the chunk is a run over the next bytes of the stream.
LEMMA StreamChunk ==
  ASSUME ReaderInv, EofClean, StreamInv, Chunk
  PROVE  StreamInv'
<1>1. /\ TypeOK /\ pc = "got" /\ read_buffer = <<>> /\ buf' = <<>>
      /\ UNCHANGED <<connected, net, oldLine, oldBuf, arrived, closedBy>>
      /\ closedBy # "eof"
  BY DEF Chunk, ReaderInv, EofClean, netVars, connVars
<1>2. SUFFICES ASSUME connected
               PROVE  Follows(stream, Rest, lines, linebuf)'
  BY <1>1 DEF StreamInv
<1>3. /\ buf \in Seq(Bytes) /\ net \in Seq(Bytes) /\ stream \in Seq(Bytes)
      /\ Len(buf) \in Nat /\ Len(net) \in Nat /\ DOMAIN buf = 1..Len(buf)
  BY <1>1, StreamType
<1>4. stream' = stream
  BY <1>1 DEF stream
<1>5. Rest = buf \o net
  <2>1. Rest = (buf \o <<>>) \o net
    BY <1>1 DEF Rest
  <2>2. buf \o <<>> = buf
    BY <1>3
  <2> QED
    BY <2>1, <2>2
<1>6. PICK d \in Nat :
        /\ Len(stream) = d + Len(buf) + Len(net)
        /\ \A m \in 1..Len(buf) : stream[d + m] = buf[m]
        /\ \A m \in 1..Len(net) : stream[d + Len(buf) + m] = net[m]
        /\ lines = LinesIn(stream, d) /\ linebuf = Begun(stream, d)
  <2> DEFINE d == Len(stream) - Len(Rest)
  <2>1. /\ d \in Nat /\ d = Len(stream) - Len(Rest)
        /\ \A m \in 1..Len(Rest) : stream[d + m] = Rest[m]
        /\ lines = LinesIn(stream, d) /\ linebuf = Begun(stream, d)
    BY <1>2 DEF StreamInv, Follows
  <2> HIDE DEF d
  <2>2. /\ Len(Rest) = Len(buf) + Len(net) /\ Len(stream) \in Nat
        /\ \A m \in 1..Len(buf) : Rest[m] = buf[m]
        /\ \A m \in 1..Len(net) : Rest[Len(buf) + m] = net[m]
    BY <1>3, <1>5
  <2>3. Len(stream) = d + Len(buf) + Len(net)
    BY <1>3, <2>1, <2>2
  <2>4. \A m \in 1..Len(buf) : stream[d + m] = buf[m]
    BY <1>3, <2>1, <2>2
  <2>5. ASSUME NEW m \in 1..Len(net) PROVE stream[d + Len(buf) + m] = net[m]
    <3>1. Len(buf) + m \in 1..Len(Rest) /\ d + (Len(buf) + m) = d + Len(buf) + m
      BY <1>3, <2>1, <2>2
    <3> QED
      BY <2>1, <2>2, <3>1
  <2> QED
    BY <2>1, <2>3, <2>4, <2>5
<1>7. Len(stream) \in Nat /\ d + Len(buf) <= Len(stream)
  BY <1>3, <1>6
<1>8. ASSUME NEW n \in 0..Len(buf), \A j \in 1..n : ~Stops(j)
      PROVE  Begun(stream, d + n) = Kept(n) /\ LinesIn(stream, d + n) = lines
  BY <1>1, <1>3, <1>6, <1>7, <1>8, ChunkScan
<1> DEFINE stops == {k \in DOMAIN buf : Stops(k)}
<1>9. CASE stops = {}
  <2>1. linebuf' = Kept(Len(buf)) /\ UNCHANGED <<read_buffer, lines>>
    BY <1>9 DEF Chunk
  <2>2. Len(buf) \in 0..Len(buf) /\ \A j \in 1..Len(buf) : ~Stops(j)
    BY <1>3, <1>9
  <2>3. Begun(stream, d + Len(buf)) = linebuf' /\ LinesIn(stream, d + Len(buf)) = lines'
    BY <1>8, <2>1, <2>2
  <2>4. Rest' = net
    <3>1. Rest' = (<<>> \o <<>>) \o net
      BY <1>1, <2>1 DEF Rest
    <3>2. <<>> \o <<>> = <<>> /\ <<>> \o net = net
      BY <1>3
    <3> QED
      BY <3>1, <3>2
  <2>5. Len(stream) - Len(net) = d + Len(buf) /\ d + Len(buf) \in Nat
    BY <1>3, <1>6
  <2>6. Follows(stream, net, lines', linebuf')
    BY <1>6, <2>3, <2>5 DEF Follows
  <2> QED
    BY <1>4, <2>4, <2>6 DEF Follows
<1>10. CASE stops # {}
  <2>1. PICK k \in stops :
          /\ \A j \in stops : k <= j
          /\ lines' = IF Kept(k - 1) = <<>> THEN lines ELSE Append(lines, Kept(k - 1))
          /\ linebuf' = <<>>
          /\ read_buffer' = read_buffer \o SubSeq(buf, k + 1, Len(buf))
    BY <1>10 DEF Chunk
  <2>2. /\ k \in 1..Len(buf) /\ k - 1 \in 0..Len(buf) /\ (k - 1) + 1 = k /\ k <= Len(buf)
        /\ d + k \in 1..Len(stream) /\ (d + k) - 1 = d + (k - 1) /\ d + k \in Nat
        /\ \A j \in 1..(k - 1) : j \in DOMAIN buf /\ ~(k <= j)
    <3>1. PICK n \in Nat : n = Len(buf)
      BY <1>3
    <3>2. k \in 1..n
      BY <1>3, <3>1
    <3>3. PICK z \in Nat : z = Len(stream)
      BY <1>7
    <3>4. d + n <= z
      BY <1>7, <3>1, <3>3
    <3>5. /\ k - 1 \in 0..n /\ (k - 1) + 1 = k /\ k <= n
          /\ d + k \in 1..z /\ (d + k) - 1 = d + (k - 1) /\ d + k \in Nat
      BY <3>2, <3>4
    <3>6. \A j \in 1..(k - 1) : j \in 1..n /\ ~(k <= j)
      BY <3>2
    <3> QED
      BY <1>3, <3>1, <3>2, <3>3, <3>5, <3>6
  <2>3. \A j \in 1..(k - 1) : ~Stops(j)
    BY <2>1, <2>2
  <2>4. /\ Begun(stream, d + (k - 1)) = Kept(k - 1)
        /\ LinesIn(stream, d + (k - 1)) = lines
    BY <1>8, <2>2, <2>3
  <2>5. Ending(Kept(k - 1), buf[k])
    <3>1. Stops((k - 1) + 1)
      BY <2>2
    <3>2. PICK n \in 0..Len(buf) : n = k - 1
      BY <2>2
    <3>3. Stops(n + 1) <=> Ending(Kept(n), buf[n + 1])
      BY <1>1, <2>2, <2>3, <3>2, StopsIsEnding
    <3> QED
      BY <2>2, <3>1, <3>2, <3>3
  <2>6. stream[d + k] = buf[k]
    BY <1>6, <2>2
  <2>7. /\ Begun(stream, d + k) = NextBegun(Kept(k - 1), buf[k])
        /\ LinesIn(stream, d + k) = NextLines(lines, Kept(k - 1), buf[k])
    BY <1>3, <2>2, <2>4, <2>6, ScanStep
  <2>8. Begun(stream, d + k) = linebuf' /\ LinesIn(stream, d + k) = lines'
    BY <2>1, <2>5, <2>7 DEF NextBegun, NextLines
  <2>9. PICK v \in Seq(Bytes) :
          /\ v = SubSeq(buf, k + 1, Len(buf)) /\ Len(v) = Len(buf) - k
          /\ \A i \in 1..(Len(buf) - k) : v[i] = buf[k + i]
    <3>1. /\ SubSeq(buf, k + 1, Len(buf)) \in Seq(Bytes)
          /\ Len(SubSeq(buf, k + 1, Len(buf))) = Len(buf) - k
          /\ \A i \in 1..(Len(buf) - k) : SubSeq(buf, k + 1, Len(buf))[i] = buf[k + i]
      BY <1>3, <2>2, RestOfChunk
    <3> QED
      BY <3>1
  <2>10. Rest' = v \o net
    <3>1. Rest' = (<<>> \o (<<>> \o v)) \o net
      BY <1>1, <2>1, <2>9 DEF Rest
    <3>2. <<>> \o v = v
      OBVIOUS
    <3> QED
      BY <3>1, <3>2
  <2>11. PICK r \in Seq(Bytes) :
           /\ r = v \o net /\ Len(r) = Len(v) + Len(net)
           /\ \A i \in 1..Len(v) : r[i] = v[i]
           /\ \A i \in 1..Len(net) : r[Len(v) + i] = net[i]
    <3>1. /\ v \o net \in Seq(Bytes) /\ Len(v \o net) = Len(v) + Len(net)
          /\ \A i \in 1..Len(v) : (v \o net)[i] = v[i]
          /\ \A i \in 1..Len(net) : (v \o net)[Len(v) + i] = net[i]
      BY SMTT(40), <1>3
    <3> QED
      BY <3>1
  <2>12. PICK n \in Nat, c \in Nat : n = Len(buf) /\ c = Len(net)
    BY <1>3
  <2>13. k \in 1..n /\ Len(v) = n - k /\ Len(r) = (n - k) + c /\ Len(stream) = d + n + c
    BY <1>6, <2>2, <2>9, <2>11, <2>12
  <2>14. Len(stream) - Len(r) = d + k
    BY <2>13
  <2>15. ASSUME NEW m \in 1..Len(r) PROVE stream[(d + k) + m] = r[m]
    <3>1. CASE m \in 1..Len(v)
      <4>1. k + m \in 1..Len(buf) /\ (d + k) + m = d + (k + m) /\ m \in 1..(Len(buf) - k)
        BY <2>12, <2>13, <3>1
      <4> QED
        BY <1>6, <2>9, <2>11, <3>1, <4>1
    <3>2. CASE m \notin 1..Len(v)
      <4>1. PICK i \in 1..Len(net) : m = Len(v) + i
        <5>1. m - Len(v) \in 1..Len(net) /\ m = Len(v) + (m - Len(v))
          BY <2>12, <2>13, <3>2
        <5> QED
          BY <5>1
      <4>2. (d + k) + m = d + Len(buf) + i
        BY <2>12, <2>13, <4>1
      <4> QED
        BY <1>6, <2>11, <4>1, <4>2
    <3> QED
      BY <3>1, <3>2
  <2>16. Follows(stream, r, lines', linebuf')
    BY <2>2, <2>8, <2>14, <2>15 DEF Follows
  <2> QED
    BY <1>4, <2>10, <2>11, <2>16 DEF Follows
<1> QED
  BY <1>9, <1>10

\* The inductive step, one case per action.
LEMMA StreamStep ==
  ASSUME ReaderInv, BufferInv, StreamInv, [Next]_vars
  PROVE  StreamInv'
<1>1. /\ TypeOK /\ TypeOK' /\ EofClean /\ ClosedBy
      /\ net \in Seq(Bytes) /\ arrived \in Seq(Bytes) /\ Len(net) <= Len(net)
  <2>1. TypeOK /\ TypeOK'
    BY ReaderStep DEF ReaderInv
  <2>2. net \in Seq(Bytes) /\ arrived \in Seq(Bytes)
    BY DEF ReaderInv, TypeOK, StreamInv
  <2>3. Len(net) <= Len(net)
    BY <2>2
  <2> QED
    BY <2>1, <2>2, <2>3 DEF BufferInv
<1>2. ASSUME UNCHANGED <<connected, read_buffer, linebuf, buf, net, oldLine, oldBuf,
                         arrived, lines, closedBy>>
      PROVE  StreamInv'
  BY <1>1, <1>2, StreamSame DEF Rest
\* A close by another end than the server's.
<1>3. ASSUME ~connected', closedBy' = "eof" => closedBy = "eof",
             UNCHANGED <<oldLine, oldBuf, arrived, lines>>
      PROVE  StreamInv'
  <2>1. stream' = stream
    BY <1>3 DEF stream
  <2> QED
    BY <1>3, <2>1 DEF StreamInv, AllLines, Whole
<1> USE DEF sockVars, netVars, connVars
<1>4. ASSUME NEW b \in Bytes, Arrive(b) PROVE StreamInv'
  BY <1>1, <1>4, StreamArrive
<1>5. CASE PeerClose
  BY <1>1, <1>5, StreamPeerClose
<1>6. CASE Connect
  BY <1>1, <1>6, StreamConnect
<1>7. CASE WriterClose
  BY <1>3, <1>7 DEF WriterClose, Close
<1>8. CASE Call
  BY <1>2, <1>8 DEF Call
<1>9. CASE ReadBuffered
  BY <1>1, <1>9, StreamReadBuffered
<1>10. CASE ReadSocket
  BY <1>1, <1>10, StreamReadSocket
<1>11. CASE TimedOut
  BY <1>2, <1>11 DEF TimedOut
<1>12. CASE ReadFails
  BY <1>1, <1>12, StreamReadFails
<1>13. CASE Chunk
  BY <1>1, <1>13, StreamChunk
<1>14. CASE LoopEnds
  BY <1>2, <1>14 DEF LoopEnds
<1>15. CASE Disconnect
  BY <1>3, <1>15 DEF Disconnect, Close
<1>16. CASE UNCHANGED vars
  BY <1>2, <1>16 DEF vars
<1> QED
  BY <1>4, <1>5, <1>6, <1>7, <1>8, <1>9, <1>10, <1>11, <1>12, <1>13, <1>14, <1>15,
     <1>16 DEF Next, Reader

\* While a connection is up, the lines returned and the line begun are those of
\* the bytes that readline has looked at, and the bytes it has not looked at are
\* the others; after an end of file all lines of the stream were returned.
THEOREM StreamInvariance == Spec => []StreamInv
BY BufferInit, BufferStep, ReaderInit, ReaderStep, StreamInit, StreamStep, PTL DEF Spec

\* However the bytes are cut into chunks, whatever the sizes of chunks and lines
\* and wherever a read times out, what readline returned and will return of the
\* bytes it has are the lines of the stream, in order, each once.
THEOREM LinesKept == Spec => []LinesConserved
<1>1. ReaderInv => TypeOK
  BY DEF ReaderInv
<1> QED
  BY ReaderInit, ReaderStep, StreamInvariance, StreamConserved, <1>1, PTL DEF Spec

\* When the server ended the connection, main_loop ends only after it was given
\* every line that arrived, an unfinished last one included.
THEOREM EofReadsEverything == Spec => []EofReadsAll
<1>1. StreamInv => EofReadsAll
  BY DEF StreamInv, EofReadsAll
<1> QED
  BY StreamInvariance, <1>1, PTL
-----------------------------------------------------------------------------
(***************************************************************************)
(* The walk of parse_irc_line over a line of any length.                   *)
(***************************************************************************)
Need(line) == IF HasPrefix(line) THEN 2 ELSE 1
Word(ws, i) == IF i <= Len(ws) THEN ws[i] ELSE <<>>
WithWord(ws, b) == IF b = <<>> THEN ws ELSE Append(ws, b)

\* The variables of the walk, ...
Vars(st, b, sp, d, pre, c, par) ==
  [state |-> st, buf |-> b, isspace |-> sp, done |-> d, prefix |-> pre, cmd |-> c, params |-> par]
\* ... when it has committed the words ws and has b in the buffer, and when it
\* ended with the last parameter r.
StateAfter(line, n) ==
  IF n >= Need(line) THEN "PARAM" ELSE IF n + 1 = Need(line) THEN "CMD" ELSE "PREFIX"
PrefixOf(line, ws) == IF HasPrefix(line) THEN Word(ws, 1) ELSE <<>>
CmdOf(line, ws) == Upper(Word(ws, Need(line)))
ParamsOf(line, ws) == SubSeq(ws, Need(line) + 1, Len(ws))
After(line, ws, b, sp) ==
  Vars(StateAfter(line, Len(ws)), b, sp, FALSE, PrefixOf(line, ws), CmdOf(line, ws),
       ParamsOf(line, ws))
Ended(line, ws, r) ==
  Vars("PARAM", <<>>, TRUE, TRUE, PrefixOf(line, ws), CmdOf(line, ws),
       Append(ParamsOf(line, ws), r))

\* What a word more changes.
LEMMA WordMore ==
  ASSUME NEW S, NEW ws \in Seq(S), NEW b \in S, NEW m \in {1, 2}
  PROVE  /\ Len(Append(ws, b)) = Len(ws) + 1 /\ Len(ws) \in Nat
         /\ \A i \in {1, 2} : Word(Append(ws, b), i) = IF i = Len(ws) + 1 THEN b ELSE Word(ws, i)
         /\ Len(ws) < m => /\ SubSeq(Append(ws, b), m + 1, Len(ws) + 1) = <<>>
                           /\ SubSeq(ws, m + 1, Len(ws)) = <<>>
         /\ Len(ws) >= m => SubSeq(Append(ws, b), m + 1, Len(ws) + 1)
                              = Append(SubSeq(ws, m + 1, Len(ws)), b)
<1> DEFINE a == Append(ws, b)
           n == Len(ws)
<1>1. n \in Nat /\ a \in Seq(S) /\ Len(a) = n + 1 /\ a[n + 1] = b /\ \A i \in 1..n : a[i] = ws[i]
  OBVIOUS
<1> HIDE DEF a
<1>2. ASSUME NEW i \in {1, 2} PROVE Word(a, i) = IF i = n + 1 THEN b ELSE Word(ws, i)
  <2>1. CASE i <= n
    <3>1. i <= Len(a) /\ i # n + 1 /\ a[i] = ws[i]
      BY <1>1, <2>1
    <3> QED
      BY <2>1, <3>1 DEF Word
  <2>2. CASE i = n + 1
    BY <1>1, <2>2 DEF Word
  <2>3. CASE i > n + 1
    <3>1. ~(i <= Len(a)) /\ ~(i <= n) /\ i # n + 1
      BY <1>1, <2>3
    <3> QED
      BY <3>1 DEF Word
  <2> QED
    BY <1>1, <2>1, <2>2, <2>3
<1>3. ASSUME n < m
      PROVE  SubSeq(a, m + 1, n + 1) = <<>> /\ SubSeq(ws, m + 1, n) = <<>>
  BY <1>1, <1>3
<1>4. ASSUME n >= m
      PROVE  SubSeq(a, m + 1, n + 1) = Append(SubSeq(ws, m + 1, n), b)
  <2> DEFINE u == SubSeq(ws, m + 1, n)
             x == SubSeq(a, m + 1, n + 1)
             y == Append(u, b)
  <2>1. u \in Seq(S) /\ Len(u) = n - m /\ \A i \in 1..(n - m) : u[i] = ws[m + i]
    BY <1>1, <1>4
  <2>2. x \in Seq(S) /\ Len(x) = n - m + 1 /\ \A i \in 1..(n - m + 1) : x[i] = a[m + i]
    BY <1>1, <1>4
  <2> HIDE DEF u
  <2>3. /\ y \in Seq(S) /\ Len(y) = n - m + 1 /\ y[n - m + 1] = b
        /\ \A i \in 1..(n - m) : y[i] = u[i]
    BY <2>1
  <2> HIDE DEF x, y
  <2>4. ASSUME NEW i \in 1..(n - m + 1) PROVE x[i] = y[i]
    <3>1. CASE i = n - m + 1
      <4>1. m + i = n + 1
        BY <1>1, <3>1
      <4> QED
        BY <1>1, <2>2, <2>3, <3>1, <4>1
    <3>2. CASE i # n - m + 1
      <4>1. i \in 1..(n - m) /\ m + i \in 1..n
        BY <1>1, <1>4, <3>2
      <4> QED
        BY <1>1, <2>1, <2>2, <2>3, <4>1
    <3> QED
      BY <3>1, <3>2
  <2>5. x = y
    BY <1>1, <1>4, <2>2, <2>3, <2>4
  <2> QED
    BY <2>5 DEF x, y, u
<1> QED
  BY <1>1, <1>2, <1>3, <1>4 DEF a

CommitGoes(st, b, sp, d, pre, c, par) ==
  /\ b = <<>> => Commit(Vars(st, b, sp, d, pre, c, par)) = Vars(st, b, sp, d, pre, c, par)
  /\ b # <<>> /\ st = "PREFIX" =>
       Commit(Vars(st, b, sp, d, pre, c, par)) = Vars("CMD", <<>>, sp, d, b, c, par)
  /\ b # <<>> /\ st = "CMD" =>
       Commit(Vars(st, b, sp, d, pre, c, par)) = Vars("PARAM", <<>>, sp, d, pre, Upper(b), par)
  /\ b # <<>> /\ st = "PARAM" =>
       Commit(Vars(st, b, sp, d, pre, c, par)) = Vars(st, <<>>, sp, d, pre, c, Append(par, b))

LEMMA CommitIs ==
  ASSUME NEW st, NEW b, NEW sp, NEW d, NEW pre, NEW c, NEW par
  PROVE  CommitGoes(st, b, sp, d, pre, c, par)
BY DEF Commit, Vars, CommitGoes

CommitsTo(line, ws, b, sp) ==
  Commit(After(line, ws, b, sp)) = After(line, WithWord(ws, b), <<>>, sp)

LEMMA CommitAfter ==
  ASSUME NEW S, NEW line, NEW ws \in Seq(Seq(S)), NEW b \in Seq(S), NEW sp
  PROVE  CommitsTo(line, ws, b, sp)
<1> SUFFICES Commit(After(line, ws, b, sp)) = After(line, WithWord(ws, b), <<>>, sp)
  BY DEF CommitsTo
<1> DEFINE m == Need(line)
           n == Len(ws)
           a == Append(ws, b)
<1>1. m \in {1, 2} /\ (m = 2 <=> HasPrefix(line)) /\ n \in Nat
  BY DEF Need
<1>2. CASE b = <<>>
  <2>1. CommitGoes(StateAfter(line, n), b, sp, FALSE, PrefixOf(line, ws), CmdOf(line, ws),
                   ParamsOf(line, ws))
    BY CommitIs
  <2>2. Commit(After(line, ws, b, sp)) = After(line, ws, b, sp) /\ WithWord(ws, b) = ws
    BY <1>2, <2>1, Zenon DEF CommitGoes, After, WithWord
  <2> QED
    BY <1>2, <2>2, Zenon
<1>3. CASE b # <<>>
  <2>1. /\ WithWord(ws, b) = a /\ Len(a) = n + 1
        /\ \A i \in {1, 2} : Word(a, i) = IF i = n + 1 THEN b ELSE Word(ws, i)
        /\ n < m => SubSeq(a, m + 1, n + 1) = <<>> /\ SubSeq(ws, m + 1, n) = <<>>
        /\ n >= m => SubSeq(a, m + 1, n + 1) = Append(SubSeq(ws, m + 1, n), b)
    BY ZenonT(60), <1>1, <1>3, WordMore DEF WithWord
  <2>2. /\ PrefixOf(line, a) = IF m = 2 THEN Word(a, 1) ELSE <<>>
        /\ PrefixOf(line, ws) = IF m = 2 THEN Word(ws, 1) ELSE <<>>
        /\ CmdOf(line, a) = Upper(Word(a, m)) /\ CmdOf(line, ws) = Upper(Word(ws, m))
        /\ ParamsOf(line, a) = SubSeq(a, m + 1, n + 1)
        /\ ParamsOf(line, ws) = SubSeq(ws, m + 1, n)
        /\ StateAfter(line, n) = IF n >= m THEN "PARAM" ELSE IF n + 1 = m THEN "CMD" ELSE "PREFIX"
        /\ StateAfter(line, n + 1) = IF n + 1 >= m THEN "PARAM"
                                     ELSE IF (n + 1) + 1 = m THEN "CMD" ELSE "PREFIX"
    BY <1>1, <2>1 DEF PrefixOf, CmdOf, ParamsOf, StateAfter
  <2>3. /\ After(line, ws, b, sp) =
             Vars(StateAfter(line, n), b, sp, FALSE, PrefixOf(line, ws), CmdOf(line, ws),
                  ParamsOf(line, ws))
        /\ After(line, a, <<>>, sp) =
             Vars(StateAfter(line, n + 1), <<>>, sp, FALSE, PrefixOf(line, a), CmdOf(line, a),
                  ParamsOf(line, a))
    BY <2>1 DEF After
  <2> HIDE DEF a, m, n
  <2>c. CommitGoes(StateAfter(line, n), b, sp, FALSE, PrefixOf(line, ws), CmdOf(line, ws),
                   ParamsOf(line, ws))
    BY CommitIs
  <2>4. CASE n >= m
    <3>1. /\ StateAfter(line, n) = "PARAM" /\ StateAfter(line, n + 1) = "PARAM"
          /\ PrefixOf(line, a) = PrefixOf(line, ws) /\ CmdOf(line, a) = CmdOf(line, ws)
          /\ ParamsOf(line, a) = Append(ParamsOf(line, ws), b)
      <4>1. Word(a, 1) = Word(ws, 1) /\ Word(a, m) = Word(ws, m)
        <5>1. 1 # n + 1 /\ m # n + 1
          BY <1>1, <2>4
        <5> QED
          BY <1>1, <2>1, <5>1, Zenon
      <4>2. n + 1 >= m
        BY <1>1, <2>4
      <4> QED
        BY <2>1, <2>2, <2>4, <4>1, <4>2
    <3> QED
      BY <1>3, <2>1, <2>3, <2>c, <3>1, Zenon DEF CommitGoes
  <2>5. CASE n + 1 = m
    <3>1. /\ StateAfter(line, n) = "CMD" /\ StateAfter(line, n + 1) = "PARAM"
          /\ PrefixOf(line, a) = PrefixOf(line, ws) /\ CmdOf(line, a) = Upper(b)
          /\ ParamsOf(line, a) = ParamsOf(line, ws)
      BY <1>1, <2>1, <2>2, <2>5
    <3> QED
      BY <1>3, <2>1, <2>3, <2>c, <3>1, Zenon DEF CommitGoes
  <2>6. CASE n + 1 < m
    <3>1. /\ StateAfter(line, n) = "PREFIX" /\ StateAfter(line, n + 1) = "CMD"
          /\ PrefixOf(line, a) = b /\ CmdOf(line, a) = CmdOf(line, ws)
          /\ ParamsOf(line, a) = ParamsOf(line, ws)
      <4>1. n = 0 /\ m = 2
        BY <1>1, <2>6
      <4> QED
        BY <1>1, <2>1, <2>2, <4>1
    <3> QED
      BY <1>3, <2>1, <2>3, <2>c, <3>1, Zenon DEF CommitGoes
  <2> QED
    BY <1>1, <2>4, <2>5, <2>6
<1> QED
  BY <1>2, <1>3

\* The assignments of a turn of the loop.
SetSpace(p, v) == [p EXCEPT !.isspace = v]
SetBuffer(p, y, v) == [p EXCEPT !.buf = y, !.isspace = v]
SpaceRead(p) == SetSpace(p, TRUE)
CharRead(p, x) == SetBuffer(p, Append(p.buf, x), FALSE)

SpaceGoes(st, b, sp, d, pre, c, par, v) ==
  SetSpace(Vars(st, b, sp, d, pre, c, par), v) = Vars(st, b, v, d, pre, c, par)
BufferGoes(st, b, sp, d, pre, c, par, y, v) ==
  SetBuffer(Vars(st, b, sp, d, pre, c, par), y, v) = Vars(st, y, v, d, pre, c, par)

LEMMA SpaceSet ==
  ASSUME NEW st, NEW b, NEW sp, NEW d, NEW pre, NEW c, NEW par, NEW v
  PROVE  SpaceGoes(st, b, sp, d, pre, c, par, v)
BY DEF Vars, SetSpace, SpaceGoes

LEMMA BufferSet ==
  ASSUME NEW st, NEW b, NEW sp, NEW d, NEW pre, NEW c, NEW par, NEW y, NEW v
  PROVE  BufferGoes(st, b, sp, d, pre, c, par, y, v)
<1> DEFINE p == Vars(st, b, sp, d, pre, c, par)
           q == [p EXCEPT !.buf = y, !.isspace = v]
           r == Vars(st, y, v, d, pre, c, par)
<1>1. /\ DOMAIN p = {"state", "buf", "isspace", "done", "prefix", "cmd", "params"}
      /\ DOMAIN q = DOMAIN p /\ DOMAIN r = DOMAIN p
  BY DEF Vars
<1>2. /\ q.state = r.state /\ q.buf = r.buf /\ q.isspace = r.isspace /\ q.done = r.done
      /\ q.prefix = r.prefix /\ q.cmd = r.cmd /\ q.params = r.params
  BY DEF Vars
<1>3. q = [f \in DOMAIN q |-> q[f]] /\ r = [f \in DOMAIN r |-> r[f]]
  BY DEF Vars
<1> HIDE DEF p, q, r
<1>4. \A f \in DOMAIN q : q[f] = r[f]
  BY <1>1, <1>2
<1> QED
  BY <1>1, <1>3, <1>4 DEF p, q, r, SetBuffer, BufferGoes

ReadGoes(line, ws, b, sp, x) ==
  /\ SpaceRead(After(line, ws, b, sp)) = After(line, ws, b, TRUE)
  /\ CharRead(After(line, ws, b, sp), x) = After(line, ws, Append(b, x), FALSE)

LEMMA ReadAfter ==
  ASSUME NEW line, NEW ws, NEW b, NEW sp, NEW x
  PROVE  ReadGoes(line, ws, b, sp, x)
<1> DEFINE st == StateAfter(line, Len(ws))
           pre == PrefixOf(line, ws)
           c == CmdOf(line, ws)
           par == ParamsOf(line, ws)
<1>1. /\ SpaceGoes(st, b, sp, FALSE, pre, c, par, TRUE)
      /\ BufferGoes(st, b, sp, FALSE, pre, c, par, Append(b, x), FALSE)
  BY SpaceSet, BufferSet
<1>2. After(line, ws, b, sp).buf = b
  BY DEF After, Vars
<1> QED
  BY <1>1, <1>2 DEF ReadGoes, SpaceGoes, BufferGoes, SpaceRead, CharRead, After

\* A turn that does not meet the last parameter takes the next character into the
\* words; at the last parameter the walk ends, and it stays ended.
TurnGoes(line, t, ws, b, sp, i) ==
  Turn(t, After(line, ws, b, sp), i) =
    After(line, NextPieces(ws, b, t[i], {" "}, {}, MaxWord),
          NextPiece(b, t[i], {" "}, {}, MaxWord), t[i] = " ")

GoesOn(S, line, t, ws, b, sp, i) ==
  /\ ws \in Seq(Seq(S)) /\ b \in Seq(S) /\ Len(b) \in 0..MaxWord
  /\ sp \in BOOLEAN /\ (sp => b = <<>>)
  /\ ~(t[i] = ":" /\ sp /\ Len(ws) >= Need(line))

LEMMA TurnAfter ==
  ASSUME NEW S, NEW line, NEW t, NEW ws, NEW b, NEW sp, NEW i,
         GoesOn(S, line, t, ws, b, sp, i)
  PROVE  TurnGoes(line, t, ws, b, sp, i)
<1> DEFINE p == After(line, ws, b, sp)
           q == After(line, WithWord(ws, b), <<>>, sp)
<1>0. /\ ws \in Seq(Seq(S)) /\ b \in Seq(S) /\ Len(b) \in 0..MaxWord
      /\ sp \in BOOLEAN /\ (sp => b = <<>>)
      /\ ~(t[i] = ":" /\ sp /\ Len(ws) >= Need(line))
  BY DEF GoesOn
<1>1. MaxWord \in Nat \ {0} /\ Need(line) \in {1, 2} /\ Len(ws) \in Nat
  BY <1>0, ParserAssumption DEF Need
<1>a. Len(b) \in Nat /\ Len(b) <= MaxWord /\ Len(<<>>) = 0
  BY <1>0, <1>1
<1>2. /\ p.done = FALSE /\ p.isspace = sp /\ p.buf = b
      /\ p.state = "PARAM" => Len(ws) >= Need(line)
  <2>1. StateAfter(line, Len(ws)) = "PARAM" => Len(ws) >= Need(line)
    BY <1>1 DEF StateAfter
  <2> QED
    BY <2>1 DEF After, Vars
<1>3. Commit(p) = q
  BY <1>0, CommitAfter DEF CommitsTo
<1>4. /\ SpaceRead(q) = After(line, WithWord(ws, b), <<>>, TRUE)
      /\ CharRead(p, t[i]) = After(line, ws, Append(b, t[i]), FALSE)
  <2>1. ReadGoes(line, WithWord(ws, b), <<>>, sp, t[i]) /\ ReadGoes(line, ws, b, sp, t[i])
    BY ReadAfter
  <2> QED
    BY <2>1 DEF ReadGoes
<1>5. ~(t[i] = ":" /\ p.isspace /\ p.state = "PARAM")
  BY <1>0, <1>2
<1> HIDE DEF p, q
<1>6. Turn(t, p, i) = IF t[i] = " " THEN SpaceRead(q)
                      ELSE IF Len(b) >= MaxWord THEN q
                      ELSE CharRead(p, t[i])
  BY <1>2, <1>3, <1>5, Zenon DEF Turn, SpaceRead, CharRead, SetSpace, SetBuffer
<1>7. CASE t[i] = " "
  <2>1. Turn(t, p, i) = After(line, WithWord(ws, b), <<>>, TRUE)
    BY <1>4, <1>6, <1>7, Zenon
  <2>2. /\ NextPieces(ws, b, t[i], {" "}, {}, MaxWord) = WithWord(ws, b)
        /\ NextPiece(b, t[i], {" "}, {}, MaxWord) = <<>>
    BY <1>7 DEF NextPieces, NextPiece, EndsPiece, WithWord
  <2>3. (t[i] = " ") = TRUE
    BY <1>7
  <2> QED
    BY <2>1, <2>2, <2>3, Zenon DEF TurnGoes, p, q
<1>8. CASE t[i] # " " /\ Len(b) = MaxWord
  <2>1. b # <<>>
    <3>1. Len(b) # 0
      <4>1. MaxWord # 0
        BY <1>1
      <4> QED
        BY <1>8, <4>1, Zenon
    <3> QED
      BY <1>a, <3>1, Zenon
  <2>2. sp = FALSE
    BY <1>0, <2>1
  <2>3. Turn(t, p, i) = q
    <3>1. Len(b) >= MaxWord
      <4>1. \A x, y \in Nat : x = y => x >= y
        OBVIOUS
      <4> QED
        BY <1>1, <1>a, <1>8, <4>1, Zenon
    <3> QED
      BY <1>6, <1>8, <3>1, Zenon
  <2>4. /\ NextPieces(ws, b, t[i], {" "}, {}, MaxWord) = WithWord(ws, b)
        /\ NextPiece(b, t[i], {" "}, {}, MaxWord) = <<>>
    BY <1>8 DEF NextPieces, NextPiece, EndsPiece, WithWord
  <2>5. (t[i] = " ") = FALSE
    BY <1>8
  <2> QED
    BY <2>2, <2>3, <2>4, <2>5, Zenon DEF TurnGoes, p, q
<1>9. CASE t[i] # " " /\ Len(b) # MaxWord
  <2>1. Turn(t, p, i) = After(line, ws, Append(b, t[i]), FALSE)
    <3>1. ~(Len(b) >= MaxWord)
      <4>1. \A x, y \in Nat : x <= y /\ x # y => ~(x >= y)
        OBVIOUS
      <4> QED
        BY <1>1, <1>a, <1>9, <4>1, Zenon
    <3> QED
      BY <1>4, <1>6, <1>9, <3>1, Zenon
  <2>2. /\ NextPieces(ws, b, t[i], {" "}, {}, MaxWord) = ws
        /\ NextPiece(b, t[i], {" "}, {}, MaxWord) = Append(b, t[i])
    BY <1>9 DEF NextPieces, NextPiece, EndsPiece
  <2>3. (t[i] = " ") = FALSE
    BY <1>9
  <2> QED
    BY <2>1, <2>2, <2>3, Zenon DEF TurnGoes, p, q
<1> QED
  BY <1>7, <1>8, <1>9

LEMMA TurnEnds ==
  ASSUME NEW line, NEW t, NEW ws, NEW i, t[i] = ":", Len(ws) >= Need(line)
  PROVE  Turn(t, After(line, ws, <<>>, TRUE), i) = Ended(line, ws, SubSeq(t, i + 1, Len(t)))
<1>1. StateAfter(line, Len(ws)) = "PARAM" /\ t[i] # " "
  BY DEF StateAfter
<1> QED
  BY <1>1 DEF Turn, After, Ended, Vars

LEMMA TurnStays ==
  ASSUME NEW line, NEW t, NEW ws, NEW r, NEW i
  PROVE  Turn(t, Ended(line, ws, r), i) = Ended(line, ws, r)
BY DEF Turn, Ended, Vars

\* Where the last parameter begins, and the variables after i turns.
Lasts(line) ==
  {k \in 2..Len(Body(line)) : /\ Body(line)[k] = ":" /\ Body(line)[k - 1] = " "
                              /\ Len(WordsTo(Body(line), k - 1)) >= Need(line)}
Cut(line) == IF Lasts(line) = {} THEN Len(Body(line)) + 1
             ELSE CHOOSE k \in Lasts(line) : \A l \in Lasts(line) : k <= l
SpaceAt(t, i) == i >= 1 /\ t[i] = " "
LastParam(line) == SubSeq(Body(line), Cut(line) + 1, Len(Body(line)))
At(line, i) ==
  IF i < Cut(line)
    THEN After(line, WordsTo(Body(line), i), WordAt(Body(line), i), SpaceAt(Body(line), i))
    ELSE Ended(line, WordsTo(Body(line), Cut(line) - 1), LastParam(line))

\* The characters that words are made of.
Chars(S) == S \ ({" "} \cup {})

WordsGo(S, t) ==
  /\ WordsTo(t, 0) = <<>> /\ WordAt(t, 0) = <<>>
  /\ \A i \in 0..Len(t) : /\ WordsTo(t, i) \in Seq(Seq(Chars(S)))
                          /\ WordAt(t, i) \in Seq(Chars(S))
                          /\ Len(WordAt(t, i)) \in 0..MaxWord
                          /\ SpaceAt(t, i) => WordAt(t, i) = <<>>
  /\ \A i \in 1..Len(t) :
       /\ WordsTo(t, i) = NextPieces(WordsTo(t, i - 1), WordAt(t, i - 1), t[i], {" "}, {}, MaxWord)
       /\ WordAt(t, i) = NextPiece(WordAt(t, i - 1), t[i], {" "}, {}, MaxWord)

LEMMA WordsStep == ASSUME NEW S, NEW t \in Seq(S) PROVE WordsGo(S, t)
<1>1. MaxWord \in Nat \ {0}
  BY ParserAssumption
<1>2. /\ PieceGoes(S, t, {" "}, {}, MaxWord)
      /\ PiecesGo(S, t, {" "}, {}, MaxWord)
  BY <1>1, PieceStep, PiecesStep, Zenon
<1>3. \A i : /\ WordAt(t, i) = PieceAt(t, {" "}, {}, MaxWord, i)
             /\ WordsTo(t, i) = PiecesTo(t, {" "}, {}, MaxWord, i)
  BY DEF WordAt, WordsTo
<1>4. WordsTo(t, 0) = <<>> /\ WordAt(t, 0) = <<>>
  BY <1>2, <1>3, Zenon DEF PieceGoes, PiecesGo
<1>5. \A i \in 0..Len(t) : /\ WordsTo(t, i) \in Seq(Seq(Chars(S)))
                           /\ WordAt(t, i) \in Seq(Chars(S))
                           /\ Len(WordAt(t, i)) \in 0..MaxWord
  BY <1>2, <1>3, Zenon DEF PieceGoes, PiecesGo, Chars
<1>6. ASSUME NEW i \in 1..Len(t)
      PROVE  /\ WordsTo(t, i) = NextPieces(WordsTo(t, i - 1), WordAt(t, i - 1), t[i], {" "}, {}, MaxWord)
             /\ WordAt(t, i) = NextPiece(WordAt(t, i - 1), t[i], {" "}, {}, MaxWord)
  <2>1. WordAt(t, i) = NextPiece(WordAt(t, i - 1), t[i], {" "}, {}, MaxWord)
    BY <1>2, <1>3, Zenon DEF PieceGoes
  <2>2. WordsTo(t, i) = NextPieces(WordsTo(t, i - 1), WordAt(t, i - 1), t[i], {" "}, {}, MaxWord)
    BY <1>2, <1>3, Zenon DEF PiecesGo
  <2> QED
    BY <2>1, <2>2
<1>7. ASSUME NEW i \in 0..Len(t), SpaceAt(t, i) PROVE WordAt(t, i) = <<>>
  <2>1. i \in 1..Len(t) /\ t[i] = " "
    <3>1. i >= 1 /\ t[i] = " "
      BY <1>7, Zenon DEF SpaceAt
    <3>2. \A n \in Nat : \A j \in 0..n : j >= 1 => j \in 1..n
      OBVIOUS
    <3>3. Len(t) \in Nat
      OBVIOUS
    <3> QED
      BY <3>1, <3>2, <3>3
  <2>2. EndsPiece(WordAt(t, i - 1), t[i], {" "}, {}, MaxWord)
    BY <2>1 DEF EndsPiece
  <2> QED
    BY <1>6, <2>1, <2>2 DEF NextPiece
<1> QED
  BY <1>4, <1>5, <1>6, <1>7 DEF WordsGo

LEMMA BodyType ==
  ASSUME NEW S, NEW line \in Seq(S)
  PROVE  Body(line) \in Seq(S) /\ Len(Body(line)) \in Nat
<1>1. CASE HasPrefix(line)
  <2>1. line # <<>>
    BY <1>1 DEF HasPrefix
  <2>2. Tail(line) \in Seq(S)
    BY <2>1
  <2> QED
    BY <1>1, <2>2 DEF Body
<1>2. CASE ~HasPrefix(line)
  BY <1>2 DEF Body
<1> QED
  BY <1>1, <1>2

LEMMA CutIs ==
  ASSUME NEW S, NEW line \in Seq(S)
  PROVE  /\ Cut(line) \in Nat \ {0} /\ Cut(line) <= Len(Body(line)) + 1
         /\ Cut(line) = Len(Body(line)) + 1 <=> Lasts(line) = {}
         /\ Lasts(line) # {} => Cut(line) \in Lasts(line)
         /\ \A k \in Lasts(line) : Cut(line) <= k
<1> DEFINE L == Lasts(line)
           n == Len(Body(line))
<1>1. n \in Nat
  BY BodyType
<1>2. L \subseteq 2..n
  BY DEF Lasts
<1> HIDE DEF L, n
<1>3. CASE L = {}
  <2>1. Cut(line) = n + 1
    BY <1>3 DEF Cut, L, n
  <2> QED
    BY <1>1, <1>3, <2>1 DEF L, n
<1>4. CASE L # {}
  <2>1. L \in SUBSET Nat
    BY <1>1, <1>2
  <2>2. \E k \in L : \A l \in L : k <= l
    BY <1>4, <2>1, LeastNat
  <2>3. Cut(line) = CHOOSE k \in L : \A l \in L : k <= l
    BY <1>4 DEF Cut, L
  <2>4. Cut(line) \in L /\ \A l \in L : Cut(line) <= l
    BY <2>2, <2>3
  <2>5. Cut(line) \in 2..n
    BY <1>2, <2>4
  <2>6. Cut(line) \in Nat \ {0} /\ Cut(line) <= n + 1 /\ Cut(line) # n + 1
    BY <1>1, <2>5
  <2> QED
    BY <1>4, <2>4, <2>6 DEF L, n
<1> QED
  BY <1>3, <1>4

LEMMA AtStart ==
  ASSUME NEW S, NEW line \in Seq(S)
  PROVE  At(line, 0) = Start(line)
<1> DEFINE t == Body(line)
           m == Need(line)
<1>1. 0 < Cut(line)
  BY CutIs
<1>2. WordsTo(t, 0) = <<>> /\ WordAt(t, 0) = <<>>
  <2>1. WordsGo(S, t)
    BY BodyType, WordsStep
  <2> QED
    BY <2>1 DEF WordsGo
<1>3. SpaceAt(t, 0) = FALSE
  BY DEF SpaceAt
<1>4. m \in {1, 2} /\ (m = 2 <=> HasPrefix(line)) /\ Len(<<>>) = 0
  BY DEF Need
<1>5. At(line, 0) = After(line, <<>>, <<>>, FALSE)
  BY <1>1, <1>2, <1>3, Zenon DEF At
<1>6. Word(<<>>, 1) = <<>> /\ Word(<<>>, 2) = <<>>
  BY <1>4 DEF Word
<1>7. PrefixOf(line, <<>>) = <<>>
  BY <1>6 DEF PrefixOf
<1>8. CmdOf(line, <<>>) = <<>>
  <2>1. CmdOf(line, <<>>) = Upper(<<>>)
    BY <1>4, <1>6 DEF CmdOf
  <2> QED
    BY <2>1 DEF Upper
<1>9. ParamsOf(line, <<>>) = <<>>
  BY <1>4 DEF ParamsOf
<1>10. StateAfter(line, Len(<<>>)) = IF HasPrefix(line) THEN "PREFIX" ELSE "CMD"
  BY <1>4 DEF StateAfter
<1> QED
  BY <1>5, <1>7, <1>8, <1>9, <1>10 DEF After, Vars, Start

LEMMA AtStep ==
  ASSUME NEW S, NEW line \in Seq(S), NEW i \in 1..Len(Body(line))
  PROVE  At(line, i) = Turn(Body(line), At(line, i - 1), i)
<1> DEFINE t == Body(line)
           ws == WordsTo(t, i - 1)
           b == WordAt(t, i - 1)
           cut == Cut(line)
<1>1. /\ t \in Seq(S) /\ Len(t) \in Nat /\ i \in Nat /\ i - 1 \in 0..Len(t) /\ i \in 1..Len(t)
      /\ cut \in Nat \ {0} /\ (i - 1) + 1 = i
  BY BodyType, CutIs
<1>s. PICK sp \in BOOLEAN : sp = SpaceAt(t, i - 1)
  BY DEF SpaceAt
<1>2. WordsGo(S, t)
  BY <1>1, WordsStep
<1>3. /\ ws \in Seq(Seq(Chars(S))) /\ b \in Seq(Chars(S)) /\ Len(b) \in 0..MaxWord
      /\ sp \in BOOLEAN /\ sp => b = <<>>
      /\ WordsTo(t, i) = NextPieces(ws, b, t[i], {" "}, {}, MaxWord)
      /\ WordAt(t, i) = NextPiece(b, t[i], {" "}, {}, MaxWord)
  BY <1>1, <1>2, <1>s DEF WordsGo
<1>4. i \in Lasts(line) <=> t[i] = ":" /\ sp /\ Len(ws) >= Need(line)
  <2>1. i \in 2..Len(t) <=> i - 1 >= 1
    BY <1>1
  <2> QED
    BY <1>s, <2>1, Zenon DEF Lasts, SpaceAt
<1>5. (t[i] = " ") = SpaceAt(t, i)
  <2>1. i >= 1
    BY <1>1
  <2>2. CASE t[i] = " "
    <3>1. SpaceAt(t, i) = TRUE /\ (t[i] = " ") = TRUE
      BY <2>1, <2>2 DEF SpaceAt
    <3> QED
      BY <3>1
  <2>3. CASE t[i] # " "
    <3>1. SpaceAt(t, i) = FALSE /\ (t[i] = " ") = FALSE
      BY <2>3 DEF SpaceAt
    <3> QED
      BY <3>1
  <2> HIDE DEF t
  <2> QED
    BY <2>2, <2>3
<1> HIDE DEF t, ws, b, cut
<1>6. CASE i < cut
  <2>1. i \notin Lasts(line)
    <3>1. i \in Lasts(line) => cut <= i
      BY CutIs DEF cut
    <3> QED
      BY <1>1, <1>6, <3>1
  <2>2. i - 1 < cut
    BY <1>1, <1>6
  <2>3. At(line, i - 1) = After(line, ws, b, sp)
    BY <1>s, <2>2, Zenon DEF At, ws, b, t, cut
  <2>4. At(line, i) = After(line, WordsTo(t, i), WordAt(t, i), SpaceAt(t, i))
    BY <1>6, Zenon DEF At, t, cut
  <2>5. TurnGoes(line, t, ws, b, sp, i)
    <3>1. ~(t[i] = ":" /\ sp /\ Len(ws) >= Need(line))
      BY <1>4, <2>1, Zenon
    <3>2. GoesOn(Chars(S), line, t, ws, b, sp, i)
      BY <1>3, <3>1 DEF GoesOn
    <3> QED
      BY <3>2, TurnAfter
  <2> QED
    BY <1>3, <1>5, <2>3, <2>4, <2>5 DEF TurnGoes, t
<1>7. CASE i = cut
  <2>1. i \in Lasts(line)
    <3>1. cut # Len(t) + 1
      BY <1>1, <1>7
    <3>2. cut = Len(t) + 1 <=> Lasts(line) = {}
      BY CutIs DEF cut, t
    <3>3. Lasts(line) # {} => cut \in Lasts(line)
      BY CutIs DEF cut
    <3> QED
      BY <1>7, <3>1, <3>2, <3>3
  <2>2. t[i] = ":" /\ sp /\ Len(ws) >= Need(line)
    BY <1>4, <2>1
  <2>3. b = <<>> /\ sp = TRUE
    BY <1>3, <2>2
  <2>4. i - 1 < cut /\ ~(i < cut)
    BY <1>1, <1>7
  <2>5. At(line, i - 1) = After(line, ws, b, sp)
    BY <1>s, <2>4, Zenon DEF At, ws, b, t, cut
  <2>6. At(line, i) = Ended(line, ws, SubSeq(t, i + 1, Len(t)))
    BY <1>7, <2>4, Zenon DEF At, LastParam, ws, t, cut
  <2>7. Turn(t, After(line, ws, <<>>, TRUE), i) = Ended(line, ws, SubSeq(t, i + 1, Len(t)))
    BY <2>2, TurnEnds
  <2> QED
    BY <2>3, <2>5, <2>6, <2>7 DEF t
<1>8. CASE i > cut
  <2>1. ~(i < cut) /\ ~(i - 1 < cut)
    BY <1>1, <1>8
  <2>2. At(line, i) = At(line, i - 1)
    BY <2>1, Zenon DEF At, cut
  <2>3. At(line, i - 1) = Ended(line, WordsTo(t, cut - 1), LastParam(line))
    BY <2>1, Zenon DEF At, cut, t
  <2> QED
    BY <2>2, <2>3, TurnStays DEF t
<1> QED
  BY <1>1, <1>6, <1>7, <1>8

\* The function of which Walk takes a value: its equation has a solution.
walk(line) ==
  CHOOSE f : f = [j \in 0..Len(Body(line)) |->
                    IF j = 0 THEN Start(line) ELSE Turn(Body(line), f[j - 1], j)]

LEMMA WalkIs == ASSUME NEW line, NEW i PROVE Walk(line, i) = walk(line)[i]
BY DEF Walk, walk

LEMMA WalkStep ==
  ASSUME NEW S, NEW line \in Seq(S)
  PROVE  /\ Walk(line, 0) = Start(line)
         /\ \A i \in 1..Len(Body(line)) : Walk(line, i) = Turn(Body(line), Walk(line, i - 1), i)
<1> DEFINE t == Body(line)
           n == Len(t)
           Solves(f) == f = [j \in 0..n |-> IF j = 0 THEN Start(line) ELSE Turn(t, f[j - 1], j)]
           g == [j \in 0..n |-> At(line, j)]
           h == walk(line)
<1>1. n \in Nat
  BY BodyType
<1>2. At(line, 0) = Start(line) /\ \A i \in 1..n : At(line, i) = Turn(t, At(line, i - 1), i)
  BY AtStart, AtStep
<1>3. h = CHOOSE f : Solves(f)
  BY DEF walk
<1> HIDE DEF t, n, h
<1>4. \A j \in 0..n : g[j] = IF j = 0 THEN Start(line) ELSE Turn(t, g[j - 1], j)
  <2> SUFFICES ASSUME NEW j \in 0..n
               PROVE  g[j] = IF j = 0 THEN Start(line) ELSE Turn(t, g[j - 1], j)
    OBVIOUS
  <2>1. CASE j = 0
    BY <1>1, <1>2, <2>1
  <2>2. CASE j # 0
    <3>1. j \in 1..n /\ j - 1 \in 0..n
      BY <1>1, <2>2
    <3>2. g[j] = At(line, j) /\ g[j - 1] = At(line, j - 1)
      BY <3>1
    <3> QED
      BY <1>2, <2>2, <3>1, <3>2
  <2> QED
    BY <2>1, <2>2
<1>5. Solves(g)
  BY <1>4
<1>6. Solves(h)
  <2> HIDE DEF Solves, g
  <2> QED
    BY <1>3, <1>5
<1>7. h[0] = Start(line) /\ \A i \in 1..n : h[i] = Turn(t, h[i - 1], i)
  <2>1. \A j \in 0..n : h[j] = IF j = 0 THEN Start(line) ELSE Turn(t, h[j - 1], j)
    BY <1>6
  <2>2. 0 \in 0..n /\ \A i \in 1..n : i \in 0..n /\ i # 0
    BY <1>1
  <2> HIDE DEF Solves, g
  <2> QED
    BY <2>1, <2>2
<1> QED
  BY <1>7, WalkIs DEF h, n, t

LEMMA WalkAt ==
  ASSUME NEW S, NEW line \in Seq(S), NEW i \in 0..Len(Body(line))
  PROVE  Walk(line, i) = At(line, i)
<1> DEFINE n == Len(Body(line))
           T == {k \in Nat : k <= n => Walk(line, k) = At(line, k)}
<1>1. n \in Nat
  BY BodyType
<1>2. 0 \in T
  <2>1. Walk(line, 0) = At(line, 0)
    BY WalkStep, AtStart
  <2> QED
    BY <2>1
<1>3. ASSUME NEW k \in Nat, k \in T PROVE k + 1 \in T
  <2> SUFFICES ASSUME k + 1 <= n PROVE Walk(line, k + 1) = At(line, k + 1)
    OBVIOUS
  <2>1. k + 1 \in 1..n /\ (k + 1) - 1 = k /\ k <= n
    BY <1>1
  <2>2. Walk(line, k) = At(line, k)
    BY <1>3, <2>1
  <2>3. Walk(line, k + 1) = Turn(Body(line), Walk(line, k), k + 1)
    <3>1. \A j \in 1..n : Walk(line, j) = Turn(Body(line), Walk(line, j - 1), j)
      BY WalkStep
    <3> QED
      BY <2>1, <3>1
  <2>4. At(line, k + 1) = Turn(Body(line), At(line, k), k + 1)
    <3>1. \A j \in 1..n : At(line, j) = Turn(Body(line), At(line, j - 1), j)
      BY AtStep
    <3> QED
      BY <2>1, <3>1
  <2> QED
    BY <2>2, <2>3, <2>4
<1>4. \A k \in Nat : k \in T
  <2> HIDE DEF T
  <2> QED
    BY <1>2, <1>3, SetInduction
<1>5. i \in Nat /\ i <= n
  BY <1>1
<1> QED
  BY <1>4, <1>5

\* What parse_irc_line returns and stores when the walk ended with the words ws,
\* of which the last was committed behind the loop, or at the last parameter.
Result(line, ws, par) ==
  [ret |-> IF Len(ws) >= Need(line) THEN 0 ELSE -1,
   prefix |-> PrefixOf(line, ws), cmd |-> CmdOf(line, ws), params |-> par]

LEMMA ParsedIs ==
  ASSUME NEW line
  PROVE  LET t == Body(line)
             c == Cut(line) - 1
             ws == WithWord(WordsTo(t, c), WordAt(t, c))
         IN Parsed(line) =
              Result(line, ws, ParamsOf(line, ws) \o
                               IF Lasts(line) = {} THEN <<>> ELSE <<LastParam(line)>>)
BY Zenon DEF Parsed, Result, Cut, Lasts, LastParam, Need, WithWord, Word, PrefixOf, CmdOf,
   ParamsOf

LEMMA ParsedWithout ==
  ASSUME NEW S, NEW line \in Seq(S), Lasts(line) = {}
  PROVE  LET n == Len(Body(line))
             ws == WithWord(WordsTo(Body(line), n), WordAt(Body(line), n))
         IN Parsed(line) = Result(line, ws, ParamsOf(line, ws) \o <<>>)
<1>1. Cut(line) = Len(Body(line)) + 1 /\ Len(Body(line)) \in Nat
  BY CutIs, BodyType
<1>2. Cut(line) - 1 = Len(Body(line))
  BY <1>1
<1> QED
  BY <1>2, ParsedIs, Zenon

LEMMA ParsedWith ==
  ASSUME NEW S, NEW line \in Seq(S), Lasts(line) # {}
  PROVE  LET ws == WordsTo(Body(line), Cut(line) - 1)
         IN Parsed(line) = Result(line, ws, ParamsOf(line, ws) \o <<LastParam(line)>>)
<1> DEFINE t == Body(line)
           c == Cut(line) - 1
           ws == WordsTo(t, c)
<1>1. /\ t \in Seq(S) /\ Len(t) \in Nat
      /\ Cut(line) \in Nat /\ Cut(line) \in 2..Len(t) /\ t[c] = " "
  BY BodyType, CutIs DEF Lasts
<1>2. WordAt(t, c) = <<>>
  <2>1. c \in 0..Len(t) /\ c >= 1
    <3>1. Len(t) \in Nat /\ Cut(line) \in 2..Len(t)
      BY <1>1
    <3> HIDE DEF t
    <3> QED
      BY <3>1
  <2>2. SpaceAt(t, c)
    BY <1>1, <2>1 DEF SpaceAt
  <2>3. WordsGo(S, t)
    BY <1>1, WordsStep
  <2> QED
    BY <2>1, <2>2, <2>3 DEF WordsGo
<1> QED
  BY <1>2, ParsedIs, Zenon DEF WithWord

\* The words before the last parameter hold the prefix and the command.
LEMMA WordsBefore ==
  ASSUME NEW S, NEW line \in Seq(S), Lasts(line) # {}
  PROVE  LET ws == WordsTo(Body(line), Cut(line) - 1)
         IN ws \in Seq(Seq(Chars(S))) /\ Len(ws) >= Need(line)
<1> DEFINE t == Body(line)
<1>1. /\ t \in Seq(S) /\ Len(t) \in Nat
      /\ Cut(line) \in 2..Len(t) /\ Len(WordsTo(t, Cut(line) - 1)) >= Need(line)
  BY BodyType, CutIs DEF Lasts
<1>2. Cut(line) - 1 \in 0..Len(t)
  BY <1>1
<1>3. WordsGo(S, t)
  BY <1>1, WordsStep
<1> QED
  BY <1>1, <1>2, <1>3 DEF WordsGo

\* parse_irc_line splits every line, however long and of whatever characters, at
\* its spaces and where the buffer is full, keeps the words in order, each once,
\* and takes the rest of the line behind the first colon that begins a parameter
\* as the last one.
THEOREM ParsesEveryLine ==
  ASSUME NEW S, NEW line \in Seq(S)
  PROVE  parse_irc_line(line) = Parsed(line)
<1> DEFINE t == Body(line)
           n == Len(t)
           last == Walk(line, n)
           end == IF last.done THEN last ELSE Commit(last)
           m == Need(line)
<1>1. t \in Seq(S) /\ n \in Nat /\ m \in {1, 2} /\ WordsGo(S, t)
  BY BodyType, WordsStep DEF Need
<1>2. last = At(line, n)
  <2>1. n \in 0..n
    BY <1>1
  <2> QED
    BY <2>1, WalkAt
<1>3. parse_irc_line(line) = [ret |-> IF end.state = "PARAM" THEN 0 ELSE -1,
                              prefix |-> end.prefix, cmd |-> end.cmd, params |-> end.params]
  BY DEF parse_irc_line
<1>4. CASE Lasts(line) = {}
  <2> DEFINE ws == WithWord(WordsTo(t, n), WordAt(t, n))
  <2>1. n < Cut(line)
    BY <1>1, <1>4, CutIs
  <2>2. last = After(line, WordsTo(t, n), WordAt(t, n), SpaceAt(t, n))
    BY <1>2, <2>1, Zenon DEF At
  <2>3. WordsTo(t, n) \in Seq(Seq(Chars(S))) /\ WordAt(t, n) \in Seq(Chars(S))
    <3>1. n \in 0..n
      BY <1>1
    <3> QED
      BY <1>1, <3>1 DEF WordsGo
  <2>4. Commit(last) = After(line, ws, <<>>, SpaceAt(t, n))
    <3>1. CommitsTo(line, WordsTo(t, n), WordAt(t, n), SpaceAt(t, n))
      BY <2>3, CommitAfter
    <3> QED
      BY <2>2, <3>1, Zenon DEF CommitsTo
  <2>5. ws \in Seq(Seq(Chars(S))) /\ Len(ws) \in Nat
    BY <2>3 DEF WithWord
  <2>6. Parsed(line) = Result(line, ws, ParamsOf(line, ws) \o <<>>)
    BY <1>4, ParsedWithout
  <2>7. ParamsOf(line, ws) \o <<>> = ParamsOf(line, ws)
    <3>1. ParamsOf(line, ws) \in Seq(Seq(Chars(S)))
      BY <1>1, <2>5 DEF ParamsOf
    <3> QED
      BY <3>1
  <2> HIDE DEF ws, last, m, t, n
  <2>8. last.done = FALSE
    BY <2>2 DEF After, Vars
  <2>9. end = After(line, ws, <<>>, SpaceAt(t, n))
    BY <2>4, <2>8
  <2>10. /\ end.state = StateAfter(line, Len(ws)) /\ end.prefix = PrefixOf(line, ws)
         /\ end.cmd = CmdOf(line, ws) /\ end.params = ParamsOf(line, ws)
    BY <2>9 DEF After, Vars
  <2>11. StateAfter(line, Len(ws)) = "PARAM" <=> Len(ws) >= Need(line)
    BY DEF StateAfter
  <2>12. (IF end.state = "PARAM" THEN 0 ELSE -1) = IF Len(ws) >= Need(line) THEN 0 ELSE -1
    BY <2>10, <2>11
  <2> HIDE DEF end
  <2> QED
    BY <1>3, <2>6, <2>7, <2>10, <2>12 DEF Result
<1>5. CASE Lasts(line) # {}
  <2> DEFINE ws == WordsTo(t, Cut(line) - 1)
  <2>1. ~(n < Cut(line))
    <3>1. Cut(line) \in 2..n
      BY <1>5, CutIs DEF Lasts
    <3> QED
      BY <1>1, <3>1
  <2>2. last = Ended(line, ws, LastParam(line))
    BY <1>2, <2>1, Zenon DEF At
  <2>3. ws \in Seq(Seq(Chars(S))) /\ Len(ws) >= m /\ Len(ws) \in Nat
    BY <1>5, WordsBefore
  <2>4. Parsed(line) = Result(line, ws, ParamsOf(line, ws) \o <<LastParam(line)>>)
    BY <1>5, ParsedWith
  <2>5. ParamsOf(line, ws) \o <<LastParam(line)>> = Append(ParamsOf(line, ws), LastParam(line))
    <3>1. ParamsOf(line, ws) \in Seq(Seq(Chars(S)))
      BY <1>1, <2>3 DEF ParamsOf
    <3> QED
      BY <3>1
  <2> HIDE DEF ws, last, t, n
  <2>6. last.done = TRUE
    BY <2>2 DEF Ended, Vars
  <2>7. end = last
    BY <2>6
  <2>8. /\ end.state = "PARAM" /\ end.prefix = PrefixOf(line, ws)
        /\ end.cmd = CmdOf(line, ws)
        /\ end.params = Append(ParamsOf(line, ws), LastParam(line))
    BY <2>2, <2>7 DEF Ended, Vars
  <2> QED
    BY <1>3, <2>3, <2>4, <2>5, <2>8, Zenon DEF Result
<1> QED
  BY <1>4, <1>5
=============================================================================
