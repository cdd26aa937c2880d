------------------------------ MODULE SeqKeep ------------------------------
(***************************************************************************)
(* Loops that go over a sequence once and keep some of its elements, and   *)
(* what a text is cut into by separators and a limit on the length.  Keep  *)
(* is SelectSeq with the elements chosen by their positions, written as a  *)
(* recursive function, about which SeqKeep_proofs can reason.              *)
(***************************************************************************)
EXTENDS Integers, Sequences

\* What is at the positions K among the first n elements of s, in order.
Keep(s, K, n) ==
  LET kept[i \in 0..Len(s)] ==
        IF i = 0 THEN <<>>
        ELSE IF i \in K THEN Append(kept[i - 1], s[i]) ELSE kept[i - 1]
  IN kept[n]

(***************************************************************************)
(* The elements in Sep separate the pieces of s, those in Drop are left    *)
(* out, and no piece is longer than w.                                     *)
(***************************************************************************)
\* The text since the last separator among the first i elements of s, ...
TextAt(s, Sep, Drop, i) ==
  Keep(s, {k \in DOMAIN s : s[k] \notin Sep \cup Drop /\ \A j \in k..i : s[j] \notin Sep}, i)
\* ... of which every (w + 1)st element is lost and ends a piece.  What is left
\* is the piece begun.
PieceAt(s, Sep, Drop, w, i) ==
  LET t == TextAt(s, Sep, Drop, i)
  IN SubSeq(t, Len(t) - (Len(t) % (w + 1)) + 1, Len(t))
\* The pieces that end in the first n elements of s, without empty ones.
PiecesTo(s, Sep, Drop, w, n) ==
  LET Ends(i) == \/ s[i] \in Sep
                 \/ s[i] \notin Drop /\ PieceAt(s, Sep, Drop, w, i) = <<>>
  IN Keep([i \in DOMAIN s |-> PieceAt(s, Sep, Drop, w, i - 1)],
          {i \in DOMAIN s : Ends(i) /\ PieceAt(s, Sep, Drop, w, i - 1) # <<>>}, n)
=============================================================================
