--------------------------- MODULE ChunkingProofs ---------------------------
(***************************************************************************)
(* What chunking promises of every document and configuration: the search  *)
(* for a raw chunk never starts behind it, no visible character is lost,   *)
(* and no chunk but a lone one is below the minimum.                       *)
(***************************************************************************)
EXTENDS Chunking, TLAPS

\* What a configuration and a document are.
LEMMA InputTypes ==
  ASSUME TypeOK
  PROVE  /\ config.size \in Nat /\ config.overlap \in Nat
         /\ config.minimum \in Nat
         /\ config.overlap < config.size
         /\ text \in Seq(Characters)
         /\ Len(text) \in Nat
  BY ChunkingAssumption DEF TypeOK

\* Every variable keeps its type.
THEOREM TypeCorrect == Spec => []TypeOK
<1>1. Init => TypeOK
  BY DEF Init, TypeOK, Start, Piece, Pieces
<1>2. TypeOK /\ [Next]_vars => TypeOK'
  <2> SUFFICES ASSUME TypeOK, [Next]_vars PROVE TypeOK'
    OBVIOUS
  <2> USE DEF TypeOK
  <2>1. CASE Locate
    <3>1. PICK first, past \in 1 .. Len(text) + 1 :
            LET cut == Piece(first, past)
            IN  /\ last' = cut
                /\ cuts' = Append(cuts, cut)
                /\ \E p \in 1 .. Len(text) :
                     /\ pieces' = Append(pieces,
                                         Piece(p, p + (cut.past - cut.first)))
                     /\ hint' = Advanced(cut, p)
      BY <2>1 DEF Locate
    <3>2. PICK p \in 1 .. Len(text) :
            /\ pieces' = Append(pieces, Piece(p, p + (past - first)))
            /\ hint' = Larger(hint, p + (past - first) - config.overlap)
      BY <3>1 DEF Advanced, Piece
    <3>6. Piece(first, past) \in Pieces /\ Piece(p, p + (past - first)) \in Pieces
      BY InputTypes DEF Piece, Pieces
    <3>3. last' \in Pieces /\ cuts' \in Seq(Pieces)
      BY <3>1, <3>6
    <3>4. pieces' \in Seq(Pieces) /\ hint' \in Int
      BY <3>2, <3>6, InputTypes DEF Larger
    <3>5. Len(pieces') = Len(pieces) + 1 /\ Len(cuts') = Len(cuts) + 1
      <4>1. ASSUME NEW S, NEW q \in Seq(S), NEW e \in S
            PROVE  Len(Append(q, e)) = Len(q) + 1
        OBVIOUS
      <4> QED BY <3>1, <3>2, <3>6, <4>1
    <3> QED BY <2>1, <3>3, <3>4, <3>5 DEF Locate
  <2>2. CASE CutAll
    <3>1. stage' \in {"done", "merging"} /\ (merged' = pieces \/ merged' = <<>>)
      <4>1. CASE Unmerged BY <2>2, <4>1 DEF CutAll
      <4>2. CASE ~Unmerged BY <2>2, <4>2 DEF CutAll
      <4> QED BY <4>1, <4>2
    <3>2. UNCHANGED <<text, config, last, cuts, hint, pieces, next, pending>>
      BY <2>2 DEF CutAll
    <3>3. merged' \in Seq(Pieces)
      <4>1. <<>> \in Seq(Pieces)
        OBVIOUS
      <4> QED BY <3>1, <4>1
    <3> QED BY <3>1, <3>2, <3>3
  <2>3. CASE Merge
    <3>1. pieces[next] \in Pieces
      BY <2>3 DEF Merge
    <3>2. Joined(pieces[next]) \in Pieces
      BY <3>1 DEF Joined, Larger, Pieces, Piece
    <3>3. /\ merged' = merged \/ merged' = Append(merged, Joined(pieces[next]))
          /\ pending' = NoPiece \/ pending' = Joined(pieces[next])
      BY <2>3 DEF Merge
    <3>4. merged' \in Seq(Pieces) /\ pending' \in Pieces \cup {NoPiece}
      <4>1. ASSUME NEW S, NEW q \in Seq(S), NEW e \in S
            PROVE  Append(q, e) \in Seq(S)
        OBVIOUS
      <4> QED BY <3>2, <3>3, <4>1
    <3>5. /\ next <= Len(pieces) /\ next' = next + 1
          /\ UNCHANGED <<text, config, stage, last, cuts, hint, pieces>>
      BY <2>3 DEF Merge
    <3> QED BY <3>4, <3>5
  <2>4. CASE MergeEnd
    <3>1. ASSUME pending # NoPiece PROVE Trailing \in Seq(Pieces)
      <4>1. CASE merged = <<>>
        BY <3>1, <4>1 DEF Trailing
      <4>2. CASE merged # <<>>
        <5> DEFINE m == Len(merged)
                   end == Piece(merged[m].first,
                                Larger(merged[m].past, pending.past))
        <5>1. m \in 1 .. Len(merged) /\ merged[m] \in Pieces
          BY <4>2
        <5>2. end \in Pieces
          BY <3>1, <5>1 DEF Larger, Pieces, Piece
        <5>3. Trailing = [merged EXCEPT ![m] = end]
          BY <4>2 DEF Trailing
        <5> HIDE DEF end, m
        <5> QED BY <5>1, <5>2, <5>3
      <4> QED BY <4>1, <4>2
    <3> QED BY <2>4, <3>1 DEF MergeEnd
  <2>5. CASE UNCHANGED vars
    BY <2>5 DEF vars
  <2> QED BY <2>1, <2>2, <2>3, <2>4, <2>5 DEF Next
<1> QED BY <1>1, <1>2, PTL DEF Spec

-----------------------------------------------------------------------------
(* The search.                                                             *)

\* The hint stays behind the end of what was cut, by the overlap at least.
HintBehind == hint <= Larger(1, last.past - config.overlap)

\* So the hint is no further than where the next raw chunk is cut.
LEMMA HintReaches ==
  ASSUME TypeOK, HintBehind,
         NEW first \in Int, NEW past \in Int, FollowsCut(Piece(first, past))
  PROVE  hint <= first
<1>1. first >= 1 /\ first >= last.past - config.overlap
  BY InputTypes DEF FollowsCut, Visible, Piece
<1>2. last.past \in Int
  BY DEF TypeOK, Pieces
<1> QED BY <1>1, <1>2, InputTypes DEF HintBehind, Larger, TypeOK

\* A raw chunk is located no later than where it was cut: its own place is
\* one the search would find.
LEMMA LocatedEarly ==
  ASSUME TypeOK, HintBehind,
         NEW first \in Int, NEW past \in Int, FollowsCut(Piece(first, past)),
         NEW p \in Int, LocatedAt(Piece(first, past), p)
  PROVE  p <= first
<1>1. hint <= first
  BY HintReaches
<1>2. OccursAt(Piece(first, past), first)
  <2>1. first \in Int /\ past - 1 \in 1 .. Len(text)
    BY DEF FollowsCut, Visible, Piece
  <2> QED BY <2>1, InputTypes DEF OccursAt, Piece
<1> QED BY <1>1, <1>2 DEF LocatedAt, TypeOK

LEMMA HintInvariant == Spec => [](TypeOK /\ HintBehind)
<1>1. Init => HintBehind
  BY ChunkingAssumption DEF Init, HintBehind, Start, Piece, Larger
<1>2. TypeOK /\ HintBehind /\ [Next]_vars => HintBehind'
  <2> SUFFICES ASSUME TypeOK, HintBehind, [Next]_vars PROVE HintBehind'
    OBVIOUS
  <2>1. CASE Locate
    <3>1. PICK first, past \in 1 .. Len(text) + 1 :
            LET cut == Piece(first, past)
            IN  /\ FollowsCut(cut)
                /\ last' = cut
                /\ \E p \in 1 .. Len(text) : LocatedAt(cut, p)
                                              /\ hint' = Advanced(cut, p)
      BY <2>1 DEF Locate
    <3>2. PICK p \in 1 .. Len(text) : /\ LocatedAt(Piece(first, past), p)
                                      /\ hint' = Advanced(Piece(first, past), p)
      BY <3>1
    <3>3. p <= first
      BY <3>1, <3>2, LocatedEarly, InputTypes
    <3>4. hint' = Larger(hint, p + (past - first) - config.overlap)
      BY <3>2 DEF Advanced, Piece
    <3>5. last.past <= past
      BY <3>1 DEF FollowsCut, Piece
    <3>6. last'.past = past /\ config' = config
      BY <2>1, <3>1 DEF Locate, Piece
    <3>7. last.past \in Int /\ hint \in Int
      BY DEF TypeOK, Pieces
    <3>8. config.overlap \in Int
      BY InputTypes
    <3>9. p + (past - first) - config.overlap <= past - config.overlap
      BY <3>3, <3>8
    <3>10. hint <= Larger(1, past - config.overlap)
      BY <3>5, <3>7, <3>8 DEF HintBehind, Larger
    <3>11. hint' <= Larger(1, past - config.overlap)
      BY <3>4, <3>7, <3>8, <3>9, <3>10 DEF Larger
    <3> QED BY <3>6, <3>11 DEF HintBehind
  <2>2. CASE CutAll \/ Merge \/ MergeEnd
    BY <2>2 DEF CutAll, Merge, MergeEnd, HintBehind
  <2>3. CASE UNCHANGED vars
    BY <2>3 DEF vars, HintBehind
  <2> QED BY <2>1, <2>2, <2>3 DEF Next
<1> QED BY <1>1, <1>2, TypeCorrect, PTL DEF Spec

\* The forward search of _locate always succeeds: its fallbacks are dead
\* code, for every document and every way of cutting it.
THEOREM SearchSucceeds == Spec => []LocateFinds
<1>1. TypeOK /\ HintBehind => LocateFinds
  BY HintReaches, InputTypes DEF LocateFinds
<1> QED BY <1>1, HintInvariant, PTL

-----------------------------------------------------------------------------
(* The minimum.                                                            *)

\* Growing a piece at its end does not make it short.
LEMMA LongStaysLong ==
  ASSUME NEW p \in Pieces, NEW q \in Pieces,
         q.first = p.first, q.past >= p.past, LongEnough(p)
  PROVE  LongEnough(q)
  BY DEF LongEnough, Pieces

\* What is appended while merging is long enough, and at the end too.
LongSoFar ==
  /\ stage = "cutting" => merged = <<>>
  /\ stage = "merging" => \A n \in 1 .. Len(merged) : LongEnough(merged[n])
  /\ NoShortChunks

THEOREM MinimumKept == Spec => []NoShortChunks
<1>1. Init => LongSoFar
  BY DEF Init, LongSoFar, NoShortChunks
<1>2. TypeOK /\ LongSoFar /\ [Next]_vars => LongSoFar'
  <2> SUFFICES ASSUME TypeOK, LongSoFar, [Next]_vars PROVE LongSoFar'
    OBVIOUS
  <2>1. CASE Locate
    BY <2>1 DEF Locate, LongSoFar, NoShortChunks
  <2>2. CASE CutAll
    <3>1. Minimum' = Minimum
      BY <2>2 DEF CutAll, Minimum
    <3>2. Minimum \in Int
      BY InputTypes DEF Minimum
    <3>3. CASE Unmerged
      <4>1. stage' = "done" /\ merged' = pieces
        BY <2>2, <3>3 DEF CutAll
      <4>2. ~(Len(merged') > 1 /\ Minimum' > 0)
        BY <3>1, <3>2, <3>3, <4>1 DEF Unmerged, TypeOK
      <4> QED BY <4>1, <4>2 DEF LongSoFar, NoShortChunks
    <3>4. CASE ~Unmerged
      BY <2>2, <3>4 DEF CutAll, LongSoFar, NoShortChunks
    <3> QED BY <3>3, <3>4
  <2>3. CASE Merge
    <3> DEFINE joined == Joined(pieces[next])
    <3>1. stage = "merging" /\ stage' = "merging" /\ text' = text /\ config' = config
      BY <2>3 DEF Merge
    <3>2. \A q : LongEnough(q)' = LongEnough(q)
      BY <3>1 DEF LongEnough, Visible, Minimum
    <3>3. \/ merged' = merged
          \/ merged' = Append(merged, joined) /\ LongEnough(joined)
      BY <2>3 DEF Merge
    <3>4. \A n \in 1 .. Len(merged') : LongEnough(merged'[n])
      BY <3>1, <3>3 DEF LongSoFar, TypeOK
    <3> QED BY <3>1, <3>2, <3>4 DEF LongSoFar, NoShortChunks
  <2>4. CASE MergeEnd
    <3>1. stage = "merging" /\ stage' = "done" /\ text' = text /\ config' = config
      BY <2>4 DEF MergeEnd
    <3>2. CASE pending = NoPiece
      BY <2>4, <3>1, <3>2 DEF MergeEnd, LongSoFar, NoShortChunks, LongEnough,
                             Visible, Minimum
    <3>3. CASE pending # NoPiece /\ merged = <<>>
      <4>1. Len(merged') = 1
        BY <2>4, <3>3 DEF MergeEnd, Trailing
      <4> QED BY <3>1, <4>1 DEF LongSoFar, NoShortChunks
    <3>4. CASE pending # NoPiece /\ merged # <<>>
      <4> DEFINE m == Len(merged)
                 end == Piece(merged[m].first,
                              Larger(merged[m].past, pending.past))
      <4>1. m \in 1 .. Len(merged) /\ merged[m] \in Pieces /\ pending \in Pieces
        BY <3>4 DEF TypeOK
      <4>2. merged' = [merged EXCEPT ![m] = end]
        BY <2>4, <3>4 DEF MergeEnd, Trailing
      <4>3. end \in Pieces /\ end.first = merged[m].first
            /\ end.past >= merged[m].past
        BY <4>1 DEF Pieces, Piece, Larger
      <4>4. LongEnough(end)
        <5>1. LongEnough(merged[m])
          BY <3>1, <4>1 DEF LongSoFar
        <5> HIDE DEF end, m
        <5> QED BY <4>1, <4>3, <5>1, LongStaysLong
      <4>5. \A n \in 1 .. Len(merged') : LongEnough(merged'[n])
        <5> HIDE DEF end
        <5> QED BY <3>1, <4>1, <4>2, <4>4 DEF LongSoFar, TypeOK
      <4>6. \A n \in 1 .. Len(merged') : LongEnough(merged[n])' = LongEnough(merged'[n])
        BY <3>1 DEF LongEnough, Visible, Minimum
      <4> QED BY <3>1, <4>5, <4>6 DEF LongSoFar, NoShortChunks
    <3> QED BY <3>2, <3>3, <3>4
  <2>5. CASE UNCHANGED vars
    BY <2>5 DEF vars, LongSoFar, NoShortChunks, LongEnough, Visible, Minimum
  <2> QED BY <2>1, <2>2, <2>3, <2>4, <2>5 DEF Next
<1>3. LongSoFar => NoShortChunks
  BY DEF LongSoFar
<1> QED BY <1>1, <1>2, <1>3, TypeCorrect, PTL DEF Spec

-----------------------------------------------------------------------------
(* Nothing dropped.                                                        *)

Inside(p, q) == q.first <= p.first /\ p.past <= q.past

\* The cuts come in the order of their starts, and miss nothing visible.
CutsCover ==
  /\ \A m, n \in 1 .. Len(cuts) : m <= n => cuts[m].first <= cuts[n].first
  /\ \A n \in 1 .. Len(cuts) : cuts[n].first <= last.first
  /\ \A i \in 1 .. Len(text) :
       Visible(i) /\ i < last.past => \E n \in 1 .. Len(cuts) : Within(i, cuts[n])
  /\ stage # "cutting" => NothingLeft

LEMMA CutsInvariant == Spec => []CutsCover
<1>1. Init => CutsCover
  BY DEF Init, CutsCover, Start, Piece
<1>2. TypeOK /\ CutsCover /\ [Next]_vars => CutsCover'
  <2> SUFFICES ASSUME TypeOK, CutsCover, [Next]_vars PROVE CutsCover'
    OBVIOUS
  <2>1. CASE Locate
    <3>1. PICK first, past \in 1 .. Len(text) + 1 :
            /\ FollowsCut(Piece(first, past))
            /\ last' = Piece(first, past)
            /\ cuts' = Append(cuts, Piece(first, past))
      BY <2>1 DEF Locate
    <3> DEFINE cut == Piece(first, past)
               N == Len(cuts)
    <3>2. cut \in Pieces /\ cut.first = first /\ cut.past = past
      BY InputTypes DEF Piece, Pieces
    <3>3. /\ Len(cuts') = N + 1 /\ N \in Nat
          /\ cuts'[N + 1] = cut
          /\ \A n \in 1 .. N : cuts'[n] = cuts[n] /\ cuts[n] \in Pieces
      <4>1. ASSUME NEW S, NEW q \in Seq(S), NEW e \in S
            PROVE  /\ Len(Append(q, e)) = Len(q) + 1 /\ Len(q) \in Nat
                   /\ Append(q, e)[Len(q) + 1] = e
                   /\ \A n \in 1 .. Len(q) : Append(q, e)[n] = q[n] /\ q[n] \in S
        OBVIOUS
      <4> HIDE DEF cut
      <4> QED BY <3>1, <3>2, <4>1 DEF TypeOK, cut
    <3>4. /\ last.first <= first /\ last.past \in Int /\ last.first \in Int
          /\ \A i \in last.past .. first - 1 : ~Visible(i)
      BY <3>1, <3>2 DEF FollowsCut, TypeOK, Pieces
    <3>5. text' = text /\ stage' = stage /\ stage = "cutting"
      BY <2>1 DEF Locate
    <3> HIDE DEF cut
    <3>6. \A n \in 1 .. N + 1 : cuts'[n].first <= first
      BY <3>2, <3>3, <3>4, SMTT(30) DEF CutsCover, Pieces
    <3>7. \A m, n \in 1 .. N + 1 : m <= n => cuts'[m].first <= cuts'[n].first
      BY <3>2, <3>3, <3>6 DEF CutsCover
    <3>8. ASSUME NEW i \in 1 .. Len(text), Visible(i), i < past
          PROVE  \E n \in 1 .. N + 1 : Within(i, cuts'[n])
      <4>1. CASE i < last.past
        BY <3>3, <3>8, <4>1 DEF CutsCover
      <4>2. CASE i >= last.past
        <5>1. first <= i
          BY <3>4, <3>8, <4>2, InputTypes
        <5> QED BY <3>2, <3>3, <3>8, <5>1 DEF Within
      <4> QED BY <3>4, <4>1, <4>2, InputTypes
    <3>9. last'.first = first /\ last'.past = past
      BY <3>1 DEF Piece
    <3>10. \A i : Visible(i)' = Visible(i)
      BY <3>5 DEF Visible
    <3> QED BY <3>3, <3>5, <3>6, <3>7, <3>8, <3>9, <3>10 DEF CutsCover
  <2>2. CASE CutAll
    <3>1. NothingLeft /\ UNCHANGED <<text, last, cuts>>
      BY <2>2 DEF CutAll
    <3> QED BY <3>1 DEF CutsCover, NothingLeft, Visible, Within
  <2>3. CASE Merge \/ MergeEnd
    BY <2>3 DEF Merge, MergeEnd, CutsCover, NothingLeft, Visible, Within
  <2>4. CASE UNCHANGED vars
    BY <2>4 DEF vars, CutsCover, NothingLeft, Visible, Within
  <2> QED BY <2>1, <2>2, <2>3, <2>4 DEF Next
<1> QED BY <1>1, <1>2, TypeCorrect, PTL DEF Spec

\* A piece is in some chunk, or in the one being carried.
Kept(p) == \/ \E n \in 1 .. Len(merged) : Inside(p, merged[n])
           \/ pending # NoPiece /\ Inside(p, pending)

\* Chunks and the piece carried never start behind what is still to come,
\* so joining and merging backward lose nothing.
MergingKeeps ==
  /\ stage = "cutting" => next = 1 /\ pending = NoPiece /\ merged = <<>>
  /\ (stage = "merging" /\ OffsetsMonotonic) =>
       /\ \A m \in 1 .. next - 1 : Kept(pieces[m])
       /\ \A n \in 1 .. Len(merged) :
            /\ \A m \in next .. Len(pieces) : merged[n].first <= pieces[m].first
            /\ pending # NoPiece => merged[n].first <= pending.first
       /\ pending # NoPiece =>
            \A m \in next .. Len(pieces) : pending.first <= pieces[m].first
  /\ (stage = "done" /\ OffsetsMonotonic) =>
       \A m \in 1 .. Len(pieces) :
         \E n \in 1 .. Len(merged) : Inside(pieces[m], merged[n])

\* One step of the second loop.
LEMMA MergeKeeps ==
  ASSUME TypeOK, MergingKeeps, Merge, OffsetsMonotonic
  PROVE  MergingKeeps'
<1> DEFINE p == pieces[next]
           joined == Joined(p)
           N == Len(merged)
<1>1. /\ stage = "merging" /\ stage' = "merging" /\ next' = next + 1
      /\ pieces' = pieces /\ cuts' = cuts
      /\ next \in 1 .. Len(pieces) /\ N \in Nat /\ Len(pieces) \in Nat
  BY DEF Merge, TypeOK
<1>2. p \in Pieces /\ \A m \in 1 .. Len(pieces) : pieces[m] \in Pieces
  BY <1>1 DEF TypeOK
<1>3. /\ joined \in Pieces /\ Inside(p, joined)
      /\ pending # NoPiece => Inside(pending, joined) /\ joined.first = pending.first
      /\ pending = NoPiece => joined = p
  <2>1. CASE pending = NoPiece
    <3>1. joined = p
      BY <2>1 DEF Joined
    <3> QED BY <1>2, <2>1, <3>1 DEF Inside, Pieces
  <2>2. CASE pending # NoPiece
    <3>1. joined = Piece(pending.first, Larger(pending.past, p.past))
      BY <2>2 DEF Joined
    <3>2. pending \in Pieces
      BY <2>2 DEF TypeOK
    <3>3. next \in 1 .. Len(pieces) /\ pending.first <= p.first
      BY <1>1, <2>2 DEF MergingKeeps
    <3> HIDE DEF p, joined
    <3> QED BY <1>2, <2>2, <3>1, <3>2, <3>3 DEF Inside, Larger, Pieces, Piece
  <2> QED BY <2>1, <2>2
<1>4. \A m \in next + 1 .. Len(pieces) : p.first <= pieces[m].first
  BY <1>1 DEF OffsetsMonotonic
<1>5. \A m \in next + 1 .. Len(pieces) : joined.first <= pieces[m].first
  BY <1>1, <1>3, <1>4 DEF MergingKeeps
<1>6. \A n \in 1 .. N : merged[n] \in Pieces /\ merged[n].first <= joined.first
  BY <1>1, <1>3 DEF MergingKeeps, TypeOK
<1>7. \A m \in 1 .. next :
        \/ \E n \in 1 .. N : Inside(pieces[m], merged[n])
        \/ Inside(pieces[m], joined)
  <2> SUFFICES ASSUME NEW m \in 1 .. next
               PROVE  \/ \E n \in 1 .. N : Inside(pieces[m], merged[n])
                      \/ Inside(pieces[m], joined)
    OBVIOUS
  <2>1. CASE m = next
    BY <2>1, <1>3
  <2>2. CASE m \in 1 .. next - 1
    <3>1. Kept(pieces[m])
      BY <1>1, <2>2 DEF MergingKeeps
    <3>2. ASSUME pending # NoPiece, Inside(pieces[m], pending)
          PROVE  Inside(pieces[m], joined)
      <4>1. pieces[m] \in Pieces /\ pending \in Pieces
        BY <1>1, <1>2, <2>2, <3>2 DEF TypeOK
      <4> HIDE DEF joined
      <4> QED BY <1>3, <3>2, <4>1 DEF Inside, Pieces
    <3> QED BY <3>1, <3>2 DEF Kept
  <2> QED BY <1>1, <2>1, <2>2
<1>8. CASE LongEnough(joined)
  <2>1. merged' = Append(merged, joined) /\ pending' = NoPiece
    BY <1>8 DEF Merge
  <2>2. /\ Len(merged') = N + 1 /\ merged'[N + 1] = joined
        /\ \A n \in 1 .. N : merged'[n] = merged[n]
    <3>1. merged \in Seq(Pieces) BY DEF TypeOK
    <3> HIDE DEF joined
    <3> QED BY <1>3, <2>1, <3>1
  <2> HIDE DEF joined, p, N
  <2>3. \A m \in 1 .. next : \E n \in 1 .. N + 1 : Inside(pieces[m], merged'[n])
    BY <1>1, <1>7, <2>2
  <2>4. \A n \in 1 .. N + 1 : \A m \in next + 1 .. Len(pieces) :
          merged'[n].first <= pieces[m].first
    <3> SUFFICES ASSUME NEW n \in 1 .. N + 1, NEW m \in next + 1 .. Len(pieces)
                 PROVE  merged'[n].first <= pieces[m].first
      OBVIOUS
    <3>1. CASE n = N + 1
      BY <1>5, <2>2, <3>1
    <3>2. CASE n \in 1 .. N
      BY <1>1, <2>2, <3>2 DEF MergingKeeps, N
    <3> QED BY <1>1, <3>1, <3>2
  <2>5. \A m \in 1 .. next : Kept(pieces[m])'
    BY <1>1, <2>2, <2>3 DEF Kept
  <2>6. next' - 1 = next /\ pieces' = pieces
    BY <1>1
  <2>7. \A n \in 1 .. Len(merged') : \A m \in next' .. Len(pieces') :
          merged'[n].first <= pieces'[m].first
    BY <1>1, <2>2, <2>4
  <2>8. \A m \in 1 .. next' - 1 : Kept(pieces[m])'
    BY <2>5, <2>6
  <2> QED BY <1>1, <2>1, <2>7, <2>8 DEF MergingKeeps
<1>9. CASE ~LongEnough(joined)
  <2>1. pending' = joined /\ merged' = merged
    BY <1>9 DEF Merge
  <2>2. joined # NoPiece
    BY <1>3, ChunkingAssumption DEF Pieces
  <2> HIDE DEF joined
  <2>3. \A m \in 1 .. next : Kept(pieces[m])'
    BY <1>1, <1>7, <2>1, <2>2 DEF Kept
  <2>4. \A n \in 1 .. N : /\ merged[n].first <= joined.first
                          /\ \A m \in next + 1 .. Len(pieces) :
                               merged[n].first <= pieces[m].first
    BY <1>1, <1>6 DEF MergingKeeps
  <2> QED BY <1>1, <1>5, <2>1, <2>3, <2>4 DEF MergingKeeps
<1> QED BY <1>8, <1>9

\* Its end: a short last piece is merged backward, where it fits.
LEMMA MergeEndKeeps ==
  ASSUME TypeOK, MergingKeeps, MergeEnd, OffsetsMonotonic
  PROVE  MergingKeeps'
<1>1. /\ stage = "merging" /\ stage' = "done" /\ pieces' = pieces
      /\ next > Len(pieces) /\ Len(pieces) \in Nat /\ next = Len(pieces) + 1
  BY DEF MergeEnd, TypeOK
<1>2. \A m \in 1 .. Len(pieces) : Kept(pieces[m]) /\ pieces[m] \in Pieces
  BY <1>1 DEF MergingKeeps, TypeOK
<1>3. CASE pending = NoPiece
  BY <1>1, <1>2, <1>3 DEF MergeEnd, MergingKeeps, Kept
<1>4. CASE pending # NoPiece /\ merged = <<>>
  <2>1. merged' = <<pending>>
    BY <1>4 DEF MergeEnd, Trailing
  <2>2. Len(merged') = 1 /\ merged'[1] = pending
    BY <2>1
  <2> QED BY <1>1, <1>2, <1>4, <2>2 DEF MergingKeeps, Kept
<1>5. CASE pending # NoPiece /\ merged # <<>>
  <2> DEFINE N == Len(merged)
             end == Piece(merged[N].first, Larger(merged[N].past, pending.past))
  <2>1. N \in 1 .. Len(merged) /\ merged[N] \in Pieces /\ pending \in Pieces
    BY <1>5 DEF TypeOK
  <2>2. merged' = [merged EXCEPT ![N] = end]
    BY <1>5 DEF MergeEnd, Trailing
  <2>3. merged[N].first <= pending.first
    BY <1>1, <1>5, <2>1 DEF MergingKeeps
  <2>4. Inside(merged[N], end) /\ Inside(pending, end) /\ end \in Pieces
    BY <2>1, <2>3 DEF Inside, Pieces, Piece, Larger
  <2> HIDE DEF end
  <2>5. /\ Len(merged') = N /\ merged'[N] = end
        /\ \A n \in 1 .. N : n # N => merged'[n] = merged[n]
    BY <2>1, <2>2 DEF TypeOK
  <2>6. ASSUME NEW m \in 1 .. Len(pieces)
        PROVE  \E n \in 1 .. N : Inside(pieces[m], merged'[n])
    <3>1. CASE pending # NoPiece /\ Inside(pieces[m], pending)
      <4>1. Inside(pieces[m], end)
        BY <1>2, <2>1, <2>4, <3>1 DEF Inside, Pieces
      <4> QED BY <2>1, <2>5, <4>1
    <3>2. ASSUME NEW n \in 1 .. N, Inside(pieces[m], merged[n])
          PROVE  Inside(pieces[m], merged'[n])
      <4>1. CASE n = N
        BY <1>2, <2>1, <2>4, <2>5, <3>2, <4>1 DEF Inside, Pieces
      <4>2. CASE n # N
        BY <2>5, <3>2, <4>2
      <4> QED BY <4>1, <4>2
    <3> QED BY <1>2, <3>1, <3>2 DEF Kept
  <2> HIDE DEF N
  <2> QED BY <1>1, <2>5, <2>6 DEF MergingKeeps
<1> QED BY <1>3, <1>4, <1>5

LEMMA MergingInvariant == Spec => [](TypeOK /\ MergingKeeps)
<1>1. Init => MergingKeeps
  BY DEF Init, MergingKeeps
<1>2. TypeOK /\ MergingKeeps /\ [Next]_vars => MergingKeeps'
  <2> SUFFICES ASSUME TypeOK, MergingKeeps, [Next]_vars
               PROVE  MergingKeeps'
    OBVIOUS
  <2>1. CASE Locate
    BY <2>1 DEF Locate, MergingKeeps
  <2>2. CASE CutAll
    <3>1. /\ stage = "cutting" /\ next' = 1 /\ pending' = NoPiece
          /\ pieces' = pieces
      BY <2>2 DEF CutAll, MergingKeeps
    <3>2. CASE Unmerged
      <4>1. stage' = "done" /\ merged' = pieces
        BY <2>2, <3>2 DEF CutAll
      <4>2. \A m \in 1 .. Len(pieces) : Inside(pieces[m], pieces[m])
        <5>1. \A m \in 1 .. Len(pieces) : pieces[m] \in Pieces
          BY DEF TypeOK
        <5> QED BY <5>1 DEF Inside, Pieces
      <4> QED BY <3>1, <4>1, <4>2 DEF MergingKeeps
    <3>3. CASE ~Unmerged
      <4>1. stage' = "merging" /\ merged' = <<>>
        BY <2>2, <3>3 DEF CutAll
      <4> QED BY <3>1, <4>1 DEF MergingKeeps
    <3> QED BY <3>2, <3>3
  <2>3. CASE Merge
    <3>1. CASE OffsetsMonotonic
      BY <2>3, <3>1, MergeKeeps
    <3>2. CASE ~OffsetsMonotonic
      BY <2>3, <3>2 DEF Merge, MergingKeeps, OffsetsMonotonic
    <3> QED BY <3>1, <3>2
  <2>4. CASE MergeEnd
    <3>1. CASE OffsetsMonotonic
      BY <2>4, <3>1, MergeEndKeeps
    <3>2. CASE ~OffsetsMonotonic
      BY <2>4, <3>2 DEF MergeEnd, MergingKeeps, OffsetsMonotonic
    <3> QED BY <3>1, <3>2
  <2>5. CASE UNCHANGED vars
    BY <2>5 DEF vars, MergingKeeps, Kept, OffsetsMonotonic
  <2> QED BY <2>1, <2>2, <2>3, <2>4, <2>5 DEF Next
<1> QED BY <1>1, <1>2, TypeCorrect, PTL DEF Spec

\* As long as the search finds the raw chunks where they were cut, folding
\* the short ones into their neighbours loses no visible character.
THEOREM NothingIsDropped == Spec => []NothingDropped
<1>1. TypeOK /\ CutsCover /\ MergingKeeps => NothingDropped
  <2> SUFFICES ASSUME TypeOK, CutsCover, MergingKeeps,
                      stage = "done", pieces = cuts,
                      NEW i \in 1 .. Len(text), Visible(i)
               PROVE  \E n \in 1 .. Len(merged) : Within(i, merged[n])
    BY DEF NothingDropped
  <2>1. i < last.past
    BY InputTypes DEF CutsCover, NothingLeft, TypeOK, Pieces
  <2>2. PICK m \in 1 .. Len(cuts) : Within(i, cuts[m])
    BY <2>1 DEF CutsCover
  <2>3. PICK n \in 1 .. Len(merged) : Inside(pieces[m], merged[n])
    <3>1. OffsetsMonotonic
      BY DEF CutsCover, OffsetsMonotonic
    <3> QED BY <2>2, <3>1 DEF MergingKeeps
  <2>4. pieces[m] \in Pieces /\ merged[n] \in Pieces
    BY <2>2, <2>3 DEF TypeOK
  <2>5. Within(i, merged[n])
    BY <2>2, <2>3, <2>4, InputTypes DEF Within, Inside, Pieces
  <2> QED BY <2>5
<1> QED BY <1>1, CutsInvariant, MergingInvariant, PTL

\* Each piece is an occurrence of its raw chunk.
Located(n) ==
  /\ cuts[n].first \in 1 .. Len(text) /\ cuts[n].past \in 1 .. Len(text) + 1
  /\ cuts[n].first < cuts[n].past
  /\ pieces[n].past = pieces[n].first + (cuts[n].past - cuts[n].first)
  /\ OccursAt(cuts[n], pieces[n].first)

\* What a step of the first loop appends, and what it leaves as it was.
LEMMA LocateAppends ==
  ASSUME TypeOK, Locate
  PROVE  \E first, past, p \in 1 .. Len(text) + 1 :
           /\ FollowsCut(Piece(first, past)) /\ LocatedAt(Piece(first, past), p)
           /\ first < past /\ first <= Len(text) /\ text' = text
           /\ Len(cuts') = Len(cuts) + 1 /\ Len(pieces') = Len(cuts) + 1
           /\ cuts'[Len(cuts) + 1] = Piece(first, past)
           /\ pieces'[Len(cuts) + 1] = Piece(p, p + (past - first))
           /\ \A n \in 1 .. Len(cuts) : cuts'[n] = cuts[n] /\ pieces'[n] = pieces[n]
           /\ hint' = Advanced(Piece(first, past), p)
<1>1. PICK first, past \in 1 .. Len(text) + 1 :
        LET cut == Piece(first, past)
        IN  /\ FollowsCut(cut)
            /\ cuts' = Append(cuts, cut)
            /\ \E p \in 1 .. Len(text) :
                 /\ LocatedAt(cut, p)
                 /\ pieces' = Append(pieces, Piece(p, p + (cut.past - cut.first)))
                 /\ hint' = Advanced(cut, p)
  BY DEF Locate
<1> DEFINE cut == Piece(first, past)
<1>2. PICK p \in 1 .. Len(text) :
        /\ LocatedAt(cut, p)
        /\ pieces' = Append(pieces, Piece(p, p + (cut.past - cut.first)))
        /\ hint' = Advanced(cut, p)
  BY <1>1
<1> DEFINE piece == Piece(p, p + (past - first))
<1>3. cut.first = first /\ cut.past = past
  BY DEF Piece
<1>4. first < past /\ first <= Len(text) /\ text' = text
  <2>1. text' = text
    BY DEF Locate
  <2>2. FollowsCut(cut)
    BY <1>1
  <2> HIDE DEF cut
  <2> QED BY <1>3, <2>1, <2>2, InputTypes DEF FollowsCut, Visible
<1>5. ASSUME NEW S, NEW q \in Seq(S), NEW e
      PROVE  /\ Len(Append(q, e)) = Len(q) + 1
             /\ Append(q, e)[Len(q) + 1] = e
             /\ \A n \in 1 .. Len(q) : Append(q, e)[n] = q[n]
  OBVIOUS
<1>6. /\ cuts \in Seq(Pieces) /\ pieces \in Seq(Pieces) /\ Len(pieces) = Len(cuts)
      /\ cuts' = Append(cuts, cut) /\ pieces' = Append(pieces, piece)
  BY <1>1, <1>2, <1>3 DEF TypeOK
<1>7. FollowsCut(cut) /\ LocatedAt(cut, p) /\ hint' = Advanced(cut, p)
  BY <1>1, <1>2
<1>8. first \in 1 .. Len(text) + 1 /\ past \in 1 .. Len(text) + 1
      /\ p \in 1 .. Len(text) + 1
  BY <1>1, <1>2, InputTypes
<1> HIDE DEF cut, piece
<1>9. /\ Len(cuts') = Len(cuts) + 1 /\ Len(pieces') = Len(cuts) + 1
      /\ cuts'[Len(cuts) + 1] = cut /\ pieces'[Len(cuts) + 1] = piece
      /\ \A n \in 1 .. Len(cuts) : cuts'[n] = cuts[n] /\ pieces'[n] = pieces[n]
  BY <1>5, <1>6
<1> QED BY <1>4, <1>7, <1>8, <1>9 DEF cut, piece

LEMMA LocatedInvariant == Spec => [](TypeOK /\ \A n \in 1 .. Len(cuts) : Located(n))
<1> DEFINE Inv == \A n \in 1 .. Len(cuts) : Located(n)
<1>1. Init => Inv
  BY DEF Init
<1>2. TypeOK /\ Inv /\ [Next]_vars => Inv'
  <2> SUFFICES ASSUME TypeOK, Inv, [Next]_vars PROVE Inv'
    OBVIOUS
  <2>1. CASE Locate
    <3>1. PICK first, past, p \in 1 .. Len(text) + 1 :
            /\ LocatedAt(Piece(first, past), p)
            /\ first < past /\ first <= Len(text) /\ text' = text
            /\ Len(cuts') = Len(cuts) + 1
            /\ cuts'[Len(cuts) + 1] = Piece(first, past)
            /\ pieces'[Len(cuts) + 1] = Piece(p, p + (past - first))
            /\ \A n \in 1 .. Len(cuts) : cuts'[n] = cuts[n] /\ pieces'[n] = pieces[n]
      BY <2>1, LocateAppends
    <3>2. Len(cuts) \in Nat
      BY DEF TypeOK
    <3>3. ASSUME NEW n \in Nat, n = Len(cuts) + 1 PROVE Located(n)'
      <4>1. OccursAt(Piece(first, past), p)
        BY <3>1 DEF LocatedAt
      <4>2. /\ cuts'[n] = Piece(first, past)
            /\ pieces'[n] = Piece(p, p + (past - first))
        BY <3>1, <3>3
      <4>4. /\ cuts'[n].first = first /\ cuts'[n].past = past
            /\ pieces'[n].first = p /\ pieces'[n].past = p + (past - first)
        BY <4>2 DEF Piece
      <4>5. (OccursAt(cuts[n], pieces[n].first))'
        BY <3>1, <4>1, <4>4 DEF OccursAt, Piece
      <4> QED BY <3>1, <4>4, <4>5, InputTypes DEF Located
    <3>4. ASSUME NEW n \in 1 .. Len(cuts) PROVE Located(n)'
      <4>1. Located(n)
        OBVIOUS
      <4> QED BY <3>1, <4>1 DEF Located, OccursAt
    <3>5. \A n \in 1 .. Len(cuts') :
            n \in Nat /\ (n = Len(cuts) + 1 \/ n \in 1 .. Len(cuts))
      BY <3>1, <3>2
    <3> QED BY <3>3, <3>4, <3>5
  <2>2. CASE CutAll \/ Merge \/ MergeEnd
    BY <2>2 DEF CutAll, Merge, MergeEnd, Located, OccursAt
  <2>3. CASE UNCHANGED vars
    BY <2>3 DEF vars, Located, OccursAt
  <2> QED BY <2>1, <2>2, <2>3 DEF Next
<1> QED BY <1>1, <1>2, TypeCorrect, PTL DEF Spec

\* The text of every raw chunk survives the merging of short ones, wherever
\* the search found it, if it found none before its predecessor.
THEOREM TextSurvives == Spec => []RawTextKept
<1>1. TypeOK /\ MergingKeeps /\ (\A n \in 1 .. Len(cuts) : Located(n)) => RawTextKept
  <2> SUFFICES ASSUME TypeOK, MergingKeeps, \A n \in 1 .. Len(cuts) : Located(n),
                      stage = "done", OffsetsMonotonic, NEW m \in 1 .. Len(cuts)
               PROVE  TextKept(cuts[m])
    BY DEF RawTextKept
  <2>1. m \in 1 .. Len(pieces) /\ pieces[m] \in Pieces /\ cuts[m] \in Pieces
    BY DEF TypeOK
  <2>2. PICK n \in 1 .. Len(merged) : Inside(pieces[m], merged[n])
    BY <2>1 DEF MergingKeeps
  <2>3. merged[n] \in Pieces
    BY DEF TypeOK
  <2> DEFINE p == pieces[m].first
             length == cuts[m].past - cuts[m].first
  <2>4. /\ p \in Int /\ pieces[m].past = p + length /\ length \in Int /\ length > 0
        /\ OccursAt(cuts[m], p)
    BY <2>1 DEF Located, Pieces
  <2>5. /\ merged[n].first \in Int /\ merged[n].past \in Int
        /\ merged[n].first <= p /\ pieces[m].past <= merged[n].past
    BY <2>2, <2>3 DEF Inside, Pieces
  <2> HIDE DEF p
  <2>6. p + length <= merged[n].past /\ p \in merged[n].first .. merged[n].past - 1
    <3> HIDE DEF length
    <3> QED BY <2>4, <2>5
  <2> QED BY <2>4, <2>6 DEF TextKept
<1> QED BY <1>1, MergingInvariant, LocatedInvariant, PTL

\* No raw chunk shorter than the overlap, as far as the document is cut.
LongCuts == \A n \in 1 .. Len(cuts) : cuts[n].past - cuts[n].first >= config.overlap

\* Then the hint has passed the start of every piece found so far.
HintPasses ==
  LongCuts => OffsetsMonotonic /\ \A n \in 1 .. Len(cuts) : pieces[n].first <= hint

LEMMA PassesInvariant == Spec => [](TypeOK /\ HintPasses)
<1>1. Init => HintPasses
  BY DEF Init, HintPasses, OffsetsMonotonic
<1>2. TypeOK /\ HintPasses /\ [Next]_vars => HintPasses'
  <2> SUFFICES ASSUME TypeOK, HintPasses, [Next]_vars PROVE HintPasses'
    OBVIOUS
  <2>1. CASE Locate
    <3> DEFINE N == Len(cuts)
    <3>1. PICK first, past, p \in 1 .. Len(text) + 1 :
            /\ LocatedAt(Piece(first, past), p)
            /\ Len(cuts') = N + 1 /\ Len(pieces') = N + 1
            /\ cuts'[N + 1] = Piece(first, past)
            /\ pieces'[N + 1] = Piece(p, p + (past - first))
            /\ \A n \in 1 .. N : cuts'[n] = cuts[n] /\ pieces'[n] = pieces[n]
            /\ hint' = Advanced(Piece(first, past), p)
      BY <2>1, LocateAppends
    <3>2. /\ N \in Nat /\ Len(pieces) = N /\ hint \in Int /\ config.overlap \in Int
          /\ config' = config /\ p \in Int /\ first \in Int /\ past \in Int
          /\ \A n \in 1 .. N : pieces[n].first \in Int
      <4>1. /\ config' = config /\ p \in Int /\ first \in Int /\ past \in Int
            /\ config.overlap \in Int
        BY <2>1, InputTypes DEF Locate
      <4>2. N \in Nat /\ Len(pieces) = N /\ hint \in Int
        BY DEF TypeOK
      <4>3. \A n \in 1 .. N : pieces[n] \in Pieces
        BY <4>2 DEF TypeOK
      <4>4. \A n \in 1 .. N : pieces[n].first \in Int
        BY <4>3 DEF Pieces
      <4> QED BY <4>1, <4>2, <4>4
    <3>3. /\ hint <= p
          /\ cuts'[N + 1].first = first /\ cuts'[N + 1].past = past
          /\ pieces'[N + 1].first = p
          /\ hint' = Larger(hint, p + (past - first) - config.overlap)
      BY <3>1 DEF LocatedAt, Piece, Advanced
    <3> HIDE DEF N
    <3>4. SUFFICES ASSUME LongCuts'
                   PROVE  /\ OffsetsMonotonic'
                          /\ \A n \in 1 .. N + 1 : pieces'[n].first <= hint'
      BY <3>1 DEF HintPasses
    <3>5. /\ \A n \in 1 .. N + 1 : cuts'[n].past - cuts'[n].first >= config.overlap
      BY <3>1, <3>2, <3>4 DEF LongCuts
    <3>6. LongCuts
      <4>1. \A n \in 1 .. N : n \in 1 .. N + 1 /\ cuts'[n] = cuts[n]
        BY <3>1, <3>2
      <4> QED BY <3>5, <4>1 DEF LongCuts, N
    <3>7. /\ \A n \in 1 .. N : pieces[n].first <= hint
          /\ \A m, n \in 1 .. N : m <= n => pieces[m].first <= pieces[n].first
      BY <3>2, <3>6 DEF HintPasses, OffsetsMonotonic, N
    <3>8. past - first >= config.overlap
      BY <3>2, <3>3, <3>5
    <3>9. hint <= hint' /\ p <= hint' /\ hint' \in Int
      BY <3>2, <3>3, <3>8 DEF Larger
    <3>10. \A n \in 1 .. N + 1 : /\ pieces'[n].first <= hint'
                                 /\ pieces'[n].first <= p
                                 /\ n # N + 1 => n \in 1 .. N
      BY <3>1, <3>2, <3>3, <3>7, <3>9
    <3>11. \A m, n \in 1 .. N + 1 : m <= n => pieces'[m].first <= pieces'[n].first
      BY <3>1, <3>2, <3>3, <3>7, <3>10
    <3> QED BY <3>1, <3>10, <3>11 DEF OffsetsMonotonic
  <2>2. CASE CutAll \/ Merge \/ MergeEnd
    BY <2>2 DEF CutAll, Merge, MergeEnd, HintPasses, LongCuts, OffsetsMonotonic
  <2>3. CASE UNCHANGED vars
    BY <2>3 DEF vars, HintPasses, LongCuts, OffsetsMonotonic
  <2> QED BY <2>1, <2>2, <2>3 DEF Next
<1> QED BY <1>1, <1>2, TypeCorrect, PTL DEF Spec

\* Only a raw chunk shorter than the overlap makes the offsets go backwards.
THEOREM LongChunksInOrder == Spec => [](LongCuts => OffsetsMonotonic)
<1>1. HintPasses => (LongCuts => OffsetsMonotonic)
  BY DEF HintPasses
<1> QED BY <1>1, PassesInvariant, PTL
=============================================================================
