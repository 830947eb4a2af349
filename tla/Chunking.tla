------------------------------ MODULE Chunking ------------------------------
(***************************************************************************)
(* DocumentSplitter.split: the text splitter of langchain cuts a document  *)
(* into raw chunks, each is located in the document by a search from a     *)
(* moving hint, and chunks below the minimum are folded into a neighbour.  *)
(*                                                                         *)
(* A document is a sequence of characters, whitespace being Blank; a piece *)
(* is given by the offsets of its first character and of the one past its  *)
(* last (counted from 1).  A piece located is an occurrence of the raw     *)
(* chunk's text, so the slice of the document between its offsets stands   *)
(* for its text as well.                                                   *)
(***************************************************************************)
EXTENDS Integers, Sequences

CONSTANTS
  Characters,     \* what documents are made of
  Blank,          \* the whitespace among them
  Documents,      \* texts to be split
  Configs,        \* values of ChunkingConfig
  NoPiece         \* pending is None

\* ChunkingConfig.__post_init__, but for the floor of 50 under chunk_size.
ASSUME ChunkingAssumption ==
  /\ Documents \subseteq Seq(Characters)
  /\ Configs \subseteq [size : Nat \ {0}, overlap : Nat, minimum : Nat]
  /\ \A config \in Configs : config.overlap < config.size
  /\ NoPiece \notin [first : Int, past : Int]

VARIABLES
  text,       \* the document
  config,     \* the configuration of its job
  stage,      \* "cutting", "merging" or "done"
  last,       \* where the last raw chunk really was cut
  cuts,       \* where the raw chunks were cut
  hint,       \* search_pos
  pieces,     \* where they were located
  next,       \* the piece that merging looks at
  pending,    \* a short piece carried into the next one
  merged      \* the chunks

vars == <<text, config, stage, last, cuts, hint, pieces, next, pending, merged>>

Pieces == [first : Int, past : Int]
Piece(first, past) == [first |-> first, past |-> past]
Larger(a, b) == IF a >= b THEN a ELSE b

\* The clamp of min_chunk_chars.
Minimum == IF config.minimum <= config.size \div 2 THEN config.minimum
                                                   ELSE config.size \div 2

Visible(i) == i \in 1 .. Len(text) /\ text[i] # Blank

-----------------------------------------------------------------------------
(* RecursiveCharacterTextSplitter, as split uses it: raw chunks are        *)
(* stripped, no longer than chunk_size, share at most chunk_overlap with   *)
(* the one before and skip nothing but whitespace.  A short one followed   *)
(* by long whitespace may be cut again; every cut takes a part of its own  *)
(* of the text, so there are no more of them than characters.              *)

Start == Piece(0, 1)

FollowsCut(cut) ==
  /\ Visible(cut.first) /\ Visible(cut.past - 1)
  /\ cut.first < cut.past
  /\ cut.past - cut.first <= config.size
  /\ cut.first >= last.first /\ cut.past >= last.past
  /\ cut = last => ~Visible(cut.past) /\ Len(cuts) < Len(text)
  /\ cut.first >= last.past - config.overlap
  /\ \A i \in last.past .. cut.first - 1 : ~Visible(i)

NothingLeft == \A i \in 1 .. Len(text) : i >= last.past => ~Visible(i)

-----------------------------------------------------------------------------
(* split.                                                                  *)

Init ==
  /\ text \in Documents
  /\ config \in Configs
  /\ stage = "cutting"
  /\ last = Start
  /\ cuts = <<>>
  /\ hint = 1
  /\ pieces = <<>>
  /\ next = 1
  /\ pending = NoPiece
  /\ merged = <<>>

\* The raw chunk cut is found at p.
OccursAt(cut, p) ==
  \A k \in 0 .. cut.past - cut.first - 1 :
    p + k <= Len(text) /\ text[p + k] = text[cut.first + k]

\* _locate: the first place from the hint on.  (There always is one, see
\* LocateFinds, so its two fallbacks are never taken.)
LocatedAt(cut, p) ==
  /\ p >= hint
  /\ OccursAt(cut, p)
  /\ \A q \in hint .. p - 1 : ~OccursAt(cut, q)

\* Mutant of Advanced: the search goes on after the piece.
AdvancedWhole(cut, p) == Larger(hint, p + cut.past - cut.first)

\* search_pos after a chunk located at p: past it, minus the overlap.
Advanced(cut, p) == Larger(hint, p + (cut.past - cut.first) - config.overlap)

\* The first loop: the next raw chunk is located.
Locate ==
  /\ stage = "cutting"
  /\ \E first, past \in 1 .. Len(text) + 1 :
       LET cut == Piece(first, past)
       IN  /\ FollowsCut(cut)
           /\ last' = cut
           /\ cuts' = Append(cuts, cut)
           /\ \E p \in 1 .. Len(text) :
                /\ LocatedAt(cut, p)
                /\ pieces' = Append(pieces,
                                    Piece(p, p + (cut.past - cut.first)))
                /\ hint' = Advanced(cut, p)
  /\ UNCHANGED <<text, config, stage, next, pending, merged>>

\* _merge_short returns a single piece, or all without a minimum, as they are.
Unmerged == Minimum <= 0 \/ Len(pieces) <= 1

CutAll ==
  /\ stage = "cutting"
  /\ NothingLeft
  /\ IF Unmerged THEN stage' = "done" /\ merged' = pieces
                 ELSE stage' = "merging" /\ merged' = <<>>
  /\ UNCHANGED <<text, config, last, cuts, hint, pieces, next, pending>>

\* len(text.strip()) >= min_chunk_chars.
LongEnough(piece) ==
  \E i, j \in piece.first .. piece.past - 1 :
    Visible(i) /\ Visible(j) /\ j - i + 1 >= Minimum

\* Mutant of Joined: the piece replaces the short one carried into it.
JoinedDropping(piece) == piece

\* The piece with the short one carried into it.
Joined(piece) ==
  IF pending = NoPiece THEN piece
  ELSE Piece(pending.first, Larger(pending.past, piece.past))

\* The second loop.
Merge ==
  /\ stage = "merging"
  /\ next <= Len(pieces)
  /\ next' = next + 1
  /\ LET joined == Joined(pieces[next])
     IN  IF LongEnough(joined)
         THEN merged' = Append(merged, joined) /\ pending' = NoPiece
         ELSE pending' = joined /\ UNCHANGED merged
  /\ UNCHANGED <<text, config, stage, last, cuts, hint, pieces>>

\* Mutant of Trailing: a short piece at the end becomes a chunk.
TrailingAppended == Append(merged, pending)

\* A short piece at the end merges backward, if there is a chunk.
Trailing ==
  IF merged = <<>> THEN <<pending>>
  ELSE [merged EXCEPT ![Len(merged)] =
          Piece(@.first, Larger(@.past, pending.past))]

MergeEnd ==
  /\ stage = "merging"
  /\ next > Len(pieces)
  /\ stage' = "done"
  /\ merged' = IF pending = NoPiece THEN merged ELSE Trailing
  /\ UNCHANGED <<text, config, last, cuts, hint, pieces, next, pending>>

Next == Locate \/ CutAll \/ Merge \/ MergeEnd

Spec == Init /\ [][Next]_vars

-----------------------------------------------------------------------------
(* Properties.                                                             *)

TypeOK ==
  /\ text \in Documents
  /\ config \in Configs
  /\ stage \in {"cutting", "merging", "done"}
  /\ last \in Pieces
  /\ cuts \in Seq(Pieces)
  /\ hint \in Int
  /\ pieces \in Seq(Pieces)
  /\ Len(pieces) = Len(cuts)
  /\ next \in 1 .. Len(pieces) + 1
  /\ pending \in Pieces \cup {NoPiece}
  /\ merged \in Seq(Pieces)

Within(i, piece) == piece.first <= i /\ i < piece.past

\* The search never overshoots: whatever comes next is found from the hint
\* on, and no later than where it was cut, however often its text repeats.
LocateFinds ==
  \A first, past \in 1 .. Len(text) + 1 :
    FollowsCut(Piece(first, past)) => hint <= first

\* "Searches forward from hint to stay monotonic across chunks"
\* (splitter.py:183).  Repeated text can break it: see the README.
OffsetsMonotonic ==
  \A m, n \in 1 .. Len(pieces) : m <= n => pieces[m].first <= pieces[n].first

\* The text of the raw chunk is in some chunk.
TextKept(cut) ==
  \E n \in 1 .. Len(merged) : \E p \in merged[n].first .. merged[n].past - 1 :
    OccursAt(cut, p) /\ p + (cut.past - cut.first) <= merged[n].past

\* "Content is never dropped" (splitter.py:145): unless one is found before
\* its predecessor, the text of every raw chunk is in some chunk, even where
\* the search finds repeated text too early and merging cuts there.
RawTextKept ==
  (stage = "done" /\ OffsetsMonotonic) =>
    \A m \in 1 .. Len(cuts) : TextKept(cuts[m])

\* Every visible character is in some chunk, at the offsets it has in the
\* document, if the raw chunks were located where they were cut.
NothingDropped ==
  (stage = "done" /\ pieces = cuts) =>
    \A i \in 1 .. Len(text) :
      Visible(i) => \E n \in 1 .. Len(merged) : Within(i, merged[n])

\* No chunk below the minimum, which would be indexed as noise, unless it is
\* the only one.
NoShortChunks ==
  (stage = "done" /\ Len(merged) > 1 /\ Minimum > 0) =>
    \A n \in 1 .. Len(merged) : LongEnough(merged[n])

-----------------------------------------------------------------------------
(* What repeated text can break; see the README.                           *)

\* RawTextKept without its proviso: a short raw chunk that waits for a longer
\* one found before it hides the beginning of that one.
RawTextKeptAlways ==
  stage = "done" => \A m \in 1 .. Len(cuts) : TextKept(cuts[m])

\* The same of the characters of the document rather than of their text.
NothingEverDropped ==
  stage = "done" =>
    \A i \in 1 .. Len(text) :
      Visible(i) => \E n \in 1 .. Len(merged) : Within(i, merged[n])
=============================================================================
