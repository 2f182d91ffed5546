------------------------------- MODULE Chunking -------------------------------
(***************************************************************************)
(* How a document is cut for indexing: chunk_text (app/rag/chunking.py) in *)
(* flat mode, split_parent_blocks and split_child_chunks                   *)
(* (app/rag/hierarchical_chunking.py) in hierarchical mode.  One action is *)
(* one iteration of a loop.                                                *)
(*                                                                         *)
(* A character is its class and its place in the document; place 0 marks   *)
(* the line breaks the code puts between joined paragraphs.  So a block of *)
(* text tells which characters of the document it holds.                   *)
(***************************************************************************)
EXTENDS Integers, Sequences, SequencesExt

CONSTANTS
  MaxLength,    \* bound: characters of a document
  Settings      \* the settings tried: the size of a parent block
                \* (rag_parent_chunk_size), of a chunk (rag_child_chunk_size
                \* or rag_chunk_size) and the overlap of either

ASSUME ChunkingAssumption ==
  /\ MaxLength \in Nat
  /\ Settings \subseteq [parent : Nat \ {0}, child : Nat \ {0}, overlap : Nat]

VARIABLES
  content,  \* the document
  settings, \* the settings it is cut under
  level,    \* the call that runs: "flat", "parent", "child", or "done"
  base,     \* its base_offset
  units,    \* its paragraphs, those not placed yet
  parts,    \* current_parts
  cut,      \* the paragraph being cut by size and the cursor; text <<>>: none
  blocks,   \* the blocks it made so far
  parents,  \* the parent blocks
  waiting,  \* the parent blocks not yet split into children
  children  \* the chunks

splitVars == <<content, settings, level, base, units, parts, cut, blocks,
          parents, waiting, children>>

CharClass == {"word", "hash", "space", "break"}
Char == [class : CharClass, at : 0..MaxLength]
Text == Seq(Char)
Block == [text : Text \ {<<>>}, start : Nat, end : Nat]

Blank(c) == c.class \in {"space", "break"}
Break == [class |-> "break", at |-> 0]
NoCut == [text |-> <<>>, start |-> 0, cursor |-> 0]

-----------------------------------------------------------------------------
(* Paragraphs *)

Smallest(S) == CHOOSE n \in S : \A m \in S : n <= m
Largest(S) == CHOOSE n \in S : \A m \in S : m <= n

\* The places of t that are not blank; strip() keeps what lies between.
Inked(t) == {i \in DOMAIN t : ~Blank(t[i])}
Strip(t) == IF Inked(t) = {} THEN <<>>
            ELSE SubSeq(t, Smallest(Inked(t)), Largest(Inked(t)))
Leading(t) == IF Inked(t) = {} THEN Len(t) ELSE Smallest(Inked(t)) - 1
Trailing(t) == IF Inked(t) = {} THEN Len(t) ELSE Len(t) - Largest(Inked(t))

\* A blank line begins at i: a line break, blanks, a line break.
BlankLineAt(t, i) ==
  /\ t[i].class = "break"
  /\ \E k \in (i + 1)..Len(t) :
       /\ t[k].class = "break"
       /\ \A m \in (i + 1)..(k - 1) : Blank(t[m])

\* What a scan of n places finds, one thing after the other: found at i, the
\* scan goes on at next.
Scan(n, step) ==
  LET from[i \in 1..(n + 1)] ==
        IF i > n THEN <<>> ELSE step[i].found \o from[step[i].next]
  IN from[1]

\* _paragraph_units: from a character that is not blank to the next blank
\* line or the end.
ParagraphAt(t, i) ==
  LET inked == {k \in i..Len(t) : ~Blank(t[k])} IN
  IF inked = {} THEN [found |-> <<>>, next |-> Len(t) + 1]
  ELSE LET s == Smallest(inked)
           e == Smallest({k \in (s + 1)..(Len(t) + 1) :
                            k > Len(t) \/ BlankLineAt(t, k)})
           text == Strip(SubSeq(t, s, e - 1))
       IN [found |-> <<[text |-> text, start |-> s - 1,
                        end |-> s - 1 + Len(text)]>>,
           next |-> e]

ParagraphUnits(t) == Scan(Len(t), [i \in DOMAIN t |-> ParagraphAt(t, i)])

\* _merge_headings_with_following_paragraphs
WithHeading(ps, i) ==
  IF ps[i].text[1].class = "hash" /\ i < Len(ps)
    THEN [found |-> <<[text |-> ps[i].text \o <<Break, Break>> \o ps[i + 1].text,
                       start |-> ps[i].start, end |-> ps[i + 1].end]>>,
          next |-> i + 2]
    ELSE [found |-> <<ps[i]>>, next |-> i + 1]

MergeHeadings(ps) == Scan(Len(ps), [i \in DOMAIN ps |-> WithHeading(ps, i)])

\* chunk_text: split("\n\n"), each piece stripped.
PieceAt(t, i) ==
  LET pairs == {k \in i..(Len(t) - 1) : /\ t[k].class = "break"
                                        /\ t[k + 1].class = "break"}
      text == Strip(SubSeq(t, i, IF pairs = {} THEN Len(t)
                                 ELSE Smallest(pairs) - 1))
  IN [found |-> IF text = <<>> THEN <<>>
                ELSE <<[text |-> text, start |-> 0, end |-> 0]>>,
      next |-> IF pairs = {} THEN Len(t) + 1 ELSE Smallest(pairs) + 2]

FlatParagraphs(t) == Scan(Len(t), [i \in DOMAIN t |-> PieceAt(t, i)])

-----------------------------------------------------------------------------
Running == level \in {"flat", "parent", "child"}

Size == IF level = "parent" THEN settings.parent ELSE settings.child

\* _split_blocks clamps the overlap, chunk_text does not.
Overlap == IF level = "flat" \/ settings.overlap < Size THEN settings.overlap
           ELSE Size - 1

\* The current parts with "\n\n" between them.
PartAt(ps, i) ==
  [found |-> IF i = Len(ps) THEN ps[i].text ELSE ps[i].text \o <<Break, Break>>,
   next |-> i + 1]

Joined(ps) == Scan(Len(ps), [i \in DOMAIN ps |-> PartAt(ps, i)])

\* Mutant of Flushed: the offsets are those in the parent.
Flushed_NoBase ==
  IF parts = <<>> THEN blocks
  ELSE Append(blocks, [text |-> Joined(parts),
                       start |-> Head(parts).start,
                       end |-> Last(parts).end])

Flushed ==
  IF parts = <<>> THEN blocks
  ELSE Append(blocks, [text |-> Joined(parts),
                       start |-> base + Head(parts).start,
                       end |-> base + Last(parts).end])

\* Mutant of PlaceUnit: the current parts are dropped before a large one.
PlaceUnit_NoFlush ==
  LET u == Head(units) IN
  /\ Running /\ cut = NoCut /\ units # <<>>
  /\ units' = Tail(units)
  /\ IF Len(u.text) > Size
       THEN /\ parts' = <<>> /\ UNCHANGED blocks
            /\ cut' = [text |-> u.text, start |-> u.start, cursor |-> 0]
       ELSE /\ UNCHANGED cut
            /\ IF parts # <<>> /\ Len(Joined(Append(parts, u))) > Size
                 THEN blocks' = Flushed /\ parts' = <<u>>
                 ELSE parts' = Append(parts, u) /\ UNCHANGED blocks
  /\ UNCHANGED <<content, settings, level, base, parents, waiting, children>>

\* Mutant of PlaceUnit: the breaks between the parts are not counted.
PlaceUnit_NoBreaks ==
  LET u == Head(units) IN
  /\ Running /\ cut = NoCut /\ units # <<>>
  /\ units' = Tail(units)
  /\ IF Len(u.text) > Size
       THEN /\ blocks' = Flushed /\ parts' = <<>>
            /\ cut' = [text |-> u.text, start |-> u.start, cursor |-> 0]
       ELSE /\ UNCHANGED cut
            /\ IF parts # <<>> /\ Len(Joined(parts)) + Len(u.text) > Size
                 THEN blocks' = Flushed /\ parts' = <<u>>
                 ELSE parts' = Append(parts, u) /\ UNCHANGED blocks
  /\ UNCHANGED <<content, settings, level, base, parents, waiting, children>>

\* The next paragraph: too large for a block, too large for the current one,
\* or one more part of it.
PlaceUnit ==
  LET u == Head(units) IN
  /\ Running /\ cut = NoCut /\ units # <<>>
  /\ units' = Tail(units)
  /\ IF Len(u.text) > Size
       THEN /\ blocks' = Flushed /\ parts' = <<>>
            /\ cut' = [text |-> u.text, start |-> u.start, cursor |-> 0]
       ELSE /\ UNCHANGED cut
            /\ IF parts # <<>> /\ Len(Joined(Append(parts, u))) > Size
                 THEN blocks' = Flushed /\ parts' = <<u>>
                 ELSE parts' = Append(parts, u) /\ UNCHANGED blocks
  /\ UNCHANGED <<content, settings, level, base, parents, waiting, children>>

\* Where the piece at the cursor ends: at the last space of its second half,
\* where _split_oversized_unit finds one; _split_large_block does not look.
PieceEnd(t, cursor) ==
  LET end == IF cursor + Size < Len(t) THEN cursor + Size ELSE Len(t)
      half == IF Size \div 2 > 1 THEN Size \div 2 ELSE 1
      spaces == {b \in (cursor + half)..(end - 1) : t[b + 1].class = "space"}
  IN IF level = "flat" \/ end = Len(t) \/ spaces = {} THEN end
     ELSE Largest(spaces)

\* Mutant of NextCursor: nothing makes the cursor move on.
NextCursor_OverlapOnly(cursor, end) == end - Overlap

NextCursor(cursor, end) ==
  IF end - Overlap > cursor + 1 THEN end - Overlap ELSE cursor + 1

\* The next piece of a paragraph that is cut by size; a piece of blanks is
\* left out.
CutPiece ==
  LET end == PieceEnd(cut.text, cut.cursor)
      raw == SubSeq(cut.text, cut.cursor + 1, end)
      piece == [text |-> Strip(raw),
                start |-> base + cut.start + cut.cursor + Leading(raw),
                end |-> base + cut.start + end - Trailing(raw)]
  IN /\ cut # NoCut
     /\ blocks' = IF piece.text = <<>> THEN blocks ELSE Append(blocks, piece)
     /\ cut' = IF end >= Len(cut.text) THEN NoCut
               ELSE [cut EXCEPT !.cursor = NextCursor(@, end)]
     /\ UNCHANGED <<content, settings, level, base, units, parts, parents,
                    waiting, children>>

\* The call returns.  The parent blocks are split one after the other.
FinishSplit ==
  LET todo == IF level = "parent" THEN Flushed ELSE waiting IN
  /\ Running /\ cut = NoCut /\ units = <<>>
  /\ parts' = <<>> /\ blocks' = <<>>
  /\ IF level = "parent" THEN parents' = Flushed /\ UNCHANGED children
                         ELSE children' = children \o Flushed /\ UNCHANGED parents
  /\ IF todo = <<>>
       THEN /\ level' = "done"
            /\ UNCHANGED <<base, units, waiting>>
       ELSE /\ level' = "child"
            /\ base' = Head(todo).start
            /\ units' = MergeHeadings(ParagraphUnits(Head(todo).text))
            /\ waiting' = Tail(todo)
  /\ UNCHANGED <<content, settings, cut>>

-----------------------------------------------------------------------------
SplitTypeOK ==
  /\ content \in Text
  /\ settings \in Settings
  /\ level \in {"new", "flat", "parent", "child", "done"}
  /\ base \in Nat
  /\ units \in Seq(Block) /\ parts \in Seq(Block)
  /\ cut \in [text : Text, start : Nat, cursor : Nat]
  /\ blocks \in Seq(Block) /\ parents \in Seq(Block)
  /\ waiting \in Seq(Block) /\ children \in Seq(Block)

Documents ==
  UNION {{[i \in 1..n |-> [class |-> f[i], at |-> i]] :
            f \in [1..n -> CharClass]} : n \in 0..MaxLength}

SplitInit ==
  /\ content = <<>> /\ settings \in Settings /\ level = "new" /\ base = 0
  /\ units = <<>> /\ parts = <<>> /\ cut = NoCut /\ blocks = <<>>
  /\ parents = <<>> /\ waiting = <<>> /\ children = <<>>

\* A document is to be cut, in flat mode or into parents and children.
Begin(text, mode) ==
  /\ level' = mode /\ content' = text
  /\ units' = IF mode = "flat" THEN FlatParagraphs(Strip(text))
                               ELSE MergeHeadings(ParagraphUnits(text))
  /\ UNCHANGED <<settings, base, parts, cut, blocks, parents, waiting, children>>

SplitNext ==
  \/ /\ level = "new"
     /\ \E text \in Documents, mode \in {"flat", "parent"} : Begin(text, mode)
  \/ PlaceUnit \/ CutPiece \/ FinishSplit

SplitSpec == SplitInit /\ [][SplitNext]_splitVars

-----------------------------------------------------------------------------
Ink == {content[i].at : i \in Inked(content)}
InkOf(b) == {b.text[i].at : i \in Inked(b.text)}
Held(bs) == UNION {InkOf(bs[i]) : i \in DOMAIN bs}

\* No word of a document is lost on its way into the chunks, in either mode:
\* not where a paragraph is larger than a block, not where a heading moves
\* to the next paragraph, and not between two levels.  Without an overlap no
\* word is in two blocks of one level.
NothingLost ==
  /\ Held(children) = Ink
  /\ parents # <<>> => Held(parents) = Ink
NothingTwice ==
  \A bs \in {parents, children} : \A i, j \in DOMAIN bs :
    i # j => InkOf(bs[i]) \cap InkOf(bs[j]) = {}

WordsOnceOver ==
  level = "done" => NothingLost /\ (settings.overlap = 0 => NothingTwice)

\* No block exceeds the size it was to have, counting the breaks that join
\* its paragraphs.
WithinSize ==
  /\ \A i \in DOMAIN children : Len(children[i].text) <= settings.child
  /\ \A i \in DOMAIN parents : Len(parents[i].text) <= settings.parent

\* Where paragraphs are two characters apart, the offsets of parents and
\* children say where in the document their text stands.
OneBlankLine ==
  LET ps == ParagraphUnits(content) IN
  \A i \in 1..(Len(ps) - 1) : ps[i + 1].start = ps[i].end + 2

OffsetsExact ==
  OneBlankLine =>
    \A bs \in {parents, IF parents = <<>> THEN <<>> ELSE children} :
      \A i \in DOMAIN bs : LET b == bs[i] IN
        /\ b.start = Head(b.text).at - 1
        /\ b.end = Last(b.text).at

\* Every document is cut in finitely many iterations, whatever the overlap:
\* each one leaves fewer levels, or the same level with fewer parent blocks
\* to split, or the same call with fewer paragraphs to place, or the same
\* paragraph with less of it to cut.
LevelsLeft ==
  CASE level = "new" -> 3
    [] level = "parent" -> 2
    [] level \in {"flat", "child"} -> 1
    [] OTHER -> 0
Uncut == Len(cut.text) - cut.cursor

SplitEnds ==
  [][\/ LevelsLeft' < LevelsLeft
     \/ LevelsLeft' = LevelsLeft /\ Len(waiting') < Len(waiting)
     \/ /\ LevelsLeft' = LevelsLeft /\ waiting' = waiting
        /\ Len(units') < Len(units)
     \/ /\ LevelsLeft' = LevelsLeft /\ waiting' = waiting /\ units' = units
        /\ Uncut' \in Nat /\ Uncut' < Uncut]_splitVars
=============================================================================
