------------------------------- MODULE Blocks -------------------------------
(***************************************************************************)
(* The editing surface of a note and the Markdown it is stored as: the     *)
(* blocks and what the keyboard does to them (BlockList, MarkdownArea),    *)
(* the body they are saved as and read back from (lib/markdown.ts), what   *)
(* the surface and the surfaces that are only read make of bold, italic    *)
(* and headings (lib/inline.ts, lib/highlight.ts, RichText), and the       *)
(* preview on the board's card (lib/preview.ts).                           *)
(*                                                                         *)
(* A text is a sequence of lines and a line a sequence of tokens: words,   *)
(* a space, a star, a heading mark (with the space that follows it), and   *)
(* the marks that make a line a box, "- [ ]" and "- [x]" (with theirs) and *)
(* the shorthand "[]".                                                     *)
(* A caret is the pair of a line and a number of tokens before it.         *)
(***************************************************************************)
EXTENDS Naturals, FiniteSetsExt, SequencesExt

CONSTANTS Words,     \* words of the text
          Bodies,    \* the bodies a note can have when it is opened
          Inserts,   \* what can be typed or pasted at once, texts
          Edits,     \* how many steps the member makes
          MaxSize    \* the longest note, in blocks, lines and tokens

ASSUME BlocksAssumption == Edits \in Nat /\ MaxSize \in Nat

VARIABLES blocks,   \* the blocks on the surface, in order
          focus,    \* where the last step put the caret, or Nowhere
          left      \* how many steps are left
vars == <<blocks, focus, left>>

Stored == {"- [ ]", "- [x]"}
Typed == Stored \cup {"[]"}
Tokens == Words \cup Typed \cup {"sp", "#", "*"}

Empty == << <<>> >>       \* the text ''
Blank(line) == \A k \in DOMAIN line : line[k] = "sp"
Starts(line, marks) == line # <<>> /\ line[1] \in marks

TextBlock(id, text) == [id |-> id, type |-> "text", checked |-> FALSE, text |-> text]
CheckBlock(id, checked, label) == [id |-> id, type |-> "check", checked |-> checked, text |-> <<label>>]

----------------------------------------------------------------------------
\* Texts.

Position(text) == {p \in (DOMAIN text) \X (0..MaxSize) : p[2] <= Len(text[p[1]])}
Start == <<1, 0>>
End(text) == <<Len(text), Len(Last(text))>>
AtOrAfter(p, q) == q[1] > p[1] \/ (q[1] = p[1] /\ q[2] >= p[2])

Before(text, p) == Append(SubSeq(text, 1, p[1] - 1), SubSeq(text[p[1]], 1, p[2]))
After(text, p) ==
    <<SubSeq(text[p[1]], p[2] + 1, Len(text[p[1]]))>> \o SubSeq(text, p[1] + 1, Len(text))

\* s + t, without a line break.
Joined(s, t) == Front(s) \o <<Last(s) \o Head(t)>> \o Tail(t)

\* Without the blank lines at one end, at both.
DropStart(lines) ==
    LET kept == {k \in DOMAIN lines : ~Blank(lines[k])}
    IN IF kept = {} THEN <<>> ELSE SubSeq(lines, CHOOSE k \in kept : \A j \in kept : k <= j, Len(lines))
DropEnd(lines) == Reverse(DropStart(Reverse(lines)))
Trimmed(lines) == DropEnd(DropStart(lines))
TrimmedLine(line) ==
    LET ink == {k \in DOMAIN line : line[k] # "sp"}
    IN IF ink = {} THEN <<>> ELSE SubSeq(line, CHOOSE k \in ink : \A j \in ink : k <= j,
                                               CHOOSE k \in ink : \A j \in ink : j <= k)
AsText(lines) == IF lines = <<>> THEN Empty ELSE lines

----------------------------------------------------------------------------
\* Bold, italic and headings.

\* Where n stars open in line, and where the n that close them end, with a text
\* that is not empty and has no star between them.
Runs(line, n) ==
    {m \in (DOMAIN line) \X (DOMAIN line) :
       /\ m[2] - m[1] >= 2 * n
       /\ \A k \in m[1]..m[2] : line[k] = "*" <=> (k < m[1] + n \/ k > m[2] - n)}

\* The line cut at its runs of n stars, the leftmost first.
Cut(line, n) ==
    LET piece(run, s) == << [run |-> run, text |-> s] >>
        from[k \in 1..(Len(line) + 1)] ==
          LET found == {m \in Runs(line, n) : m[1] >= k}
              m == CHOOSE x \in found : \A y \in found : x[1] <= y[1]
          IN IF found = {} THEN piece(FALSE, SubSeq(line, k, Len(line)))
             ELSE piece(FALSE, SubSeq(line, k, m[1] - 1))
                    \o piece(TRUE, SubSeq(line, m[1] + n, m[2] - n)) \o from[m[2] + 1]
    IN from[1]

\* Bold first, then italic in what is left.
ParseInline(line) ==
    LET segment(kind, s) == [kind |-> kind, text |-> s]
        thin(s) == LET cut == Cut(s, 1)
                   IN [k \in DOMAIN cut |->
                         segment(IF cut[k].run THEN "italic" ELSE "plain", cut[k].text)]
        wide == Cut(line, 2)
        all == FlattenSeq([k \in DOMAIN wide |->
                 IF wide[k].run THEN << segment("bold", wide[k].text) >> ELSE thin(wide[k].text)])
    IN SelectSeq(all, LAMBDA s : s.text # <<>>)
ParseHeading(line) == Starts(line, {"#"})

\* Where a note is written the marks are shown, dimmed; where it is read they are not.
InlineHtml(line) ==
    LET mark(s) == CASE s.kind = "bold" -> <<"*", "*">> [] s.kind = "italic" -> <<"*">> [] OTHER -> <<>>
        shown == ParseInline(line)
    IN FlattenSeq([k \in DOMAIN shown |-> mark(shown[k]) \o shown[k].text \o mark(shown[k])])
HighlightMarkdown(text) ==
    [k \in DOMAIN text |-> IF ParseHeading(text[k]) THEN <<"#">> \o InlineHtml(Tail(text[k]))
                                                    ELSE InlineHtml(text[k])]
InlineText(line) == LET shown == ParseInline(line)
                    IN FlattenSeq([k \in DOMAIN shown |-> shown[k].text])
RichBlockText(text) ==
    [k \in DOMAIN text |-> InlineText(IF ParseHeading(text[k]) THEN Tail(text[k]) ELSE text[k])]

----------------------------------------------------------------------------
\* The stored body.

Mark(block) == IF block.checked THEN "- [x]" ELSE "- [ ]"

\* Mutant: no blank line between a paragraph and the box that follows it.
SerializeTight(bs) ==
    LET step(acc, b) ==
          CASE b.type = "check" ->
                 [lines |-> Append(acc.lines, <<Mark(b)>> \o b.text[1]), prev |-> "check"]
            [] b.type = "text" /\ (\A k \in DOMAIN b.text : Blank(b.text[k])) ->
                 [acc EXCEPT !.lines = @ \o b.text]
            [] OTHER ->
                 [lines |-> acc.lines \o (IF acc.prev # "none" THEN Empty ELSE <<>>) \o b.text,
                  prev |-> "text"]
    IN AsText(Trimmed(FoldLeft(step, [lines |-> <<>>, prev |-> "none"], bs).lines))

\* A blank line between a paragraph and what is beside it; lines that are all
\* blank are their own separation.  Nothing blank at the edges of the body.
Serialize(bs) ==
    LET step(acc, b) ==
          CASE b.type = "check" ->
                 [lines |-> acc.lines \o (IF acc.prev = "text" THEN Empty ELSE <<>>)
                              \o << <<Mark(b)>> \o b.text[1] >>,
                  prev |-> "check"]
            [] b.type = "text" /\ (\A k \in DOMAIN b.text : Blank(b.text[k])) ->
                 [acc EXCEPT !.lines = @ \o b.text]
            [] OTHER ->
                 [lines |-> acc.lines \o (IF acc.prev # "none" THEN Empty ELSE <<>>) \o b.text,
                  prev |-> "text"]
    IN AsText(Trimmed(FoldLeft(step, [lines |-> <<>>, prev |-> "none"], bs).lines))

\* The lines since the last box become a paragraph, without the one separator on
\* a side where there is a box and without blank lines on a side where there is
\* none; blank lines alone are kept only between two boxes, emptied.
FlushRun(acc, beforeCheck) ==
    LET run == acc.run
        afterCheck == acc.blocks # <<>> /\ Last(acc.blocks).type = "check"
        first == IF ~afterCheck THEN DropStart(run)
                 ELSE IF Blank(Head(run)) THEN Tail(run) ELSE run
        lines == IF ~beforeCheck THEN DropEnd(first)
                 ELSE IF Blank(Last(first)) THEN Front(first) ELSE first
    IN IF \A k \in DOMAIN run : Blank(run[k])
       THEN IF run # <<>> /\ afterCheck /\ beforeCheck
            THEN Append(acc.blocks, TextBlock(0, [k \in DOMAIN run |-> <<>>]))
            ELSE acc.blocks
       ELSE Append(acc.blocks, TextBlock(0, lines))

Parse(body) ==
    LET step(acc, line) ==
          IF Starts(line, Stored)
          THEN [blocks |-> Append(FlushRun(acc, TRUE), CheckBlock(0, line[1] = "- [x]", Tail(line))),
                run |-> <<>>]
          ELSE [acc EXCEPT !.run = Append(@, line)]
    IN FlushRun(FoldLeft(step, [blocks |-> <<>>, run |-> <<>>], body), FALSE)

\* The card: boxes, headings, and paragraphs between blank lines, each line trimmed.
ParsePreview(body) ==
    LET flushed(acc) == IF acc.run = <<>> THEN acc.blocks ELSE Append(acc.blocks, TextBlock(0, acc.run))
        step(acc, line) ==
          CASE Starts(line, Stored) ->
                 [blocks |-> Append(flushed(acc), CheckBlock(0, line[1] = "- [x]", Tail(line))),
                  run |-> <<>>]
            [] ParseHeading(line) ->
                 [blocks |-> Append(flushed(acc), TextBlock(0, <<Tail(line)>>)), run |-> <<>>]
            [] Blank(line) -> [blocks |-> flushed(acc), run |-> <<>>]
            [] OTHER -> [acc EXCEPT !.run = Append(@, TrimmedLine(line))]
    IN flushed(FoldLeft(step, [blocks |-> <<>>, run |-> <<>>], body))

\* What is read, a label as it is: in a version and in an editor another member holds,
\* line by line, and on the card, where a paragraph is one text with line breaks.
Read(bs) ==
    FlattenSeq([k \in DOMAIN bs |-> IF bs[k].type = "check" THEN <<Mark(bs[k])>> \o bs[k].text[1]
                                     ELSE FlattenSeq(RichBlockText(bs[k].text))])
VersionPreview(body) == Read(Parse(body))
NoteCard(body) ==
    LET shown == ParsePreview(body)
        joined(lines) == FlattenSeq([j \in DOMAIN lines |-> IF j = 1 THEN lines[j] ELSE <<"sp">> \o lines[j]])
    IN FlattenSeq([k \in DOMAIN shown |-> IF shown[k].type = "check" THEN <<Mark(shown[k])>> \o shown[k].text[1]
                                           ELSE InlineText(joined(shown[k].text))])

----------------------------------------------------------------------------
\* The surface.

Ids(bs) == {bs[k].id : k \in DOMAIN bs}

\* blockId(): the n-th id of a step, new on the surface.  Ids no block has any more
\* are given again, to keep them few.
NewId(n) ==
    LET free == (1..(2 * MaxSize)) \ Ids(blocks)
    IN CHOOSE k \in free : Cardinality({j \in free : j < k}) = n - 1

DraftOf(body) ==
    LET parsed == Parse(body)
    IN IF parsed = <<>> THEN <<TextBlock(1, Empty)>>
       ELSE [k \in DOMAIN parsed |-> [parsed[k] EXCEPT !.id = k]]

Nowhere == [id |-> 0, at |-> Start]
Caret(id, p) == [id |-> id, at |-> p]

Kept(bs) == IF bs = <<>> THEN <<TextBlock(NewId(1), Empty)>> ELSE bs

\* splice(index, remove, ...pieces)
Splice(i, remove, pieces) ==
    Kept(SubSeq(blocks, 1, i - 1) \o pieces \o SubSeq(blocks, i + remove, Len(blocks)))

Size(bs) == FoldLeft(LAMBDA n, b : n + 1 + Len(b.text) + Len(FlattenSeq(b.text)), 0, bs)

\* Every step of the member: the blocks after it, and where the caret goes.
Step(bs, caret) ==
    /\ left > 0 /\ left' = left - 1
    /\ Size(bs) <= MaxSize
    /\ blocks' = bs
    /\ focus' = caret

IsText(i) == i \in DOMAIN blocks /\ blocks[i].type = "text"
IsCheck(i) == i \in DOMAIN blocks /\ blocks[i].type = "check"
Id(i) == blocks[i].id
Text(i) == blocks[i].text
Label(i) == blocks[i].text[1]
WithText(i, text) == [blocks[i] EXCEPT !.text = text]

----------------------------------------------------------------------------
\* Typing.

\* explodeChecks(): every line that starts with a typed mark is a box; what is
\* between two boxes is a paragraph, without its blank lines at the edges.
Explode(text) ==
    LET flushed(acc) == IF Trimmed(acc.run) = <<>> THEN acc.pieces
                        ELSE Append(acc.pieces, TextBlock(0, Trimmed(acc.run)))
        label(line) == IF line[1] = "[]" /\ Starts(Tail(line), {"sp"})
                       THEN Tail(Tail(line)) ELSE Tail(line)
        step(acc, line) ==
          IF Starts(line, Typed)
          THEN [pieces |-> Append(flushed(acc), CheckBlock(0, line[1] = "- [x]", label(line))),
                run |-> <<>>]
          ELSE [acc EXCEPT !.run = Append(@, line)]
    IN flushed(FoldLeft(step, [pieces |-> <<>>, run |-> <<>>], text))

\* The leading paragraph keeps the id of the block, the others are new.
Named(pieces, id) ==
    [k \in DOMAIN pieces |->
       [pieces[k] EXCEPT !.id = IF k = 1 /\ pieces[1].type = "text" THEN id ELSE NewId(k)]]

Typing(text, p, ins) ==     \* the caret after ins is put at p
    LET done == Joined(Before(text, p), ins) IN End(done)

\* changeText(): the caret goes to the last box the text makes.
Edit(i, p, q, ins) ==
    /\ IsText(i)
    /\ p # q \/ ins # Empty
    /\ LET text == Joined(Joined(Before(Text(i), p), ins), After(Text(i), q))
           pieces == Named(Explode(text), Id(i))
           boxes == SelectSeq(pieces, LAMBDA b : b.type = "check")
       IN IF \A k \in DOMAIN text : ~Starts(text[k], Typed)
          THEN Step([blocks EXCEPT ![i] = WithText(i, text)], Caret(Id(i), Typing(Text(i), p, ins)))
          ELSE Step(Splice(i, 1, pieces), Caret(Last(boxes).id, End(Last(boxes).text)))

EditLabel(i, p, q, ins) ==
    /\ IsCheck(i) /\ Len(ins) = 1
    /\ p # q \/ ins # Empty
    /\ Step([blocks EXCEPT ![i] = WithText(i, Joined(Joined(Before(Text(i), p), ins), After(Text(i), q)))],
            Caret(Id(i), Typing(Text(i), p, ins)))

Tick(i) ==
    /\ IsCheck(i)
    /\ Step([blocks EXCEPT ![i].checked = ~@], Nowhere)

----------------------------------------------------------------------------
\* New boxes.

InsertCheckAt(i) == Step(Splice(i, 0, <<CheckBlock(NewId(1), FALSE, <<>>)>>), Caret(NewId(1), Start))

\* The insert button, with the caret at p of block i, or in no block.
InsertCheckNowhere == InsertCheckAt(Len(blocks) + 1)
InsertCheck(i, p) ==
    \/ IsCheck(i) /\ InsertCheckAt(i + 1)
    \/ /\ IsText(i)
       /\ LET NotEmpty(k, text) == text[k] # <<>>
              above == Before(Text(i), p)
              below == After(Text(i), p)
              inkAbove == {k \in DOMAIN above : NotEmpty(k, above)}
              inkBelow == {k \in DOMAIN below : NotEmpty(k, below)}
              before == SubSeq(above, 1, Max({0} \cup inkAbove))
              after == SubSeq(below, Min({Len(below) + 1} \cup inkBelow), Len(below))
          IN Step(Splice(i, 1, (IF before = <<>> THEN <<>> ELSE <<WithText(i, before)>>)
                                 \o <<CheckBlock(NewId(1), FALSE, <<>>)>>
                                 \o (IF after = <<>> THEN <<>> ELSE <<TextBlock(NewId(2), after)>>)),
                  Caret(NewId(1), Start))

\* Enter in a label, with p..q selected.
EnterInLabel(i, p, q) ==
    /\ IsCheck(i)
    /\ \/ /\ Label(i) = <<>>
          /\ Step([blocks EXCEPT ![i] = TextBlock(NewId(1), Empty)], Caret(NewId(1), Start))
       \/ /\ Label(i) # <<>> /\ p = End(Text(i)) /\ q = p
          /\ InsertCheckAt(i + 1)
       \/ /\ Label(i) # <<>> /\ ~(p = End(Text(i)) /\ q = p)
          /\ Step(Splice(i, 1, <<WithText(i, Before(Text(i), p)),
                                 CheckBlock(NewId(1), FALSE, After(Text(i), q)[1])>>),
                  Caret(NewId(1), Start))

----------------------------------------------------------------------------
\* Backspace at the start of a block, Delete at its end.

\* Mutant: the caret is asked for in the box that goes.
RemoveBlockStaying(i) == Step(Splice(i, 1, <<>>), Caret(Id(i), Start))

RemoveBlock(i) ==
    Step(Splice(i, 1, <<>>), IF i = 1 THEN Nowhere ELSE Caret(Id(i - 1), End(Text(i - 1))))

\* Mutant: the rest of the paragraph goes with its first line.
AbsorbFirst(c, t) == <<WithText(c, <<Label(c) \o Text(t)[1]>>)>>

\* A label takes the first line of a paragraph; blank lines after it go, and the
\* paragraph with them if nothing else is in it.
Absorb(c, t) ==
    LET rest == DropStart(Tail(Text(t)))
    IN <<WithText(c, <<Label(c) \o Text(t)[1]>>)>> \o (IF rest = <<>> THEN <<>> ELSE <<WithText(t, rest)>>)

MergeTextBack(i) ==
    /\ IsText(i) /\ i > 1
    /\ \/ Text(i) = Empty /\ RemoveBlock(i)
       \/ /\ Text(i) # Empty /\ IsText(i - 1) /\ Text(i - 1) = Empty
          /\ Step(Splice(i - 1, 1, <<>>), Caret(Id(i), Start))
       \/ /\ Text(i) # Empty /\ IsText(i - 1) /\ Text(i - 1) # Empty
          /\ Step(Splice(i - 1, 2, <<WithText(i - 1, Text(i - 1) \o Text(i))>>),
                  Caret(Id(i - 1), <<Len(Text(i - 1)) + 1, 0>>))
       \/ /\ Text(i) # Empty /\ IsCheck(i - 1)
          /\ Step(Splice(i - 1, 2, Absorb(i - 1, i)), Caret(Id(i - 1), End(Text(i - 1))))

MergeTextForward(i) ==
    /\ IsText(i) /\ i < Len(blocks)
    /\ Step(Splice(i, 2, <<WithText(i, IF IsCheck(i + 1) THEN Joined(Text(i), Text(i + 1))
                                       ELSE IF Text(i) = Empty THEN Text(i + 1)
                                       ELSE Text(i) \o Text(i + 1))>>),
            Caret(Id(i), End(Text(i))))

MergeLabelBack(i) ==
    /\ IsCheck(i)
    /\ \/ Label(i) = <<>> /\ RemoveBlock(i)
       \/ /\ Label(i) # <<>> /\ i = 1
          /\ Step(Splice(1, 1, <<TextBlock(NewId(1), Text(i))>>), Caret(NewId(1), Start))
       \/ /\ Label(i) # <<>> /\ IsCheck(i - 1)
          /\ Step(Splice(i - 1, 2, <<WithText(i - 1, <<Label(i - 1) \o Label(i)>>)>>),
                  Caret(Id(i - 1), End(Text(i - 1))))
       \/ /\ Label(i) # <<>> /\ IsText(i - 1)
          /\ Step(Splice(i - 1, 2, <<WithText(i - 1, IF Text(i - 1) = Empty THEN Text(i)
                                                     ELSE Text(i - 1) \o Text(i))>>),
                  Caret(Id(i - 1), IF Text(i - 1) = Empty THEN Start ELSE <<Len(Text(i - 1)) + 1, 0>>))

MergeLabelForward(i) ==
    /\ IsCheck(i) /\ i < Len(blocks)
    /\ Step(Splice(i, 2, IF IsCheck(i + 1) THEN <<WithText(i, <<Label(i) \o Label(i + 1)>>)>>
                         ELSE Absorb(i, i + 1)),
            Caret(Id(i), End(Text(i))))

----------------------------------------------------------------------------
\* Boxes done with, the arrows, and a note opened again.

ClearChecked ==
    /\ \E i \in DOMAIN blocks : blocks[i].checked
    /\ Step(Kept(SelectSeq(blocks, LAMBDA b : ~b.checked)), Nowhere)

\* From p of block i, at an edge of it: to the end or the start of the neighbour, or
\* to the same column of the line of it that is next.
NavigateFrom(i, p, dir) ==
    LET to == IF dir \in {"up", "left"} THEN i - 1 ELSE i + 1
        line == IF dir = "up" THEN Len(Text(to)) ELSE 1
    IN /\ to \in DOMAIN blocks
       /\ CASE dir = "left" -> p = Start
            [] dir = "right" -> p = End(Text(i))
            [] dir = "up" -> p[1] = 1
            [] dir = "down" -> p[1] = Len(Text(i))
       /\ Step(blocks, Caret(Id(to), CASE dir = "left" -> End(Text(to))
                                       [] dir = "right" -> Start
                                       [] OTHER -> <<line, Min({p[2], Len(Text(to)[line])})>>))

Body == Serialize(blocks)
Reopen == Step(DraftOf(Body), Nowhere)

----------------------------------------------------------------------------
Init ==
    /\ blocks \in {DraftOf(body) : body \in Bodies}
    /\ focus = Nowhere
    /\ left = Edits

\* A key or a button, with p..q selected in block i.
AtCaret(i, p, q) ==
    \/ \E ins \in Inserts : Edit(i, p, q, ins) \/ EditLabel(i, p, q, ins)
    \/ EnterInLabel(i, p, q)
    \/ p = q /\ InsertCheck(i, p)
    \/ p = q /\ \E dir \in {"up", "down", "left", "right"} : NavigateFrom(i, p, dir)
    \/ p = q /\ p = Start /\ (MergeTextBack(i) \/ MergeLabelBack(i))
    \/ p = q /\ p = End(Text(i)) /\ (MergeTextForward(i) \/ MergeLabelForward(i))

Next ==
    \/ \E i \in DOMAIN blocks : \E p, q \in Position(Text(i)) : AtOrAfter(p, q) /\ AtCaret(i, p, q)
    \/ \E i \in DOMAIN blocks : Tick(i)
    \/ InsertCheckNowhere
    \/ ClearChecked
    \/ Reopen

Spec == Init /\ [][Next]_vars

----------------------------------------------------------------------------
\* The surface: never empty, its ids distinct, and the caret never asked for in a
\* block that is not there or past the end of one.
TypeOK ==
    /\ left \in 0..Edits
    /\ blocks # <<>>
    /\ Cardinality(Ids(blocks)) = Len(blocks)
    /\ \A i \in DOMAIN blocks :
         /\ Id(i) \in 1..(2 * MaxSize) /\ blocks[i].checked \in BOOLEAN
         /\ Text(i) # <<>> /\ \A k \in DOMAIN Text(i) : Text(i)[k] \in Seq(Tokens)
         /\ IsCheck(i) => Len(Text(i)) = 1
    /\ focus # Nowhere => \E i \in DOMAIN blocks : Id(i) = focus.id /\ focus.at \in Position(Text(i))

\* What can be read in blocks, in order: the boxes, and the lines that are not blank.
Readable(bs) ==
    LET line(b, k) == [type |-> b.type, checked |-> b.checked,
                       text |-> SelectSeq(b.text[k], LAMBDA t : t \notin {"sp", "#"})]
        lines(b) == [k \in DOMAIN b.text |-> line(b, k)]
        all == FlattenSeq([k \in DOMAIN bs |-> lines(bs[k])])
    IN SelectSeq(all, LAMBDA l : l.type = "check" \/ l.text # <<>>)

\* A paragraph one line of which is a box once it is stored.
Disguised(b) == b.type = "text" /\ \E k \in DOMAIN b.text : Starts(b.text[k], Stored)
NoDisguise == \A i \in DOMAIN blocks : ~Disguised(blocks[i])

\* A star of a paragraph that opens nothing on its line: on the card, where the lines
\* are one text, it can open a run that closes on a later one.
LooseStar(b) ==
    b.type = "text" /\ \E k \in DOMAIN b.text : \E j \in DOMAIN InlineText(b.text[k]) :
                        InlineText(b.text[k])[j] = "*"
NoLooseStar == \A i \in DOMAIN blocks : ~LooseStar(blocks[i])
NotSpaces(line) == SelectSeq(line, LAMBDA t : t # "sp")

\* The formatted note looks the same on the card, in a version and where it is only
\* read.  The code's own comment says so of every note; a loose star refutes it.
LooksTheSame ==
    NoDisguise => /\ NotSpaces(VersionPreview(Body)) = NotSpaces(Read(blocks))
                  /\ NotSpaces(NoteCard(Body)) = NotSpaces(Read(blocks))

\* What is stored is what was on the screen: whatever the member did, the note opened
\* again, and the card of the board, have its boxes and its lines in their order,
\* and storing the note again changes nothing but the spaces of a blank line.  Only a
\* line of a paragraph that reads as a stored box, which no conversion saw because it
\* came from a label or from the insert button, becomes one.  The coloured surface is
\* the text to the token (the next key is read off it), and the surfaces that hide
\* the marks all show the same words, loose stars aside.
StoredAsShown ==
    LET even(body) == [k \in DOMAIN body |-> IF Blank(body[k]) THEN <<>> ELSE body[k]]
    IN /\ \A i \in DOMAIN blocks : IsText(i) => HighlightMarkdown(Text(i)) = Text(i)
       /\ NoDisguise => /\ Readable(Parse(Body)) = Readable(blocks)
                        /\ Readable(ParsePreview(Body)) = Readable(blocks)
                        /\ even(Serialize(DraftOf(Body))) = even(Body)
       /\ NoLooseStar => LooksTheSame

\* Everything but spaces, up to the caret c; and in the whole note.
Ink(text) == SelectSeq(FlattenSeq(text), LAMBDA t : t # "sp")
InkOf(bs) == FlattenSeq([k \in DOMAIN bs |-> Ink(bs[k].text)])
InkBefore(bs, c) ==
    LET i == CHOOSE k \in DOMAIN bs : bs[k].id = c.id
    IN InkOf(SubSeq(bs, 1, i - 1)) \o Ink(Before(bs[i].text, c.at))

\* A key that joins or splits blocks at p of block i.
JoinsOrSplits(i, p) ==
    \/ p = Start /\ (MergeTextBack(i) \/ MergeLabelBack(i))
    \/ p = End(Text(i)) /\ (MergeTextForward(i) \/ MergeLabelForward(i))
    \/ EnterInLabel(i, p, p)
    \/ IsText(i) /\ InsertCheck(i, p)

\* Joining and splitting blocks moves no text: the note keeps all of it in its order,
\* and the caret stays between the same two words (or, when the first box of the
\* note is removed, is put nowhere).
TextStaysPut ==
    [][\A i \in DOMAIN blocks : \A p \in Position(Text(i)) :
         JoinsOrSplits(i, p) =>
           /\ InkOf(blocks') = InkOf(blocks)
           /\ focus' = Nowhere \/ InkBefore(blocks', focus') = InkBefore(blocks, Caret(Id(i), p))]_vars
=============================================================================
