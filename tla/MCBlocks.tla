------------------------------ MODULE MCBlocks ------------------------------
EXTENDS Blocks

\* Stored bodies: as the editor writes them, and as an agent or an import may.
MCBodies == {
    << <<"#", "a">>, <<"sp">>, <<"- [ ]", "b">> >>,
    << <<"- [x]", "a">>, <<>>, <<"- [ ]">>, <<"b">> >>,
    << <<"*", "a", "*">> >> }

\* A deletion, Enter, a mark, and a paste that holds a box.
MCInserts == {Empty, << <<>>, <<>> >>, << <<"[]">> >>, << <<"- [x]">> >>,
              << <<"sp">>, <<"- [ ]", "a">>, <<>> >>}

\* The inline marks of every line of up to seven words and stars, in any order: no
\* token is lost or moved on the surface that shows them, and where they are hidden
\* only stars go.
Lines == UNION {[1..n -> {"a", "*"}] : n \in 0..7}
ASSUME InlineIsLossless ==
    \A line \in Lines : /\ InlineHtml(line) = line
                        /\ LET words(l) == SelectSeq(l, LAMBDA t : t # "*")
                           IN words(InlineText(line)) = words(line)
=============================================================================
