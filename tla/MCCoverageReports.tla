--------------------------- MODULE MCCoverageReports ---------------------------
(* CoverageReports with two paths, two suites and four contents, written as their *)
(* lines: a blank or a statement, or an `if', which has two branch points.        *)
EXTENDS CoverageReports

Lines == [absent |-> << >>, bare |-> <<"blank">>, old |-> <<"let", "if">>, new |-> <<"call", "if">>]
AllContents == DOMAIN Lines

At(line, text) ==
    CASE text = "blank" -> << >>
      [] text = "if" -> <<[line |-> line, branch |-> TRUE], [line |-> line, branch |-> TRUE]>>
      [] OTHER -> <<[line |-> line, branch |-> FALSE]>>

PointsOfLines == [c \in AllContents |->
    IF c = "absent" THEN << >> ELSE IF c = "bare" THEN At(1, "blank")
    ELSE At(1, Lines[c][1]) \o At(2, Lines[c][2])]

\* git diff of contents of the same length; a file that was not there is all added.
AddedLines == [c \in AllContents |-> [d \in AllContents |->
    {l \in DOMAIN Lines[d] : l \notin DOMAIN Lines[c] \/ Lines[c][l] # Lines[d][l]}]]

\* Both suites run through a part of the first script, one through the second.
SuiteRuns == <<<<{1, 2}, {1}>>, <<{1, 3}, {}>>>>

\* The second script is there, the first is new or gets its first points.
Branches == {<<"absent", "old">>, <<"bare", "old">>}

HalvesAndWhole == {<<1, 1>>, <<1, 2>>, <<2, 2>>}
=============================================================================
