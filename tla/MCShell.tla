------------------------------ MODULE MCShell ------------------------------
(***************************************************************************)
(* Instances of Shell for TLC: scripts of two lines.  A pipe holds one     *)
(* unit, so that two of them fill it.                                      *)
(***************************************************************************)
EXTENDS Shell

Command(opens, reads, writes) == [opens |-> opens, reads |-> reads, writes |-> writes]
Line(background, commands) == [valid |-> TRUE, background |-> background, commands |-> commands]

Source == Command(TRUE, FALSE, 1)
Flood == Command(TRUE, FALSE, 2)
Filter == Command(TRUE, TRUE, 1)
Sink == Command(TRUE, TRUE, 0)
Missing == Command(FALSE, FALSE, 1)

Lines == {Line(FALSE, <<Source>>), Line(TRUE, <<Source>>),
          Line(FALSE, <<Source, Filter, Sink>>), Line(FALSE, <<Flood, Sink>>),
          Line(FALSE, <<Missing, Sink>>), Line(TRUE, <<Source, Sink>>),
          [Line(FALSE, <<Source>>) EXCEPT !.valid = FALSE]}

Numbered(line, i) == [number |-> i, valid |-> line.valid, background |-> line.background,
                      commands |-> line.commands]

TwoLines == {<<Numbered(k, 1), Numbered(l, 2)>> : k, l \in Lines}
=============================================================================
