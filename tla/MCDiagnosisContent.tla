-------------------------- MODULE MCDiagnosisContent --------------------------
(***************************************************************************)
(* DiagnosisContent for TLC: an empty file, one with a repeated line, one  *)
(* that ends in a pin without a newline, and one whose pins are far enough *)
(* apart for two hunks; hunks of one or two lines at every place of the    *)
(* shorter ones and beyond their end, that may break off.                  *)
(***************************************************************************)
EXTENDS DiagnosisContent

Line(text) == [text |-> text, end |-> "lf"]
OpenLine(text) == [text |-> text, end |-> "none"]

MCLines == {"old", "new"}

LongFile ==
    <<Line("old")>> \o [i \in 1 .. 5 |-> [text |-> "new", end |-> "crlf"]]
    \o <<Line("old"), OpenLine("new")>>

MCFiles ==
    {<<>>, <<Line("old"), Line("new"), Line("old")>>, <<Line("new"), OpenLine("old")>>, LongFile}

MCMarked == {[mark |-> m, raw |-> Line(t)] : m \in {" ", "-", "+"}, t \in MCLines}
MCBroken == {[mark |-> m, raw |-> OpenLine(t)] : m \in {" ", "-", "+"}, t \in MCLines}

MCBodies ==
    {<<l>> : l \in MCMarked \cup MCBroken}
    \cup {<<k, l>> \in MCMarked \X MCMarked : k.mark # l.mark \/ k.mark = "-"}
    \cup {<<k, l>> \in MCMarked \X MCBroken : k.mark = "-" /\ l.mark = "+"}
MCStarts == 0 .. 3
=============================================================================
