-------------------------- MODULE PatchVerification --------------------------
(***************************************************************************)
(* The verification of one suggested diff against the file it is for       *)
(* (patching.py: _patch_rejection, _parse_hunks, _locate_hunk and the loop *)
(* of apply_unified_diff, one action per hunk).  Positions count the lines *)
(* before a place, as the code's indices do.  A line is its contents and   *)
(* its end: lines are compared without their ends, but written with them,  *)
(* and what is checked for syntax is the text they make when joined.       *)
(***************************************************************************)
EXTENDS Integers, Sequences, SequencesExt, FiniteSets

CONSTANTS
    Lines,   \* contents of lines
    Files,   \* files at the head commit, as sequences of raw lines
    Bodies,  \* hunk bodies: sequences of raw lines marked " ", "-" or "+"
    Starts,  \* line numbers a hunk header may state
    Pinned,  \* the contents that pin the old version
    Bumped   \* and what they are to become

\* A line as splitlines(keepends=True) returns it.
Newlines == {"lf", "crlf"}
RawLines == [text : Lines, end : Newlines \cup {"none"}]
MarkedLines == [mark : {" ", "-", "+"}, raw : RawLines]

Open(l) == l.end = "none"

\* Only the last line of a text may lack its newline.
ASSUME PatchAssumption ==
    /\ Lines \cap Newlines = {}
    /\ Files \subseteq Seq(RawLines)
    /\ \A f \in Files : \A i \in DOMAIN f : Open(f[i]) => i = Len(f)
    /\ Bodies \subseteq Seq(MarkedLines)
    /\ \A b \in Bodies : \A i \in DOMAIN b : Open(b[i].raw) => i = Len(b)
    /\ Starts \subseteq Nat
    /\ {Pinned, Bumped} \subseteq Lines

VARIABLES
    file,     \* the head file of the diff at hand
    diff,     \* its hunks
    applied,  \* how many hunks have been applied
    cursor,   \* lines of the file that have been consumed
    result,   \* lines written so far
    updated,  \* the text that is checked for syntax
    verdict   \* "none", "checking", "verified", "rejected", "objected"

patchVars == <<file, diff, applied, cursor, result, updated, verdict>>

-----------------------------------------------------------------------------
(* Hunks                                                                   *)

Hunks == [start : Starts, body : Bodies]

\* Diffs of one or two hunks.  The code skips "\\ No newline" lines: a line
\* has no end only where the whole diff breaks off.
ModelDiffs ==
    LET whole == {h \in Hunks : \A i \in DOMAIN h.body : ~Open(h.body[i].raw)}
    IN {<<h>> : h \in Hunks} \cup {<<g, h>> : g \in whole, h \in Hunks}

\* The lines of a body, without those of one mark.
LinesWithout(mark, body) ==
    LET Raw[i \in 0 .. Len(body)] ==
            IF i = 0 THEN <<>>
            ELSE IF body[i].mark = mark THEN Raw[i - 1]
            ELSE Append(Raw[i - 1], body[i].raw)
    IN Raw[Len(body)]

\* old_lines and new_lines of _parse_hunks.
Old(h) == LinesWithout("+", h.body)
New(h) == LinesWithout("-", h.body)

\* Some line is added or removed.
Changes(d) == \E i \in DOMAIN d : \E j \in DOMAIN d[i].body : d[i].body[j].mark # " "

\* lines[a:b]
Slice(lines, a, b) == SubSeq(lines, a + 1, IF b < Len(lines) THEN b ELSE Len(lines))

\* _strip_newline of every line.
Texts(lines) == [i \in DOMAIN lines |-> lines[i].text]

\* matches(start): a window of no lines is found everywhere.
MatchesAt(lines, h, s) == Texts(Slice(lines, s, s + Len(Old(h)))) = Texts(Old(h))

\* Mutant: the header's number is taken for an index.
StatedOffByOne(h) == h.start

\* The index a header states.
Stated(h) == IF h.start = 0 THEN 0 ELSE h.start - 1

\* Where _locate_hunk puts h: the stated place, or else the only one that is
\* left; the empty set stands for PatchError.
LocateHunk(lines, h, from) ==
    LET candidates == {s \in from .. Len(lines) - Len(Old(h)) : MatchesAt(lines, h, s)}
    IN IF Stated(h) >= from /\ MatchesAt(lines, h, Stated(h)) THEN {Stated(h)}
       ELSE IF Cardinality(candidates) = 1 THEN candidates
       ELSE {}

\* "".join: a line without an end runs into the next one.
Join(lines) ==
    FlattenSeq([i \in DOMAIN lines |->
        IF Open(lines[i]) THEN <<lines[i].text>> ELSE <<lines[i].text, lines[i].end>>])

-----------------------------------------------------------------------------
(* The diffs of the rules (propose_version_patches, render_unified_diff)   *)

Context == 2

\* pattern.sub
BumpedLine(l) == IF l.text = Pinned THEN [l EXCEPT !.text = Bumped] ELSE l
BumpedFile(f) == [i \in DOMAIN f |-> BumpedLine(f[i])]

HasPin(f) == \E i \in DOMAIN f : f[i].text = Pinned

\* Lines that the diff shows.
Shown(f) ==
    {i \in DOMAIN f : \E p \in DOMAIN f :
        f[p].text = Pinned /\ p - Context <= i /\ i <= p + Context}

Marked(l) ==
    IF l.text = Pinned
    THEN <<[mark |-> "-", raw |-> l], [mark |-> "+", raw |-> BumpedLine(l)]>>
    ELSE <<[mark |-> " ", raw |-> l]>>

\* Line by line: a shown line opens a hunk or continues the one before it.
\* (difflib puts the removed lines of neighbouring pins before the added ones,
\* and where the file already has the new line it may pair the lines in
\* another way: the changed file is the same.)
RuleDiff(f) ==
    LET Rendered[i \in 0 .. Len(f)] ==
            IF i = 0 THEN <<>>
            ELSE IF i \notin Shown(f) THEN Rendered[i - 1]
            ELSE IF i - 1 \notin Shown(f)
            THEN Append(Rendered[i - 1], [start |-> i, body |-> Marked(f[i])])
            ELSE [Rendered[i - 1] EXCEPT ![Len(Rendered[i - 1])].body = @ \o Marked(f[i])]
    IN Rendered[Len(f)]

\* The last line is a pin without a newline.  "-old" and "+new" run together
\* in the diff, which then removes more lines than it adds: _policy_violation.
RunsTogether(f) == f # <<>> /\ Open(Last(f)) /\ Last(f).text = Pinned

-----------------------------------------------------------------------------
(* Actions                                                                 *)

NoPatch ==
    /\ file = <<>>
    /\ diff = <<>>
    /\ applied = 0
    /\ cursor = 0
    /\ result = <<>>
    /\ updated = <<>>
    /\ verdict = "none"

Clear ==
    /\ file' = <<>>
    /\ diff' = <<>>
    /\ applied' = 0
    /\ cursor' = 0
    /\ result' = <<>>
    /\ updated' = <<>>
    /\ verdict' = "none"

\* A rule diff may be refused at once, see RunsTogether.
Submit(f, d, judged) ==
    /\ file' = f
    /\ diff' = d
    /\ applied' = 0
    /\ cursor' = 0
    /\ result' = <<>>
    /\ updated' = <<>>
    /\ verdict' = judged

\* Mutant: the cursor moves by what was written.
ApplyHunkByNew ==
    /\ verdict = "checking"
    /\ Changes(diff)
    /\ applied < Len(diff)
    /\ LET h == diff[applied + 1] IN
        \E s \in LocateHunk(file, h, cursor) :
            /\ result' = result \o Slice(file, cursor, s) \o New(h)
            /\ cursor' = s + Len(New(h))
    /\ applied' = applied + 1
    /\ UNCHANGED <<file, diff, updated, verdict>>

\* One turn of the loop of apply_unified_diff.
ApplyHunk ==
    /\ verdict = "checking"
    /\ Changes(diff)
    /\ applied < Len(diff)
    /\ LET h == diff[applied + 1] IN
        \E s \in LocateHunk(file, h, cursor) :
            /\ result' = result \o Slice(file, cursor, s) \o New(h)
            /\ cursor' = s + Len(Old(h))
    /\ applied' = applied + 1
    /\ UNCHANGED <<file, diff, updated, verdict>>

\* The rest of the file follows the last hunk.
Verify ==
    /\ verdict = "checking"
    /\ Changes(diff)
    /\ applied = Len(diff)
    /\ result' = result \o Slice(file, cursor, Len(file))
    /\ updated' = Join(result')
    /\ verdict' = "verified"
    /\ UNCHANGED <<file, diff, applied, cursor>>

\* No changed line, or a hunk that has no place.
Reject ==
    /\ verdict = "checking"
    /\ ~Changes(diff) \/ (applied < Len(diff) /\ LocateHunk(file, diff[applied + 1], cursor) = {})
    /\ verdict' = "rejected"
    /\ UNCHANGED <<file, diff, applied, cursor, result, updated>>

\* The checks that look at text: size, headers, secrets, policy, syntax of the
\* outcome.  Text is not modelled, any diff may meet one of them.
Object ==
    /\ verdict = "checking"
    /\ applied \in {0, Len(diff)}
    /\ verdict' = "objected"
    /\ UNCHANGED <<file, diff, applied, cursor, result, updated>>

-----------------------------------------------------------------------------
(* What a diff means, from the last hunk to the first                      *)

\* h replaces its old lines at place s.
Splice(lines, h, s) ==
    Slice(lines, 0, s) \o New(h) \o Slice(lines, s + Len(Old(h)), Len(lines))

\* The hunks of d replace their lines: After[i] has those behind hunk i done.
SpliceAll(lines, d, at) ==
    LET After[i \in 0 .. Len(d)] ==
            IF i = Len(d) THEN lines
            ELSE Splice(After[i + 1], d[i + 1], at[i + 1])
    IN After[0]

\* The hunks of d fit into lines at these places, in order and apart.
Fits(lines, d, at) ==
    \A i \in DOMAIN d :
        /\ MatchesAt(lines, d[i], at[i])
        /\ i > 1 => at[i] >= at[i - 1] + Len(Old(d[i - 1]))

\* Two lines of a text have run into one.
Glued(text) == \E i \in 1 .. Len(text) - 1 : {text[i], text[i + 1]} \subseteq Lines

\* d at these places breaks off inside the file: its last line stays and has
\* no newline; or it adds lines behind a file that ends without one.
BreaksOff(lines, d, at) ==
    LET h == Last(d) IN
    \/ /\ h.body # <<>> /\ Open(Last(h.body).raw) /\ Last(h.body).mark # "-"
       /\ at[Len(d)] + Len(Old(h)) < Len(lines)
    \/ /\ lines # <<>> /\ Open(Last(lines))
       /\ \E i \in DOMAIN d : Old(d[i]) = <<>> /\ at[i] = Len(lines)

(***************************************************************************)
(* A diff that is shown as verified really describes a change of the head  *)
(* file: its hunks have places there, in order and without overlap, where  *)
(* every context and removed line matches, and the text that was parsed is *)
(* the file with those places replaced by the lines of the diff.  No line  *)
(* of that text is two lines run together, except where the diff breaks    *)
(* off without a newline in front of a line of the file, or adds lines to  *)
(* a file that ends without one: apply_unified_diff mends neither, and     *)
(* only the parser of a structured format may notice.                      *)
(***************************************************************************)
VerifiedIsSound ==
    verdict = "verified" =>
        \E at \in [DOMAIN diff -> 0 .. Len(file)] :
            /\ Fits(file, diff, at)
            /\ updated = Join(SpliceAll(file, diff, at))
            /\ Glued(updated) => BreaksOff(file, diff, at)

(***************************************************************************)
(* A diff that was written for this very file is applied where it says,    *)
(* never at another place with the same lines and never refused for its    *)
(* places; in particular the rule diffs are.  Hunks without any old line   *)
(* are excepted: their header names the line before the insertion.         *)
(***************************************************************************)
AppliedAsWritten ==
    LET at == [i \in DOMAIN diff |-> diff[i].start - 1] IN
    /\ verdict \in {"verified", "rejected"}
    /\ Changes(diff)
    /\ \A i \in DOMAIN diff : diff[i].start > 0 /\ Old(diff[i]) # <<>>
    /\ Fits(file, diff, at)
    => verdict = "verified" /\ result = SpliceAll(file, diff, at)

=============================================================================
