--------------------------- MODULE DiagnosisComments ---------------------------
(***************************************************************************)
(* The diagnosis published on GitHub (upsert_pull_request_comment and      *)
(* upsert_check in github.py, which follow one protocol): look for the     *)
(* object this app published for the run, then PATCH it, or POST a new one *)
(* if there is none.  The listing and the write are two requests.          *)
(***************************************************************************)
EXTENDS Naturals, Sequences, Identities

VARIABLES
    comments,    \* per run, the attempt whose text each published object shows
    found        \* per worker, the position its listing found; 0 for none

commentVars == <<comments, found>>

CommentsTypeOK ==
    /\ comments \in [Runs -> Seq(Workers)]
    /\ found \in [Workers -> Nat]

CommentsInit ==
    /\ comments = [r \in Runs |-> <<>>]
    /\ found = [w \in Workers |-> 0]

\* Mutant: the marker is never recognised.
ListNothing(r, w) ==
    /\ found' = [found EXCEPT ![w] = 0]
    /\ UNCHANGED comments

\* The GET loop: the oldest object with the run's marker, over all pages.
ListComments(r, w) ==
    /\ found' = [found EXCEPT ![w] = IF comments[r] = <<>> THEN 0 ELSE 1]
    /\ UNCHANGED comments

\* GitHub carries out the PATCH of the object that was found, or the POST.
CarryOut(r, w) ==
    comments' = [comments EXCEPT ![r] =
        IF found[w] = 0 THEN Append(@, w) ELSE [@ EXCEPT ![found[w]] = w]]

\* The write, answered or lost for good.
WriteComment(r, w) ==
    /\ CarryOut(r, w)
    /\ found' = [found EXCEPT ![w] = 0]

(***************************************************************************)
(* The write is carried out and answered 5xx by a gateway in between:      *)
(* request_with_retry, which lets POST through, is about to send it again. *)
(***************************************************************************)
WriteAnsweredLate(r, w) ==
    /\ CarryOut(r, w)
    /\ UNCHANGED found

=============================================================================
