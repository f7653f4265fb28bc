---------------------------- MODULE MCAuthSessions ----------------------------
(* Instances, requests and sessions are interchangeable.                   *)
EXTENDS AuthSessions, FiniteSets

MCSymmetry ==
    Permutations(Instances) \cup Permutations(Requests) \cup Permutations(Sessions)
=============================================================================
