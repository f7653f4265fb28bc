------------------------------ MODULE Identities ------------------------------
(* The identities every component of the system refers to.                  *)

CONSTANTS
    Runs,        \* GitHub workflow run ids
    Workers      \* worker ids: one fresh uuid per worker process, never reused

=============================================================================
