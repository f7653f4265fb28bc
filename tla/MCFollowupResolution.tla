------------------------- MODULE MCFollowupResolution -------------------------
(* FollowupResolution with one pull request per branch.                    *)
EXTENDS FollowupResolution

MCPulls == [b \in Branches |-> {<<"pull", b>>}]

MCNoPull == <<"pull", "none">>
=============================================================================
