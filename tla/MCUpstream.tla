------------------------------- MODULE MCUpstream -------------------------------
(* Upstream for TLC: one request of each kind meet, or two owners and one of each
   other kind but the dashboard's.  *)
EXTENDS Upstream, TLC

CONSTANTS o1, o2, call, prop, appr, dash, none
MCOwners == {o1, o2}
MCCallers == {call}
MCProposers == {prop}
MCApprovers == {appr}
MCDashboards == {dash}
MCCreators == {call, appr}
MCMeetings == {{o1, call, prop, appr, dash}, {o1, o2, call, prop, appr}}
=============================================================================
