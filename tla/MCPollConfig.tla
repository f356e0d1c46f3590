---------------------------- MODULE MCPollConfig ----------------------------
(* A small configuration for TLC: two devices with a tag each.             *)
EXTENDS PollConfig, TLC

CONSTANTS d1, d2, t1, t2
MCDeviceOf == (t1 :> d1) @@ (t2 :> d2)

\* What ms-editor writes, and what the handler and its tests read.
Editors == [created |-> "created", updated |-> "updated", deleted |-> "deleted"]
Handlers == [created |-> "create", updated |-> "update", deleted |-> "delete"]
MCWritten == {Editors}
MCDialects == {Editors, Handlers}

=============================================================================
