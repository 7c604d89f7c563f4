---------------------------- MODULE MCDisplayHold ----------------------------
(* One display, small windows: a policy of each kind. *)
EXTENDS DisplayHold

MCPolicies == {Immediate, For(3), Forever}
=============================================================================
