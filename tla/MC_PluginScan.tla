---------------------------- MODULE MC_PluginScan ----------------------------
(* Two extension names and two implementation references as model values. *)
EXTENDS PluginScan, TLC

CONSTANTS a, c, v1, v2

MCName == {a, c}
MCValue == {v1, v2}

=============================================================================
