------------------------- MODULE MCEscalationTimers -------------------------
(* Instances of EscalationTimers for TLC. *)
EXTENDS EscalationTimers, TLC

Level(after) == [after |-> after, targets |-> {"oncall"}, channels |-> {"slack"}]

\* Two requests: the first is refused.
MCLevelsOf == (1 :> <<Level(2), Level(2)>>) @@ (2 :> <<Level(1), Level(2)>>)
=============================================================================
