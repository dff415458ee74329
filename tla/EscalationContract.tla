------------------------- MODULE EscalationContract -------------------------
(***************************************************************************)
(* What automatic escalation promises of an incident: its levels are       *)
(* begun one after the other while the escalation is live, and an          *)
(* escalation that has stopped, by a status change or after its last       *)
(* level, begins no level again.  A level that was under way when it       *)
(* stopped may still be told, and a level may be told more than once.      *)
(***************************************************************************)
EXTENDS Naturals

CONSTANTS Incidents, Levels   \* Levels: the indexes of the levels of the policies

VARIABLES phase,      \* "new", "live" or "stopped", of each incident's escalation
          underway,   \* the levels begun and not told
          told        \* the levels whose targets were told

vars == <<phase, underway, told>>

Init == /\ phase = [i \in Incidents |-> "new"]
        /\ underway = [i \in Incidents |-> {}]
        /\ told = [i \in Incidents |-> {}]

Arm(i) == /\ phase[i] = "new"
          /\ phase' = [phase EXCEPT ![i] = "live"]
          /\ UNCHANGED <<underway, told>>

\* Several may begin a level: two replicas find the same timer.
Begin(i, k) == /\ phase[i] = "live"
               /\ \A j \in Levels : j < k => j \in told[i]
               /\ underway' = [underway EXCEPT ![i] = @ \cup {k}]
               /\ UNCHANGED <<phase, told>>

Tell(i, k) == /\ k \in underway[i]
              /\ told' = [told EXCEPT ![i] = @ \cup {k}]
              /\ underway' \in {underway, [underway EXCEPT ![i] = @ \ {k}]}
              /\ UNCHANGED phase

\* A pod that begun a level dies.
Lose(i, k) == /\ underway' = [underway EXCEPT ![i] = @ \ {k}]
              /\ UNCHANGED <<phase, told>>

\* A pod that dies may take the declarations of several incidents with it.
Stop(dead) == /\ \A i \in dead : phase[i] # "stopped"
              /\ phase' = [i \in Incidents |-> IF i \in dead THEN "stopped" ELSE phase[i]]
              /\ UNCHANGED <<underway, told>>

Next == \/ \E i \in Incidents :
              \/ Arm(i)
              \/ \E k \in Levels : Begin(i, k) \/ Tell(i, k) \/ Lose(i, k)
        \/ \E dead \in SUBSET Incidents : Stop(dead)

Spec == Init /\ [][Next]_vars
=============================================================================
