------------------------- MODULE IncidentContract -------------------------
(***************************************************************************)
(* What the incident-engine promises of an incident, with no request, lock *)
(* or connection in sight: every change of the row happens in one step     *)
(* with the timeline entry that records it, and only where the lifecycle   *)
(* allows it.                                                              *)
(***************************************************************************)
EXTENDS IncidentData

VARIABLES rows,         \* the incident's row, or NoRow
          trail,        \* its timeline, in the order of the commits
          postmortem    \* whether a post-mortem row exists

vars == <<rows, trail, postmortem>>

TypeOK == /\ rows \in [Incidents -> Row \cup {NoRow}]
          /\ trail \in [Incidents -> Seq(Entry)]
          /\ postmortem \in [Incidents -> BOOLEAN]

Init == /\ rows = [i \in Incidents |-> NoRow]
        /\ trail = [i \in Incidents |-> << >>]
        /\ postmortem = [i \in Incidents |-> FALSE]

\* The row and the entry that records the change, together.
Record(i, row, entry) == /\ rows' = [rows EXCEPT ![i] = row]
                         /\ trail' = [trail EXCEPT ![i] = Append(@, entry)]
                         /\ UNCHANGED postmortem

Declare(i, s) == /\ rows[i] = NoRow
                 /\ Record(i, NewIncident(s), Detection)

Transition(i, target) ==
    /\ rows[i] # NoRow
    /\ target \in ValidTransitions[rows[i].status]
    /\ target = "resolved" => HasResolution(trail[i])
    /\ Record(i, WithStatus(rows[i], target), StatusEntry(rows[i].status, target))

Escalate(i, s) ==
    /\ rows[i] # NoRow
    /\ rows[i].status \in Active
    /\ SeverityOrder[s] > SeverityOrder[rows[i].severity]
    /\ Record(i, [rows[i] EXCEPT !.severity = s], SeverityEntry(rows[i].severity, s))

Assign(i, who) ==
    /\ rows[i] # NoRow
    /\ rows[i].status \in Active
    /\ Record(i, [rows[i] EXCEPT !.responders = @ \cup who],
              RespondersEntry(Recorded(who, rows[i].responders)))

Post(i, type) == /\ rows[i] # NoRow
                 /\ trail' = [trail EXCEPT ![i] = Append(@, Posted(type))]
                 /\ UNCHANGED <<rows, postmortem>>

WritePostMortem(i) == /\ rows[i] # NoRow
                      /\ rows[i].status \notin Active
                      /\ ~postmortem[i]
                      /\ postmortem' = [postmortem EXCEPT ![i] = TRUE]
                      /\ UNCHANGED <<rows, trail>>

Next == \E i \in Incidents :
            \/ \E s \in Severities : Declare(i, s) \/ Escalate(i, s)
            \/ \E t \in Statuses : Transition(i, t)
            \/ \E who \in SUBSET People : Assign(i, who)
            \/ \E type \in EntryTypes : Post(i, type)
            \/ WritePostMortem(i)

Spec == Init /\ [][Next]_vars
===========================================================================
