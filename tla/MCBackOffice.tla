---------------------------- MODULE MCBackOffice ----------------------------
(***************************************************************************)
(* What is told about the loop: its outcome records, the artifacts and the *)
(* listings of the read side, and the dashboard.  The four share no state, *)
(* so each behaviour moves one of them and leaves the others as they start.*)
(***************************************************************************)
EXTENDS LoopOutcomes, Reporting, Dashboard

VARIABLE part
vars == <<outcomeVars, reportingVars, dashboardVars, part>>

MCDepartmentOf == <<1, 2>>
MCCuts == {[window |-> Window(0, 2), step |-> 1], [window |-> Window(0, 3), step |-> 2]}

\* The second facing has been observed to the end of the period, the first has not.
MCRetained ==
    <<[initialState |-> "in_stock", events |-> <<>>],
      [initialState |-> "in_stock",
       events |-> <<[at |-> 0, to |-> "out_of_stock", signal |-> <<2, 1>>],
                    [at |-> 1, to |-> "in_stock", signal |-> <<2, 2>>]>>]>>
MCAisleOf == <<1, 2>>
MCScopes  == {[facings |-> {1, 2}, period |-> Window(0, 1)]}

MCPanels == <<"availabilityRecords", "taskQueues", "taskQueueItems">>

Init ==
    /\ OutcomesInit /\ ReportingInit /\ DashboardInit
    /\ part \in {"outcomes", "sealing", "paging", "dashboard"}

Outcomes == OutcomesNext /\ UNCHANGED <<reportingVars, dashboardVars>>

\* While artifacts are sealed nobody pages, and the trail, which no artifact holds, is
\* still; a listing does not tell who stood behind a signal.
Sealing ==
    /\ UNCHANGED <<outcomeVars, reader, dashboardVars>>
    /\ \/ (\E f \in Facing : Ingest(f)) /\ UNCHANGED artifactVars
       \/ (AgesOut \/ ForgetProducers) /\ UNCHANGED artifactVars
       \/ SealNext /\ UNCHANGED storeVars

Paging ==
    /\ UNCHANGED <<outcomeVars, artifactVars, dashboardVars>>
    /\ \/ (\E f \in Facing : Ingest(f)) /\ UNCHANGED reader
       \/ (AppendAudit \/ AgesOut) /\ UNCHANGED reader
       \/ (FirstPage \/ NextPage) /\ UNCHANGED storeVars

Next ==
    /\ UNCHANGED part
    /\ \/ part = "outcomes"  /\ Outcomes
       \/ part = "sealing"   /\ Sealing
       \/ part = "paging"    /\ Paging
       \/ part = "dashboard" /\ DashboardNext /\ UNCHANGED <<outcomeVars, reportingVars>>

Spec == Init /\ [][Next]_vars /\ DashboardFairness
=============================================================================
