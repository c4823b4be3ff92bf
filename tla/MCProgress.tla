----------------------------- MODULE MCProgress -----------------------------
(***************************************************************************)
(* Two parts whose progress is checked: the abstract selection and the     *)
(* ingestion of request records.  They share no state; each runs from its  *)
(* own initial states while the other rests.                               *)
(***************************************************************************)
EXTENDS Selection, HistoryIngest

VARIABLE part \* the component that runs

ProgressInit ==
    /\ part \in {"selection", "ingest"}
    /\ Init /\ (part # "selection" => strategy = "FillFirst")
    /\ IngestInit /\ (part # "ingest" => opened)

RunSelection == part = "selection" /\ Next /\ UNCHANGED <<part, ingestVars>>
RunIngest == part = "ingest" /\ IngestNext /\ UNCHANGED <<part, vars>>

ProgressNext == RunSelection \/ RunIngest

\* The fairness of each part, for the behaviours in which it runs.
ProgressFairness ==
    /\ \A m \in Member : WF_vars(part = "selection" /\ OpenRequest(m))
    /\ WF_ingestVars(part = "ingest" /\ IngestThread)

ProgressSpec == ProgressInit /\ [][ProgressNext]_<<part, vars, ingestVars>> /\ ProgressFairness
=============================================================================
