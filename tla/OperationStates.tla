-------------------------- MODULE OperationStates --------------------------
(***************************************************************************)
(* The statuses of an operation and the machine the code declares for them *)
(* (engine/operation.py), with the query that finds the live one (db.py).  *)
(***************************************************************************)

\* OperationState.
States == {"none", "starting", "active", "stopping", "closed", "failed"}

\* The statuses get_active_operation looks for.
LiveStates == {"starting", "active", "stopping"}

\* _VALID_TRANSITIONS.
ValidTransitions ==
    { <<"none", "starting">>,
      <<"starting", "active">>, <<"starting", "failed">>,
      <<"active", "stopping">>, <<"active", "failed">>,
      <<"stopping", "closed">>, <<"stopping", "failed">> }
=============================================================================
