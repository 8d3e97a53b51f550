-------------------------- MODULE OperationStatus --------------------------
(***************************************************************************)
(* What the operations table promises to its readers, whatever the engine  *)
(* does in between: a status only moves along Moves, and an operation      *)
(* begins only while no other one is under way. Two writers that meet may  *)
(* break it: for the rows and the insert they met over, and no other.      *)
(***************************************************************************)
EXTENDS OperationStates

CONSTANTS Ids,    \* the row ids an operation may receive
          Moves   \* the pairs <<from, to>> a status may go through

VARIABLES
    status,    \* the status of every row, "none" before it is inserted
    contended, \* the rows of writers another one has overtaken
    late       \* a writer that another one has overtaken is to insert a row

Init == status = [i \in Ids |-> "none"]

\* A row is inserted: only when get_active_operation finds nothing, or did.
Begin(i) ==
    /\ <<status[i], "starting">> \in Moves
    /\ late \/ \A j \in Ids : status[j] \notin LiveStates
    /\ status' = [status EXCEPT ![i] = "starting"]

\* A row changes status. Where two writers meet, it may go any way on from
\* the start.
Move(i, to) ==
    /\ status[i] # "none"
    /\ to \notin {"none", "starting"}
    /\ <<status[i], to>> \in Moves \/ i \in contended
    /\ status' = [status EXCEPT ![i] = to]

Next == \E i \in Ids : Begin(i) \/ \E to \in States : Move(i, to)

Spec == Init /\ [][Next]_status
=============================================================================
