------------------------------ MODULE Timeline ------------------------------
(***************************************************************************)
(* What an undo history promises: one line of states with a cursor on it.  *)
(* A new operation drops what lay ahead, undo steps back to the state      *)
(* before the latest operation, redo steps forward to the state after it.  *)
(***************************************************************************)
EXTENDS SequencesExt

VARIABLES
    past,      \* the states undo leads to, the nearest one last
    now,
    future     \* the states redo leads to, the nearest one last

Init == past = <<>> /\ future = <<>>

Operate ==
    /\ past' = Append(past, now)
    /\ future' = <<>>

StepBack ==
    /\ past # <<>>
    /\ now' = Last(past)
    /\ past' = Front(past)
    /\ future' = Append(future, now)

StepForward ==
    /\ future # <<>>
    /\ now' = Last(future)
    /\ past' = Append(past, now)
    /\ future' = Front(future)

Forget == past' = <<>> /\ future' = <<>> /\ now' = now

Next == Operate \/ StepBack \/ StepForward \/ Forget

Spec == Init /\ [][Next]_<<past, now, future>>
=============================================================================
