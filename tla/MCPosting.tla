----------------------------- MODULE MCPosting -----------------------------
(* Small instances of ScheduledPosting: a schedule that ends on a date and *)
(* one that ends after two occurrences and is posted one occurrence early. *)
EXTENDS ScheduledPosting, TLC

CONSTANTS rent, dues

Ending    == rent :> [next |-> 1, left |-> NoLimit, end |-> 2]
          @@ dues :> [next |-> 1, left |-> 2, end |-> NoEnd]
Leads     == rent :> 0 @@ dues :> 1
Rows      == 1..7
Unlimited == {NoLimit}
=============================================================================
