------------------------------- MODULE MCLoan -------------------------------
(***************************************************************************)
(* A loan of 30 cents at 60 percent paid on the last day of each month of  *)
(* 2024 from January, 12 cents a time, and a second schedule on it.        *)
(***************************************************************************)
EXTENDS LoanPayments

CONSTANTS auto, manual

Jan == 12 * 2024

Monthly == [start |-> Date(Jan, 31), freq |-> "monthly", interval |-> 1,
            day |-> 31, second |-> NoDay]

Twice == [start |-> Date(Jan, 30), freq |-> "semimonthly", interval |-> 1,
          day |-> 15, second |-> -1]

Yearly == [start |-> Date(Jan + 1, 29), freq |-> "yearly", interval |-> 1,
           day |-> NoDay, second |-> NoDay]

MCCadences == [s \in Schedule |-> IF s = auto THEN {Monthly} ELSE {Twice, Yearly}]
MCLead == [s \in Schedule |-> 3]
MCPayment == [s \in Schedule |-> 12]
MCDay == {Date(Jan, 5), Date(Jan + 2, 29)}
MCHorizon == Date(Jan + 1, 29)
MCExtra == {8, -5}
=============================================================================
