----------------------------- MODULE MonthBook -----------------------------
(***************************************************************************)
(* What the month lifecycle promises, with everything else abstracted       *)
(* away.  A month is not created, active or locked; it is created once and  *)
(* then closed and reopened.  Whatever a month holds is frozen while it is  *)
(* locked, however many requests run against the other months.              *)
(***************************************************************************)
CONSTANTS Periods, Blank

VARIABLES state, content

bookVars == <<state, content>>

BookInit ==
    /\ state = [p \in Periods |-> "none"]
    /\ content = [p \in Periods |-> Blank]

SameElsewhere(p) == \A q \in Periods \ {p} : content'[q] = content[q]

\* Creating a month fills it, and no other month.
OpenMonth(p) ==
    /\ state[p] = "none"
    /\ state' = [state EXCEPT ![p] = "active"]
    /\ SameElsewhere(p)

CloseMonth(p) ==
    /\ state[p] = "active"
    /\ state' = [state EXCEPT ![p] = "locked"]
    /\ UNCHANGED content

ReopenMonth(p) ==
    /\ state[p] = "locked"
    /\ state' = [state EXCEPT ![p] = "active"]
    /\ UNCHANGED content

\* Any write, to any number of months, none of them locked.
WriteMonths ==
    /\ UNCHANGED state
    /\ \A p \in Periods : state[p] = "locked" => content'[p] = content[p]

BookNext ==
    \/ \E p \in Periods : OpenMonth(p) \/ CloseMonth(p) \/ ReopenMonth(p)
    \/ WriteMonths

BookSpec == BookInit /\ [][BookNext]_bookVars
=============================================================================
