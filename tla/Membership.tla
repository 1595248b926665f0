----------------------------- MODULE Membership -----------------------------
(***************************************************************************)
(* What the instance promises about who belongs to it.  The first account   *)
(* is an administrator's and founds the instance; every other one joins by  *)
(* using up one ticket, with the role the ticket names.  A member is        *)
(* suspended and restored, never deleted, and somebody who may administer   *)
(* the instance always remains.                                             *)
(***************************************************************************)
EXTENDS Naturals, FiniteSets

CONSTANTS MemberIds, TicketIds

VARIABLES
    members,  \* a partial function: whether a member is an admin, and active
    tickets   \* a partial function: the role a ticket gives, and its state

memberVars == <<members, tickets>>

Add(table, id, row) ==
    [i \in DOMAIN table \cup {id} |-> IF i = id THEN row ELSE table[i]]

MembershipInit == members = <<>> /\ tickets = <<>>

Found ==
    /\ DOMAIN members = {}
    /\ \E m \in MemberIds : members' = Add(members, m, [admin |-> TRUE, active |-> TRUE])
    /\ UNCHANGED tickets

Offer ==
    /\ DOMAIN members # {}
    /\ \E t \in TicketIds \ DOMAIN tickets, a \in BOOLEAN :
         tickets' = Add(tickets, t, [admin |-> a, state |-> "open"])
    /\ UNCHANGED members

Withdraw(t) ==
    /\ tickets[t].state = "open"
    /\ tickets' = [tickets EXCEPT ![t].state = "revoked"]
    /\ UNCHANGED members

Join(t) ==
    /\ tickets[t].state = "open"
    /\ tickets' = [tickets EXCEPT ![t].state = "consumed"]
    /\ \E m \in MemberIds \ DOMAIN members :
         members' = Add(members, m, [admin |-> tickets[t].admin, active |-> TRUE])

Suspend(m) ==
    /\ \E n \in DOMAIN members \ {m} : members[n].admin /\ members[n].active
    /\ members' = [members EXCEPT ![m].active = FALSE]
    /\ UNCHANGED tickets

Restore(m) ==
    /\ members' = [members EXCEPT ![m].active = TRUE]
    /\ UNCHANGED tickets

MembershipNext ==
    \/ Found \/ Offer
    \/ \E t \in DOMAIN tickets : Withdraw(t) \/ Join(t)
    \/ \E m \in DOMAIN members : Suspend(m) \/ Restore(m)

MembershipSpec == MembershipInit /\ [][MembershipNext]_memberVars
=============================================================================
