---------------------------- MODULE Reservations ----------------------------
(***************************************************************************)
(* Delegated budgets: resources/src/lib.rs over the resource_reservations  *)
(* table.  A reservation may be carved out of a parent of the same unit;   *)
(* an owner outside the kernel is named by a fencing token.  Each          *)
(* operation is one write transaction, so one step.  Its refusals leave    *)
(* the table as it was and are not steps; a reserve that repeats a         *)
(* reservation_id is one of them, whether it is a replay or a conflict.    *)
(***************************************************************************)
EXTENDS Naturals, FiniteSets, FiniteSetsExt, Optional

CONSTANTS
    Ids,        \* reservation ids
    Units,      \* budget units
    MaxAmount,  \* i64::MAX
    MaxToken    \* bound: fencing tokens

\* ReservationState; nothing ever sets Expired.
States == {"Reserved", "Allocated", "Released", "Unknown"}

\* States that still hold budget.  Unknown does: the allocation may be
\* consuming.
ACTIVE == {"Reserved", "Allocated", "Unknown"}

Row == [unit : Units, amount : 1..MaxAmount, parent : Ids \cup {None},
        token : 0..MaxToken, state : States]

\* The absence of a row is no row, and no reservation's id.
ASSUME BudgetAssumption ==
    /\ IsFiniteSet(Ids) /\ MaxAmount \in Nat /\ MaxToken \in Nat
    /\ None \notin Ids /\ None \notin Row

VARIABLE rsv  \* the table

BudgetTypeOK == rsv \in [Ids -> Row \cup {None}]

BudgetInit == rsv = [i \in Ids |-> None]

-----------------------------------------------------------------------------
Children(p) == {i \in Ids : rsv[i] # None /\ rsv[i].parent = p}

\* What the active children of p hold of its unit.
Delegated(p) ==
    MapThenSumSet(LAMBDA i : rsv[i].amount,
                  {i \in Children(p) : /\ rsv[i].state \in ACTIVE
                                       /\ rsv[i].unit = rsv[p].unit})

\* Mutant: the sum wraps around instead of being checked.
Fits_Wraps(p, a) == (Delegated(p) + a) % (MaxAmount + 1) <= rsv[p].amount

\* A sum past i64::MAX is refused, as is one past the parent's amount.
Fits(p, a) ==
    /\ Delegated(p) + a <= MaxAmount
    /\ Delegated(p) + a <= rsv[p].amount

check_parent_budget(p, u, a) ==
    /\ rsv[p] # None
    /\ rsv[p].state \in ACTIVE
    /\ rsv[p].unit = u
    /\ Fits(p, a)

reserve(i, u, a, p, t) ==
    /\ a > 0
    /\ rsv[i] = None
    /\ p # None => check_parent_budget(p, u, a)
    /\ rsv' = [rsv EXCEPT ![i] = [unit |-> u, amount |-> a, parent |-> p,
                                  token |-> t, state |-> "Reserved"]]

\* A row in state s moves on.
cas_transition(i, s, to) ==
    /\ rsv[i] # None
    /\ rsv[i].state = s
    /\ rsv' = [rsv EXCEPT ![i].state = to]

verify_token(i, t) == rsv[i] # None /\ rsv[i].token = t

allocate(i, t) == verify_token(i, t) /\ cas_transition(i, "Reserved", "Allocated")

release(i, t) == verify_token(i, t) /\ cas_transition(i, "Allocated", "Released")

mark_unknown(i) == \E s \in {"Allocated", "Reserved"} : cas_transition(i, s, "Unknown")

recover_unknown(i, t) ==
    /\ rsv[i] # None
    /\ t > rsv[i].token
    /\ rsv[i].state = "Unknown"
    /\ rsv' = [rsv EXCEPT ![i].state = "Allocated", ![i].token = t]

BudgetNext ==
    \E i \in Ids :
        \/ \E u \in Units, a \in 0..MaxAmount, p \in Ids \cup {None},
             t \in 0..MaxToken : reserve(i, u, a, p, t)
        \/ \E t \in 0..MaxToken : allocate(i, t)
        \/ \E t \in 0..MaxToken : release(i, t)
        \/ mark_unknown(i)
        \/ \E t \in 0..MaxToken : recover_unknown(i, t)

BudgetSpec == BudgetInit /\ [][BudgetNext]_rsv

-----------------------------------------------------------------------------
(* The active children of a reservation never hold more of its unit than   *)
(* its amount, whatever the order of reservations, releases, uncertain     *)
(* allocations and recoveries, and for amounts up to i64::MAX.             *)
BudgetHeld ==
    \A p \in Ids : rsv[p] # None => Delegated(p) <= rsv[p].amount
=============================================================================
