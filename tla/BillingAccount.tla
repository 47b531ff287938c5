--------------------------- MODULE BillingAccount ---------------------------
(***************************************************************************)
(* What the billing store promises: every operation on a tenant's prepaid  *)
(* account happens at one moment or not at all.  The ledger of a tenant is *)
(* the history of its balance, the balance never goes below zero, and one  *)
(* recharge id gives credit at most once.                                  *)
(***************************************************************************)
EXTENDS Integers, Sequences

CONSTANTS
    Tenants,
    Deltas,      \* amounts holds, refunds and debits may move, in cents
    Credits,     \* amounts a recharge may give
    RechargeIds

VARIABLES
    balance,     \* cents of every tenant, 0 before it is created
    ledger,      \* its ledger rows, in the order they were committed
    recharged    \* the recharge ids that have been captured

vars == <<balance, ledger, recharged>>

\* spend tells what the caller has spent from what the system gave it.
Post(t, d, spend) ==
    /\ balance[t] + d >= 0
    /\ balance' = [balance EXCEPT ![t] = @ + d]
    /\ ledger' = [ledger EXCEPT ![t] =
                    Append(@, [amount |-> d, prev |-> balance[t], new |-> balance[t] + d,
                               spend |-> spend])]

Move(t, d, spend) == Post(t, d, spend) /\ UNCHANGED recharged

Recharge(id, t, a) ==
    /\ id \notin recharged
    /\ Post(t, a, FALSE)
    /\ recharged' = recharged \cup {id}

Init ==
    /\ balance = [t \in Tenants |-> 0]
    /\ ledger = [t \in Tenants |-> <<>>]
    /\ recharged = {}

Next ==
    \E t \in Tenants :
        \/ \E d \in Deltas, spend \in BOOLEAN : Move(t, d, spend)
        \/ \E id \in RechargeIds, a \in Credits : Recharge(id, t, a)

Spec == Init /\ [][Next]_vars
=============================================================================
