---------------------------- MODULE BillingStore ----------------------------
(***************************************************************************)
(* packages/billing-store: the prepaid accounts in PostgreSQL.  Each       *)
(* operation is a transaction of several statements at read committed,     *)
(* and other connections' statements run between any two of them.  An      *)
(* action is one statement; a transaction in flight (tx) remembers at      *)
(* which statement it stands and what it has read.  What it has written    *)
(* stays its own until COMMIT, and the rows it has written or selected     *)
(* FOR UPDATE are locked until it ends, so the locks follow from tx.       *)
(*                                                                         *)
(* Time is counted in days.  pending_credit_cents, the responder's         *)
(* earnings and the windows' limits are left out: no caller of the store   *)
(* sets them.                                                              *)
(***************************************************************************)
EXTENDS Integers, Sequences, FiniteSets

CONSTANTS
    Tenants, Clients, RechargeIds,
    Holds,        \* amounts a hold takes; 0 is the debit row of a settlement
    Refunds,      \* amounts a refund gives back
    Credits,      \* amounts a recharge gives
    MaxCasRetries,
    MonthDays,    \* days of a month
    MaxDay,       \* bound on the days that pass
    ClientDays,   \* days that requests bring as now_utc, recorded_at, registered_at
    MaxRows,      \* bound on the rows of all ledgers when an operation begins
    NoTenant, NoRecharge

ASSUME BillingStoreAssumption ==
    /\ Holds \subseteq Nat /\ Refunds \subseteq Nat
    /\ Credits \subseteq Nat \ {0}
    /\ MaxCasRetries \in Nat \ {0} /\ MonthDays \in Nat \ {0}
    /\ MaxDay \in Nat /\ MaxRows \in Nat
    /\ ClientDays \subseteq 0..MaxDay
    /\ NoRecharge \notin RechargeIds
    /\ NoTenant \notin [balance : Nat, version : Nat]

VARIABLES
    account,   \* tenant_balance
    window,    \* tenant_quota_window
    ledger,    \* tenant_balance_ledger, in commit order
    recharges, \* tenant_recharge_request
    tx,        \* the transactions in flight
    today

vars == <<account, window, ledger, recharges, tx, today>>
stored == <<account, window, ledger, recharges>>

----------------------------------------------------------------------------
Days == 0..MaxDay

WindowKinds == <<"daily", "monthly", "total">>

Kinds == {"daily", "monthly", "total"}

Window == [start : Days, used : Nat]

LedgerRow == [amount : Int, prev : Nat, new : Nat, spend : BOOLEAN]

RechargeRow == [id : RechargeIds, tenant : Tenants, amount : Credits]

Steps == {"lookup", "row", "update", "window", "read", "insert", "commit"}

Transaction == [op      : {"move", "recharge", "read"},
                at      : Steps,
                tenant  : Tenants,
                delta   : Int,
                spend   : BOOLEAN,             \* direction is "caller_spend"
                id      : RechargeIds \cup {NoRecharge},
                day     : Days,                \* nowUtc, read when it was called
                attempt : 1..MaxCasRetries,
                prev    : Nat,                 \* the balance it has read
                version : Nat,
                locked  : 0..3]                \* windows locked, in order

Idle == [at |-> "idle"]

Active(c) == tx[c] # Idle

Exists(t) == account[t] # NoTenant

Proceed(c, at) == tx' = [tx EXCEPT ![c].at = at]

\* A rollback leaves nothing of the transaction.
Abandon(c) == tx' = [tx EXCEPT ![c] = Idle]

----------------------------------------------------------------------------
(* Locks *)

\* Mutant: SELECT without FOR UPDATE; the row is locked by the UPDATE only.
HoldsRow_Written(c, t) ==
    /\ Active(c) /\ tx[c].tenant = t /\ tx[c].op # "read"
    /\ tx[c].at \in {"window", "insert", "commit"}

HoldsRow(c, t) ==
    /\ Active(c) /\ tx[c].tenant = t /\ tx[c].op # "read"
    /\ tx[c].at \in {"update", "window", "insert", "commit"} \/ tx[c].attempt > 1

\* Mutant: getBalance goes through the windows the other way round.
WindowAt_Reversed(c, i) == WindowKinds[IF tx[c].op = "read" THEN 4 - i ELSE i]

\* The i-th window a transaction locks.
WindowAt(c, i) == WindowKinds[i]

\* Mutant: only a transaction that moves money locks the windows.
HoldsWindow_Movers(c, t, kind) ==
    /\ Active(c) /\ tx[c].tenant = t /\ tx[c].op # "read"
    /\ \E i \in 1..tx[c].locked : WindowAt(c, i) = kind

HoldsWindow(c, t, kind) ==
    /\ Active(c) /\ tx[c].tenant = t
    /\ \E i \in 1..tx[c].locked : WindowAt(c, i) = kind

\* An INSERT of a recharge id holds it against other INSERTs until it commits.
HoldsKey(c, id) == Active(c) /\ tx[c].id = id /\ tx[c].at = "commit"

RowIsFree(c) == \A g \in Clients \ {c} : ~HoldsRow(g, tx[c].tenant)

WindowIsFree(c) ==
    \A g \in Clients \ {c} : ~HoldsWindow(g, tx[c].tenant, WindowAt(c, tx[c].locked + 1))

\* Mutant: an INSERT does not wait for an uncommitted one of the same key.
KeyIsFree_Always(c) == TRUE

KeyIsFree(c) == \A g \in Clients \ {c} : ~HoldsKey(g, tx[c].id)

----------------------------------------------------------------------------
(* Quota windows *)

\* boundaryFor
Boundary(kind, day) == IF kind = "monthly" THEN day - (day % MonthDays) ELSE day

\* Mutant: a window that starts on another day is rolled, earlier or later.
Stale_Either(kind, start, day) == kind # "total" /\ start # Boundary(kind, day)

Stale(kind, start, day) == kind # "total" /\ start < Boundary(kind, day)

Rolled(kind, w, day) ==
    IF Stale(kind, w.start, day) THEN [start |-> Boundary(kind, day), used |-> 0] ELSE w

\* Mutant: every movement counts, whatever its direction.
Usage_Any(x) == IF x.delta < 0 THEN -x.delta ELSE x.delta

\* accumulateWindow: only what a caller spends.
Usage(x) == IF x.spend THEN (IF x.delta < 0 THEN -x.delta ELSE x.delta) ELSE 0

\* ensureWindowFresh and accumulateWindow on every window of the transaction.
Accumulated(x) ==
    [kind \in Kinds |->
        LET w == Rolled(kind, window[x.tenant][kind], x.day)
        IN [w EXCEPT !.used = @ + Usage(x)]]
----------------------------------------------------------------------------
(* Beginning a transaction *)

Begin(c, op, at, t, delta, spend, id, day) ==
    /\ tx[c] = Idle
    /\ tx' = [tx EXCEPT ![c] = [op |-> op, at |-> at, tenant |-> t, delta |-> delta,
                                spend |-> spend, id |-> id, day |-> day, attempt |-> 1,
                                prev |-> 0, version |-> 0, locked |-> 0]]
    /\ UNCHANGED <<stored, today>>

\* The rows of all ledgers.
Posted == UNION {{t} \X DOMAIN ledger[t] : t \in Tenants}

\* applyBalanceDelta for a hold, a debit or a refund; nowUtc is the clock.
BeginMove(c, t) ==
    /\ Cardinality(Posted) < MaxRows
    /\ \/ \E d \in Holds : Begin(c, "move", "row", t, -d, TRUE, NoRecharge, today)
       \/ \E d \in Refunds : Begin(c, "move", "row", t, d, FALSE, NoRecharge, today)

BeginRecharge(c, t) ==
    /\ Cardinality(Posted) < MaxRows
    /\ \E id \in RechargeIds, a \in Credits, day \in ClientDays \cup {today} :
          Begin(c, "recharge", "lookup", t, a, FALSE, id, day)

\* getBalance; nowUtc is the clock or whatever the client says.
BeginRead(c, t) ==
    \E day \in ClientDays \cup {today} : Begin(c, "read", "window", t, 0, FALSE, NoRecharge, day)

\* createTenant: its rows appear together, and a second one finds them there.
CreateTenant(t) ==
    /\ ~Exists(t)
    /\ account' = [account EXCEPT ![t] = [balance |-> 0, version |-> 0]]
    /\ \E day \in ClientDays \cup {today} :
          window' = [window EXCEPT ![t] =
                       [kind \in Kinds |-> [start |-> Boundary(kind, day), used |-> 0]]]
    /\ UNCHANGED <<ledger, recharges, tx, today>>

----------------------------------------------------------------------------
(* The statements of a transaction *)

\* createRecharge looks for an earlier one with this id, and answers from it
\* (200, or the duplicate-key error when it was another payment).
LookUp(c) ==
    /\ tx[c].at = "lookup"
    /\ IF (\E q \in recharges : q.id = tx[c].id) \/ ~Exists(tx[c].tenant)
       THEN Abandon(c) ELSE Proceed(c, "row")
    /\ UNCHANGED <<stored, today>>

\* Mutant: only the balance that the handler saw keeps it from going negative.
LockRow_Overdraws(c) ==
    LET a == account[tx[c].tenant] IN
    /\ tx[c].at = "row" /\ RowIsFree(c)
    /\ IF ~Exists(tx[c].tenant) THEN Abandon(c)
       ELSE tx' = [tx EXCEPT ![c].at = "update", ![c].prev = a.balance, ![c].version = a.version]
    /\ UNCHANGED <<stored, today>>

\* SELECT ... FOR UPDATE; a balance that would go negative ends it here.
LockRow(c) ==
    LET a == account[tx[c].tenant] IN
    /\ tx[c].at = "row" /\ RowIsFree(c)
    /\ IF ~Exists(tx[c].tenant) THEN Abandon(c)
       ELSE IF a.balance + tx[c].delta < 0 THEN Abandon(c)
       ELSE tx' = [tx EXCEPT ![c].at = "update", ![c].prev = a.balance, ![c].version = a.version]
    /\ UNCHANGED <<stored, today>>

\* UPDATE ... WHERE version = the one read; otherwise again, up to the limit.
UpdateRow(c) ==
    /\ tx[c].at = "update" /\ RowIsFree(c)
    /\ IF account[tx[c].tenant].version = tx[c].version THEN Proceed(c, "window")
       ELSE IF tx[c].attempt = MaxCasRetries THEN Abandon(c)
       ELSE tx' = [tx EXCEPT ![c].at = "row", ![c].attempt = @ + 1]
    /\ UNCHANGED <<stored, today>>

\* ensureWindowFresh and accumulateWindow, one kind after the other.  A locked
\* window does not change under its holder, so what they write (Accumulated)
\* is worked out at COMMIT.
LockWindow(c) ==
    /\ tx[c].at = "window"
    /\ IF ~Exists(tx[c].tenant) THEN Abandon(c)
       ELSE /\ WindowIsFree(c)
            /\ tx' = [tx EXCEPT ![c].locked = @ + 1,
                                ![c].at = IF tx[c].locked < 2 THEN @
                                          ELSE CASE tx[c].op = "move"     -> "commit"
                                                 [] tx[c].op = "recharge" -> "insert"
                                                 [] tx[c].op = "read"     -> "read"]
    /\ UNCHANGED <<stored, today>>

\* getBalance reads the balance after the windows.
ReadBalance(c) ==
    /\ tx[c].at = "read"
    /\ tx' = [tx EXCEPT ![c].at = "commit", ![c].prev = account[tx[c].tenant].balance]
    /\ UNCHANGED <<stored, today>>

\* Mutant: the recharge id is not the primary key of its table.
InsertRecharge_NoKey(c) ==
    /\ tx[c].at = "insert" /\ KeyIsFree(c)
    /\ Proceed(c, "commit")
    /\ UNCHANGED <<stored, today>>

\* INSERT of the recharge: it waits for another of the same id, and fails on
\* one that has been committed since LookUp.
InsertRecharge(c) ==
    /\ tx[c].at = "insert" /\ KeyIsFree(c)
    /\ IF \E q \in recharges : q.id = tx[c].id THEN Abandon(c) ELSE Proceed(c, "commit")
    /\ UNCHANGED <<stored, today>>

Post(x) ==
    /\ account' = [account EXCEPT ![x.tenant] =
                     [balance |-> x.prev + x.delta, version |-> @.version + 1]]
    /\ ledger' = [ledger EXCEPT ![x.tenant] =
                    Append(@, [amount |-> x.delta, prev |-> x.prev, new |-> x.prev + x.delta,
                               spend |-> x.spend])]

Commit(c) ==
    LET x == tx[c] IN
    /\ x.at = "commit"
    /\ window' = [window EXCEPT ![x.tenant] = Accumulated(x)]
    /\ IF x.op = "read" THEN UNCHANGED <<account, ledger>> ELSE Post(x)
    /\ recharges' = IF x.op = "recharge"
                    THEN recharges \cup {[id |-> x.id, tenant |-> x.tenant, amount |-> x.delta]}
                    ELSE recharges
    /\ Abandon(c)
    /\ UNCHANGED today

\* A statement or the connection fails: ROLLBACK.
Fail(c) == Active(c) /\ Abandon(c) /\ UNCHANGED <<stored, today>>

Midnight ==
    /\ today < MaxDay
    /\ today' = today + 1
    /\ UNCHANGED <<stored, tx>>

----------------------------------------------------------------------------
Init ==
    /\ account = [t \in Tenants |-> NoTenant]
    /\ window = [t \in Tenants |-> [kind \in Kinds |-> [start |-> 0, used |-> 0]]]
    /\ ledger = [t \in Tenants |-> <<>>]
    /\ recharges = {}
    /\ tx = [c \in Clients |-> Idle]
    /\ today = 0

Start(c) == \E t \in Tenants : BeginMove(c, t) \/ BeginRecharge(c, t) \/ BeginRead(c, t)

Step(c) ==
    LookUp(c) \/ LockRow(c) \/ UpdateRow(c) \/ LockWindow(c) \/ ReadBalance(c)
        \/ InsertRecharge(c) \/ Commit(c)

Next ==
    \/ \E t \in Tenants : CreateTenant(t)
    \/ \E c \in Clients : Start(c) \/ Step(c) \/ Fail(c)
    \/ Midnight

Spec == Init /\ [][Next]_vars

----------------------------------------------------------------------------
(* Properties *)

TypeOK ==
    /\ account \in [Tenants -> [balance : Nat, version : Nat] \cup {NoTenant}]
    /\ window \in [Tenants -> [Kinds -> Window]]
    /\ ledger \in [Tenants -> Seq(LedgerRow)]
    /\ recharges \subseteq RechargeRow
    /\ tx \in [Clients -> Transaction \cup {Idle}]
    /\ today \in Days

Balance(t) == IF Exists(t) THEN account[t].balance ELSE 0

\* applyBalanceDelta and createRecharge, statement by statement, under any
\* interleaving and any rollback, are atomic operations on an account: no update
\* is lost, the ledger is the history of the balance, and a recharge id gives
\* credit once even when two of them pass the look-up together.
Account == INSTANCE BillingAccount WITH
    balance   <- [t \in Tenants |-> Balance(t)],
    recharged <- {q.id : q \in recharges},
    Deltas    <- {-d : d \in Holds} \cup Refunds

Implements == Account!Spec

\* The row lock makes the version check redundant: an UPDATE never misses, so
\* the retry loop never runs a second time.
CasNeverMisses ==
    \A c \in Clients : tx[c].at = "update" => account[tx[c].tenant].version = tx[c].version

\* Which statements a transaction comes to depends on what it does.
Shape(c) ==
    /\ tx[c].attempt = 1
    /\ tx[c].at \in {"lookup", "row", "update"} => tx[c].locked = 0
    /\ tx[c].at = "window" => tx[c].locked < 3
    /\ tx[c].at \in {"read", "insert", "commit"} => tx[c].locked = 3
    /\ tx[c].op = "move" => /\ tx[c].at \in {"row", "update", "window", "commit"}
                            /\ tx[c].delta \in {-d : d \in Holds} \cup Refunds
    /\ tx[c].op = "recharge" => /\ tx[c].at \in Steps \ {"read"}
                                /\ tx[c].delta \in Credits /\ ~tx[c].spend
    /\ tx[c].op = "read" => tx[c].at \in {"window", "read", "commit"}
    /\ tx[c].op = "recharge" <=> tx[c].id \in RechargeIds

\* What a transaction has read of the row it holds is still so, and what it is
\* about to write keeps the balance from going negative.
Fresh(c) ==
    /\ tx[c].locked > 0 => Exists(tx[c].tenant)
    /\ HoldsRow(c, tx[c].tenant) =>
          /\ Exists(tx[c].tenant)
          /\ tx[c].version = account[tx[c].tenant].version
          /\ tx[c].prev = account[tx[c].tenant].balance
          /\ tx[c].prev + tx[c].delta >= 0

\* The inductive strengthening of Implements: a balance row and a recharge id
\* have one holder at a time, and what the holder knows is fresh.
Locking ==
    /\ \A c \in Clients : Active(c) => Shape(c) /\ Fresh(c)
    /\ \A c, g \in Clients : c # g =>
          /\ \A t \in Tenants : ~(HoldsRow(c, t) /\ HoldsRow(g, t))
          /\ \A id \in RechargeIds : ~(HoldsKey(c, id) /\ HoldsKey(g, id))
    /\ \A c \in Clients, q \in recharges : ~HoldsKey(c, q.id)

\* getBalance locks the windows before it reads the balance, and whoever moves
\* money commits with the windows locked: the balance it answers and the usage
\* it answers belong to one moment.
ReadsOneMoment ==
    \A c \in Clients :
        tx[c].at = "commit" /\ tx[c].op = "read" => tx[c].prev = account[tx[c].tenant].balance

Spent[rows \in Seq(LedgerRow)] ==
    IF rows = <<>> THEN 0
    ELSE Spent[Tail(rows)] + (IF Head(rows).spend THEN -Head(rows).amount ELSE 0)

\* The total window counts every hold ever committed, and a shorter window never
\* more than a longer one, although each is rolled by itself and by transactions
\* whose clocks disagree.
UsageIsSpending ==
    \A t \in Tenants :
        /\ window[t]["total"].used = Spent[ledger[t]]
        /\ window[t]["daily"].used <= window[t]["monthly"].used
        /\ window[t]["monthly"].used <= window[t]["total"].used

\* A window never goes back to an earlier day, whatever clock a transaction
\* brought along before it waited for its locks.
WindowsForward ==
    [][\A t \in Tenants, kind \in Kinds :
          Exists(t) => window'[t][kind].start >= window[t][kind].start]_vars

\* Connection c waits for a lock that g holds.
WaitsFor(c, g) ==
    /\ Active(c) /\ c # g
    /\ \/ tx[c].at \in {"row", "update"} /\ HoldsRow(g, tx[c].tenant)
       \/ tx[c].at = "window" /\ HoldsWindow(g, tx[c].tenant, WindowAt(c, tx[c].locked + 1))
       \/ tx[c].at = "insert" /\ HoldsKey(g, tx[c].id)

\* Row locks, window locks and recharge keys are taken in one order: in no set
\* of connections does each wait for another of the set.
NoCircularWait ==
    \A S \in (SUBSET Clients) \ {{}} : \E c \in S : \A g \in S : ~WaitsFor(c, g)
=============================================================================
